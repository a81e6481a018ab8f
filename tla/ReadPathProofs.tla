--------------------------- MODULE ReadPathProofs ---------------------------
(***************************************************************************)
(* Proofs about what the pages show of the brokers (MCReadPath): the pages *)
(* of a list, the requests of a read, the findings of the Health page and  *)
(* the ages its ref carries from load to load, the scenes of dead letters  *)
(* and of clients, and the brokers discovery finds, in any number.         *)
(***************************************************************************)
EXTENDS MCReadPath, UseResourceProofs, AlgorithmProofs

-----------------------------------------------------------------------------
(* The smaller of two numbers. *)
LEMMA MinOfTwo == ASSUME NEW a \in Int, NEW b \in Int PROVE Min({a, b}) = IF a <= b THEN a ELSE b
<1>1. \E x \in {a, b} : \A y \in {a, b} : x <= y
  OBVIOUS
<1> QED BY <1>1 DEF Min

(* The larger of two numbers. *)
LEMMA MaxOfTwo == ASSUME NEW a \in Int, NEW b \in Int PROVE Max({a, b}) = IF a >= b THEN a ELSE b
<1>1. \E x \in {a, b} : \A y \in {a, b} : x >= y
  OBVIOUS
<1> QED BY <1>1 DEF Max

(* A product grows with its factor. *)
LEMMA TimesIsMonotone == ASSUME NEW a \in Nat, NEW b \in Nat, NEW c \in Nat, a <= b PROVE a * c <= b * c
<1> DEFINE d == b - a
<1>1. d \in Nat /\ b = a + d
  OBVIOUS
<1>2. d * c \in Nat /\ b * c = a * c + d * c
  BY <1>1
<1> QED BY <1>2

(* Where a page starts, how many of the items before it the list has, and whether it reaches the list's end. *)
LEMMA PageBounds ==
    ASSUME NEW l \in Seq(Items), NEW p \in Nat \ {0}
    PROVE  /\ (p - 1) * PageSize \in Nat /\ p * PageSize = (p - 1) * PageSize + PageSize
           /\ PageCount(l) \in Nat
           /\ p <= PageCount(l) => (p - 1) * PageSize <= Len(l)
           /\ p < PageCount(l) => (p - 1) * PageSize + PageSize < Len(l)
           /\ p >= PageCount(l) => Len(l) <= (p - 1) * PageSize + PageSize
<1> DEFINE a == (p - 1) * PageSize
           x == Len(l) + PageSize - 1
           q == x \div PageSize
<1>1. PageSize \in Nat \ {0} /\ Len(l) \in Nat /\ x \in Nat /\ p - 1 \in Nat
  BY ListAssumption
<1>2. q \in Nat /\ q * PageSize <= x /\ x < q * PageSize + PageSize
  <2> HIDE DEF x
  <2> QED BY <1>1
<1>3. PageCount(l) = IF 1 >= q THEN 1 ELSE q
  <2> HIDE DEF q
  <2>1. PageCount(l) = Max({1, q})
    BY DEF PageCount, q
  <2> QED BY <2>1, <1>2, MaxOfTwo
<1>4. a \in Nat /\ p * PageSize = a + PageSize
  BY <1>1
<1>5. p <= q => p * PageSize <= q * PageSize
  BY <1>1, <1>2, TimesIsMonotone
<1>6. p < q => p * PageSize + PageSize <= q * PageSize
  <2> HIDE DEF q
  <2> SUFFICES ASSUME p < q PROVE p * PageSize + PageSize <= q * PageSize
    OBVIOUS
  <2>1. (p + 1) * PageSize <= q * PageSize
    BY <1>1, <1>2, TimesIsMonotone
  <2>2. (p + 1) * PageSize = p * PageSize + PageSize
    BY <1>1
  <2> QED BY <2>1, <2>2
<1>7. q <= p => q * PageSize <= p * PageSize
  BY <1>1, <1>2, TimesIsMonotone
<1>8. q * PageSize \in Nat /\ (p = 1 => a = 0)
  BY <1>1, <1>2
<1> HIDE DEF a, q
<1>9. p <= PageCount(l) => a <= Len(l)
  BY <1>1, <1>2, <1>3, <1>4, <1>5, <1>8
<1>10. p < PageCount(l) => a + PageSize < Len(l)
  BY <1>1, <1>2, <1>3, <1>4, <1>6, <1>8
<1>11. p >= PageCount(l) => Len(l) <= a + PageSize
  BY <1>1, <1>2, <1>3, <1>4, <1>7, <1>8
<1> QED BY <1>2, <1>3, <1>4, <1>9, <1>10, <1>11 DEF a

(* A page that the list has: it follows what is before it. *)
LEMMA PageFollows ==
    ASSUME NEW l \in Seq(Items), NEW p \in Nat \ {0}, p <= PageCount(l)
    PROVE  /\ PageItems(l, p) \in Seq(Items) /\ Len(PageItems(l, p)) <= PageSize
           /\ LET end == IF (p - 1) * PageSize + PageSize <= Len(l) THEN (p - 1) * PageSize + PageSize ELSE Len(l)
              IN SubSeq(l, 1, (p - 1) * PageSize) \o PageItems(l, p) = SubSeq(l, 1, end)
<1> DEFINE a == (p - 1) * PageSize
           end == IF a + PageSize <= Len(l) THEN a + PageSize ELSE Len(l)
<1>1. a \in Nat /\ p * PageSize = a + PageSize /\ a <= Len(l) /\ PageSize \in Nat \ {0} /\ Len(l) \in Nat
  BY PageBounds, ListAssumption
<1>2. PageItems(l, p) = SubSeq(l, a + 1, end)
  <2>1. PageItems(l, p) = SubSeq(l, a + 1, Min({a + PageSize, Len(l)}))
    BY <1>1 DEF PageItems
  <2>2. Min({a + PageSize, Len(l)}) = end
    <3> HIDE DEF a
    <3>1. a + PageSize \in Int /\ Len(l) \in Int
      BY <1>1
    <3> QED BY <3>1, MinOfTwo
  <2> QED BY <2>1, <2>2
<1> HIDE DEF a
<1>3. end \in Nat /\ a <= end /\ end <= Len(l) /\ end <= a + PageSize
  BY <1>1
<1> HIDE DEF end
<1>4. /\ SubSeq(l, a + 1, end) \in Seq(Items) /\ Len(SubSeq(l, a + 1, end)) = end - a
      /\ \A i \in 1..(end - a) : SubSeq(l, a + 1, end)[i] = l[a + i]
  BY <1>1, <1>3
<1>7. SubSeq(l, 1, a) \o SubSeq(l, a + 1, end) = SubSeq(l, 1, end)
  <2>1. 1 \in 1..Len(l) + 1 /\ a \in (1 - 1)..Len(l) /\ end \in a..Len(l)
    BY <1>1, <1>3
  <2> QED BY <2>1, ConcatAdjacentSubSeq
<1>8. end - a <= PageSize
  BY <1>1, <1>3
<1> QED BY <1>2, <1>4, <1>7, <1>8 DEF a, end

-----------------------------------------------------------------------------
ListTypeOK ==
    /\ list \in Lists /\ paged \in BOOLEAN /\ page \in Nat \ {0} /\ seen \in Seq(Lists)
    /\ listed \in [items : Seq(Items), total : Nat, truncated : BOOLEAN, state : {"more", "done", "failed"}]

(* Where the pages read so far end, in a list. *)
PagesEnd == (page - 1) * PageSize

(* While there is more to read: an item that was there throughout, did not move up and is not listed yet is past *)
(* the pages read, in the list that the last one was read from; an item that is listed was before their end in   *)
(* one of the lists; and of a list that did not change the pages so far were read.                               *)
RestIsPast ==
    \A x \in Items : Throughout(x) =>
        \/ x \in ToSet(listed.items) \/ MovesUp(x) \/ seen = <<>>
        \/ \E i \in DOMAIN seen[Len(seen)] : seen[Len(seen)][i] = x /\ i > PagesEnd
ListedIsBefore ==
    \A k \in DOMAIN listed.items :
        \E p \in DOMAIN seen : \E i \in DOMAIN seen[p] : seen[p][i] = listed.items[k] /\ i <= PagesEnd
ReadsOn ==
    listed.state = "more" =>
        /\ Len(listed.items) < MaxItems /\ Len(listed.items) <= PagesEnd /\ (seen = <<>> => page = 1)
        /\ RestIsPast /\ ListedIsBefore /\ RepeatsOnlyWhatMovedDown
        /\ \A l \in Lists : ToSet(seen) \subseteq {l} =>
              /\ PagesEnd <= Len(l)
              /\ listed.items = SubSeq(l, 1, PagesEnd)

ListInv == ListTypeOK /\ ReadsOn /\ ListIsHonest

(* No item is in a list twice, and a list has at least no items. *)
LEMMA ListsAre ==
    ASSUME NEW l \in Lists
    PROVE  /\ l \in Seq(Items) /\ Len(l) \in Nat /\ DOMAIN l = 1..Len(l)
           /\ \A i, j \in DOMAIN l : l[i] = l[j] => i = j
BY ListAssumption DEF IsInjective

(* Nothing is read yet. *)
LEMMA ListStarts == ListInit => ListInv
<1> SUFFICES ASSUME ListInit PROVE ListInv
  OBVIOUS
<1>1. ListTypeOK
  BY DEF ListInit, ListTypeOK
<1>2. ASSUME NEW l \in Lists PROVE SubSeq(l, 1, 0) = <<>> /\ Len(l) \in Nat
  BY ListsAre
<1>3. page = 1 /\ PagesEnd = 0 /\ listed.items = <<>> /\ seen = <<>> /\ listed.state = "more"
  BY ListAssumption DEF ListInit, PagesEnd
<1>4. Len(listed.items) < MaxItems /\ Len(listed.items) <= PagesEnd
  BY <1>3, ListAssumption
<1>5. RestIsPast /\ ListedIsBefore /\ RepeatsOnlyWhatMovedDown
  BY <1>3 DEF RestIsPast, ListedIsBefore, RepeatsOnlyWhatMovedDown
<1> QED BY <1>1, <1>2, <1>3, <1>4, <1>5 DEF ListInv, ReadsOn, ListIsHonest

(* Another page is read from the list as it is now. *)
LEMMA SeenGrows ==
    ASSUME ListTypeOK, seen' = Append(seen, list)
    PROVE  /\ seen' \in Seq(Lists) /\ Len(seen) \in Nat /\ Len(seen') = Len(seen) + 1
           /\ DOMAIN seen = 1..Len(seen) /\ DOMAIN seen' = 1..(Len(seen) + 1)
           /\ seen'[Len(seen) + 1] = list /\ \A p \in DOMAIN seen : p \in DOMAIN seen' /\ seen'[p] = seen[p]
           /\ \A p \in DOMAIN seen : seen[p] \in Lists
           /\ \A x : Throughout(x)' => Throughout(x) /\ x \in ToSet(list)
           /\ \A x : (MovesUp(x) => MovesUp(x)') /\ (MovesDown(x) => MovesDown(x)')
           /\ \A x : \A p \in DOMAIN seen : \A i \in DOMAIN seen[p], j \in DOMAIN list : seen[p][i] = x /\ list[j] = x =>
                 (j < i => MovesUp(x)') /\ (i < j => MovesDown(x)')
           /\ ToSet(seen) \subseteq ToSet(seen') /\ list \in ToSet(seen')
<1> DEFINE n == Len(seen)
<1>1. list \in Lists /\ seen \in Seq(Lists) /\ n \in Nat
  BY DEF ListTypeOK
<1>2. /\ seen' \in Seq(Lists) /\ Len(seen') = n + 1 /\ DOMAIN seen = 1..n /\ DOMAIN seen' = 1..(n + 1)
      /\ seen'[n + 1] = list /\ \A p \in 1..n : seen'[p] = seen[p] /\ seen[p] \in Lists
  BY <1>1
<1> HIDE DEF n
<1>3. \A p \in DOMAIN seen : p \in DOMAIN seen' /\ seen'[p] = seen[p] /\ p < n + 1
  BY <1>1, <1>2
<1>4. n + 1 \in DOMAIN seen'
  BY <1>1, <1>2
<1>5. ASSUME NEW x, Throughout(x)' PROVE Throughout(x) /\ x \in ToSet(list)
  <2>1. \A p \in DOMAIN seen' : x \in ToSet(seen'[p])
    BY <1>5 DEF Throughout
  <2> QED BY <2>1, <1>2, <1>3, <1>4 DEF Throughout
<1>6. ASSUME NEW x, MovesUp(x) PROVE MovesUp(x)'
  <2>1. PICK p \in DOMAIN seen, q \in DOMAIN seen : p < q /\ \E i \in DOMAIN seen[p], j \in DOMAIN seen[q] :
          seen[p][i] = x /\ seen[q][j] = x /\ j < i
    BY <1>6 DEF MovesUp
  <2>2. p \in DOMAIN seen' /\ q \in DOMAIN seen' /\ seen'[p] = seen[p] /\ seen'[q] = seen[q]
    BY <1>3
  <2>3. \E i \in DOMAIN seen'[p], j \in DOMAIN seen'[q] : seen'[p][i] = x /\ seen'[q][j] = x /\ j < i
    BY <2>1, <2>2
  <2> QED BY <2>1, <2>2, <2>3 DEF MovesUp
<1>7. ASSUME NEW x, MovesDown(x) PROVE MovesDown(x)'
  <2>1. PICK p \in DOMAIN seen, q \in DOMAIN seen : p < q /\ \E i \in DOMAIN seen[p], j \in DOMAIN seen[q] :
          seen[p][i] = x /\ seen[q][j] = x /\ i < j
    BY <1>7 DEF MovesDown
  <2>2. p \in DOMAIN seen' /\ q \in DOMAIN seen' /\ seen'[p] = seen[p] /\ seen'[q] = seen[q]
    BY <1>3
  <2>3. \E i \in DOMAIN seen'[p], j \in DOMAIN seen'[q] : seen'[p][i] = x /\ seen'[q][j] = x /\ i < j
    BY <2>1, <2>2
  <2> QED BY <2>1, <2>2, <2>3 DEF MovesDown
<1>8. ASSUME NEW x, NEW p \in DOMAIN seen, NEW i \in DOMAIN seen[p], NEW j \in DOMAIN list, seen[p][i] = x, list[j] = x
      PROVE  (j < i => MovesUp(x)') /\ (i < j => MovesDown(x)')
  <2>1. /\ p \in DOMAIN seen' /\ n + 1 \in DOMAIN seen' /\ p < n + 1
        /\ i \in DOMAIN seen'[p] /\ j \in DOMAIN seen'[n + 1] /\ seen'[p][i] = x /\ seen'[n + 1][j] = x
    BY <1>2, <1>3, <1>4, <1>8
  <2> QED BY <2>1 DEF MovesUp, MovesDown
<1>9. ToSet(seen) \subseteq ToSet(seen') /\ list \in ToSet(seen')
  BY <1>2, <1>3, <1>4 DEF ToSet
<1> QED BY <1>1, <1>2, <1>3, <1>5, <1>6, <1>7, <1>8, <1>9 DEF n

(* A sequence that follows another one. *)
LEMMA JoinIs ==
    ASSUME NEW S, NEW s \in Seq(S), NEW t \in Seq(S)
    PROVE  /\ s \o t \in Seq(S) /\ Len(s \o t) = Len(s) + Len(t)
           /\ Len(s) \in Nat /\ Len(t) \in Nat /\ Len(s \o t) \in Nat /\ DOMAIN (s \o t) = 1..Len(s \o t)
           /\ \A k \in DOMAIN s : k \in DOMAIN (s \o t) /\ (s \o t)[k] = s[k]
           /\ \A k \in DOMAIN t : Len(s) + k \in DOMAIN (s \o t) /\ (s \o t)[Len(s) + k] = t[k]
           /\ \A k \in DOMAIN (s \o t) :
                 \/ k \in DOMAIN s /\ (s \o t)[k] = s[k]
                 \/ k > Len(s) /\ k - Len(s) \in DOMAIN t /\ (s \o t)[k] = t[k - Len(s)]
<1> DEFINE m == Len(s) n == Len(t) u == s \o t
<1>1. /\ u \in Seq(S) /\ Len(u) = m + n /\ m \in Nat /\ n \in Nat
      /\ \A k \in 1..(m + n) : u[k] = IF k <= m THEN s[k] ELSE t[k - m]
  BY ConcatProperties
<1>2. DOMAIN s = 1..m /\ DOMAIN t = 1..n /\ DOMAIN u = 1..(m + n)
  <2> HIDE DEF u
  <2> QED BY <1>1
<1> HIDE DEF m, n, u
<1>3. ASSUME NEW k \in 1..m PROVE k \in 1..(m + n) /\ k <= m
  BY <1>1
<1>4. ASSUME NEW k \in 1..n PROVE m + k \in 1..(m + n) /\ ~(m + k <= m) /\ m + k - m = k
  BY <1>1
<1>5. ASSUME NEW k \in 1..(m + n) PROVE IF k <= m THEN k \in 1..m ELSE k > m /\ k - m \in 1..n
  BY <1>1
<1> QED BY <1>1, <1>2, <1>3, <1>4, <1>5 DEF m, n, u

(* The items of a page are those of the list between the page's ends. *)
LEMMA PageIsOf ==
    ASSUME NEW l \in Seq(Items), NEW p \in Nat \ {0}, p <= PageCount(l)
    PROVE  LET a == (p - 1) * PageSize
               q == PageItems(l, p)
           IN /\ DOMAIN q = 1..Len(q)
              /\ \A k \in DOMAIN q : a + k \in DOMAIN l /\ a + k <= a + PageSize /\ q[k] = l[a + k]
              /\ \A j \in DOMAIN l : a < j /\ j <= a + PageSize => j - a \in DOMAIN q /\ q[j - a] = l[j]
<1> DEFINE a == (p - 1) * PageSize
           end == IF a + PageSize <= Len(l) THEN a + PageSize ELSE Len(l)
           q == PageItems(l, p)
<1>1. a \in Nat /\ p * PageSize = a + PageSize /\ a <= Len(l) /\ PageSize \in Nat \ {0} /\ Len(l) \in Nat
      /\ DOMAIN l = 1..Len(l)
  BY PageBounds, ListAssumption
<1> HIDE DEF a
<1>2. q = SubSeq(l, a + 1, end)
  <2>1. q = SubSeq(l, a + 1, Min({a + PageSize, Len(l)}))
    BY <1>1 DEF PageItems, a
  <2>2. a + PageSize \in Int /\ Len(l) \in Int
    BY <1>1
  <2>3. Min({a + PageSize, Len(l)}) = end
    BY <2>2, MinOfTwo
  <2> QED BY <2>1, <2>3
<1>3. end \in Nat /\ a <= end /\ end <= Len(l) /\ end <= a + PageSize
  BY <1>1
<1>7. \A j \in 1..Len(l) : j <= a + PageSize => j <= end
  BY <1>1
<1> HIDE DEF end, q
<1>4. /\ Len(q) = end - a /\ DOMAIN q = 1..(end - a)
      /\ \A i \in 1..(end - a) : q[i] = l[a + i]
  <2>0. a \in Nat /\ end \in Nat /\ a <= end /\ end <= Len(l) /\ Len(l) \in Nat
    BY <1>1, <1>3
  <2>1. /\ SubSeq(l, a + 1, end) \in Seq(Items) /\ Len(SubSeq(l, a + 1, end)) = end - a
        /\ \A i \in 1..(end - a) : SubSeq(l, a + 1, end)[i] = l[a + i]
    BY <2>0, SubSeqProperties
  <2>2. DOMAIN SubSeq(l, a + 1, end) = 1..(end - a)
    BY <2>1
  <2> QED BY <2>1, <2>2, <1>2
<1>5. ASSUME NEW k \in 1..(end - a) PROVE a + k \in DOMAIN l /\ a + k <= a + PageSize
  BY <1>1, <1>3
<1>6. ASSUME NEW j \in DOMAIN l, a < j, j <= a + PageSize PROVE j - a \in 1..(end - a) /\ a + (j - a) = j
  BY <1>1, <1>3, <1>6, <1>7
<1> QED BY <1>4, <1>5, <1>6 DEF a, q

(* A page of the list as it is now: of a list that did not change it follows the pages before it. *)
LEMMA PageStep == ASSUME ListInv, PageArrives PROVE ListInv'
<1> DEFINE new == PageItems(list, page)
           all == listed.items \o new
           a == PagesEnd
           n == Len(seen)
<1>1. /\ list \in Lists /\ list \in Seq(Items) /\ page \in Nat \ {0} /\ page <= PageCount(list)
      /\ listed.items \in Seq(Items) /\ listed.state = "more" /\ Len(listed.items) < MaxItems
      /\ Len(listed.items) <= a
      /\ PageSize \in Nat \ {0} /\ MaxItems \in Nat \ {0} /\ Len(list) \in Nat /\ DOMAIN list = 1..Len(list)
  BY ListAssumption, ListsAre DEF ListInv, ListTypeOK, ReadsOn, PageArrives, Asks
<1>2. new \in Seq(Items) /\ Len(new) <= PageSize /\ Len(new) \in Nat
  BY <1>1, PageFollows
<1>3. /\ listed' = [items |-> all, total |-> Len(list), truncated |-> Len(all) < Len(list),
                    state |-> IF PageEnds(all) THEN "done" ELSE "more"]
      /\ page' = (IF PageEnds(all) THEN page ELSE page + 1)
      /\ seen' = Append(seen, list) /\ list' = list /\ paged' = paged
  BY DEF PageArrives, Asks, PageTotal
<1>4. a \in Nat /\ a <= Len(list) /\ PageCount(list) \in Nat
      /\ (page >= PageCount(list) => Len(list) <= a + PageSize)
      /\ (page < PageCount(list) => a + PageSize < Len(list))
      /\ (page = 1 => a = 0)
  BY <1>1, PageBounds DEF PagesEnd
<1>22. page * PageSize = a + PageSize
  BY <1>1, PageBounds DEF PagesEnd
<1>5. /\ DOMAIN new = 1..Len(new)
      /\ \A k \in DOMAIN new : a + k \in DOMAIN list /\ a + k <= a + PageSize /\ new[k] = list[a + k]
      /\ \A j \in DOMAIN list : a < j /\ j <= a + PageSize => j - a \in DOMAIN new /\ new[j - a] = list[j]
  BY <1>1, <1>4, PageIsOf DEF PagesEnd
<1>6. all \in Seq(Items) /\ Len(all) = Len(listed.items) + Len(new) /\ Len(all) \in Nat
      /\ Len(all) < MaxItems + PageSize /\ Len(all) <= a + PageSize
  <2> HIDE DEF new, a
  <2>1. all \in Seq(Items) /\ Len(all) = Len(listed.items) + Len(new) /\ Len(listed.items) \in Nat
    BY <1>1, <1>2, JoinIs
  <2> HIDE DEF all
  <2>2. Len(listed.items) < MaxItems /\ Len(listed.items) <= a /\ PageSize \in Nat /\ MaxItems \in Nat /\ a \in Nat
    BY <1>1, <1>4
  <2> QED BY <2>1, <2>2, <1>2
<1>7. PageEnds(all) <=> page >= PageCount(list) \/ Len(all) >= MaxItems
  BY DEF PageEnds
<1>8. /\ DOMAIN all = 1..Len(all) /\ Len(listed.items) \in Nat /\ DOMAIN listed.items = 1..Len(listed.items)
      /\ \A k \in DOMAIN all :
            \/ k \in DOMAIN listed.items /\ all[k] = listed.items[k]
            \/ /\ k > Len(listed.items) /\ k - Len(listed.items) \in DOMAIN new
               /\ all[k] = new[k - Len(listed.items)]
  <2>1. listed.items \in Seq(Items)
    BY <1>1
  <2> QED BY <2>1, <1>2, JoinIs
<1>9. ToSet(listed.items) \subseteq ToSet(all) /\ ToSet(new) \subseteq ToSet(all)
  <2>1. /\ \A k \in DOMAIN listed.items : k \in DOMAIN all /\ all[k] = listed.items[k]
        /\ \A k \in DOMAIN new : Len(listed.items) + k \in DOMAIN all /\ all[Len(listed.items) + k] = new[k]
    <3>1. listed.items \in Seq(Items)
      BY <1>1
    <3> QED BY <3>1, <1>2, JoinIs
  <2> HIDE DEF all, new
  <2> QED BY <2>1 DEF ToSet
<1>10. ASSUME NEW l \in Lists, ToSet(seen') \subseteq {l}
       PROVE  /\ l = list
              /\ all = SubSeq(list, 1, IF a + PageSize <= Len(list) THEN a + PageSize ELSE Len(list))
  <2>1. l = list /\ ToSet(seen) \subseteq {list}
    BY <1>3, <1>10, SeenGrows DEF ListInv
  <2>2. listed.items = SubSeq(list, 1, a)
    BY <2>1, <1>1 DEF ListInv, ReadsOn
  <2> QED BY <2>1, <2>2, <1>1, PageFollows DEF PagesEnd
<1>11. (\A x \in Items : Throughout(x) =>
           \/ x \in ToSet(listed.items) \/ MovesUp(x) \/ seen = <<>>
           \/ \E i \in DOMAIN seen[n] : seen[n][i] = x /\ i > a)
       /\ (seen = <<>> => page = 1)
       /\ (\A k \in DOMAIN listed.items :
             \E p \in DOMAIN seen : \E i \in DOMAIN seen[p] : seen[p][i] = listed.items[k] /\ i <= a)
       /\ \A i, j \in DOMAIN listed.items : i < j /\ listed.items[i] = listed.items[j] => MovesDown(listed.items[i])
  BY <1>1 DEF ListInv, ReadsOn, RestIsPast, ListedIsBefore, RepeatsOnlyWhatMovedDown
<1>12. Len(seen) \in Nat /\ DOMAIN seen = 1..Len(seen) /\ (seen # <<>> => n \in DOMAIN seen)
       /\ \A p \in DOMAIN seen : seen[p] \in Lists
  BY <1>3, SeenGrows DEF ListInv, ListTypeOK
<1> HIDE DEF new, all, a, n
(* Of the items that were there throughout. *)
<1>13. ASSUME NEW x \in Items, Throughout(x)', ~MovesUp(x)'
       PROVE  x \in ToSet(all) \/ \E j \in DOMAIN list : list[j] = x /\ j > a + PageSize
  <2>1. Throughout(x) /\ ~MovesUp(x) /\ x \in ToSet(list)
    BY <1>3, <1>13, SeenGrows DEF ListInv
  <2>2. PICK j \in DOMAIN list : list[j] = x
    BY <2>1 DEF ToSet
  <2>3. CASE x \in ToSet(listed.items)
    BY <2>3, <1>9
  <2>4. CASE j > a
    <3>1. CASE j <= a + PageSize
      <4>1. x \in ToSet(new)
        BY <2>2, <2>4, <3>1, <1>5 DEF ToSet
      <4> QED BY <4>1, <1>9
    <3>2. CASE j > a + PageSize
      BY <3>2, <2>2
    <3> QED BY <3>1, <3>2, <1>1, <1>4
  <2>5. ASSUME seen = <<>> PROVE j > a
    BY <2>5, <1>1, <1>4, <1>11
  <2>6. ASSUME seen # <<>>, NEW i \in DOMAIN seen[n], seen[n][i] = x, i > a PROVE j > a
    <3>1. n \in DOMAIN seen /\ seen[n] \in Lists
      BY <2>6, <1>12
    <3>2. ~(j < i)
      BY <3>1, <2>2, <2>6, <1>3, <1>13, SeenGrows DEF ListInv
    <3>3. i \in Nat /\ j \in Nat
      BY <3>1, <2>6, <1>1, ListsAre
    <3> QED BY <3>2, <3>3, <2>6, <1>4
  <2> QED BY <2>1, <2>3, <2>4, <2>5, <2>6, <1>11
(* Of the items that are listed. *)
<1>14. ASSUME NEW k \in DOMAIN all
       PROVE  \E p \in DOMAIN seen' : \E i \in DOMAIN seen'[p] : seen'[p][i] = all[k] /\ i <= a + PageSize
  <2>1. CASE k \in DOMAIN listed.items /\ all[k] = listed.items[k]
    <3>1. PICK p \in DOMAIN seen : \E i \in DOMAIN seen[p] : seen[p][i] = listed.items[k] /\ i <= a
      BY <2>1, <1>11
    <3>0. PICK i \in DOMAIN seen[p] : seen[p][i] = listed.items[k] /\ i <= a
      BY <3>1
    <3>2. p \in DOMAIN seen' /\ seen'[p] = seen[p]
      BY <1>3, SeenGrows DEF ListInv
    <3>3. i \in Nat
      BY <1>12, ListsAre
    <3>4. i <= a + PageSize
      BY <3>0, <3>3, <1>1, <1>4
    <3> QED BY <3>0, <3>2, <3>4, <2>1
  <2>2. CASE k > Len(listed.items) /\ k - Len(listed.items) \in DOMAIN new /\ all[k] = new[k - Len(listed.items)]
    <3>1. Len(seen) + 1 \in DOMAIN seen' /\ seen'[Len(seen) + 1] = list
      BY <1>3, <1>12, SeenGrows DEF ListInv
    <3>2. a + (k - Len(listed.items)) \in DOMAIN list /\ a + (k - Len(listed.items)) <= a + PageSize
          /\ list[a + (k - Len(listed.items))] = all[k]
      BY <2>2, <1>5
    <3> QED BY <3>1, <3>2
  <2> QED BY <2>1, <2>2, <1>8
<1>15. ASSUME NEW k \in DOMAIN all, NEW m \in DOMAIN all, k < m, all[k] = all[m], NEW x, x = all[k]
       PROVE  MovesDown(x)'
  <2> DEFINE o == Len(listed.items)
  <2>0. o \in Nat /\ k \in Nat /\ m \in Nat /\ DOMAIN listed.items = 1..o
    BY <1>8
  <2> HIDE DEF o
  <2>1. CASE k \in DOMAIN listed.items /\ all[k] = listed.items[k] /\ m \in DOMAIN listed.items /\ all[m] = listed.items[m]
    <3>1. MovesDown(x)
      BY <2>1, <1>11, <1>15
    <3> QED BY <3>1, <1>3, SeenGrows DEF ListInv
  <2>2. CASE k \in DOMAIN listed.items /\ all[k] = listed.items[k] /\ m - o \in DOMAIN new /\ all[m] = new[m - o]
    <3>1. PICK p \in DOMAIN seen : \E i \in DOMAIN seen[p] : seen[p][i] = listed.items[k] /\ i <= a
      BY <2>2, <1>11
    <3>0. PICK i \in DOMAIN seen[p] : seen[p][i] = listed.items[k] /\ i <= a
      BY <3>1
    <3>2. a + (m - o) \in DOMAIN list /\ list[a + (m - o)] = x
      BY <2>2, <1>5, <1>15
    <3>3. i \in Nat /\ m - o \in Nat /\ m - o >= 1
      BY <2>0, <2>2, <1>2, <1>5, <1>12, ListsAre
    <3>4. i < a + (m - o)
      BY <3>0, <3>3, <1>4
    <3>5. seen[p][i] = x
      BY <3>0, <2>2, <1>15
    <3> QED BY <3>2, <3>4, <3>5, <1>3, SeenGrows DEF ListInv
  <2>3. CASE k - o \in DOMAIN new /\ all[k] = new[k - o] /\ m - o \in DOMAIN new /\ all[m] = new[m - o]
    <3>1. a + (k - o) \in DOMAIN list /\ a + (m - o) \in DOMAIN list /\ list[a + (k - o)] = list[a + (m - o)]
      BY <2>3, <1>5, <1>15
    <3>2. a + (k - o) = a + (m - o)
      BY <3>1, <1>1, ListsAre
    <3> QED BY <3>2, <2>0, <1>4, <1>15
  <2>4. ~(k > o /\ m \in DOMAIN listed.items)
    BY <2>0, <1>15
  <2> QED BY <2>1, <2>2, <2>3, <2>4, <1>8 DEF o
<1>16. ListTypeOK'
  <2>1. listed' \in [items : Seq(Items), total : Nat, truncated : BOOLEAN, state : {"more", "done", "failed"}]
    BY <1>1, <1>3, <1>6
  <2>2. seen' \in Seq(Lists)
    BY <1>3, SeenGrows DEF ListInv
  <2>3. page' \in Nat \ {0}
    BY <1>1, <1>3
  <2> QED BY <2>1, <2>2, <2>3, <1>1, <1>3 DEF ListInv, ListTypeOK
<1>17. listed'.items = all /\ listed'.total = Len(list) /\ (listed'.truncated <=> Len(all) < Len(list))
  BY <1>3
<1>18. RepeatsOnlyWhatMovedDown'
  <2>1. \A i, j \in DOMAIN all : i < j /\ all[i] = all[j] => \A x : x = all[i] => MovesDown(x)'
    BY <1>15
  <2> QED BY <2>1, <1>17 DEF RepeatsOnlyWhatMovedDown
<1>19. ASSUME ~PageEnds(all) PROVE ReadsOn'
  <2>1. page' = page + 1 /\ PagesEnd' = a + PageSize /\ Len(all) < MaxItems /\ a + PageSize < Len(list)
    <3>1. page' = page + 1
      BY <1>3, <1>19
    <3>0. PagesEnd' = (page' - 1) * PageSize
      BY DEF PagesEnd
    <3>2. PagesEnd' = a + PageSize
      <4>1. page' - 1 = page
        BY <3>1, <1>1
      <4>2. (page' - 1) * PageSize = page * PageSize
        BY <4>1, Zenon
      <4> QED BY <3>0, <4>2, <1>22, Zenon
    <3> QED BY <3>1, <3>2, <1>1, <1>4, <1>6, <1>7, <1>19
  <2>2. seen' # <<>> /\ Len(seen') = n + 1 /\ seen'[Len(seen')] = list
    <3>1. Len(seen') = Len(seen) + 1 /\ Len(seen) \in Nat /\ seen'[Len(seen) + 1] = list
      BY <1>3, SeenGrows DEF ListInv
    <3>2. seen' # <<>>
      BY <3>1
    <3> QED BY <3>1, <3>2 DEF n
  <2>3. RestIsPast'
    <3> SUFFICES ASSUME NEW x \in Items, Throughout(x)', ~MovesUp(x)', x \notin ToSet(all)
                 PROVE  \E i \in DOMAIN list : list[i] = x /\ i > a + PageSize
      BY <2>1, <2>2, <1>17 DEF RestIsPast
    <3> QED BY <1>13
  <2>4. ListedIsBefore'
    BY <2>1, <1>14, <1>17 DEF ListedIsBefore
  <2>5. ASSUME NEW l \in Lists, ToSet(seen') \subseteq {l}
        PROVE  PagesEnd' <= Len(l) /\ all = SubSeq(l, 1, PagesEnd')
    <3>1. l = list /\ all = SubSeq(list, 1, a + PageSize)
      BY <2>1, <2>5, <1>1, <1>4, <1>10
    <3> QED BY <3>1, <2>1, <1>1, <1>4
  <2> QED BY <2>1, <2>2, <2>3, <2>4, <2>5, <1>6, <1>17, <1>18 DEF ReadsOn
<1>20. ASSUME PageEnds(all) PROVE ListIsHonest'
  <2>1. MissesOnlyWhatMovedUp'
    <3> SUFFICES ASSUME ~(Len(all) < Len(list)), NEW x \in Items, Throughout(x)', ~MovesUp(x)'
                 PROVE  x \in ToSet(all)
      BY <1>17 DEF MissesOnlyWhatMovedUp
    <3>1. Len(list) <= a + PageSize
      <4>1. Len(list) \in Nat /\ Len(all) \in Nat /\ Len(all) <= a + PageSize /\ a \in Nat /\ PageSize \in Nat
        BY <1>1, <1>4, <1>6
      <4> QED BY <4>1
    <3>2. ~ \E j \in DOMAIN list : list[j] = x /\ j > a + PageSize
      BY <3>1, <1>1, <1>4
    <3> QED BY <3>2, <1>13
  <2>2. ASSUME NEW l \in Lists, ToSet(seen') = {l}
        PROVE  IsPrefix(all, l) /\ Len(list) = Len(l) /\ Len(all) >= Min({MaxItems, Len(list)})
    <3> DEFINE end == IF a + PageSize <= Len(list) THEN a + PageSize ELSE Len(list)
    <3>1. l = list /\ all = SubSeq(list, 1, end)
      BY <2>2, <1>10
    <3>0. Len(list) \in Nat /\ a \in Nat /\ PageSize \in Nat /\ MaxItems \in Nat /\ Len(all) \in Nat
      BY <1>1, <1>4, <1>6
    <3>2. end \in Nat /\ end <= Len(list) /\ (Len(list) <= a + PageSize => end = Len(list))
      BY <3>0
    <3> HIDE DEF end
    <3>6. list \in Seq(Items)
      BY <1>1
    <3>3. Len(SubSeq(list, 1, end)) = end
      BY <3>0, <3>2, <3>6
    <3>4. IsPrefix(all, l)
      <4>0. all \in Seq(Items)
        BY <1>6
      <4>1. SubSeq(all, 1, Len(all)) = all
        BY <4>0
      <4>2. Len(all) = end
        BY <3>1, <3>3
      <4> QED BY <4>1, <4>2, <3>1, <3>2 DEF IsPrefix
    <3>5. Min({MaxItems, Len(list)}) = IF MaxItems <= Len(list) THEN MaxItems ELSE Len(list)
      BY <3>0, MinOfTwo
    <3>7. Len(all) = end /\ (end = Len(list) \/ Len(all) >= MaxItems)
      <4>1. Len(list) <= a + PageSize \/ Len(all) >= MaxItems
        BY <1>4, <1>7, <1>20
      <4> QED BY <4>1, <3>1, <3>2, <3>3
    <3> QED BY <3>0, <3>1, <3>2, <3>4, <3>5, <3>7
  <2>3. ReadsAsItIs'
    BY <2>2, <1>17 DEF ReadsAsItIs
  <2> QED BY <2>1, <2>3, <1>6, <1>17, <1>18 DEF ListIsHonest
<1>21. listed'.state = IF PageEnds(all) THEN "done" ELSE "more"
  BY <1>3
<1> QED BY <1>16, <1>19, <1>20, <1>21 DEF ListInv, ReadsOn, ListIsHonest

(* The whole list, cut by the client. *)
LEMMA BareStep == ASSUME ListInv, BareListArrives PROVE ListInv'
<1> DEFINE m == IF MaxItems <= Len(list) THEN MaxItems ELSE Len(list)
<1>1. /\ list \in Lists /\ list \in Seq(Items) /\ Len(list) \in Nat /\ DOMAIN list = 1..Len(list)
      /\ MaxItems \in Nat \ {0} /\ PageSize \in Nat \ {0}
  BY ListAssumption, ListsAre DEF ListInv, ListTypeOK
<1>2. Min({MaxItems, Len(list)}) = m
  BY <1>1, MinOfTwo
<1>3. m \in Nat /\ m <= MaxItems /\ m <= Len(list)
  BY <1>1
<1>0. m = MaxItems \/ m = Len(list)
  OBVIOUS
<1> HIDE DEF m
<1> DEFINE items == SubSeq(list, 1, m)
<1>4. items \in Seq(Items) /\ Len(items) = m /\ DOMAIN items = 1..m /\ \A i \in 1..m : items[i] = list[i]
  BY <1>1, <1>3
<1>5. /\ listed' = [items |-> items, total |-> Len(list), truncated |-> Len(list) > Len(items), state |-> "done"]
      /\ seen' = Append(seen, list) /\ list' = list /\ paged' = paged /\ page' = page
  BY <1>2 DEF BareListArrives, Asks
<1> HIDE DEF items
<1>6. seen' \in Seq(Lists) /\ list \in ToSet(seen') /\ \A x : Throughout(x)' => x \in ToSet(list)
  BY <1>5, SeenGrows DEF ListInv
<1>7. ListTypeOK'
  <2>1. listed' \in [items : Seq(Items), total : Nat, truncated : BOOLEAN, state : {"more", "done", "failed"}]
    BY <1>1, <1>4, <1>5
  <2> QED BY <2>1, <1>1, <1>5, <1>6 DEF ListInv, ListTypeOK
<1>8. listed'.items = items /\ listed'.total = Len(list) /\ (listed'.truncated <=> Len(list) > Len(items))
  BY <1>5
<1>9. MissesOnlyWhatMovedUp'
  <2> SUFFICES ASSUME ~(Len(list) > Len(items)), NEW x \in Items, Throughout(x)' PROVE x \in ToSet(items)
    BY <1>8 DEF MissesOnlyWhatMovedUp
  <2>1. PICK j \in DOMAIN list : list[j] = x
    BY <1>6 DEF ToSet
  <2>2. j \in 1..m
    BY <1>1, <1>3, <1>4
  <2> QED BY <2>1, <2>2, <1>4 DEF ToSet
<1>10. RepeatsOnlyWhatMovedDown'
  <2>1. ASSUME NEW i \in 1..m, NEW j \in 1..m, i < j PROVE items[i] # items[j]
    <3>1. i \in DOMAIN list /\ j \in DOMAIN list /\ i # j
      BY <2>1, <1>1, <1>3
    <3> QED BY <3>1, <1>1, <1>4, ListsAre
  <2> QED BY <2>1, <1>4, <1>8 DEF RepeatsOnlyWhatMovedDown
<1>11. ReadsAsItIs'
  <2>1. ASSUME NEW l \in Lists, ToSet(seen') = {l} PROVE IsPrefix(items, l) /\ Len(list) = Len(l)
    <3>1. l = list
      BY <2>1, <1>6
    <3>2. SubSeq(items, 1, Len(items)) = items /\ items = SubSeq(list, 1, Len(items))
      BY <1>4 DEF items
    <3> QED BY <3>1, <3>2, <1>3, <1>4 DEF IsPrefix
  <2>2. Len(items) >= Min({MaxItems, Len(list)})
    BY <1>2, <1>3, <1>4
  <2> QED BY <2>1, <2>2, <1>8 DEF ReadsAsItIs
<1>12. Len(items) < MaxItems + PageSize
  BY <1>1, <1>3, <1>4
<1>13. listed'.state = "done"
  BY <1>5
<1> QED BY <1>7, <1>8, <1>9, <1>10, <1>11, <1>12, <1>13 DEF ListInv, ReadsOn, ListIsHonest

(* A step of the client or of the broker. *)
LEMMA ListStep == ASSUME ListInv, [ListNext]_listVars PROVE ListInv'
<1> USE DEF ListTypeOK, ReadsOn, PagesEnd, RestIsPast, ListedIsBefore, ListIsHonest, MissesOnlyWhatMovedUp,
            RepeatsOnlyWhatMovedDown, ReadsAsItIs, Throughout, MovesUp, MovesDown
<1>1. ASSUME ListChanges PROVE ListInv'
  BY <1>1 DEF ListChanges, ListInv
<1>2. ASSUME PageIsNoMore PROVE ListInv'
  <2>1. seen' \in Seq(Lists)
    BY <1>2, SeenGrows DEF PageIsNoMore, Asks, ListInv
  <2>2. /\ listed' = [listed EXCEPT !.state = "failed"] /\ UNCHANGED <<list, paged, page>>
    BY <1>2 DEF PageIsNoMore, Asks
  <2>3. listed'.state = "failed"
        /\ listed' \in [items : Seq(Items), total : Nat, truncated : BOOLEAN, state : {"more", "done", "failed"}]
    BY <2>2 DEF ListInv
  <2> QED BY <2>1, <2>2, <2>3 DEF ListInv
<1>3. ASSUME UNCHANGED listVars PROVE ListInv'
  <2>1. list' = list /\ paged' = paged /\ page' = page /\ listed' = listed /\ seen' = seen
    BY <1>3 DEF listVars
  <2>2. (\A x : Throughout(x)' <=> Throughout(x)) /\ (\A x : MovesUp(x)' <=> MovesUp(x)) /\ \A x : MovesDown(x)' <=> MovesDown(x)
    BY <2>1
  <2> HIDE DEF Throughout, MovesUp, MovesDown
  <2>3. ListTypeOK'
    BY <2>1 DEF ListInv
  <2>4. ReadsOn'
    BY <2>1, <2>2 DEF ListInv
  <2>5. ListIsHonest'
    BY <2>1, <2>2 DEF ListInv
  <2> QED BY <2>3, <2>4, <2>5 DEF ListInv
<1> QED BY <1>1, <1>2, <1>3, PageStep, BareStep DEF ListNext

-----------------------------------------------------------------------------
(* The state of the call with the session manager. *)
CallTypeOK ==
    /\ phase \in [{Reader} -> {"idle", "waiting", "served"}]
    /\ again \in [{Reader} -> BOOLEAN]
    /\ run \in Nat

(* A call goes on until it has its result; every request in flight, of this run or of the one before, and *)
(* every answer held, of this run, is one that the read is made of.                                        *)
ReadGoesOn ==
    /\ read = "none" => phase[Reader] = "idle" /\ result = "none"
    /\ result # "none" => phase[Reader] = "idle"
    /\ out \subseteq {<<n, q>> : n \in 0..run, q \in Requests(read)}
    /\ got \subseteq {<<run, q>> : q \in Requests(read)}
    /\ read = "none" => out = {} /\ got = {}

ReadInv == CallTypeOK /\ ReadGoesOn /\ ReadsAreWhole

(* Nothing is asked for yet. *)
LEMMA ReadStarts == ReadInit => ReadInv
BY DEF ReadInit, Sessions!Init, ReadInv, CallTypeOK, ReadGoesOn, ReadsAreWhole

(* What the steps of AbstractSessions do to the only call there is. *)
LEMMA Moved ==
    ASSUME CallTypeOK, NEW W, NEW p \in {"idle", "waiting", "served"}, Sessions!Moves(W, p)
    PROVE  /\ phase' \in [{Reader} -> {"idle", "waiting", "served"}] /\ again' \in [{Reader} -> BOOLEAN]
           /\ phase'[Reader] = IF Reader \in W THEN p ELSE phase[Reader]
BY DEF CallTypeOK, Sessions!Moves

(* An answer to the call takes it out of the session. *)
LEMMA ReadEnded ==
    ASSUME CallTypeOK, NEW how, NEW drops, ReadEnds(how, drops)
    PROVE  /\ phase' \in [{Reader} -> {"idle", "waiting", "served"}] /\ again' \in [{Reader} -> BOOLEAN]
           /\ phase'[Reader] = "idle" /\ result' = how
BY Moved DEF ReadEnds, Sessions!Answer

(* A request that is still awaited is one of the last run, in a call that goes on. *)
LEMMA AwaitedAre ==
    ASSUME ReadInv, NEW q \in Awaited
    PROVE  /\ q \in out /\ q \in {<<run, r>> : r \in Requests(read)}
           /\ phase[Reader] = "served" /\ result = "none" /\ read # "none"
<1>1. q \in out /\ q[1] = run /\ phase[Reader] = "served"
  BY DEF Awaited, Served
<1>2. PICK n \in 0..run, r \in Requests(read) : q = <<n, r>>
  BY <1>1 DEF ReadInv, ReadGoesOn
<1>3. q = <<run, r>>
  BY <1>1, <1>2
<1> QED BY <1>1, <1>2, <1>3 DEF ReadInv, ReadGoesOn

(* A step of the requests, of the call or of the session. *)
LEMMA ReadStep == ASSUME ReadInv, [ReadNext]_readVars PROVE ReadInv'
<1> USE DEF ReadInv
<1>1. ASSUME NEW k \in Targets, NEW r \in Reads, ReadComes(k, r) PROVE ReadInv'
  <2>1. CallTypeOK'
    BY <1>1, Moved DEF ReadComes, Sessions!Ask, CallTypeOK
  <2>2. read = "none" /\ result' = "none" /\ out' = {} /\ got' = {} /\ read' # "none"
    BY <1>1 DEF ReadComes, ReadGoesOn, Reads
  <2> QED BY <2>1, <2>2 DEF ReadGoesOn, ReadsAreWhole
<1>2. ASSUME ReadBegins PROVE ReadInv'
  <2>1. /\ run' = run + 1 /\ got' = {} /\ read' = read /\ result' = result
        /\ out' = out \cup {<<run + 1, q>> : q \in Requests(read)}
        /\ phase' = phase /\ again' = again /\ phase[Reader] = "served"
    BY <1>2 DEF ReadBegins, Served, readSessionVars
  <2>2. run + 1 \in Nat
    BY DEF CallTypeOK
  <2>3. result = "none" /\ read # "none"
    BY <2>1 DEF ReadGoesOn
  <2>4. out' \subseteq {<<n, q>> : n \in 0..run + 1, q \in Requests(read)}
    <3>1. run + 1 \in 0..run + 1 /\ \A n \in 0..run : n \in 0..run + 1
      BY DEF CallTypeOK
    <3>2. out \subseteq {<<n, q>> : n \in 0..run, q \in Requests(read)}
      BY DEF ReadGoesOn
    <3> QED BY <3>1, <3>2, <2>1
  <2> QED BY <2>1, <2>2, <2>3, <2>4 DEF CallTypeOK, ReadGoesOn, ReadsAreWhole
<1>3. ASSUME NEW q \in out, RequestAnswered(q) PROVE ReadInv'
  <2>1. q \in {<<run, r>> : r \in Requests(read)} /\ result = "none" /\ read # "none" /\ phase[Reader] = "served"
    BY <1>3, AwaitedAre DEF RequestAnswered
  <2>2. got' = got \cup {q} /\ out' = out \ {q} /\ read' = read /\ run' = run
    BY <1>3 DEF RequestAnswered
  <2>3. got' \subseteq {<<run, r>> : r \in Requests(read)}
    BY <2>1, <2>2 DEF ReadGoesOn
  <2>4. CASE {a[2] : a \in got'} = Requests(read)
    <3>1. ReadEnds("done", FALSE)
      BY <1>3, <2>4 DEF RequestAnswered
    <3>2. CallTypeOK' /\ phase'[Reader] = "idle"
      BY <3>1, <2>2, ReadEnded DEF CallTypeOK
    <3>3. \A r \in Requests(read) : <<run, r>> \in got'
      BY <2>3, <2>4
    <3> QED BY <3>2, <3>3, <2>1, <2>2, <2>3 DEF ReadGoesOn, ReadsAreWhole
  <2>5. CASE {a[2] : a \in got'} # Requests(read)
    <3>1. UNCHANGED <<readSessionVars, result>>
      BY <1>3, <2>5 DEF RequestAnswered
    <3> QED BY <3>1, <2>1, <2>2, <2>3 DEF readSessionVars, CallTypeOK, ReadGoesOn, ReadsAreWhole
  <2> QED BY <2>4, <2>5
<1>4. ASSUME NEW q \in out, RequestUnreachable(q) PROVE ReadInv'
  <2>1. result = "none" /\ read # "none" /\ phase[Reader] = "served"
    BY <1>4, AwaitedAre DEF RequestUnreachable
  <2>2. out' = out \ {q} /\ read' = read /\ run' = run /\ got' = got
    BY <1>4 DEF RequestUnreachable
  <2>3. CASE again[Reader]
    <3>1. ReadEnds("failed", FALSE)
      BY <1>4, <2>3 DEF RequestUnreachable
    <3>2. CallTypeOK' /\ phase'[Reader] = "idle" /\ result' = "failed"
      BY <3>1, <2>2, ReadEnded DEF CallTypeOK
    <3> QED BY <3>2, <2>1, <2>2 DEF ReadGoesOn, ReadsAreWhole
  <2>4. CASE ~again[Reader]
    <3>1. result' = result /\ phase' = [phase EXCEPT ![Reader] = "waiting"] /\ again' = [again EXCEPT ![Reader] = TRUE]
      BY <1>4, <2>4 DEF RequestUnreachable, Sessions!AskAgain
    <3> QED BY <3>1, <2>1, <2>2 DEF CallTypeOK, ReadGoesOn, ReadsAreWhole
  <2> QED BY <2>3, <2>4
<1>5. ASSUME NEW q \in out, RequestFails(q) PROVE ReadInv'
  <2>1. result = "none" /\ read # "none" /\ phase[Reader] = "served"
    BY <1>5, AwaitedAre DEF RequestFails
  <2>2. out' = out \ {q} /\ read' = read /\ run' = run /\ got' = got
    BY <1>5 DEF RequestFails
  <2>3. PICK unauthorized \in BOOLEAN : ReadEnds("failed", unauthorized)
    BY <1>5 DEF RequestFails
  <2> QED BY <2>1, <2>2, <2>3, ReadEnded DEF CallTypeOK, ReadGoesOn, ReadsAreWhole
<1>6. ASSUME NEW q \in out, RequestStraggles(q) PROVE ReadInv'
  BY <1>6 DEF RequestStraggles, readSessionVars, CallTypeOK, ReadGoesOn, ReadsAreWhole
<1>7. ASSUME NEW k \in Targets, ReaderServed(k) \/ ReaderGivenUp(k) PROVE ReadInv'
  <2>1. phase[Reader] = "waiting" /\ result = "none" /\ read # "none"
    BY <1>7 DEF ReaderServed, ReaderGivenUp, Sessions!Waiting, ReadGoesOn
  <2>2. UNCHANGED <<read, run, out, got>>
    BY <1>7 DEF ReaderServed, ReaderGivenUp
  <2>3. CASE ReaderServed(k)
    <3>1. Sessions!Moves({Reader}, "served") /\ result' = result
      BY <2>3 DEF ReaderServed, Sessions!Establish, Sessions!ServeLate
    <3> QED BY <3>1, <2>1, <2>2, Moved DEF CallTypeOK, ReadGoesOn, ReadsAreWhole
  <2>4. CASE ReaderGivenUp(k)
    <3>1. Sessions!Moves({Reader}, "idle") /\ result' = "failed"
      BY <2>4 DEF ReaderGivenUp, Sessions!GiveUp
    <3> QED BY <3>1, <2>1, <2>2, Moved DEF CallTypeOK, ReadGoesOn, ReadsAreWhole
  <2> QED BY <1>7, <2>3, <2>4
<1>8. ASSUME SessionChanges PROVE ReadInv'
  <2>1. UNCHANGED <<read, run, out, got, result>>
    BY <1>8 DEF SessionChanges
  <2>2. CallTypeOK' /\ phase'[Reader] = phase[Reader]
    <3>1. CASE \E k \in Targets : Sessions!Establish(k, {})
      <4>1. Sessions!Moves({}, "served")
        BY <3>1 DEF Sessions!Establish
      <4> QED BY <4>1, <2>1, Moved DEF CallTypeOK
    <3>2. CASE UNCHANGED <<phase, again>>
      BY <3>2, <2>1 DEF CallTypeOK
    <3> QED BY <1>8, <3>1, <3>2 DEF SessionChanges, Sessions!Drop, Sessions!ChangeCredentials, Sessions!DropAll
  <2> QED BY <2>1, <2>2 DEF ReadGoesOn, ReadsAreWhole
<1>9. CASE UNCHANGED readVars
  BY <1>9 DEF readVars, readSessionVars, CallTypeOK, ReadGoesOn, ReadsAreWhole
<1> QED BY <1>1, <1>2, <1>3, <1>4, <1>5, <1>6, <1>7, <1>8, <1>9 DEF ReadNext

-----------------------------------------------------------------------------
(* No item is twice in a list. *)
Once(s) == \A i, j \in DOMAIN s : s[i] = s[j] => i = j

(* A finite set, put in a sequence, is all of the sequence, each member once. *)
LEMMA SequenceOnce ==
    ASSUME NEW S, IsFiniteSet(S)
    PROVE  SetToSeq(S) \in Seq(S) /\ Once(SetToSeq(S)) /\ \A x \in S : \E i \in DOMAIN SetToSeq(S) : SetToSeq(S)[i] = x
<1> DEFINE n == Cardinality(S)  f == SetToSeq(S)
<1>1. n \in Nat /\ ExistsBijection(1..n, S)
  BY FS_CardinalityType
<1>2. PICK g : g \in Bijection(1..n, S)
  BY <1>1 DEF ExistsBijection
<1>3. g \in [1..n -> S] /\ IsInjective(g)
  BY <1>2 DEF Bijection, Injection
<1>4. f \in [1..n -> S] /\ IsInjective(f)
  BY <1>3 DEF SetToSeq
<1> HIDE DEF f
<1>5. f \in Injection(1..n, S)
  BY <1>4 DEF Injection
<1>6. Cardinality(1..n) = n
  BY <1>1, FS_Interval
<1>7. f \in Surjection(1..n, S)
  BY <1>5, <1>6, FS_Injection
<1> HIDE DEF n
<1>8. f \in Seq(S) /\ DOMAIN f = 1..n
  BY <1>1, <1>4
<1>9. \A x \in S : \E i \in DOMAIN f : f[i] = x
  BY <1>7, <1>8 DEF Surjection
<1>10. Once(f)
  BY <1>4 DEF Once, IsInjective
<1> QED BY <1>8, <1>9, <1>10 DEF f

(* A finite union of finite sets, one for each member of a set. *)
LEMMA FindingsOf ==
    ASSUME NEW S, IsFiniteSet(S), NEW T, NEW f \in [S -> T], \A x \in S : IsFiniteSet(f[x])
    PROVE  IsFiniteSet(UNION {f[x] : x \in S})
<1>1. f \in Surjection(S, {f[x] : x \in S})
  BY DEF Surjection
<1>2. IsFiniteSet({f[x] : x \in S})
  BY <1>1, FS_Surjection
<1> QED BY <1>2, FS_UNION

(* What When gives: a finding of the severity, rule and subject it is given, or nothing. *)
LEMMA WhenIs ==
    ASSUME NEW condition, NEW rule, NEW severity, NEW subject
    PROVE  /\ IsFiniteSet(When(condition, rule, severity, subject))
           /\ \A f \in When(condition, rule, severity, subject) :
                 condition /\ f = [rule |-> rule, severity |-> severity, subject |-> subject]
BY FS_EmptySet, FS_Singleton DEF When

Severities == {"critical", "warning", "info"}

(* The findings of a node, a queue and a channel are finitely many and have a severity. *)
Gradeable(S) == IsFiniteSet(S) /\ \A f \in S : f.severity \in Severities

(* One finding, or none. *)
LEMMA WhenGradeable ==
    ASSUME NEW condition, NEW rule, NEW severity \in Severities, NEW subject
    PROVE  Gradeable(When(condition, rule, severity, subject))
BY WhenIs DEF Gradeable

(* Two sets of them. *)
LEMMA TogetherGradeable == ASSUME NEW S, NEW T, Gradeable(S), Gradeable(T) PROVE Gradeable(S \cup T)
BY FS_Union DEF Gradeable

(* The findings of every member of a finite set. *)
LEMMA EachGradeable ==
    ASSUME NEW S, IsFiniteSet(S), NEW T, NEW f \in [S -> T], \A x \in S : Gradeable(f[x]),
           NEW U, \A y \in U : \E x \in S : y \in f[x]
    PROVE  Gradeable(U)
<1>1. IsFiniteSet(UNION {f[x] : x \in S})
  BY FindingsOf DEF Gradeable
<1>2. U \in SUBSET UNION {f[x] : x \in S}
  OBVIOUS
<1>3. IsFiniteSet(U)
  BY <1>1, <1>2, FS_Subset
<1> QED BY <1>3 DEF Gradeable

(* Of a node, whatever it says of itself. *)
LEMMA NodeGradeable == ASSUME NEW n PROVE Gradeable(NodeFindings(n))
<1> USE WhenGradeable, TogetherGradeable DEF Severities
<1>1. CASE ~n.running
  BY <1>1 DEF NodeFindings
<1>2. CASE n.running
  BY <1>2 DEF NodeFindings
<1> QED BY <1>1, <1>2

(* Of a queue. *)
LEMMA QueueGradeable ==
    ASSUME NEW q, NEW running, NEW down, NEW targets PROVE Gradeable(QueueFindings(q, running, down, targets))
<1> USE WhenGradeable, TogetherGradeable DEF Severities
<1>1. Gradeable(ReplicaFindings(q, running, down))
  BY DEF ReplicaFindings
<1>2. Gradeable(BacklogFindings(q, targets))
  BY DEF BacklogFindings
<1>3. Gradeable({})
  BY FS_EmptySet DEF Gradeable
<1> QED BY <1>1, <1>2, <1>3 DEF QueueFindings

(* Of a channel. *)
LEMMA ChannelGradeable == ASSUME NEW ch, NEW since, NEW now PROVE Gradeable(ChannelFindings(ch, since, now))
BY WhenGradeable, TogetherGradeable DEF ChannelFindings, Severities

(* Of a whole sample. *)
LEMMA FoundGradeable ==
    ASSUME NEW sample, IsFiniteSet(sample.nodes), IsFiniteSet(sample.queues), IsFiniteSet(sample.channels),
           NEW since, NEW now
    PROVE  Gradeable(Found(sample, since, now))
<1>1. Gradeable(NodesFound(sample))
  <2> DEFINE each == [n \in sample.nodes |-> NodeFindings(n)]
  <2>1. \A y \in NodesFound(sample) : \E n \in sample.nodes : y \in NodeFindings(n)
    BY DEF NodesFound
  <2>2. each \in [sample.nodes -> {NodeFindings(n) : n \in sample.nodes}]
    OBVIOUS
  <2>3. \A n \in sample.nodes : each[n] = NodeFindings(n) /\ Gradeable(each[n])
    BY NodeGradeable
  <2>4. \A y \in NodesFound(sample) : \E n \in sample.nodes : y \in each[n]
    BY <2>1, <2>3
  <2>5. \A n \in sample.nodes : Gradeable(each[n])
    BY <2>3
  <2> HIDE DEF each
  <2> QED BY <2>2, <2>4, <2>5, EachGradeable
<1>2. Gradeable(QueuesFound(sample))
  <2> DEFINE down == {n.name : n \in {m \in sample.nodes : ~m.running}}
             running == Cardinality({n \in sample.nodes : n.running})
             targets == DeadLetterTargets(sample.queues)
  <2> DEFINE each == [q \in sample.queues |-> QueueFindings(q, running, down, targets)]
  <2>1. \A y \in QueuesFound(sample) : \E q \in sample.queues : y \in QueueFindings(q, running, down, targets)
    BY DEF QueuesFound
  <2> HIDE DEF down, running, targets
  <2>2. each \in [sample.queues -> {QueueFindings(q, running, down, targets) : q \in sample.queues}]
    OBVIOUS
  <2>3. \A q \in sample.queues : each[q] = QueueFindings(q, running, down, targets) /\ Gradeable(each[q])
    BY QueueGradeable
  <2>4. \A y \in QueuesFound(sample) : \E q \in sample.queues : y \in each[q]
    BY <2>1, <2>3
  <2>5. \A q \in sample.queues : Gradeable(each[q])
    BY <2>3
  <2> HIDE DEF each
  <2> QED BY <2>2, <2>4, <2>5, EachGradeable
<1>3. Gradeable(ChannelsFound(sample, since, now))
  <2> DEFINE each == [ch \in sample.channels |-> ChannelFindings(ch, since, now)]
  <2>1. \A y \in ChannelsFound(sample, since, now) : \E ch \in sample.channels : y \in ChannelFindings(ch, since, now)
    BY DEF ChannelsFound
  <2>2. each \in [sample.channels -> {ChannelFindings(ch, since, now) : ch \in sample.channels}]
    OBVIOUS
  <2>3. \A ch \in sample.channels : each[ch] = ChannelFindings(ch, since, now) /\ Gradeable(each[ch])
    BY ChannelGradeable
  <2>4. \A y \in ChannelsFound(sample, since, now) : \E ch \in sample.channels : y \in each[ch]
    BY <2>1, <2>3
  <2>5. \A ch \in sample.channels : Gradeable(each[ch])
    BY <2>3
  <2> HIDE DEF each
  <2> QED BY <2>2, <2>4, <2>5, EachGradeable
<1>4. Gradeable(When(sample.unroutable > 0, "unroutable", "warning", "cluster"))
  BY WhenGradeable DEF Severities
<1> QED BY <1>1, <1>2, <1>3, <1>4, TogetherGradeable DEF Found

(* The report lists what was found, all of it and nothing else. *)
LEMMA ReportIsWhatWasFound ==
    ASSUME NEW found, Gradeable(found)
    PROVE  BySeverity(found) \in Seq(found) /\ ToSet(BySeverity(found)) = found
<1> DEFINE of(severity) == {f \in found : f.severity = severity}
           s(severity) == SetToSeq(of(severity))
<1>1. ASSUME NEW severity
      PROVE  s(severity) \in Seq(found) /\ \A f \in of(severity) : \E i \in DOMAIN s(severity) : s(severity)[i] = f
  <2>1. IsFiniteSet(of(severity))
    BY FS_Subset DEF Gradeable
  <2>2. s(severity) \in Seq(of(severity)) /\ \A f \in of(severity) : \E i \in DOMAIN s(severity) : s(severity)[i] = f
    BY <2>1, SequenceOnce
  <2> HIDE DEF s
  <2> QED BY <2>2
<1>2. BySeverity(found) = s("critical") \o s("warning") \o s("info")
  BY DEF BySeverity
<1>3. \A f \in found : f \in of("critical") \/ f \in of("warning") \/ f \in of("info")
  BY DEF Gradeable, Severities
<1> DEFINE a == s("critical")  b == s("warning")  c == s("info")
<1>4. /\ a \in Seq(found) /\ b \in Seq(found) /\ c \in Seq(found) /\ BySeverity(found) = a \o b \o c
      /\ \A f \in found : \/ \E i \in DOMAIN a : a[i] = f
                          \/ \E i \in DOMAIN b : b[i] = f
                          \/ \E i \in DOMAIN c : c[i] = f
  <2> HIDE DEF s, of
  <2> QED BY <1>1, <1>2, <1>3
<1> HIDE DEF a, b, c
<1>5. ASSUME NEW u \in Seq(found), NEW v \in Seq(found)
      PROVE  /\ u \o v \in Seq(found)
             /\ \A i \in DOMAIN u : i \in DOMAIN (u \o v) /\ (u \o v)[i] = u[i]
             /\ \A i \in DOMAIN v : Len(u) + i \in DOMAIN (u \o v) /\ (u \o v)[Len(u) + i] = v[i]
  OBVIOUS
<1>6. a \o b \in Seq(found) /\ BySeverity(found) \in Seq(found)
  BY <1>4, <1>5
<1>7. \A f \in found : \E i \in DOMAIN BySeverity(found) : BySeverity(found)[i] = f
  <2> SUFFICES ASSUME NEW f \in found PROVE \E i \in DOMAIN (a \o b \o c) : (a \o b \o c)[i] = f
    BY <1>4
  <2>1. ASSUME \E i \in DOMAIN (a \o b) : (a \o b)[i] = f PROVE \E i \in DOMAIN (a \o b \o c) : (a \o b \o c)[i] = f
    BY <2>1, <1>4, <1>5, <1>6
  <2>2. ASSUME NEW i \in DOMAIN a, a[i] = f PROVE \E j \in DOMAIN (a \o b) : (a \o b)[j] = f
    BY <2>2, <1>4, <1>5
  <2>3. ASSUME NEW i \in DOMAIN b, b[i] = f PROVE \E j \in DOMAIN (a \o b) : (a \o b)[j] = f
    <3>1. Len(a) + i \in DOMAIN (a \o b) /\ (a \o b)[Len(a) + i] = b[i]
      BY <1>4, <1>5
    <3> QED BY <3>1, <2>3
  <2>4. ASSUME NEW i \in DOMAIN c, c[i] = f PROVE \E j \in DOMAIN (a \o b \o c) : (a \o b \o c)[j] = f
    <3>1. Len(a \o b) + i \in DOMAIN (a \o b \o c) /\ (a \o b \o c)[Len(a \o b) + i] = c[i]
      BY <1>4, <1>5, <1>6
    <3> QED BY <3>1, <2>4
  <2> QED BY <2>1, <2>2, <2>3, <2>4, <1>4
<1> QED BY <1>6, <1>7 DEF ToSet

(* A finding that calls a channel stuck is one of a channel that is. *)
LEMMA StuckIsFoundStuck ==
    ASSUME NEW sample, NEW since, NEW now, NEW f \in Found(sample, since, now), f.rule = "consumer-stuck"
    PROVE  \E ch \in sample.channels : f.subject = ch.name /\ IsStuck(ch, since, now)
<1>1. ASSUME NEW n PROVE f \notin NodeFindings(n)
  BY DEF NodeFindings, When
<1>2. f \notin When(sample.unroutable > 0, "unroutable", "warning", "cluster")
  BY WhenIs
<1>3. ASSUME NEW q, NEW r, NEW d, NEW t PROVE f \notin QueueFindings(q, r, d, t)
  <2>1. f \notin ReplicaFindings(q, r, d)
    BY DEF ReplicaFindings, When
  <2>2. f \notin BacklogFindings(q, t)
    BY DEF BacklogFindings, When
  <2> QED BY <2>1, <2>2, WhenIs DEF QueueFindings
<1>4. \E ch \in sample.channels : f \in ChannelFindings(ch, since, now)
  <2>1. f \notin NodesFound(sample)
    BY <1>1 DEF NodesFound
  <2>2. f \notin QueuesFound(sample)
    <3> DEFINE down == {n.name : n \in {m \in sample.nodes : ~m.running}}
               running == Cardinality({n \in sample.nodes : n.running})
               targets == DeadLetterTargets(sample.queues)
    <3>1. \A q \in sample.queues : f \notin QueueFindings(q, running, down, targets)
      BY <1>3
    <3> QED BY <3>1 DEF QueuesFound
  <2>3. f \in ChannelsFound(sample, since, now)
    BY <1>2, <2>1, <2>2 DEF Found
  <2> QED BY <2>3 DEF ChannelsFound
<1>5. PICK ch \in sample.channels : f \in ChannelFindings(ch, since, now)
  BY <1>4
<1>6. f \in When(IsStuck(ch, since, now), "consumer-stuck", "warning", ch.name)
  BY <1>5, WhenIs DEF ChannelFindings
<1> QED BY <1>6, WhenIs

-----------------------------------------------------------------------------
(* Every step of the page is one of the hook's, or leaves the hook alone. *)
LEMMA PageStepIsTheHooks == ASSUME [PageNext]_pageVars PROVE [ResourceNext]_resourceVars
<1>1. CASE HookSteps
  BY <1>1 DEF HookSteps, ResourceNext
<1>2. ASSUME NEW i \in DOMAIN loads, LoadFails(i) \/ \E sample \in Samples : Answered(i, sample) PROVE ResourceNext
  BY <1>2 DEF LoadFails, Answered, ResourceNext
<1>3. CASE Tick
  BY <1>3 DEF Tick
<1>4. CASE UNCHANGED pageVars
  BY <1>4 DEF pageVars
<1> QED BY <1>1, <1>2, <1>3, <1>4 DEF PageNext

(* The Health page is a component that uses the hook, with a loader that does work of its own. *)
THEOREM PageUsesTheHook == PageSpec => ResourceSpec
<1>1. PageInit => ResourceInit
  BY DEF PageInit
<1>2. [PageNext]_pageVars => [ResourceNext]_resourceVars
  BY PageStepIsTheHooks
<1> QED BY <1>1, <1>2, PTL DEF PageSpec, ResourceSpec

-----------------------------------------------------------------------------
Ages == 0..StuckFor

(* Ages are counted up to StuckFor. *)
AgesTypeOK ==
    /\ stuckSince = [of |-> stuckSince.of, ages |-> stuckSince.ages]
    /\ calm = [k \in Keys |-> calm[k]]
    /\ \A k \in Keys : \A c \in DOMAIN calm[k] : calm[k][c] \in Ages
    /\ \A c \in DOMAIN stuckSince.ages : stuckSince.ages[c] \in Ages

(* The age that the ref carries for a channel is no more than the time since an answer of that target last *)
(* said that the channel is not full: what is carried over is never older than what was seen.             *)
AgesAreSeen ==
    stuckSince.of \in Keys =>
        \A c \in DOMAIN stuckSince.ages : c \in DOMAIN calm[stuckSince.of] /\ stuckSince.ages[c] <= calm[stuckSince.of][c]

PageInv == ResourceInv /\ AgesTypeOK /\ AgesAreSeen

(* The ref after an answer. *)
LEMMA SeenIs ==
    ASSUME AgesTypeOK, NEW k, NEW sample
    PROVE  LET full == {ch.name : ch \in {x \in sample.channels : IsChannelFull(x)}}
               carried(c) == stuckSince.of = k /\ c \in DOMAIN stuckSince.ages
           IN /\ DOMAIN Seen(k, sample) = full
              /\ \A c \in full : Seen(k, sample)[c] = IF carried(c) THEN stuckSince.ages[c] ELSE 0
<1> DEFINE full == {ch.name : ch \in {x \in sample.channels : IsChannelFull(x)}}
           previous == IF stuckSince.of = k THEN stuckSince.ages ELSE << >>
           tracked == TrackStuckChannels(Negated(previous), sample.channels, 0)
<1>1. DOMAIN tracked = full /\ \A c \in full : tracked[c] = IF c \in DOMAIN Negated(previous) THEN Negated(previous)[c] ELSE 0
  BY DEF TrackStuckChannels
<1>2. DOMAIN Negated(previous) = DOMAIN previous /\ \A c \in DOMAIN previous : Negated(previous)[c] = -previous[c]
  BY DEF Negated
<1>3. Seen(k, sample) = [c \in DOMAIN tracked |-> -tracked[c]]
  BY DEF Seen, Negated
<1> HIDE DEF tracked
<1>4. \A c \in DOMAIN previous : stuckSince.of = k /\ previous[c] = stuckSince.ages[c] /\ previous[c] \in Int
  <2>1. DOMAIN << >> = {}
    OBVIOUS
  <2> QED BY <2>1 DEF AgesTypeOK, Ages
<1>5. \A c : c \in DOMAIN previous <=> stuckSince.of = k /\ c \in DOMAIN stuckSince.ages
  <2>1. DOMAIN << >> = {}
    OBVIOUS
  <2> QED BY <2>1
<1> HIDE DEF previous, full
<1>6. \A c \in full : Seen(k, sample)[c] = IF c \in DOMAIN previous THEN stuckSince.ages[c] ELSE 0
  <2> SUFFICES ASSUME NEW c \in full PROVE Seen(k, sample)[c] = IF c \in DOMAIN previous THEN stuckSince.ages[c] ELSE 0
    OBVIOUS
  <2>1. Seen(k, sample)[c] = -tracked[c]
    BY <1>1, <1>3
  <2>2. CASE c \in DOMAIN previous
    BY <2>1, <2>2, <1>1, <1>2, <1>4
  <2>3. CASE c \notin DOMAIN previous
    BY <2>1, <2>3, <1>1, <1>2
  <2> QED BY <2>2, <2>3
<1> QED BY <1>1, <1>3, <1>5, <1>6 DEF full

(* The ages after time has passed. *)
LEMMA OlderIs ==
    ASSUME NEW ages, \A c \in DOMAIN ages : ages[c] \in Ages
    PROVE  /\ DOMAIN Older(ages) = DOMAIN ages
           /\ \A c \in DOMAIN ages :
                 /\ Older(ages)[c] = IF ages[c] < StuckFor THEN ages[c] + 1 ELSE StuckFor
                 /\ Older(ages)[c] \in Ages
<1>1. \A c \in DOMAIN ages : Min({StuckFor, ages[c] + 1}) = IF ages[c] < StuckFor THEN ages[c] + 1 ELSE StuckFor
  <2> SUFFICES ASSUME NEW c \in DOMAIN ages
               PROVE  Min({StuckFor, ages[c] + 1}) = IF ages[c] < StuckFor THEN ages[c] + 1 ELSE StuckFor
    OBVIOUS
  <2>1. StuckFor \in Nat \ {0} /\ ages[c] \in 0..StuckFor
    BY HealthAssumption DEF Ages
  <2>2. Min({StuckFor, ages[c] + 1}) = IF StuckFor <= ages[c] + 1 THEN StuckFor ELSE ages[c] + 1
    BY <2>1, MinOfTwo
  <2> QED BY <2>1, <2>2
<1> QED BY <1>1, HealthAssumption DEF Older, Ages

(* Time passes for the ref and for what was seen alike. *)
LEMMA AgesTick == ASSUME PageInv, Tick PROVE AgesTypeOK' /\ AgesAreSeen'
<1> USE DEF PageInv
<1>1. stuckSince' = [of |-> stuckSince.of, ages |-> Older(stuckSince.ages)]
  BY DEF Tick, AgesTypeOK
<1>2. calm' = [k \in Keys |-> Older(calm[k])]
  BY DEF Tick
<1>3. /\ DOMAIN Older(stuckSince.ages) = DOMAIN stuckSince.ages
      /\ \A c \in DOMAIN stuckSince.ages :
            /\ Older(stuckSince.ages)[c] = IF stuckSince.ages[c] < StuckFor THEN stuckSince.ages[c] + 1 ELSE StuckFor
            /\ Older(stuckSince.ages)[c] \in Ages
  BY OlderIs DEF AgesTypeOK
<1>4. ASSUME NEW k \in Keys
      PROVE  /\ DOMAIN Older(calm[k]) = DOMAIN calm[k]
             /\ \A c \in DOMAIN calm[k] :
                   /\ Older(calm[k])[c] = IF calm[k][c] < StuckFor THEN calm[k][c] + 1 ELSE StuckFor
                   /\ Older(calm[k])[c] \in Ages
  BY OlderIs DEF AgesTypeOK
<1>5. AgesTypeOK'
  BY <1>1, <1>2, <1>3, <1>4 DEF AgesTypeOK
<1>6. AgesAreSeen'
  <2> SUFFICES ASSUME stuckSince.of \in Keys, NEW c \in DOMAIN stuckSince.ages
               PROVE  /\ c \in DOMAIN Older(calm[stuckSince.of])
                      /\ Older(stuckSince.ages)[c] <= Older(calm[stuckSince.of])[c]
    BY <1>1, <1>2, <1>3 DEF AgesAreSeen
  <2> DEFINE a == stuckSince.ages[c]  b == calm[stuckSince.of][c]
  <2>1. c \in DOMAIN calm[stuckSince.of] /\ a <= b /\ a \in 0..StuckFor /\ b \in 0..StuckFor
    BY DEF AgesAreSeen, AgesTypeOK, Ages
  <2>2. Older(stuckSince.ages)[c] = IF a < StuckFor THEN a + 1 ELSE StuckFor
    BY <1>3
  <2>3. Older(calm[stuckSince.of])[c] = IF b < StuckFor THEN b + 1 ELSE StuckFor
    BY <1>4, <2>1
  <2>4. c \in DOMAIN Older(calm[stuckSince.of])
    BY <1>4, <2>1
  <2> HIDE DEF a, b
  <2> QED BY <2>1, <2>2, <2>3, <2>4, HealthAssumption
<1> QED BY <1>5, <1>6

(* An answer, cancelled or not, writes the ref and is seen. *)
LEMMA AgesAnswered ==
    ASSUME PageInv, NEW i \in DOMAIN loads, NEW sample \in Samples, Answered(i, sample)
    PROVE  AgesTypeOK' /\ AgesAreSeen'
<1> DEFINE k == loads[i].key
           full == {ch.name : ch \in {x \in sample.channels : IsChannelFull(x)}}
           named == {ch.name : ch \in sample.channels}
<1>1. k \in Keys
  <2>1. loads \in Seq(Loads)
    BY DEF PageInv, ResourceInv, ResourceTypeOK, Loads
  <2>2. loads[i] \in Loads
    BY <2>1
  <2> QED BY <2>2 DEF Loads
<1>2. stuckSince' = [of |-> k, ages |-> Seen(k, sample)]
  BY DEF Answered
<1>3. calm' = [calm EXCEPT ![k] = [c \in DOMAIN @ \cup named |-> IF c \in DOMAIN calm[k] /\ c \in full THEN calm[k][c] ELSE 0]]
  BY DEF Answered
<1>4. /\ DOMAIN Seen(k, sample) = full
      /\ \A c \in full : Seen(k, sample)[c] =
            IF stuckSince.of = k /\ c \in DOMAIN stuckSince.ages THEN stuckSince.ages[c] ELSE 0
  BY SeenIs DEF PageInv
<1>5. full \subseteq named
  OBVIOUS
<1> HIDE DEF k, full, named
<1>6. /\ calm' = [j \in Keys |-> calm'[j]] /\ \A j \in Keys \ {k} : calm'[j] = calm[j]
      /\ DOMAIN calm'[k] = DOMAIN calm[k] \cup named
      /\ \A c \in DOMAIN calm[k] \cup named : calm'[k][c] = IF c \in DOMAIN calm[k] /\ c \in full THEN calm[k][c] ELSE 0
  <2>1. calm = [j \in Keys |-> calm[j]]
    BY DEF PageInv, AgesTypeOK
  <2> QED BY <1>1, <1>3, <2>1
<1>7. 0 \in Ages
  BY HealthAssumption DEF Ages
<1>8. AgesTypeOK'
  <2>1. \A c \in DOMAIN Seen(k, sample) : Seen(k, sample)[c] \in Ages
    BY <1>4, <1>7 DEF PageInv, AgesTypeOK
  <2>2. \A j \in Keys : \A c \in DOMAIN calm'[j] : calm'[j][c] \in Ages
    <3>1. ASSUME NEW c \in DOMAIN calm'[k] PROVE calm'[k][c] \in Ages
      BY <1>1, <1>6, <1>7 DEF PageInv, AgesTypeOK
    <3>2. ASSUME NEW j \in Keys \ {k}, NEW c \in DOMAIN calm'[j] PROVE calm'[j][c] \in Ages
      BY <1>6 DEF PageInv, AgesTypeOK
    <3> QED BY <3>1, <3>2
  <2> QED BY <2>1, <2>2, <1>2, <1>6 DEF AgesTypeOK
<1>9. AgesAreSeen'
  <2> SUFFICES ASSUME NEW c \in full PROVE c \in DOMAIN calm'[k] /\ Seen(k, sample)[c] <= calm'[k][c]
    BY <1>1, <1>2, <1>4 DEF AgesAreSeen
  <2>1. c \in DOMAIN calm'[k] /\ calm'[k][c] = IF c \in DOMAIN calm[k] THEN calm[k][c] ELSE 0
    BY <1>5, <1>6
  <2>2. CASE stuckSince.of = k /\ c \in DOMAIN stuckSince.ages
    <3>1. Seen(k, sample)[c] = stuckSince.ages[c] /\ c \in DOMAIN calm[k] /\ stuckSince.ages[c] <= calm[k][c]
      BY <1>1, <1>4, <2>2 DEF PageInv, AgesAreSeen
    <3> QED BY <2>1, <3>1
  <2>3. CASE ~(stuckSince.of = k /\ c \in DOMAIN stuckSince.ages)
    <3>1. Seen(k, sample)[c] = 0
      BY <1>4, <2>3
    <3>2. calm'[k][c] >= 0
      BY <2>1, <1>1 DEF PageInv, AgesTypeOK, Ages
    <3> QED BY <2>1, <3>1, <3>2
  <2> QED BY <2>2, <2>3
<1> QED BY <1>8, <1>9

(* A step of the page. *)
LEMMA PageInvStep == ASSUME PageInv, [PageNext]_pageVars PROVE PageInv'
<1>1. ResourceInv'
  BY PageStepIsTheHooks, InvStep DEF PageInv
<1>2. CASE UNCHANGED <<stuckSince, calm>>
  BY <1>1, <1>2 DEF PageInv, AgesTypeOK, AgesAreSeen
<1>3. CASE HookSteps
  BY <1>2, <1>3 DEF HookSteps
<1>4. ASSUME NEW i \in DOMAIN loads, LoadFails(i) PROVE PageInv'
  BY <1>2, <1>4 DEF LoadFails
<1>5. ASSUME NEW i \in DOMAIN loads, NEW sample \in Samples, Answered(i, sample) PROVE PageInv'
  BY <1>1, <1>5, AgesAnswered DEF PageInv
<1>6. CASE Tick
  BY <1>1, <1>6, AgesTick DEF PageInv
<1>7. CASE UNCHANGED pageVars
  BY <1>2, <1>7 DEF pageVars
<1> QED BY <1>3, <1>4, <1>5, <1>6, <1>7 DEF PageNext

(* What the step may call stuck: see StuckIsSeenFull. *)
LEMMA StuckStep ==
    ASSUME PageInv, PageInv', [PageNext]_pageVars, NEW n \in DOMAIN findings', findings' # findings,
           findings'[n].rule = "consumer-stuck"
    PROVE  calm'[data'.key][findings'[n].subject] = StuckFor
<1>1. PICK i \in DOMAIN loads, sample \in Samples : Answered(i, sample)
  BY DEF PageNext, HookSteps, LoadFails, Tick, pageVars
<1> DEFINE k == loads[i].key
           since == Negated(Seen(k, sample))
<1>2. findings' = AnalyzeHealth(sample, since, 0) /\ data'.key = k /\ k \in Keys
      /\ stuckSince' = [of |-> k, ages |-> Seen(k, sample)]
  <2>1. loads[i].live /\ findings' = AnalyzeHealth(sample, since, 0)
    BY <1>1 DEF Answered
  <2>2. data'.key = k
    BY <1>1, <2>1 DEF Answered, Lands
  <2>3. k \in Keys
    <3>1. loads \in Seq(Loads)
      BY DEF PageInv, ResourceInv, ResourceTypeOK, Loads
    <3>2. loads[i] \in Loads
      BY <3>1
    <3> QED BY <3>2 DEF Loads
  <2> QED BY <2>1, <2>2, <2>3, <1>1 DEF Answered
<1> HIDE DEF k, since
<1>3. findings' \in Seq(Found(sample, since, 0))
  BY <1>2, FoundGradeable, ReportIsWhatWasFound, SamplesAssumption DEF AnalyzeHealth
<1>4. findings'[n] \in Found(sample, since, 0)
  BY <1>3
<1>5. PICK ch \in sample.channels : findings'[n].subject = ch.name /\ IsStuck(ch, since, 0)
  BY <1>4, StuckIsFoundStuck
<1> DEFINE c == ch.name
<1>6. c \in DOMAIN Seen(k, sample) /\ since[c] = -Seen(k, sample)[c] /\ 0 - since[c] >= StuckFor
  BY <1>5 DEF IsStuck, since, Negated
<1>7. Seen(k, sample)[c] \in Ages /\ calm'[k][c] \in Ages /\ Seen(k, sample)[c] <= calm'[k][c]
  BY <1>2, <1>6 DEF PageInv, AgesTypeOK, AgesAreSeen
<1> QED BY <1>2, <1>5, <1>6, <1>7, HealthAssumption DEF Ages

-----------------------------------------------------------------------------
(* A queue that lost a replica of the node that stopped, and otherwise is what it was. *)
Lost(q, p, node) ==
    /\ \A field \in {"name", "vhost", "type", "state", "ready", "consumers", "lowCapacity", "publish", "deliver",
                     "redeliver", "members", "namedDeadLetter", "deadLetter"} : p[field] = q[field]
    /\ Offline(q) \subseteq Offline(p) /\ Offline(p) \subseteq Offline(q) \cup {node}

(* That is what stopping the node does to a queue. *)
LEMMA QueueAfter ==
    ASSUME NEW raw, NEW node, Known(raw.online) => \A nodes \in SUBSET raw.online : Known(nodes)
    PROVE  LET q == ToQueueSummary(raw)
           IN Lost(q, IF Known(q.online) THEN [q EXCEPT !.online = @ \ {node}] ELSE q, node)
<1> DEFINE q == ToQueueSummary(raw)
           p == IF Known(q.online) THEN [q EXCEPT !.online = @ \ {node}] ELSE q
<1> SUFFICES Lost(q, p, node)
  OBVIOUS
<1>1. CASE ~Known(q.online)
  BY <1>1 DEF Lost
<1>2. CASE Known(q.online)
  <2>1. p = [q EXCEPT !.online = q.online \ {node}]
    BY <1>2
  <2>2. /\ DOMAIN q = {"name", "vhost", "type", "state", "ready", "consumers", "lowCapacity", "publish", "deliver",
                       "redeliver", "members", "online", "namedDeadLetter", "deadLetter"}
    BY DEF ToQueueSummary
  <2> HIDE DEF q, p
  <2>3. /\ p.online = q.online \ {node}
        /\ \A field \in DOMAIN q \ {"online"} : p[field] = q[field]
    BY <2>1, <2>2
  <2>4. p.members = q.members /\ Known(p.online)
    <3>1. q.online = raw.online
      BY DEF q, ToQueueSummary
    <3>2. p.online \in SUBSET raw.online
      BY <2>3, <3>1
    <3> QED BY <2>2, <2>3, <3>1, <3>2, <1>2
  <2>5. Offline(q) \subseteq Offline(p) /\ Offline(p) \subseteq Offline(q) \cup {node}
    <3>1. CASE ~Known(q.members)
      BY <3>1, <2>4 DEF Offline
    <3>2. CASE Known(q.members)
      <4>1. Offline(q) = q.members \ q.online
        BY <1>2, <3>2 DEF Offline, q
      <4>2. Offline(p) = q.members \ p.online
        BY <3>2, <2>4 DEF Offline
      <4> QED BY <4>1, <4>2, <2>3
    <3> QED BY <3>1, <3>2
  <2> QED BY <2>2, <2>3, <2>5 DEF Lost
<1> QED BY <1>1, <1>2

(* What is found of the queue is no more than before, when the node that stopped is among those that are down. *)
LEMMA QueueFindsNoMore ==
    ASSUME NEW q, NEW p, NEW node, Lost(q, p, node), Known(q.members) => IsFiniteSet(q.members),
           NEW running \in Nat, NEW fewer \in Nat, fewer <= running,
           NEW down, NEW gone, down \cup {node} \subseteq gone, NEW targets
    PROVE  QueueFindings(p, fewer, gone, targets) \subseteq QueueFindings(q, running, down, targets)
<1>1. /\ p.name = q.name /\ p.vhost = q.vhost /\ p.type = q.type /\ p.state = q.state /\ p.ready = q.ready
      /\ p.consumers = q.consumers /\ p.lowCapacity = q.lowCapacity /\ p.publish = q.publish /\ p.deliver = q.deliver
      /\ p.redeliver = q.redeliver /\ p.members = q.members /\ p.namedDeadLetter = q.namedDeadLetter
  BY DEF Lost
<1>2. Subject(p) = Subject(q)
  BY <1>1 DEF Subject
<1>3. BacklogFindings(p, targets) = BacklogFindings(q, targets)
  BY <1>1, <1>2 DEF BacklogFindings, Growing, IsDeadLetterQueue
<1>4. ReplicaFindings(p, fewer, gone) \subseteq ReplicaFindings(q, running, down)
  <2>1. Offline(p) \ gone # {} => Offline(q) \ down # {}
    BY DEF Lost
  <2>2. When(Offline(p) \ gone # {}, "replicas-offline", "warning", Subject(p))
          \subseteq When(Offline(q) \ down # {}, "replicas-offline", "warning", Subject(q))
    BY <2>1, <1>2 DEF When
  <2> QED BY <2>2, <1>1, <1>2 DEF ReplicaFindings
<1>5. UnderReplicated(p, fewer) => UnderReplicated(q, running)
  <2> SUFFICES ASSUME UnderReplicated(p, fewer) PROVE UnderReplicated(q, running)
    OBVIOUS
  <2>1. Cardinality(q.members) \in Nat
    BY <1>1, FS_CardinalityType DEF UnderReplicated
  <2>2. Cardinality(q.members) < running /\ running > 1
    BY <1>1, <2>1 DEF UnderReplicated
  <2>3. Offline(q) = {}
    BY DEF UnderReplicated, Lost
  <2> QED BY <1>1, <2>2, <2>3 DEF UnderReplicated
<1>6. When(UnderReplicated(p, fewer), "under-replicated", "info", Subject(p))
        \subseteq When(UnderReplicated(q, running), "under-replicated", "info", Subject(q))
  BY <1>2, <1>5 DEF When
<1> QED BY <1>1, <1>3, <1>4, <1>6 DEF QueueFindings

(* The nodes after one has stopped: it is down, with those that were. *)
Downed(N, node) == {IF n.name = node THEN [n EXCEPT !.running = FALSE] ELSE n : n \in N}

OneWentDown(N, T, node) ==
    /\ {n \in T : n.running} = {n \in N : n.running /\ n.name # node}
    /\ \A n \in T : n.name = node => ~n.running
    /\ \A n \in T : n.name # node => n \in N
    /\ \A n \in N : n.name # node => n \in T
    /\ \A n \in N : n.name = node => \E m \in T : m.name = node

(* That is what stopping the node does to the nodes. *)
LEMMA NodesAfter ==
    ASSUME NEW N, \A n \in N : \E r : n = ToNode(r), NEW node,
           NEW T, T = Downed(N, node)
    PROVE  OneWentDown(N, T, node)
<1> DEFINE after(n) == IF n.name = node THEN [n EXCEPT !.running = FALSE] ELSE n
<1>1. ASSUME NEW n \in N PROVE after(n).name = n.name /\ (n.name = node => after(n).running = FALSE)
  <2>1. PICK r : n = ToNode(r)
    OBVIOUS
  <2>2. CASE n.name = node
    <3>1. after(n) = [n EXCEPT !.running = FALSE]
      BY <2>2
    <3>2. "name" \in DOMAIN n /\ "running" \in DOMAIN n
      BY <2>1 DEF ToNode
    <3> HIDE DEF after
    <3> QED BY <3>1, <3>2
  <2>3. CASE n.name # node
    BY <2>3
  <2> QED BY <2>2, <2>3
<1>2. ASSUME NEW n \in N, n.name # node PROVE after(n) = n
  BY <1>2
<1>3. T = {after(n) : n \in N}
  BY DEF Downed
<1> HIDE DEF after
<1>4. \A n \in T : n.name = node => ~n.running
  BY <1>1, <1>3
<1>5. \A n \in T : n.name # node => n \in N
  BY <1>1, <1>2, <1>3
<1>6. \A n \in N : n.name # node => n \in T
  BY <1>2, <1>3
<1>7. \A n \in N : n.name = node => \E m \in T : m.name = node
  BY <1>1, <1>3
<1>8. {n \in T : n.running} = {n \in N : n.running /\ n.name # node}
  BY <1>4, <1>5, <1>6
<1> QED BY <1>4, <1>5, <1>6, <1>7, <1>8 DEF OneWentDown

(* A set made of the members of a finite set is finite. *)
LEMMA MadeOfFinite ==
    ASSUME NEW S, IsFiniteSet(S), NEW T, NEW f \in [S -> T], NEW U, \A y \in U : \E x \in S : y = f[x]
    PROVE  IsFiniteSet(U)
<1>1. f \in Surjection(S, {f[x] : x \in S})
  BY DEF Surjection
<1>2. IsFiniteSet({f[x] : x \in S})
  BY <1>1, FS_Surjection
<1>3. U \in SUBSET {f[x] : x \in S}
  OBVIOUS
<1> QED BY <1>2, <1>3, FS_Subset

(* What a broker says of itself is finitely many objects. *)
Listed(raw) == IsFiniteSet(raw.nodes) /\ IsFiniteSet(raw.queues) /\ IsFiniteSet(raw.channels)

(* ToSample maps every object to one. *)
LEMMA SampleIsFinite ==
    ASSUME NEW raw, Listed(raw)
    PROVE  LET sample == ToSample(raw)
           IN IsFiniteSet(sample.nodes) /\ IsFiniteSet(sample.queues) /\ IsFiniteSet(sample.channels)
<1>1. IsFiniteSet({ToNode(n) : n \in raw.nodes})
  <2> DEFINE f == [n \in raw.nodes |-> ToNode(n)]  U == {ToNode(n) : n \in raw.nodes}
  <2>1. f \in [raw.nodes -> U] /\ \A y \in U : \E n \in raw.nodes : y = f[n]
    OBVIOUS
  <2> HIDE DEF f, U
  <2>2. IsFiniteSet(U)
    BY <2>1, MadeOfFinite DEF Listed
  <2> QED BY <2>2 DEF U
<1>2. IsFiniteSet({ToQueueSummary(q) : q \in raw.queues})
  <2> DEFINE f == [q \in raw.queues |-> ToQueueSummary(q)]  U == {ToQueueSummary(q) : q \in raw.queues}
  <2>1. f \in [raw.queues -> U] /\ \A y \in U : \E q \in raw.queues : y = f[q]
    OBVIOUS
  <2> HIDE DEF f, U
  <2>2. IsFiniteSet(U)
    BY <2>1, MadeOfFinite DEF Listed
  <2> QED BY <2>2 DEF U
<1>3. IsFiniteSet({ToChannel(ch) : ch \in raw.channels})
  <2> DEFINE f == [ch \in raw.channels |-> ToChannel(ch)]  U == {ToChannel(ch) : ch \in raw.channels}
  <2>1. f \in [raw.channels -> U] /\ \A y \in U : \E ch \in raw.channels : y = f[ch]
    OBVIOUS
  <2> HIDE DEF f, U
  <2>2. IsFiniteSet(U)
    BY <2>1, MadeOfFinite DEF Listed
  <2> QED BY <2>2 DEF U
<1> QED BY <1>1, <1>2, <1>3 DEF ToSample

(* Stopping a node changes the nodes and the queues, and keeps them finitely many. *)
LEMMA StoppedIsFinite ==
    ASSUME NEW sample, NEW node, IsFiniteSet(sample.nodes), IsFiniteSet(sample.queues),
           {"nodes", "queues", "channels", "unroutable"} \subseteq DOMAIN sample
    PROVE  LET after == Stopped(sample, node)
           IN /\ IsFiniteSet(after.nodes) /\ IsFiniteSet(after.queues)
              /\ after.channels = sample.channels /\ after.unroutable = sample.unroutable
              /\ after.nodes = Downed(sample.nodes, node)
              /\ after.queues = {IF Known(q.online) THEN [q EXCEPT !.online = @ \ {node}] ELSE q : q \in sample.queues}
<1> DEFINE after == Stopped(sample, node)
           off(n) == IF n.name = node THEN [n EXCEPT !.running = FALSE] ELSE n
           lost(q) == IF Known(q.online) THEN [q EXCEPT !.online = @ \ {node}] ELSE q
           T == {off(n) : n \in sample.nodes}
           P == {lost(q) : q \in sample.queues}
<1>1. after = [sample EXCEPT !.nodes = T, !.queues = P]
  BY DEF Stopped
<1> HIDE DEF after, off, lost
<1>2. after.nodes = T /\ after.queues = P /\ after.channels = sample.channels /\ after.unroutable = sample.unroutable
  BY <1>1
<1>3. IsFiniteSet(T)
  <2> DEFINE f == [n \in sample.nodes |-> off(n)]
  <2>1. f \in [sample.nodes -> T] /\ \A y \in T : \E n \in sample.nodes : y = f[n]
    OBVIOUS
  <2> HIDE DEF f, T
  <2> QED BY <2>1, MadeOfFinite
<1>4. IsFiniteSet(P)
  <2> DEFINE f == [q \in sample.queues |-> lost(q)]
  <2>1. f \in [sample.queues -> P] /\ \A y \in P : \E q \in sample.queues : y = f[q]
    OBVIOUS
  <2> HIDE DEF f, P
  <2> QED BY <2>1, MadeOfFinite
<1> QED BY <1>2, <1>3, <1>4 DEF after, off, lost, Downed

(* Whatever a broker of finitely many nodes, queues and channels says of itself - fields missing or not - a node  *)
(* of it that stops adds its own finding to the report and nothing else (health.ts:213).                          *)
THEOREM OneNodeOneFinding ==
    ASSUME NEW raw, Listed(raw),
           \A q \in raw.queues : /\ Known(q.members) => IsFiniteSet(q.members)
                                 /\ Known(q.online) => \A nodes \in SUBSET q.online : Known(nodes)
    PROVE  StoppedNodeIsOneFinding(ToSample(raw))
<1> DEFINE sample == ToSample(raw)
<1> SUFFICES ASSUME NEW node \in {n.name : n \in {m \in sample.nodes : m.running}},
                    NEW f \in ToSet(AnalyzeHealth(Stopped(sample, node), << >>, 0)),
                    f \notin ToSet(AnalyzeHealth(sample, << >>, 0))
             PROVE  f.rule = "node-down" /\ f.subject = node
  BY DEF StoppedNodeIsOneFinding
<1> DEFINE after == Stopped(sample, node)
           N == sample.nodes  T == after.nodes  Q == sample.queues  P == after.queues
           lost(q) == IF Known(q.online) THEN [q EXCEPT !.online = @ \ {node}] ELSE q
<1>1. /\ \A n \in N : \E r : n = ToNode(r)
      /\ \A q \in Q : \E r \in raw.queues : q = ToQueueSummary(r)
      /\ {"nodes", "queues", "channels", "unroutable"} \subseteq DOMAIN sample
  BY DEF ToSample
<1>2. IsFiniteSet(N) /\ IsFiniteSet(Q) /\ IsFiniteSet(sample.channels)
  BY SampleIsFinite
<1> HIDE DEF sample
<1>3. /\ IsFiniteSet(T) /\ IsFiniteSet(P)
      /\ after.channels = sample.channels /\ after.unroutable = sample.unroutable
      /\ T = Downed(N, node)
      /\ P = {lost(q) : q \in Q}
  BY <1>1, <1>2, StoppedIsFinite
<1> HIDE DEF after, lost
<1>4. f \in Found(after, << >>, 0) /\ f \notin Found(sample, << >>, 0)
  <2>1. Gradeable(Found(sample, << >>, 0)) /\ Gradeable(Found(after, << >>, 0))
    BY <1>2, <1>3, FoundGradeable
  <2>2. ToSet(AnalyzeHealth(sample, << >>, 0)) = Found(sample, << >>, 0)
    BY <2>1, ReportIsWhatWasFound DEF AnalyzeHealth
  <2>3. ToSet(AnalyzeHealth(after, << >>, 0)) = Found(after, << >>, 0)
    BY <2>1, ReportIsWhatWasFound DEF AnalyzeHealth
  <2> QED BY <2>2, <2>3 DEF after
<1> HIDE DEF N, T, Q, P
<1>5. ASSUME NEW q \in Q PROVE Lost(q, lost(q), node) /\ (Known(q.members) => IsFiniteSet(q.members))
  <2>1. PICK r \in raw.queues : q = ToQueueSummary(r)
    BY <1>1
  <2>2. q.members = r.members
    BY <2>1 DEF ToQueueSummary
  <2>3. q.online = r.online
    BY <2>1 DEF ToQueueSummary
  <2>4. (Known(r.online) => \A nodes \in SUBSET r.online : Known(nodes)) /\ (Known(r.members) => IsFiniteSet(r.members))
    OBVIOUS
  <2>5. Lost(q, lost(q), node)
    BY <2>1, <2>4, QueueAfter DEF lost
  <2> QED BY <2>2, <2>4, <2>5
<1>6. OneWentDown(N, T, node)
  BY <1>1, <1>3, NodesAfter
<1> USE DEF OneWentDown
<1> DEFINE running == Cardinality({n \in N : n.running})
           fewer == Cardinality({n \in T : n.running})
           down == {n.name : n \in {m \in N : ~m.running}}
           gone == {n.name : n \in {m \in T : ~m.running}}
           targets == DeadLetterTargets(Q)
<1>7. running \in Nat /\ fewer \in Nat /\ fewer <= running
  <2>1. {n \in T : n.running} \in SUBSET {n \in N : n.running}
    BY <1>6
  <2>2. IsFiniteSet({n \in N : n.running})
    <3>1. {n \in N : n.running} \in SUBSET N
      OBVIOUS
    <3> QED BY <1>2, <3>1, FS_Subset DEF N
  <2> QED BY <2>1, <2>2, FS_Subset, FS_CardinalityType
<1>8. down \cup {node} \subseteq gone
  <2>1. \E n \in N : n.name = node
    BY DEF N
  <2>2. node \in gone
    BY <2>1, <1>6
  <2>3. \A n \in N : ~n.running => n.name \in gone
    BY <2>2, <1>6
  <2> QED BY <2>2, <2>3
<1>9. DeadLetterTargets(P) = targets
  <2>1. \A q \in Q : lost(q).vhost = q.vhost /\ lost(q).deadLetter = q.deadLetter
    BY <1>5 DEF Lost
  <2> DEFINE counts(q) == q.deadLetter.exchange = "" /\ q.deadLetter.routingKey \notin {None, ""}
             into(q) == <<q.vhost, q.deadLetter.routingKey>>
  <2>2. \A q \in Q : (counts(lost(q)) <=> counts(q)) /\ into(lost(q)) = into(q)
    BY <2>1
  <2>3. /\ \A t : t \in targets <=> \E q \in Q : counts(q) /\ t = into(q)
        /\ \A t : t \in DeadLetterTargets(P) <=> \E p \in P : counts(p) /\ t = into(p)
    BY DEF DeadLetterTargets
  <2> HIDE DEF counts, into, targets
  <2>4. \A t : t \in targets <=> t \in DeadLetterTargets(P)
    BY <1>3, <2>2, <2>3
  <2> QED BY <2>4
<1>10. QueuesFound(after) \subseteq QueuesFound(sample)
  <2>1. QueuesFound(after) = UNION {QueueFindings(p, fewer, gone, targets) : p \in P}
    BY <1>9 DEF QueuesFound, T, P
  <2>2. QueuesFound(sample) = UNION {QueueFindings(q, running, down, targets) : q \in Q}
    BY DEF QueuesFound, N, Q
  <2> HIDE DEF running, fewer, down, gone, targets
  <2>3. ASSUME NEW q \in Q
        PROVE  QueueFindings(lost(q), fewer, gone, targets) \subseteq QueueFindings(q, running, down, targets)
    BY <1>5, <1>7, <1>8, QueueFindsNoMore
  <2> QED BY <1>3, <2>1, <2>2, <2>3
<1>11. ChannelsFound(after, << >>, 0) = ChannelsFound(sample, << >>, 0)
  BY <1>3 DEF ChannelsFound
<1>12. f \in NodesFound(after) /\ f \notin NodesFound(sample)
  BY <1>3, <1>4, <1>10, <1>11 DEF Found
<1>13. PICK n \in T : f \in NodeFindings(n)
  BY <1>12 DEF NodesFound, T
<1>14. n.name = node /\ ~n.running
  <2>1. n \notin N
    BY <1>12, <1>13 DEF NodesFound, N
  <2> QED BY <2>1, <1>6
<1>15. f \in When(TRUE, "node-down", "critical", n.name)
  BY <1>13, <1>14 DEF NodeFindings
<1> QED BY <1>14, <1>15 DEF When

-----------------------------------------------------------------------------
(* The page, the read and the list take their own steps, and the inputs of the pure algorithms stay. *)
PathInv == PageInv /\ ReadInv /\ ListInv /\ scene \in Scenes \cup {None}

(* A step is one of each part, or leaves the part alone. *)
LEMMA StepIsOfAPart ==
    ASSUME [Next]_allVars
    PROVE  [PageNext]_pageVars /\ [ReadNext]_readVars /\ [ListNext]_listVars /\ UNCHANGED scene
BY DEF Next, allVars

(* Every initial state: of the page as it begins, or with the page at rest beside a scene. *)
LEMMA PathStarts == Init => PathInv
<1> SUFFICES ASSUME Init PROVE PathInv
  OBVIOUS
<1>1. ReadInv /\ ListInv /\ scene \in Scenes \cup {None}
  BY ReadStarts, ListStarts DEF Init
<1>2. ResourceInv
  <2>1. CASE PageInit
    BY <2>1, InitHolds DEF PageInit
  <2>2. CASE key = None /\ due = FALSE /\ data = NoData /\ error = FALSE /\ loading = FALSE /\ loads = <<>>
    <3>1. ResourceTypeOK
      <4>1. loads \in Seq(Loads) /\ Len(loads) <= MaxLoads
        BY <2>2, ResourceAssumption
      <4> QED BY <4>1, <2>2 DEF ResourceTypeOK, NoData, Loads
    <3> QED BY <3>1, <2>2 DEF ResourceInv, LiveIsLast, NeverBackwards, SettledShowsItsKey, NoData
  <2> QED BY <2>1, <2>2 DEF Init
<1>3. stuckSince = [of |-> None, ages |-> << >>] /\ calm = [k \in Keys |-> << >>]
  BY DEF Init, PageInit
<1>4. DOMAIN << >> = {}
  OBVIOUS
<1>5. AgesTypeOK /\ AgesAreSeen
  BY <1>3, <1>4, ResourceAssumption DEF AgesTypeOK, AgesAreSeen
<1> QED BY <1>1, <1>2, <1>5 DEF PathInv, PageInv

(* Each part keeps its own invariant. *)
LEMMA PathStep == PathInv /\ [Next]_allVars => PathInv'
<1> SUFFICES ASSUME PathInv, [Next]_allVars PROVE PathInv'
  OBVIOUS
<1>1. PageInv'
  BY StepIsOfAPart, PageInvStep DEF PathInv
<1>2. ReadInv'
  BY StepIsOfAPart, ReadStep DEF PathInv
<1>3. ListInv'
  BY StepIsOfAPart, ListStep DEF PathInv
<1> QED BY <1>1, <1>2, <1>3, StepIsOfAPart DEF PathInv

(* In every reachable state: the hook is as hooks.ts has it, the ref's ages were seen, the read goes on, and the *)
(* pages of the list were read in their order.                                                                  *)
THEOREM ReadPathInvariant == Spec => []PathInv
BY PathStarts, PathStep, PTL DEF Spec

(* A read that ends well has the answers of one session, all of them, and a list is as long as it says it is. *)
THEOREM AnswersStayWhole == Spec => []AnswersAreWhole
<1>1. PathInv => AnswersAreWhole
  BY DEF PathInv, ReadInv, ListInv, AnswersAreWhole
<1> QED BY <1>1, ReadPathInvariant, PTL

(* Under the Health page, whose loads do work of their own, no answer replaces the answer to a later question. *)
THEOREM PageNeverGoesBack == Spec => []NeverBackwards
<1>1. PathInv => NeverBackwards
  BY DEF PathInv, PageInv, ResourceInv
<1> QED BY <1>1, ReadPathInvariant, PTL

(* And what it shows when nothing is loading is of the target shown, or an error says that it may not be. *)
THEOREM PageShowsItsKey == Spec => []SettledShowsItsKey
<1>1. PathInv => SettledShowsItsKey
  BY DEF PathInv, PageInv, ResourceInv
<1> QED BY <1>1, ReadPathInvariant, PTL

(* The page keeps the hook's promise: each of its steps is one of the promise's, or a stutter. *)
THEOREM PageKeepsPromise == Spec => ImplementsPromise
<1>1. Init => Promise!Init
  BY DEF Init, PageInit, ResourceInit, NoData, Late, Promise!Init
<1>2. PathInv /\ PathInv' /\ [Next]_allVars => [Promise!Next]_(Promise!vars)
  BY StepIsOfAPart, PageStepIsTheHooks, PromiseStep DEF PathInv, PageInv
<1> QED BY <1>1, <1>2, ReadPathInvariant, PTL DEF Spec, ImplementsPromise, Promise!Spec

(* The page calls a channel stuck only when no answer of that target said otherwise for as long as that takes, *)
(* whichever targets were visited meanwhile and in whatever order the answers came.                            *)
THEOREM StuckWasSeenFull == Spec => StuckIsSeenFull
<1> DEFINE WasSeenFull == \A i \in DOMAIN findings' : findings' # findings /\ findings'[i].rule = "consumer-stuck" =>
                        calm'[data'.key][findings'[i].subject] = StuckFor
<1>1. PathInv /\ PathInv' /\ [Next]_allVars => [WasSeenFull]_pageVars
  BY StepIsOfAPart, StuckStep DEF PathInv
<1> QED BY <1>1, ReadPathInvariant, PTL DEF Spec, StuckIsSeenFull

(* Two things are finitely many. *)
LEMMA PairIsFinite == ASSUME NEW a, NEW b PROVE IsFiniteSet({a, b})
<1>1. IsFiniteSet({a}) /\ IsFiniteSet({b})
  BY FS_Singleton
<1>2. IsFiniteSet({a} \cup {b})
  BY <1>1, FS_Union
<1>3. {a, b} = {a} \cup {b}
  OBVIOUS
<1> QED BY <1>2, <1>3, Zenon

(* What the brokers of the scene say of themselves is finite. *)
LEMMA SceneIsListed ==
    ASSUME NEW raw \in RawBrokers
    PROVE  /\ Listed(raw)
           /\ \A q \in raw.queues : /\ Known(q.members) => IsFiniteSet(q.members)
                                    /\ Known(q.online) => \A nodes \in SUBSET q.online : Known(nodes)
<1>1. PICK up \in {{"n1", "n2"}, {"n1"}, {"n2"}} :
          \E q1 \in RawQueues("q1", up), q2 \in RawQueues("q2", up) :
             raw = [nodes |-> {RawNode(n, n \in up) : n \in {"n1", "n2"}}, queues |-> {q1, q2}, channels |-> {},
                    stats |-> None, object_totals |-> None, queue_totals |-> None]
  BY DEF RawBrokers
<1>2. PICK q1 \in RawQueues("q1", up), q2 \in RawQueues("q2", up) :
          /\ raw.nodes = {RawNode(n, n \in up) : n \in {"n1", "n2"}}
          /\ raw.queues = {q1, q2} /\ raw.channels = {}
  BY <1>1
<1>3. raw.nodes = {RawNode("n1", "n1" \in up), RawNode("n2", "n2" \in up)}
  BY <1>2
<1>4. Listed(raw)
  <2>1. IsFiniteSet({RawNode("n1", "n1" \in up), RawNode("n2", "n2" \in up)}) /\ IsFiniteSet({q1, q2})
    BY PairIsFinite
  <2> QED BY <1>2, <1>3, <2>1, FS_EmptySet, Zenon DEF Listed
<1>5. ASSUME NEW name, NEW q \in RawQueues(name, up)
      PROVE  /\ Known(q.members) => IsFiniteSet(q.members)
             /\ Known(q.online) => \A nodes \in SUBSET q.online : Known(nodes)
  <2>1. q.members \in {None, {"n1"}, {"n1", "n2"}} /\ (Known(q.online) => q.online \subseteq {"n1", "n2"})
    BY DEF RawQueues, Known
  <2>2. IsFiniteSet({"n1"}) /\ IsFiniteSet({"n1", "n2"})
    BY PairIsFinite, FS_Singleton
  <2> QED BY <2>1, <2>2, SceneAssumption DEF Known
<1> QED BY <1>2, <1>4, <1>5

(* A node that stops is one finding, on every broker of the scenes. *)
THEOREM StoppedNodesStayOneFinding == Spec => []StoppedNodesAreOneFinding
<1>1. PathInv => StoppedNodesAreOneFinding
  <2> SUFFICES ASSUME scene \in Scenes \cup {None}, scene # None, scene.of = "broker"
               PROVE  StoppedNodeIsOneFinding(ToSample(scene.raw))
    BY DEF PathInv, StoppedNodesAreOneFinding
  <2>1. scene.raw \in RawBrokers
    BY DEF Scenes
  <2> QED BY <2>1, SceneIsListed, OneNodeOneFinding
<1> QED BY <1>1, ReadPathInvariant, PTL

-----------------------------------------------------------------------------
(* The deaths of a scene are a history, and none of the names is missing. *)
LEMMA SceneHasDeaths ==
    ASSUME NEW deaths \in DeathSequences
    PROVE  deaths \in Seq(Death({"q1", "q2"}, {"rejected", "expired"}, {"e", "dlx"}, {"q1", "q2"}))
<1> DEFINE D == Death({"q1", "q2"}, {"rejected", "expired"}, {"e", "dlx"}, {"q1", "q2"})
<1>1. Deaths \subseteq D
  BY DEF Deaths, Death
<1>2. PICK n \in 0..4 : deaths \in [1..n -> Deaths]
  BY DEF DeathSequences
<1> HIDE DEF D
<1>3. deaths \in [1..n -> D] /\ n \in Nat
  BY <1>1, <1>2
<1> QED BY <1>3 DEF D

(* Every dead letter is decoded, and the batch of what it was after each death is shown as it is counted. *)
THEOREM HistoriesStayDecoded == Spec => []HistoriesAreDecoded
<1> DEFINE D == Death({"q1", "q2"}, {"rejected", "expired"}, {"e", "dlx"}, {"q1", "q2"})
<1>1. ASSUME NEW own, own \cap BrokerHeaders = {}, NEW deaths \in Seq(D)
      PROVE  DecodesTheHistory(own, deaths)
  <2>1. Named({"q1", "q2"}, {"rejected", "expired"}, {"e", "dlx"}, {"q1", "q2"})
    BY SceneAssumption
  <2> QED BY <1>1, <2>1, HistoryIsDecoded
<1>2. ASSUME NEW own, own \cap BrokerHeaders = {}, NEW deaths \in Seq(D)
      PROVE  FilterSaysWhatItShows([i \in 1..(Len(deaths) + 1) |-> HeadersAfter(own, SubSeq(deaths, 1, i - 1))])
  <2> DEFINE before(i) == SubSeq(deaths, 1, i - 1)
             X == {HeadersAfter(own, before(i)) : i \in 1..(Len(deaths) + 1)}
             batch == [i \in 1..(Len(deaths) + 1) |-> HeadersAfter(own, before(i))]
  <2>1. Len(deaths) + 1 \in Nat /\ batch \in [1..(Len(deaths) + 1) -> X]
    OBVIOUS
  <2>2. batch \in Seq(X)
    <3> HIDE DEF batch, X
    <3> QED BY <2>1
  <2>3. ASSUME NEW i \in 1..(Len(deaths) + 1)
        PROVE  ParseDeath(batch[i]) = None \/ DeathReason(ParseDeath(batch[i])) \notin {"", "none"}
    <3>1. batch[i] = HeadersAfter(own, before(i))
      OBVIOUS
    <3>2. before(i) \in Seq(D)
      <4>1. 1 \in 1..(Len(deaths) + 1) /\ i - 1 \in 0..Len(deaths)
        OBVIOUS
      <4> HIDE DEF D
      <4> QED BY <4>1
    <3> HIDE DEF before, batch
    <3>3. DecodesTheHistory(own, before(i))
      BY <1>1, <1>2, <3>2
    <3>4. CASE before(i) = <<>>
      BY <3>1, <3>3, <3>4 DEF DecodesTheHistory
    <3>5. CASE before(i) # <<>>
      <4>1. DeathReason(ParseDeath(batch[i])) = Last(before(i)).reason
        BY <3>1, <3>3, <3>5 DEF DecodesTheHistory
      <4>2. Last(before(i)) \in D
        <5> HIDE DEF D
        <5> QED BY <3>2, <3>5 DEF Last
      <4>3. Last(before(i)).reason \in {"rejected", "expired"}
        BY <4>2 DEF Death
      <4> QED BY <4>1, <4>3
    <3> QED BY <3>4, <3>5
  <2>4. Filterable(batch)
    <3>1. DOMAIN batch = 1..(Len(deaths) + 1)
      OBVIOUS
    <3> HIDE DEF batch
    <3> QED BY <2>3, <3>1 DEF Filterable
  <2> HIDE DEF batch, X
  <2>5. FilterSaysWhatItShows(batch)
    BY <2>2, <2>4, FilterIsHonest
  <2> QED BY <2>5 DEF batch
<1>3. PathInv => HistoriesAreDecoded
  <2> SUFFICES ASSUME scene \in Scenes \cup {None}, scene # None, scene.of = "letter"
               PROVE  /\ DecodesTheHistory(scene.own, scene.deaths)
                      /\ FilterSaysWhatItShows([i \in 1..(Len(scene.deaths) + 1) |->
                             HeadersAfter(scene.own, SubSeq(scene.deaths, 1, i - 1))])
    BY DEF PathInv, HistoriesAreDecoded
  <2>1. scene.own \in {{}, {"CC", "app"}} /\ scene.deaths \in DeathSequences
    BY DEF Scenes
  <2>2. scene.own \cap BrokerHeaders = {}
    BY <2>1 DEF BrokerHeaders
  <2>3. scene.deaths \in Seq(D)
    BY <2>1, SceneHasDeaths
  <2> HIDE DEF D
  <2> QED BY <1>1, <1>2, <2>2, <2>3
<1> QED BY <1>3, ReadPathInvariant, PTL

-----------------------------------------------------------------------------
(* An address as it is compared. *)
LEMMA AddressIs ==
    ASSUME NEW x, NEW m \in BOOLEAN
    PROVE  NormalizeAddress([ip |-> x, mapped |-> m]) = [ip |-> x, mapped |-> FALSE]
<1> DEFINE a == [ip |-> x, mapped |-> m]
           b == [a EXCEPT !.mapped = FALSE]
<1>1. a \in [ip : {x}, mapped : BOOLEAN]
  OBVIOUS
<1>2. b \in [ip : {x}, mapped : BOOLEAN] /\ b.mapped = FALSE
  BY <1>1
<1>3. b.ip = x
  BY <1>2
<1>4. b = [ip |-> b.ip, mapped |-> b.mapped]
  <2> HIDE DEF b
  <2> QED BY <1>2
<1> QED BY <1>2, <1>3, <1>4 DEF NormalizeAddress

(* A connection of a scene: its number, and the address it comes from. *)
LEMMA HeldIs ==
    ASSUME NEW pods \in PodLists, NEW c \in Held(pods)
    PROVE  LET n == c.name[2]
           IN /\ n \in {0} \cup {i \in DOMAIN pods : Alive(pods[i])}
              /\ c.channels = n + 1 /\ c.peer # None
              /\ NormalizeAddress(c.peer) = [ip |-> IF n = 0 THEN "outside" ELSE pods[n].ip.ip, mapped |-> FALSE]
<1> DEFINE from(n) == IF n = 0 THEN "outside" ELSE pods[n].ip.ip
<1>1. PICK n \in {0} \cup {i \in DOMAIN pods : Alive(pods[i])} :
         c = ToConnection([name |-> <<"of", n>>, peer_host |-> [ip |-> from(n), mapped |-> TRUE],
                           user |-> "u", channels |-> n + 1, state |-> "running", connected_at |-> n])
  BY DEF Held
<1>2. c.name = Or(<<"of", n>>, "") /\ c.peer = [ip |-> from(n), mapped |-> TRUE] /\ c.channels = Or(n + 1, 0)
  BY <1>1 DEF ToConnection, Count
<1>3. PICK m \in 0..3 : pods \in [1..m -> ClientPods]
  BY DEF PodLists
<1>4. n \in 0..3 /\ DOMAIN pods = 1..m
  BY <1>3
<1>5. from(n) \in {"i1", "i2", "outside"}
  <2>1. CASE n = 0
    BY <2>1
  <2>2. CASE n # 0
    <3>1. pods[n] \in ClientPods
      BY <1>3, <1>4, <2>2
    <3> QED BY <2>2, <3>1 DEF ClientPods
  <2> QED BY <2>1, <2>2
<1>6. n + 1 # None
  <2>1. None \notin Nat
    BY SceneAssumption DEF Named
  <2> QED BY <1>4, <2>1
<1> HIDE DEF from
<1>7. <<"of", n>> # None /\ [ip |-> from(n), mapped |-> TRUE] # None
  BY <1>4, <1>5, SceneAssumption
<1>8. c.name[2] = n /\ c.channels = n + 1 /\ c.peer # None
  BY <1>2, <1>6, <1>7 DEF Or
<1>9. NormalizeAddress(c.peer) = [ip |-> from(n), mapped |-> FALSE]
  BY <1>2, AddressIs
<1> QED BY <1>8, <1>9 DEF from

(* The pods of a scene: one that can be a client's at an address is alive and has that address. *)
LEMMA ClientIs ==
    ASSUME NEW pods \in PodLists, NEW i \in DOMAIN pods, NEW ip
    PROVE  /\ pods[i].terminating \in BOOLEAN /\ pods[i].name # None
           /\ <<pods[i].namespace, PodWorkload(pods[i])>> # None
           /\ (Candidate(pods[i], {[ip |-> ip, mapped |-> FALSE]}) /\ ~pods[i].terminating) <=>
                 (Alive(pods[i]) /\ pods[i].ip.ip = ip)
           /\ Candidate(pods[i], {[ip |-> ip, mapped |-> FALSE]}) => pods[i].ip.ip = ip
           /\ pods[i].ip = [ip |-> pods[i].ip.ip, mapped |-> FALSE] /\ pods[i].ip.ip \in {"i1", "i2"}
<1>1. PICK m \in 0..3 : pods \in [1..m -> ClientPods]
  BY DEF PodLists
<1>2. pods[i] \in ClientPods
  BY <1>1
<1> DEFINE p == pods[i]
<1>3. p \in ClientPods
  BY <1>2
<1> HIDE DEF p
<1> DEFINE pod(n, a, ph, tm) ==
               [name |-> n, namespace |-> "ns", ip |-> [ip |-> a, mapped |-> FALSE], phase |-> ph, terminating |-> tm,
                hostNetwork |-> FALSE, hash |-> "h",
                owner |-> IF n = "stray" THEN None ELSE [kind |-> "ReplicaSet", name |-> <<"app", "h">>]]
<1>b. \E n \in {"a", "b", "stray"}, a \in {"i1", "i2"}, ph \in {"Running", "Failed"}, tm \in BOOLEAN : p = pod(n, a, ph, tm)
  BY <1>3 DEF ClientPods
<1>a. PICK n \in {"a", "b", "stray"}, a \in {"i1", "i2"}, ph \in {"Running", "Failed"}, tm \in BOOLEAN :
         p = pod(n, a, ph, tm)
  <2> HIDE DEF pod
  <2> QED BY <1>b
<1>4. a \in {"i1", "i2"} /\ p.ip = [ip |-> a, mapped |-> FALSE]
  BY <1>a
<1>5. p.terminating \in BOOLEAN /\ p.hostNetwork = FALSE /\ p.phase \in {"Running", "Failed"}
  BY <1>a
<1>6. p.name # None /\ p.ip # None /\ <<p.namespace, PodWorkload(p)>> # None
  BY <1>3, SceneAssumption
<1>7. NormalizeAddress(p.ip) = p.ip
  BY <1>4, AddressIs
<1>8. Candidate(p, {[ip |-> ip, mapped |-> FALSE]}) <=> p.phase = "Running" /\ a = ip
  <2>1. [ip |-> a, mapped |-> FALSE] = [ip |-> ip, mapped |-> FALSE] <=> a = ip
    <3> DEFINE r(x) == [ip |-> x, mapped |-> FALSE]
    <3>1. r(a).ip = a /\ r(ip).ip = ip
      OBVIOUS
    <3> QED BY <3>1
  <2> QED BY <1>4, <1>5, <1>6, <1>7, <2>1 DEF Candidate
<1>9. p.ip.ip = a
  BY <1>4
<1> QED BY <1>4, <1>5, <1>6, <1>8, <1>9 DEF Alive, p

(* The connections of a scene are held by its pods, or from outside. *)
LEMMA SceneIsHeld ==
    ASSUME NEW pods \in PodLists
    PROVE  pods \in Seq(ClientPods) /\ HeldByPods(Held(pods), pods, Holder(pods))
<1> DEFINE C == Held(pods)
           H == Holder(pods)
           at(c) == NormalizeAddress(c.peer)
<1>1. PICK m \in 0..3 : pods \in [1..m -> ClientPods]
  BY DEF PodLists
<1>2. pods \in Seq(ClientPods) /\ DOMAIN pods = 1..m
  BY <1>1
<1>3. \A i, j \in DOMAIN pods : i # j /\ Alive(pods[i]) /\ Alive(pods[j]) => pods[i].ip # pods[j].ip
  BY DEF PodLists
<1>4. IsFiniteSet(C)
  <2> DEFINE N == {0} \cup {i \in DOMAIN pods : Alive(pods[i])}
             raw(n) == ToConnection([name |-> <<"of", n>>,
                           peer_host |-> [ip |-> IF n = 0 THEN "outside" ELSE pods[n].ip.ip, mapped |-> TRUE],
                           user |-> "u", channels |-> n + 1, state |-> "running", connected_at |-> n])
  <2>1. IsFiniteSet(0..3)
    <3>1. 0 \in Int /\ 3 \in Int
      OBVIOUS
    <3> HIDE DEF N, raw, C, H
    <3> QED BY <3>1, FS_Interval
  <2>a. N \in SUBSET (0..3)
    BY <1>2
  <2>2. IsFiniteSet(N)
    <3> HIDE DEF N
    <3> QED BY <2>1, <2>a, FS_Subset
  <2>3. C = {raw(n) : n \in N}
    BY DEF Held
  <2> DEFINE f == [n \in N |-> raw(n)]
  <2>4. f \in Surjection(N, C)
    <3> HIDE DEF raw, N, C
    <3> QED BY <2>3 DEF Surjection
  <2> HIDE DEF f, N, C
  <2> QED BY <2>2, <2>4, FS_Surjection
<1>b. ASSUME NEW c \in C
      PROVE  LET n == c.name[2]
             IN /\ n \in {0} \cup {i \in DOMAIN pods : Alive(pods[i])}
                /\ c.channels = n + 1 /\ c.peer # None
                /\ at(c) = [ip |-> IF n = 0 THEN "outside" ELSE pods[n].ip.ip, mapped |-> FALSE]
  BY HeldIs
<1>5. ASSUME NEW c \in C PROVE c.channels \in Nat /\ c.peer # None
  <2> DEFINE n == c.name[2]
  <2>1. c.channels = n + 1 /\ c.peer # None /\ n \in {0} \cup DOMAIN pods
    BY <1>b
  <2>2. n \in Nat
    BY <1>2, <2>1
  <2> HIDE DEF n
  <2> QED BY <2>1, <2>2
<1>6. ASSUME NEW i \in DOMAIN pods PROVE pods[i].terminating \in BOOLEAN /\ <<pods[i].namespace, PodWorkload(pods[i])>> # None
  BY ClientIs
<1>7. ASSUME NEW i \in DOMAIN pods, NEW j \in DOMAIN pods, NEW c \in C,
             Candidate(pods[i], {at(c)}), ~pods[i].terminating, Candidate(pods[j], {at(c)}), ~pods[j].terminating
      PROVE  i = j
  <2>1. PICK ip : at(c) = [ip |-> ip, mapped |-> FALSE]
    BY <1>b
  <2> HIDE DEF at
  <2>2. Alive(pods[i]) /\ pods[i].ip.ip = ip /\ Alive(pods[j]) /\ pods[j].ip.ip = ip
    <3>1. ASSUME NEW k \in DOMAIN pods, Candidate(pods[k], {at(c)}), ~pods[k].terminating
          PROVE  Alive(pods[k]) /\ pods[k].ip.ip = ip
      <4>1. (Candidate(pods[k], {[ip |-> ip, mapped |-> FALSE]}) /\ ~pods[k].terminating) <=>
               (Alive(pods[k]) /\ pods[k].ip.ip = ip)
        BY ClientIs
      <4> QED BY <2>1, <3>1, <4>1
    <3> QED BY <1>7, <3>1
  <2>3. pods[i].ip = [ip |-> pods[i].ip.ip, mapped |-> FALSE] /\ pods[j].ip = [ip |-> pods[j].ip.ip, mapped |-> FALSE]
    BY ClientIs
  <2> QED BY <1>3, <2>2, <2>3
<1>8. ASSUME NEW c \in C
      PROVE  IF H[c] = None THEN \A i \in DOMAIN pods : ~Candidate(pods[i], {at(c)})
             ELSE \E i \in DOMAIN pods : Candidate(pods[i], {at(c)}) /\ ~pods[i].terminating /\ pods[i].name = H[c]
  <2> DEFINE n == c.name[2]
  <2>1. H[c] = IF n = 0 THEN None ELSE pods[n].name
    BY DEF Holder
  <2>2. /\ n \in {0} \cup {i \in DOMAIN pods : Alive(pods[i])}
        /\ at(c) = [ip |-> IF n = 0 THEN "outside" ELSE pods[n].ip.ip, mapped |-> FALSE]
    BY <1>b
  <2> HIDE DEF H, C, n, at
  <2>3. CASE n = 0
    <3>1. at(c) = [ip |-> "outside", mapped |-> FALSE]
      BY <2>2, <2>3
    <3>2. ASSUME NEW i \in DOMAIN pods PROVE ~Candidate(pods[i], {at(c)})
      <4>1. pods[i].ip.ip \in {"i1", "i2"} /\ (Candidate(pods[i], {at(c)}) => pods[i].ip.ip = "outside")
        BY <3>1, ClientIs
      <4> QED BY <4>1
    <3> QED BY <2>1, <2>3, <3>2
  <2>4. CASE n # 0
    <3>1. n \in DOMAIN pods /\ Alive(pods[n]) /\ at(c) = [ip |-> pods[n].ip.ip, mapped |-> FALSE]
      BY <2>2, <2>4
    <3>2. Candidate(pods[n], {at(c)}) /\ ~pods[n].terminating /\ pods[n].name # None
      <4> DEFINE a == pods[n].ip.ip
      <4>1. (Candidate(pods[n], {[ip |-> a, mapped |-> FALSE]}) /\ ~pods[n].terminating) <=>
               (Alive(pods[n]) /\ pods[n].ip.ip = a)
        <5> HIDE DEF a
        <5> QED BY <3>1, ClientIs
      <4>2. pods[n].name # None
        BY <3>1, ClientIs
      <4> QED BY <3>1, <4>1, <4>2
    <3> QED BY <2>1, <2>4, <3>1, <3>2
  <2> QED BY <2>3, <2>4
<1> HIDE DEF C, H
<1>9. HeldByPods(C, pods, H)
  BY <1>4, <1>5, <1>6, <1>7, <1>8 DEF HeldByPods
<1> QED BY <1>2, <1>9 DEF C, H

(* On the Clients view every connection of a scene is in the row of the pod that holds it, or of its workload. *)
THEOREM ClientsStayAttributed == Spec => []ClientsAreAttributed
<1>1. PathInv => ClientsAreAttributed
  <2> SUFFICES ASSUME scene \in Scenes \cup {None}, scene # None, scene.of = "clients"
               PROVE  ConnectionsAreAttributed(Held(scene.pods), scene.pods, Holder(scene.pods))
    BY DEF PathInv, ClientsAreAttributed
  <2>1. scene.pods \in PodLists
    BY DEF Scenes
  <2>2. scene.pods \in Seq(ClientPods) /\ HeldByPods(Held(scene.pods), scene.pods, Holder(scene.pods))
    BY <2>1, SceneIsHeld
  <2> QED BY <2>2, EveryConnectionIsAttributed
<1> QED BY <1>1, ReadPathInvariant, PTL

-----------------------------------------------------------------------------
(* The item found where all that could be found are the same. *)
LEMMA OnlyOne ==
    ASSUME NEW s, NEW H, H \subseteq Nat, H # {}, NEW x, \A i \in H : s[i] = x
    PROVE  FirstAt(s, H) = x
BY FirstOfSome DEF FirstAt

(* The item found where the second of the list's is the first to pass. *)
LEMMA SecondOne ==
    ASSUME NEW s, NEW H, H \subseteq Nat \ {0, 1}, 2 \in H
    PROVE  FirstAt(s, H) = s[2]
<1>0. Min(H) \in H /\ Min(H) <= 2
  <2>1. H \subseteq Nat /\ H # {} /\ 2 \in H
    OBVIOUS
  <2>2. Min(H) \in H /\ \A i \in H : Min(H) <= i
    BY <2>1, FirstOfSome
  <2> QED BY <2>1, <2>2
<1>1. Min(H) = 2
  <2>1. Min(H) \in Nat \ {0, 1} /\ Min(H) <= 2
    BY <1>0
  <2> QED BY <2>1
<1> QED BY <1>1 DEF FirstAt

-----------------------------------------------------------------------------
(* A list has the items of the first m of some lists, and no others. *)
Joined(S, ss, m, s) ==
    /\ s \in Seq(S)
    /\ \A k \in DOMAIN s : \E i \in 1..m : \E j \in DOMAIN ss[i] : s[k] = ss[i][j]
    /\ \A i \in 1..m : \A j \in DOMAIN ss[i] : \E k \in DOMAIN s : s[k] = ss[i][j]

(* No item is in two of the lists, or twice in one. *)
Apart(ss) == \A i, j \in DOMAIN ss : \A k \in DOMAIN ss[i], l \in DOMAIN ss[j] : ss[i][k] = ss[j][l] => i = j /\ k = l

(* Lists one after the other. *)
LEMMA FlattenIs ==
    ASSUME NEW S, NEW ss \in Seq(Seq(S))
    PROVE  /\ Joined(S, ss, Len(ss), FlattenSeq(ss))
           /\ Apart(ss) => Once(FlattenSeq(ss))
<1> DEFINE n == Len(ss)
<1>1. CASE n = 0
  BY <1>1 DEF Joined, FlattenSeq, Once
<1>2. CASE n # 0
  <2>a. n \in Nat \ {0} /\ DOMAIN ss = 1..n /\ \A i \in 1..n : ss[i] \in Seq(S)
    BY <1>2
  <2> DEFINE step == [x \in Seq(S) \X (1..n) |-> IF x[2] = 1 THEN ss[x[2]] ELSE x[1] \o ss[x[2]]]
             Eq(f) == f = [i \in 1..n |-> IF i = 1 THEN ss[i] ELSE f[i-1] \o ss[i]]
             flat == CHOOSE f : Eq(f)
  <2>1. PICK h : Follows(h, Seq(S), n, <<>>, step)
    <3>1. Recursion(Seq(S), n, <<>>, step)
      BY <2>a DEF Recursion
    <3> HIDE DEF step
    <3> QED BY <3>1, RecursionExists
  <2>2. h \in [0..n -> Seq(S)] /\ \A i \in 1..n : h[i] = IF i = 1 THEN ss[i] ELSE h[i - 1] \o ss[i]
    <3>1. h \in [0..n -> Seq(S)] /\ \A i \in 1..n : h[i] = step[<<h[i - 1], i>>]
      BY <2>1 DEF Follows
    <3>2. \A i \in 1..n : <<h[i - 1], i>> \in Seq(S) \X (1..n)
      <4>1. \A i \in 1..n : i - 1 \in 0..n
        BY <2>a
      <4> QED BY <3>1, <4>1
    <3> QED BY <3>1, <3>2
  <2>3. \E f : Eq(f)
    <3> DEFINE f == [i \in 1..n |-> h[i]]
    <3>1. \A i \in 1..n : f[i] = IF i = 1 THEN ss[i] ELSE f[i-1] \o ss[i]
      <4>1. \A i \in 1..n : i # 1 => i - 1 \in 1..n
        BY <2>a
      <4>2. \A i \in 1..n : f[i] = h[i]
        OBVIOUS
      <4> HIDE DEF f, n
      <4>3. SUFFICES ASSUME NEW i \in 1..n PROVE f[i] = IF i = 1 THEN ss[i] ELSE f[i-1] \o ss[i]
        OBVIOUS
      <4>4. f[i] = h[i] /\ (i # 1 => f[i - 1] = h[i - 1])
        BY <4>1, <4>2
      <4> QED BY <2>2, <4>4
    <3>2. Eq(f)
      <4> DEFINE g == [i \in 1..n |-> IF i = 1 THEN ss[i] ELSE f[i-1] \o ss[i]]
      <4>1. \A i \in 1..n : f[i] = g[i]
        BY <3>1
      <4>2. f = [i \in 1..n |-> f[i]] /\ g = [i \in 1..n |-> g[i]]
        OBVIOUS
      <4> HIDE DEF f, g
      <4>3. f = g
        BY <4>1, <4>2
      <4> QED BY <4>3 DEF g
    <3> HIDE DEF f, Eq
    <3> QED BY <3>2
  <2>4. Eq(flat)
    <3> HIDE DEF Eq
    <3> QED BY <2>3
  <2>5. FlattenSeq(ss) = flat[n]
    BY <2>a DEF FlattenSeq
  <2> HIDE DEF flat
  <2>6. \A i \in 1..n : flat[i] = IF i = 1 THEN ss[i] ELSE flat[i-1] \o ss[i]
    BY <2>4
  <2> HIDE DEF n
  <2> DEFINE T == {m \in 0..n : m = 0 \/ (Joined(S, ss, m, flat[m]) /\ (Apart(ss) => Once(flat[m])))}
  <2>7. ASSUME NEW m \in 1..n, m - 1 \in T PROVE m \in T
    <3>1. CASE m = 1
      <4>1. flat[m] = ss[1] /\ ss[1] \in Seq(S)
        BY <3>1, <2>6, <2>a
      <4>2. \A i \in 1..m : i = 1
        BY <3>1
      <4>3. 1 \in 1..m /\ 1 \in DOMAIN ss /\ m \in 0..n
        BY <3>1, <2>a
      <4>4. Joined(S, ss, m, ss[1])
        BY <4>1, <4>2, <4>3 DEF Joined
      <4>5. Apart(ss) => Once(ss[1])
        BY <4>3 DEF Apart, Once
      <4> QED BY <4>1, <4>3, <4>4, <4>5
    <3>2. CASE m # 1
      <4> DEFINE a == flat[m - 1]  b == ss[m]
      <4>1. m - 1 \in 1..n /\ Joined(S, ss, m - 1, a) /\ (Apart(ss) => Once(a))
        BY <3>2, <2>7, <2>a
      <4>2. flat[m] = a \o b /\ a \in Seq(S) /\ b \in Seq(S)
        BY <4>1, <3>2, <2>6, <2>a DEF Joined
      <4> HIDE DEF a, b
      <4>3. /\ a \o b \in Seq(S) /\ DOMAIN (a \o b) = 1..(Len(a) + Len(b)) /\ DOMAIN a = 1..Len(a) /\ DOMAIN b = 1..Len(b)
            /\ Len(a) \in Nat /\ Len(b) \in Nat
            /\ \A k \in 1..(Len(a) + Len(b)) : (a \o b)[k] = IF k <= Len(a) THEN a[k] ELSE b[k - Len(a)]
        BY <4>2
      <4>4. \A k \in DOMAIN a : k \in DOMAIN (a \o b) /\ (a \o b)[k] = a[k]
        BY <4>3
      <4>5. \A k \in DOMAIN b : k + Len(a) \in DOMAIN (a \o b) /\ (a \o b)[k + Len(a)] = b[k]
        BY <4>3
      <4>6. \A k \in DOMAIN (a \o b) : \/ k \in DOMAIN a
                                       \/ k - Len(a) \in DOMAIN b /\ (a \o b)[k] = b[k - Len(a)] /\ k = (k - Len(a)) + Len(a)
        BY <4>3
      <4>c. m \in 1..n /\ n \in Nat /\ \A i \in 1..m : i = m \/ i \in 1..(m - 1)
        BY <2>a
      <4>7. Joined(S, ss, m, a \o b)
        <5>1. ASSUME NEW k \in DOMAIN (a \o b) PROVE \E i \in 1..m : \E j \in DOMAIN ss[i] : (a \o b)[k] = ss[i][j]
          <6>1. CASE k \in DOMAIN a
            <7>1. PICK i \in 1..(m - 1) : \E j \in DOMAIN ss[i] : a[k] = ss[i][j]
              BY <4>1, <6>1 DEF Joined
            <7>2. i \in 1..m
              BY <4>c
            <7> QED BY <7>1, <7>2, <4>4, <6>1
          <6>2. CASE k - Len(a) \in DOMAIN b /\ (a \o b)[k] = b[k - Len(a)]
            <7>1. m \in 1..m
              BY <4>c
            <7> QED BY <6>2, <7>1 DEF b
          <6> QED BY <6>1, <6>2, <4>6
        <5>2. ASSUME NEW i \in 1..m, NEW j \in DOMAIN ss[i] PROVE \E k \in DOMAIN (a \o b) : (a \o b)[k] = ss[i][j]
          <6>1. CASE i = m
            BY <6>1, <4>5 DEF b
          <6>2. CASE i \in 1..(m - 1)
            <7>1. PICK k \in DOMAIN a : a[k] = ss[i][j]
              BY <4>1, <6>2 DEF Joined
            <7> QED BY <7>1, <4>4
          <6> QED BY <6>1, <6>2, <4>c
        <5> QED BY <5>1, <5>2, <4>3 DEF Joined
      <4>8. ASSUME Apart(ss) PROVE Once(a \o b)
        <5>1. Once(a)
          BY <4>1, <4>8
        <5>2. ASSUME NEW k \in DOMAIN a, NEW l \in DOMAIN b PROVE a[k] # b[l]
          <6>1. PICK i \in 1..(m - 1) : \E j \in DOMAIN ss[i] : a[k] = ss[i][j]
            BY <4>1 DEF Joined
          <6>2. i # m /\ i \in DOMAIN ss /\ m \in DOMAIN ss
            BY <2>a, <4>c
          <6> QED BY <6>1, <6>2, <4>8 DEF Apart, b
        <5>3. \A k, l \in DOMAIN b : b[k] = b[l] => k = l
          <6>1. m \in DOMAIN ss
            BY <2>a
          <6> QED BY <4>8, <6>1 DEF Apart, b
        <5>4. SUFFICES ASSUME NEW k \in DOMAIN (a \o b), NEW l \in DOMAIN (a \o b), (a \o b)[k] = (a \o b)[l] PROVE k = l
          BY DEF Once
        <5>5. CASE k \in DOMAIN a /\ l \in DOMAIN a
          BY <5>1, <5>4, <5>5, <4>4 DEF Once
        <5>6. CASE k - Len(a) \in DOMAIN b /\ l - Len(a) \in DOMAIN b /\ (a \o b)[k] = b[k - Len(a)] /\ (a \o b)[l] = b[l - Len(a)]
          <6>1. k - Len(a) = l - Len(a)
            BY <5>3, <5>4, <5>6
          <6> QED BY <6>1, <4>3
        <5> QED BY <5>2, <5>4, <5>5, <5>6, <4>4, <4>6
      <4>9. m \in 0..n
        BY <2>a
      <4> QED BY <4>2, <4>7, <4>8, <4>9
    <3> QED BY <3>1, <3>2
  <2>8. n \in T
    <3>1. 0 \in T /\ n \in 0..n
      BY <2>a
    <3> HIDE DEF T
    <3> QED BY <2>a, <2>7, <3>1, RangeSet
  <2> QED BY <2>8, <2>5, <2>a DEF n
<1> QED BY <1>1, <1>2

-----------------------------------------------------------------------------
(* A broker as one of those of Brokers. *)
IsBroker(b) ==
    /\ b.made \in {"operator", "chart", "plain"} /\ b.tls \in {"no", "both", "only"}
    /\ b.twin \in BOOLEAN /\ b.named \in BOOLEAN
    /\ b.login \in {"secret", "value", "elsewhere", "plain", "unset"}
    /\ ByOperator(b) => ~b.twin /\ b.login = "secret"

(* The brokers of a name are such. *)
LEMMA BrokerIs == ASSUME NEW n, NEW b \in Brokers(n) PROVE IsBroker(b) /\ b.n = n
BY DEF Brokers, IsBroker, ByOperator

(* The hint that a broker's login is in its Secret. *)
HintAt(b, word, name) ==
    [kind |-> "secret", secret |-> <<b.n, "login">>, passwordKey |-> "pass", usernameKey |-> word, username |-> name]

-----------------------------------------------------------------------------
(* The Management port that is looked for: the one without TLS, if it listens. *)
Chosen(b) == IF 15672 \in Listens(b) THEN 15672 ELSE 15671

(* It is one that listens, with TLS only where nothing listens without. *)
LEMMA ChosenIs ==
    ASSUME NEW b, IsBroker(b)
    PROVE  /\ Listens(b) \subseteq {15672, 15671} /\ Chosen(b) \in Listens(b)
           /\ (Chosen(b) = 15671) = (b.tls = "only")
           /\ (15671 \in Listens(b)) = (b.tls # "no")
BY DEF IsBroker, Chosen, Listens

(* The ports of a Service, AMQP's first and then the chosen one. *)
LEMMA PortsAre ==
    ASSUME NEW b, IsBroker(b), NEW h \in BOOLEAN
    PROVE  LET ports == Service(b, h).ports
           IN /\ DOMAIN ports \subseteq Nat \ {0} /\ {1, 2} \subseteq DOMAIN ports
              /\ ports[1] = AmqpPort /\ ports[2] = ServicePort(b, Chosen(b))
              /\ \A i \in DOMAIN ports :
                    i # 1 => \E number \in Listens(b) : ports[i] = ServicePort(b, number) /\ (i # 2 => number # Chosen(b))
<1> DEFINE a == AmqpPort  p == ServicePort(b, 15672)  q == ServicePort(b, 15671)
           ports == Service(b, h).ports
<1>2. CASE b.tls = "no"
  <2>1. Listens(b) = {15672} /\ Chosen(b) = 15672
    BY <1>2 DEF Listens, Chosen
  <2>2. ports = <<a, p>>
    BY <1>2 DEF Service
  <2> HIDE DEF a, p, q, ports
  <2>3. DOMAIN ports = 1..2
    BY <2>2
  <2> QED BY <2>1, <2>2, <2>3 DEF a, p, q, ports
<1>3. CASE b.tls = "both"
  <2>1. Listens(b) = {15672, 15671} /\ Chosen(b) = 15672
    BY <1>3 DEF Listens, Chosen
  <2>2. ports = <<a, p, q>>
    BY <1>3 DEF Service
  <2> HIDE DEF a, p, q, ports
  <2>3. DOMAIN ports = 1..3
    BY <2>2
  <2> QED BY <2>1, <2>2, <2>3 DEF a, p, q, ports
<1>4. CASE b.tls = "only"
  <2>1. Listens(b) = {15671} /\ Chosen(b) = 15671
    BY <1>4 DEF Listens, Chosen
  <2>2. ports = <<a, q>>
    BY <1>4 DEF Service
  <2> HIDE DEF a, p, q, ports
  <2>3. DOMAIN ports = 1..2
    BY <2>2
  <2> QED BY <2>1, <2>2, <2>3 DEF a, p, q, ports
<1> QED BY <1>2, <1>3, <1>4 DEF IsBroker

(* The numbers, the words and the ports of a broker's ports are there. *)
LEMMA PortsArePresent ==
    ASSUME NEW b, Present(b)
    PROVE  /\ 5672 # None /\ 5671 # None
           /\ \A n \in {15672, 15671} : n # None /\ PortName(n) # None /\ ServicePort(b, n) # None /\ ContainerPort(n) # None
<1>1. \A n \in AmqpPorts \cup ManagementPorts : n # None
  BY DEF Present
<1>2. \A n \in ManagementPorts : PortName(n) # None /\ ServicePort(b, n) # None /\ ContainerPort(n) # None
  BY DEF Present
<1> QED BY <1>1, <1>2 DEF AmqpPorts, ManagementPorts

(* Its Services, its StatefulSet and how its certificate is checked are there. *)
LEMMA ObjectsArePresent ==
    ASSUME NEW b, Present(b)
    PROVE  /\ \A h \in BOOLEAN : Service(b, h) # None
           /\ StatefulSet(b) # None /\ Container(b) # None
           /\ [ca |-> None, rejectUnauthorized |-> FALSE] # None
<1>1. Service(b, TRUE) # None /\ Service(b, FALSE) # None
  BY DEF Present
<1>2. StatefulSet(b) # None /\ Container(b) # None
  BY DEF Present
<1>3. \A ca \in {TRUE, FALSE} : [ca |-> None, rejectUnauthorized |-> ca] # None
  BY DEF Present
<1>4. [ca |-> None, rejectUnauthorized |-> FALSE] # None
  BY <1>3
<1> QED BY <1>1, <1>2, <1>4

(* What a Service is to the one who sorts the Services. *)
Classified(b, h) == [service |-> Service(b, h), management |-> ServicePort(b, Chosen(b)), amqp |-> AmqpPort]

(* Every Service of a broker looks like RabbitMQ, and is known by its chosen port. *)
LEMMA ClassifyIs ==
    ASSUME NEW b, IsBroker(b), Present(b), NEW h \in BOOLEAN
    PROVE  ClassifyService(Service(b, h)) = Classified(b, h)
<1> DEFINE svc == Service(b, h)
           ports == svc.ports
           A == {i \in DOMAIN ports : {ports[i].port, ports[i].target} \cap AmqpPorts # {} \/ ports[i].name = "amqp"}
           amqp == FirstAt(ports, A)
           isNamed(p) == amqp # None /\ p.name \in {"management", "management-tls"} /\ svc.rabbit
           M == {i \in DOMAIN ports : {ports[i].port, ports[i].target} \cap ManagementPorts # {} \/ isNamed(ports[i])}
           management == FirstAt(ports, M)
<1>1. svc.rabbit /\ ~svc.operator
  BY DEF Service
<1>2. ClassifyService(svc) = IF svc.operator \/ management = None \/ (amqp = None /\ ~svc.rabbit) THEN None
                             ELSE [service |-> svc, management |-> management, amqp |-> amqp]
  BY DEF ClassifyService, First
<1>3. /\ DOMAIN ports \subseteq Nat \ {0} /\ {1, 2} \subseteq DOMAIN ports
      /\ ports[1] = AmqpPort /\ ports[2] = ServicePort(b, Chosen(b))
      /\ \A i \in DOMAIN ports : i # 1 => \E number \in Listens(b) : ports[i] = ServicePort(b, number)
  BY PortsAre
<1>4. Chosen(b) \in {15672, 15671} /\ Listens(b) \subseteq {15672, 15671}
  BY ChosenIs
<1>5. AmqpPort.port = 5672 /\ AmqpPort.target = 5672 /\ AmqpPort.name = "amqp"
  BY DEF AmqpPort
<1>6. ASSUME NEW number \in {15672, 15671}
      PROVE  /\ ServicePort(b, number).port = number /\ ServicePort(b, number).target \in {None, number}
             /\ ServicePort(b, number).name \in {"management", "management-tls"}
  BY DEF ServicePort, PortName
<1> HIDE DEF svc, ports
<1>7. amqp = AmqpPort
  <2>1. A \subseteq Nat /\ 1 \in A
    BY <1>3, <1>5 DEF AmqpPorts
  <2>2. \A i \in A : ports[i] = AmqpPort
    <3> SUFFICES ASSUME NEW i \in A, i # 1 PROVE FALSE
      BY <1>3
    <3>1. PICK number \in Listens(b) : ports[i] = ServicePort(b, number)
      BY <1>3
    <3>2. number \in {15672, 15671}
      BY <1>4, <3>1
    <3>3. ports[i].port = number /\ ports[i].target \in {None, number} /\ ports[i].name # "amqp"
      BY <3>1, <3>2, <1>6
    <3> QED BY <3>2, <3>3, PortsArePresent DEF AmqpPorts
  <2> HIDE DEF A
  <2> QED BY <2>1, <2>2, OnlyOne
<1>8. management = ServicePort(b, Chosen(b))
  <2>1. 1 \notin M
    BY <1>3, <1>5 DEF ManagementPorts
  <2>2. 2 \in M
    <3>1. ports[2].port = Chosen(b) /\ 2 \in DOMAIN ports
      BY <1>3, <1>4, <1>6
    <3>a. Chosen(b) \in ManagementPorts
      BY <1>4 DEF ManagementPorts
    <3>2. Chosen(b) \in {ports[2].port, ports[2].target} \cap ManagementPorts
      BY <3>1, <3>a
    <3> QED BY <3>1, <3>2
  <2>3. M \subseteq Nat \ {0, 1}
    BY <1>3, <2>1
  <2> HIDE DEF M
  <2>4. management = ports[2]
    BY <2>2, <2>3, SecondOne
  <2> QED BY <2>4, <1>3
<1>9. ServicePort(b, Chosen(b)) # None
  BY <1>4, PortsArePresent
<1> QED BY <1>1, <1>2, <1>7, <1>8, <1>9 DEF Classified, svc

-----------------------------------------------------------------------------
(* The number shown for a RabbitmqCluster resource's Management port. *)
LEMMA NumberIs ==
    ASSUME NEW b, IsBroker(b), Present(b)
    PROVE  LET tls == b.tls = "only"
           IN PortNumber(Service(b, FALSE), IF tls THEN "management-tls" ELSE "management", tls) = Chosen(b)
<1> DEFINE svc == Service(b, FALSE)
           ports == svc.ports
           kind == IF b.tls = "only" THEN "management-tls" ELSE "management"
           H == {i \in DOMAIN ports : ports[i].name = kind /\ ports[i].port # None}
<1>1. svc # None
  <2>1. \A h \in BOOLEAN : Service(b, h) # None
    BY ObjectsArePresent
  <2> QED BY <2>1
<1>2. /\ DOMAIN ports \subseteq Nat \ {0} /\ {1, 2} \subseteq DOMAIN ports
      /\ ports[1] = AmqpPort /\ ports[2] = ServicePort(b, Chosen(b))
  BY PortsAre
<1>3. kind = PortName(Chosen(b)) /\ Chosen(b) \in {15672, 15671} /\ kind # "amqp"
  BY ChosenIs DEF PortName
<1>4. AmqpPort.name = "amqp" /\ \A n \in {15672, 15671} : ServicePort(b, n).port = n /\ ServicePort(b, n).name = PortName(n)
  BY DEF AmqpPort, ServicePort
<1>5. \A n \in {15672, 15671} : ServicePort(b, n) # None /\ n # None
  BY PortsArePresent
<1>6. PortNumber(svc, kind, b.tls = "only") =
         LET byName == FirstAt(ports, H)
             byNumber == FirstAt(ports, {i \in DOMAIN ports : ports[i].port \in ManagementPorts})
         IN IF byName # None THEN byName.port ELSE IF byNumber # None THEN byNumber.port ELSE DefaultPort(b.tls = "only")
  BY <1>1 DEF PortNumber, First
<1> HIDE DEF svc, ports, kind
<1>7. FirstAt(ports, H) = ServicePort(b, Chosen(b))
  <2>1. 2 \in H /\ 1 \notin H
    BY <1>2, <1>3, <1>4, <1>5
  <2>2. H \subseteq Nat \ {0, 1}
    BY <1>2, <2>1
  <2> HIDE DEF H
  <2> QED BY <2>1, <2>2, SecondOne, <1>2
<1> HIDE DEF H
<1>8. PortNumber(svc, kind, b.tls = "only") = Chosen(b)
  BY <1>3, <1>4, <1>5, <1>6, <1>7
<1> QED BY <1>8 DEF svc, kind

(* A login where a container says it is. *)
HintIs(h, b) ==
    CASE b.login = "secret" -> h = HintAt(b, "user", None)
      [] b.login = "value" -> h = HintAt(b, None, User(b))
      [] b.login = "elsewhere" -> h = HintAt(b, None, None)
      [] b.login = "plain" -> h = [kind |-> "guess", username |-> User(b)]
      [] b.login = "unset" -> h = None

(* The StatefulSet of a broker tells of its login what its second container says of it. *)
LEMMA HintOfWorkload ==
    ASSUME NEW b, IsBroker(b), Present(b) PROVE HintIs(HintFromWorkload(StatefulSet(b)), b)
<1> DEFINE w == StatefulSet(b)
           k == Container(b)
           Says(c) == c.password # None /\ (c.password.secret # None \/ (c.user # None /\ c.user.value # None))
           H == {i \in DOMAIN w.containers : Says(w.containers[i])}
           hint(c) ==
               LET userRef == IF c.user = None THEN None ELSE c.user.secret
                   userValue == IF c.user = None THEN None ELSE c.user.value
               IN IF c = None THEN None
                  ELSE IF c.password.secret = None THEN [kind |-> "guess", username |-> userValue]
                  ELSE [kind |-> "secret", secret |-> c.password.secret, passwordKey |-> c.password.key,
                        usernameKey |-> IF userRef # None /\ userRef = c.password.secret THEN c.user.key ELSE None,
                        username |-> IF userValue # None THEN userValue ELSE IF userRef # None THEN None ELSE "guest"]
<1>1. w.containers = <<Sidecar, k>>
  BY DEF StatefulSet
<1>2. HintFromWorkload(w) = hint(FirstAt(w.containers, H))
  BY DEF HintFromWorkload, First
<1>3. DOMAIN w.containers = {1, 2} /\ w.containers[1] = Sidecar /\ w.containers[2] = k
  <2> HIDE DEF w, k
  <2>1. DOMAIN w.containers = 1..2
    BY <1>1
  <2> QED BY <1>1, <2>1
<1>4. ~Says(Sidecar)
  BY DEF Sidecar
<1>5. /\ k # None /\ <<b.n, "login">> # None /\ <<b.n, "other">> # None /\ User(b) # None
      /\ \A s \in {<<b.n, "login">>, <<b.n, "other">>}, word \in {"user", "pass"} : Variable(s, word, None) # None
      /\ \A v \in {User(b), Password(b)} : Variable(None, None, v) # None
  BY DEF Present
<1>6. \A s, word, v : Variable(s, word, v).secret = s /\ Variable(s, word, v).key = word /\ Variable(s, word, v).value = v
  BY DEF Variable
<1>7. /\ k.user = CASE b.login = "unset" -> None
                    [] b.login = "secret" -> Variable(<<b.n, "login">>, "user", None)
                    [] b.login = "elsewhere" -> Variable(<<b.n, "other">>, "user", None)
                    [] OTHER -> Variable(None, None, User(b))
      /\ k.password = CASE b.login = "unset" -> None
                        [] b.login = "plain" -> Variable(None, None, Password(b))
                        [] OTHER -> Variable(<<b.n, "login">>, "pass", None)
  BY DEF Container
<1> HIDE DEF w, k
<1>8. FirstAt(w.containers, H) = IF Says(k) THEN k ELSE None
  <2>1. CASE Says(k)
    <3>1. 2 \in H /\ H \subseteq Nat \ {0, 1}
      BY <1>3, <1>4, <2>1
    <3> HIDE DEF H
    <3> QED BY <2>1, <3>1, <1>3, SecondOne
  <2>2. CASE ~Says(k)
    <3>1. H = {}
      BY <1>3, <1>4, <2>2
    <3> HIDE DEF H
    <3> QED BY <2>2, <3>1 DEF FirstAt
  <2> QED BY <2>1, <2>2
<1> HIDE DEF H
<1>9. CASE b.login = "secret"
  <2>1. k.user = Variable(<<b.n, "login">>, "user", None) /\ k.password = Variable(<<b.n, "login">>, "pass", None)
    BY <1>7, <1>9
  <2>2. k.user # None /\ k.password # None
    BY <2>1, <1>5
  <2>3. Says(k)
    BY <2>1, <2>2, <1>5, <1>6
  <2> QED BY <1>9, <2>1, <2>2, <2>3, <1>2, <1>5, <1>6, <1>8 DEF HintIs, HintAt, w
<1>10. CASE b.login = "value"
  <2>1. k.user = Variable(None, None, User(b)) /\ k.password = Variable(<<b.n, "login">>, "pass", None)
    BY <1>7, <1>10
  <2>2. k.user # None /\ k.password # None
    BY <2>1, <1>5
  <2>3. Says(k)
    BY <2>1, <2>2, <1>5, <1>6
  <2> QED BY <1>10, <2>1, <2>2, <2>3, <1>2, <1>5, <1>6, <1>8 DEF HintIs, HintAt, w
<1>11. CASE b.login = "elsewhere"
  <2>1. k.user = Variable(<<b.n, "other">>, "user", None) /\ k.password = Variable(<<b.n, "login">>, "pass", None)
    BY <1>7, <1>11
  <2>2. k.user # None /\ k.password # None
    BY <2>1, <1>5
  <2>3. Says(k)
    BY <2>1, <2>2, <1>5, <1>6
  <2>4. <<b.n, "other">> # <<b.n, "login">>
    OBVIOUS
  <2> QED BY <1>11, <2>1, <2>2, <2>3, <2>4, <1>2, <1>5, <1>6, <1>8 DEF HintIs, HintAt, w
<1>12. CASE b.login = "plain"
  <2>1. k.user = Variable(None, None, User(b)) /\ k.password = Variable(None, None, Password(b))
    BY <1>7, <1>12
  <2>2. k.user # None /\ k.password # None
    BY <2>1, <1>5
  <2>3. Says(k)
    BY <2>1, <2>2, <1>5, <1>6
  <2> QED BY <1>12, <2>1, <2>2, <2>3, <1>2, <1>5, <1>6, <1>8 DEF HintIs, HintAt, w
<1>13. CASE b.login = "unset"
  <2>1. k.password = None
    BY <1>7, <1>13
  <2>2. ~Says(k)
    BY <2>1
  <2> QED BY <1>13, <2>2, <1>2, <1>8 DEF HintIs, HintAt, w
<1> QED BY <1>9, <1>10, <1>11, <1>12, <1>13 DEF IsBroker

-----------------------------------------------------------------------------
(* Brokers of different names, each one with its objects. *)
Deployed(brokers) ==
    /\ \A i \in DOMAIN brokers : IsBroker(brokers[i]) /\ Present(brokers[i])
    /\ \A i, j \in DOMAIN brokers : brokers[i].n = brokers[j].n => i = j

(* The resources of a cluster: one of each broker that the operator made. *)
ResourcesAre(crs, brokers) ==
    /\ \E S : crs \in Seq(S)
    /\ Once(crs)
    /\ \A i \in DOMAIN crs : \E b \in ToSet(brokers) : ByOperator(b) /\ crs[i] = Resource(b)
    /\ \A b \in ToSet(brokers) : ByOperator(b) => \E i \in DOMAIN crs : crs[i] = Resource(b)
(* Its Services: each of a broker, and a client Service of every broker. *)
ServicesAre(services, brokers) ==
    /\ \E S : services \in Seq(S)
    /\ \A i \in DOMAIN services : \E b \in ToSet(brokers) : services[i] \in {Service(b, TRUE), Service(b, FALSE)}
    /\ \A b \in ToSet(brokers) : \E i \in DOMAIN services : services[i] = Service(b, FALSE)
(* Its StatefulSets: one of each broker that the operator did not make. *)
WorkloadsAre(sets, brokers) ==
    /\ \E S : sets \in Seq(S)
    /\ \A i \in DOMAIN sets : \E b \in ToSet(brokers) : ~ByOperator(b) /\ sets[i] = StatefulSet(b)
    /\ \A b \in ToSet(brokers) : ~ByOperator(b) => \E i \in DOMAIN sets : sets[i] = StatefulSet(b)

(* The resources of the cluster of some brokers. *)
LEMMA ResourcesFound ==
    ASSUME NEW S, NEW brokers \in Seq(S), Deployed(brokers)
    PROVE  ResourcesAre(Resources(Cluster(brokers)), brokers)
<1> DEFINE R == {Resource(brokers[i]) : i \in DOMAIN brokers}
           ss == [i \in DOMAIN brokers |-> IF ByOperator(brokers[i]) THEN <<Resource(brokers[i])>> ELSE <<>>]
           crs == FlattenSeq(ss)
           c == Cluster(brokers)
<1>1. c.crs = crs /\ c.operator = (\E i \in DOMAIN brokers : ByOperator(brokers[i]))
  BY DEF Cluster, Flatten
<1>2. DOMAIN brokers = 1..Len(brokers) /\ Len(brokers) \in Nat
  OBVIOUS
<1>3. ss \in Seq(Seq(R)) /\ Len(ss) = Len(brokers) /\ DOMAIN ss = DOMAIN brokers
  <2>1. ASSUME NEW i \in DOMAIN brokers PROVE ss[i] \in Seq(R)
    <3> DEFINE x == Resource(brokers[i])
    <3>1. x \in R /\ ss[i] = IF ByOperator(brokers[i]) THEN <<x>> ELSE <<>>
      OBVIOUS
    <3> HIDE DEF x, R, ss
    <3> QED BY <3>1
  <2>2. ss \in [1..Len(brokers) -> Seq(R)]
    BY <1>2, <2>1
  <2> HIDE DEF ss, R
  <2> QED BY <1>2, <2>2
<1>4. Joined(R, ss, Len(ss), crs) /\ (Apart(ss) => Once(crs))
  <2> HIDE DEF ss, R
  <2> QED BY <1>3, FlattenIs
<1>5. \A i \in DOMAIN ss : \A k \in DOMAIN ss[i] : k = 1 /\ ByOperator(brokers[i]) /\ ss[i][k] = Resource(brokers[i])
  OBVIOUS
<1>6. \A i \in DOMAIN brokers : ByOperator(brokers[i]) => 1 \in DOMAIN ss[i] /\ ss[i][1] = Resource(brokers[i])
  OBVIOUS
<1> HIDE DEF ss, crs, R
<1>7. Apart(ss)
  <2>1. \A b : Resource(b).name = b.n
    BY DEF Resource
  <2>2. SUFFICES ASSUME NEW i \in DOMAIN ss, NEW j \in DOMAIN ss, NEW k \in DOMAIN ss[i], NEW l \in DOMAIN ss[j], ss[i][k] = ss[j][l]
                 PROVE  i = j /\ k = l
    BY DEF Apart
  <2>3. brokers[i].n = brokers[j].n
    BY <1>5, <2>1, <2>2
  <2> QED BY <1>3, <1>5, <2>3 DEF Deployed
<1>8. ResourcesAre(crs, brokers)
  <2>1. crs \in Seq(R) /\ Once(crs)
    BY <1>4, <1>7 DEF Joined
  <2>2. \A i \in DOMAIN crs : \E b \in ToSet(brokers) : ByOperator(b) /\ crs[i] = Resource(b)
    <3> SUFFICES ASSUME NEW i \in DOMAIN crs PROVE \E b \in ToSet(brokers) : ByOperator(b) /\ crs[i] = Resource(b)
      OBVIOUS
    <3>1. PICK j \in DOMAIN ss : \E k \in DOMAIN ss[j] : crs[i] = ss[j][k]
      BY <1>2, <1>3, <1>4 DEF Joined
    <3>2. ByOperator(brokers[j]) /\ crs[i] = Resource(brokers[j])
      BY <1>5, <3>1
    <3> QED BY <3>2, <1>3 DEF ToSet
  <2>3. \A b \in ToSet(brokers) : ByOperator(b) => \E i \in DOMAIN crs : crs[i] = Resource(b)
    <3> SUFFICES ASSUME NEW j \in DOMAIN brokers, ByOperator(brokers[j]) PROVE \E i \in DOMAIN crs : crs[i] = Resource(brokers[j])
      BY DEF ToSet
    <3> QED BY <1>2, <1>3, <1>4, <1>6 DEF Joined
  <2> QED BY <2>1, <2>2, <2>3 DEF ResourcesAre
<1>9. CASE c.operator
  BY <1>1, <1>8, <1>9 DEF Resources
<1>10. CASE ~c.operator
  <2>1. Resources(c) = <<>>
    BY <1>10 DEF Resources
  <2>2. \A b \in ToSet(brokers) : ~ByOperator(b)
    BY <1>1, <1>10 DEF ToSet
  <2> QED BY <2>1, <2>2 DEF ResourcesAre, Once
<1> QED BY <1>9, <1>10

(* The Services of the cluster of some brokers. *)
LEMMA ServicesFound ==
    ASSUME NEW S, NEW brokers \in Seq(S)
    PROVE  ServicesAre(Cluster(brokers).services, brokers)
<1> DEFINE R == UNION {{Service(b, TRUE), Service(b, FALSE)} : b \in ToSet(brokers)}
           of(b) == (IF b.twin THEN <<Service(b, TRUE)>> ELSE <<>>) \o <<Service(b, FALSE)>>
           ss == [i \in DOMAIN brokers |-> of(brokers[i])]
           services == FlattenSeq(ss)
<1>1. Cluster(brokers).services = services
  BY DEF Cluster, Flatten
<1>2. DOMAIN brokers = 1..Len(brokers) /\ Len(brokers) \in Nat
  OBVIOUS
<1>3. ASSUME NEW i \in DOMAIN brokers
      PROVE  /\ ss[i] \in Seq(R)
             /\ \A k \in DOMAIN ss[i] : ss[i][k] \in {Service(brokers[i], TRUE), Service(brokers[i], FALSE)}
             /\ \E k \in DOMAIN ss[i] : ss[i][k] = Service(brokers[i], FALSE)
  <2> DEFINE x == Service(brokers[i], TRUE)  y == Service(brokers[i], FALSE)
  <2>1. x \in R /\ y \in R
    <3>1. brokers[i] \in ToSet(brokers)
      BY DEF ToSet
    <3>2. {x, y} \in {{Service(b, TRUE), Service(b, FALSE)} : b \in ToSet(brokers)}
      BY <3>1
    <3> HIDE DEF x, y
    <3> QED BY <3>2
  <2>2. ss[i] = (IF brokers[i].twin THEN <<x>> ELSE <<>>) \o <<y>>
    OBVIOUS
  <2> HIDE DEF R, ss, x, y
  <2>3. CASE brokers[i].twin
    <3>1. ss[i] = <<x>> \o <<y>> /\ <<x>> \in Seq(R) /\ <<y>> \in Seq(R)
      BY <2>1, <2>2, <2>3
    <3>2. ss[i] \in Seq(R) /\ DOMAIN ss[i] = 1..2 /\ ss[i][1] = x /\ ss[i][2] = y
      BY <3>1
    <3>3. 1..2 = {1, 2}
      OBVIOUS
    <3> QED BY <3>2, <3>3 DEF x, y
  <2>4. CASE ~brokers[i].twin
    <3>1. ss[i] = <<>> \o <<y>> /\ <<y>> \in Seq(R)
      BY <2>1, <2>2, <2>4
    <3>2. ss[i] \in Seq(R) /\ DOMAIN ss[i] = 1..1 /\ ss[i][1] = y
      BY <3>1
    <3>3. 1..1 = {1}
      OBVIOUS
    <3> QED BY <3>2, <3>3 DEF y
  <2> QED BY <2>3, <2>4
<1>4. ss \in Seq(Seq(R)) /\ Len(ss) = Len(brokers) /\ DOMAIN ss = DOMAIN brokers
  <2>1. DOMAIN ss = DOMAIN brokers /\ ss = [i \in DOMAIN ss |-> ss[i]]
    OBVIOUS
  <2> HIDE DEF ss, R
  <2>2. ss \in [1..Len(brokers) -> Seq(R)]
    BY <1>2, <1>3, <2>1
  <2> QED BY <1>2, <2>2
<1> HIDE DEF ss, R, of
<1>5. Joined(R, ss, Len(ss), services)
  BY <1>4, FlattenIs
<1> HIDE DEF services
<1>6. services \in Seq(R)
  BY <1>5 DEF Joined
<1>7. \A i \in DOMAIN services : \E b \in ToSet(brokers) : services[i] \in {Service(b, TRUE), Service(b, FALSE)}
  <2> SUFFICES ASSUME NEW i \in DOMAIN services
               PROVE  \E b \in ToSet(brokers) : services[i] \in {Service(b, TRUE), Service(b, FALSE)}
    OBVIOUS
  <2>1. PICK j \in DOMAIN ss : \E k \in DOMAIN ss[j] : services[i] = ss[j][k]
    BY <1>2, <1>4, <1>5 DEF Joined
  <2>2. services[i] \in {Service(brokers[j], TRUE), Service(brokers[j], FALSE)}
    BY <1>3, <1>4, <2>1
  <2>3. brokers[j] \in ToSet(brokers)
    BY <1>4 DEF ToSet
  <2> QED BY <2>2, <2>3
<1>8. \A b \in ToSet(brokers) : \E i \in DOMAIN services : services[i] = Service(b, FALSE)
  <2> SUFFICES ASSUME NEW j \in DOMAIN brokers PROVE \E i \in DOMAIN services : services[i] = Service(brokers[j], FALSE)
    BY DEF ToSet
  <2>1. PICK k \in DOMAIN ss[j] : ss[j][k] = Service(brokers[j], FALSE)
    BY <1>3
  <2>2. j \in 1..Len(ss)
    BY <1>2, <1>4
  <2>3. \E i \in DOMAIN services : services[i] = ss[j][k]
    BY <1>5, <2>1, <2>2 DEF Joined
  <2> QED BY <2>1, <2>3
<1> QED BY <1>1, <1>6, <1>7, <1>8 DEF ServicesAre

(* The StatefulSets of the cluster of some brokers. *)
LEMMA WorkloadsFound ==
    ASSUME NEW S, NEW brokers \in Seq(S)
    PROVE  WorkloadsAre(Cluster(brokers).deployments \o Cluster(brokers).statefulSets, brokers)
<1> DEFINE R == {StatefulSet(brokers[i]) : i \in DOMAIN brokers}
           ss == [i \in DOMAIN brokers |-> IF ByOperator(brokers[i]) THEN <<>> ELSE <<StatefulSet(brokers[i])>>]
           sets == FlattenSeq(ss)
<1>1. Cluster(brokers).statefulSets = sets /\ Cluster(brokers).deployments = <<>>
  BY DEF Cluster, Flatten
<1>2. DOMAIN brokers = 1..Len(brokers) /\ Len(brokers) \in Nat
  OBVIOUS
<1>3. ss \in Seq(Seq(R)) /\ Len(ss) = Len(brokers) /\ DOMAIN ss = DOMAIN brokers
  <2>1. ASSUME NEW i \in DOMAIN brokers PROVE ss[i] \in Seq(R)
    <3> DEFINE x == StatefulSet(brokers[i])
    <3>1. x \in R /\ ss[i] = IF ByOperator(brokers[i]) THEN <<>> ELSE <<x>>
      OBVIOUS
    <3> HIDE DEF x, R, ss
    <3> QED BY <3>1
  <2>2. ss \in [1..Len(brokers) -> Seq(R)]
    BY <1>2, <2>1
  <2> HIDE DEF ss, R
  <2> QED BY <1>2, <2>2
<1>5. \A i \in DOMAIN ss : \A k \in DOMAIN ss[i] : ~ByOperator(brokers[i]) /\ ss[i][k] = StatefulSet(brokers[i])
  OBVIOUS
<1>6. \A i \in DOMAIN brokers : ~ByOperator(brokers[i]) => 1 \in DOMAIN ss[i] /\ ss[i][1] = StatefulSet(brokers[i])
  OBVIOUS
<1> HIDE DEF ss, R
<1>4. Joined(R, ss, Len(ss), sets)
  BY <1>3, FlattenIs
<1> HIDE DEF sets
<1>7. sets \in Seq(R)
  BY <1>4 DEF Joined
<1>8. Cluster(brokers).deployments \o Cluster(brokers).statefulSets = sets
  BY <1>1, <1>7
<1>9. \A i \in DOMAIN sets : \E b \in ToSet(brokers) : ~ByOperator(b) /\ sets[i] = StatefulSet(b)
  <2> SUFFICES ASSUME NEW i \in DOMAIN sets PROVE \E b \in ToSet(brokers) : ~ByOperator(b) /\ sets[i] = StatefulSet(b)
    OBVIOUS
  <2>1. PICK j \in DOMAIN ss : \E k \in DOMAIN ss[j] : sets[i] = ss[j][k]
    BY <1>2, <1>3, <1>4 DEF Joined
  <2>2. ~ByOperator(brokers[j]) /\ sets[i] = StatefulSet(brokers[j])
    BY <1>5, <2>1
  <2> QED BY <2>2, <1>3 DEF ToSet
<1>10. \A b \in ToSet(brokers) : ~ByOperator(b) => \E i \in DOMAIN sets : sets[i] = StatefulSet(b)
  <2> SUFFICES ASSUME NEW j \in DOMAIN brokers, ~ByOperator(brokers[j]) PROVE \E i \in DOMAIN sets : sets[i] = StatefulSet(brokers[j])
    BY DEF ToSet
  <2> QED BY <1>2, <1>3, <1>4, <1>6 DEF Joined
<1> QED BY <1>7, <1>8, <1>9, <1>10 DEF WorkloadsAre

-----------------------------------------------------------------------------
(* What the target of a broker says. *)
TargetIs(t, b) ==
    /\ t.namespace = "ns" /\ t.selector = Selector(b) /\ t.ca = None
    /\ t.tls = (b.tls = "only") /\ t.portNumber = Chosen(b)
    /\ t.managementPort \in {[number |-> None, name |-> PortName(Chosen(b))], [number |-> Chosen(b), name |-> None]}
    /\ t.source = (IF ByOperator(b) THEN "operator" ELSE "service")
    /\ IF ByOperator(b) THEN t.hint = [kind |-> "operator-default-user", secret |-> <<b.n, "default-user">>]
       ELSE IF b.login = "unset" THEN t.hint = [kind |-> "guess", username |-> "guest"] ELSE HintIs(t.hint, b)

(* Two brokers have the same selector when they have the same name. *)
LEMMA SelectorsDiffer == ASSUME NEW a, NEW b PROVE (Selector(a) = Selector(b)) = (a.n = b.n)
<1>1. \A x : DOMAIN Selector(x) = {NameLabel} /\ Selector(x)[NameLabel] = x.n
  BY DEF Selector
<1>2. Selector(a) = Selector(b) => a.n = b.n
  BY <1>1
<1>3. a.n = b.n => Selector(a) = Selector(b)
  BY DEF Selector
<1> QED BY <1>2, <1>3

(* The objects of a broker carry its labels, and no other broker's. *)
LEMMA MatchesOwn ==
    ASSUME NEW w, NEW a, NEW b, w.labels = Selector(a)
    PROVE  WorkloadMatches(w, Selector(b)) = (a.n = b.n)
<1>1. \A x : DOMAIN Selector(x) = {NameLabel} /\ Selector(x)[NameLabel] = x.n
  BY DEF Selector
<1> QED BY <1>1 DEF WorkloadMatches

(* Brokers are told apart by their names. *)
LEMMA SameBroker ==
    ASSUME NEW brokers, Deployed(brokers), NEW a \in ToSet(brokers), NEW b \in ToSet(brokers), a.n = b.n
    PROVE  a = b
BY DEF Deployed, ToSet

(* A broker of the list. *)
LEMMA OneOfThem ==
    ASSUME NEW brokers, Deployed(brokers), NEW b \in ToSet(brokers) PROVE IsBroker(b) /\ Present(b)
BY DEF Deployed, ToSet

(* A Service of a broker. *)
LEMMA ServiceIs ==
    ASSUME NEW b
    PROVE  /\ \A h \in BOOLEAN : LET svc == Service(b, h)
                                IN /\ svc.namespace = "ns" /\ svc.selector = Selector(b) /\ svc.labels = Selector(b)
                                   /\ svc.release = None /\ svc.partOf = ByOperator(b) /\ svc.headless = h
           /\ Service(b, FALSE).name = <<b.n, "">> /\ Service(b, TRUE).name = <<b.n, "-headless">>
<1>1. \A h \in BOOLEAN : Service(b, h).name = ServiceName(b, h)
  BY DEF Service
<1>2. ServiceName(b, FALSE) = <<b.n, "">> /\ ServiceName(b, TRUE) = <<b.n, "-headless">>
  BY DEF ServiceName
<1>3. ASSUME NEW h \in BOOLEAN
      PROVE  LET svc == Service(b, h)
             IN /\ svc.namespace = "ns" /\ svc.selector = Selector(b) /\ svc.labels = Selector(b)
                /\ svc.release = None /\ svc.partOf = ByOperator(b) /\ svc.headless = h
  BY DEF Service, ByOperator
<1> QED BY <1>1, <1>2, <1>3

(* The target of a resource. *)
LEMMA ResourceTarget ==
    ASSUME NEW brokers, Deployed(brokers), NEW services, ServicesAre(services, brokers),
           NEW b \in ToSet(brokers), ByOperator(b)
    PROVE  TargetIs(ParseRabbitmqCluster(Resource(b), services), b)
<1> DEFINE cr == Resource(b)
           H == {i \in DOMAIN services : services[i].namespace = cr.namespace /\ services[i].name = <<cr.name, "">>}
           kind == IF b.tls = "only" THEN "management-tls" ELSE "management"
<1>0. IsBroker(b) /\ Present(b)
  BY OneOfThem
<1>1. /\ cr.name = b.n /\ cr.namespace = "ns" /\ cr.defaultUser = None /\ cr.ca = None
      /\ (cr.tls /\ cr.nonTlsDisabled) = (b.tls = "only")
  BY DEF Resource
<1>2. FirstAt(services, H) = Service(b, FALSE)
  <2>1. ASSUME NEW a
        PROVE  /\ Service(a, FALSE).name = <<a.n, "">> /\ Service(a, TRUE).name = <<a.n, "-headless">>
               /\ Service(a, FALSE).namespace = "ns" /\ Service(a, TRUE).namespace = "ns"
    BY ServiceIs
  <2>2. PICK i \in DOMAIN services : services[i] = Service(b, FALSE)
    BY DEF ServicesAre
  <2>3. i \in H
    BY <2>1, <2>2, <1>1
  <2>4. ASSUME NEW j \in H PROVE services[j] = Service(b, FALSE)
    <3>1. PICK a \in ToSet(brokers) : services[j] \in {Service(a, TRUE), Service(a, FALSE)}
      BY DEF ServicesAre
    <3>2. services[j].name = <<b.n, "">>
      BY <2>4, <1>1
    <3>a. <<a.n, "-headless">> # <<b.n, "">> /\ (<<a.n, "">> = <<b.n, "">> => a.n = b.n)
      OBVIOUS
    <3>3. services[j] = Service(a, FALSE) /\ a.n = b.n
      BY <2>1, <3>1, <3>2, <3>a
    <3> QED BY <3>3, SameBroker
  <2>5. H \subseteq Nat
    <3>1. PICK S : services \in Seq(S)
      BY DEF ServicesAre
    <3>2. DOMAIN services \subseteq Nat
      BY <3>1
    <3> QED BY <3>2
  <2> HIDE DEF H
  <2> QED BY <2>3, <2>4, <2>5, OnlyOne
<1>3. Service(b, FALSE) # None
  <2>1. \A h \in BOOLEAN : Service(b, h) # None
    BY <1>0 DEF Present
  <2> QED BY <2>1
<1>4. ClientService(cr, services) = Service(b, FALSE)
  <2>1. ClientService(cr, services) =
          Or(FirstAt(services, H), FirstAt(services, {i \in DOMAIN services : services[i].namespace = cr.namespace /\
                                                                 services[i].name = <<cr.name, "-client">>}))
    BY DEF ClientService, First
  <2> HIDE DEF H, cr
  <2> QED BY <2>1, <1>2, <1>3 DEF Or
<1>5. PortNumber(Service(b, FALSE), kind, b.tls = "only") = Chosen(b)
  BY <1>0, NumberIs
<1>6. kind = PortName(Chosen(b))
  BY <1>0, ChosenIs DEF PortName
<1> DEFINE t == ParseRabbitmqCluster(cr, services)
<1>7. /\ t.namespace = cr.namespace /\ t.source = "operator" /\ t.selector = [l \in {NameLabel} |-> cr.name]
      /\ t.managementPort = [number |-> None, name |-> IF cr.tls /\ cr.nonTlsDisabled THEN "management-tls" ELSE "management"]
      /\ t.portNumber = PortNumber(ClientService(cr, services),
                                   IF cr.tls /\ cr.nonTlsDisabled THEN "management-tls" ELSE "management", cr.tls /\ cr.nonTlsDisabled)
      /\ t.tls = (cr.tls /\ cr.nonTlsDisabled)
      /\ t.hint = [kind |-> "operator-default-user", secret |-> Or(cr.defaultUser, <<cr.name, "default-user">>)]
      /\ t.ca = cr.ca
  BY DEF ParseRabbitmqCluster
<1> HIDE DEF t, cr
<1>8. t.managementPort = [number |-> None, name |-> kind] /\ t.portNumber = Chosen(b) /\ t.tls = (b.tls = "only")
  BY <1>1, <1>4, <1>5, <1>7
<1>9. t.selector = Selector(b) /\ t.namespace = "ns" /\ t.ca = None /\ t.source = "operator"
  BY <1>1, <1>7 DEF Selector
<1>10. t.hint = [kind |-> "operator-default-user", secret |-> <<b.n, "default-user">>]
  BY <1>1, <1>7 DEF Or
<1> QED BY <1>6, <1>8, <1>9, <1>10 DEF TargetIs, t, cr

(* The target of a Service that is not the operator's. *)
LEMMA ServiceTarget ==
    ASSUME NEW brokers, Deployed(brokers), NEW workloads, WorkloadsAre(workloads, brokers),
           NEW b \in ToSet(brokers), ~ByOperator(b)
    PROVE  /\ TargetIs(ParseServiceTarget(Classified(b, FALSE), workloads), b)
           /\ ParseServiceTarget(Classified(b, FALSE), workloads) \in TargetsOf(b)
<1> DEFINE svc == Service(b, FALSE)
           port == ServicePort(b, Chosen(b))
           H == {i \in DOMAIN workloads : workloads[i].namespace = svc.namespace /\ WorkloadMatches(workloads[i], svc.selector)}
           c == Classified(b, FALSE)
           t == ParseServiceTarget(c, workloads)
           tls == 15671 \in {port.port, port.target} \/ port.name = "management-tls"
           owner == FirstAt(workloads, H)
           hint == IF owner = None THEN None ELSE HintFromWorkload(owner)
<1>0. IsBroker(b) /\ Present(b)
  BY OneOfThem
<1>1. /\ svc.namespace = "ns" /\ svc.selector = Selector(b) /\ svc.release = None /\ svc.name = ServiceName(b, FALSE)
      /\ c.service = svc /\ c.management = port
  <2>1. c.service = svc /\ c.management = port
    BY DEF Classified
  <2>2. svc.namespace = "ns" /\ svc.selector = Selector(b) /\ svc.release = None /\ svc.name = ServiceName(b, FALSE)
    BY ServiceIs DEF ServiceName
  <2> QED BY <2>1, <2>2
<1>2. DOMAIN Selector(b) # {}
  BY DEF Selector
<1>3. owner = StatefulSet(b)
  <2>1. \A a : StatefulSet(a).namespace = "ns" /\ StatefulSet(a).labels = Selector(a)
    BY DEF StatefulSet
  <2>2. PICK i \in DOMAIN workloads : workloads[i] = StatefulSet(b)
    BY DEF WorkloadsAre
  <2>3. i \in H
    <3>1. WorkloadMatches(workloads[i], Selector(b)) /\ workloads[i].namespace = "ns"
      BY <2>1, <2>2, MatchesOwn
    <3> QED BY <3>1, <1>1
  <2>4. ASSUME NEW j \in H PROVE workloads[j] = StatefulSet(b)
    <3>1. PICK a \in ToSet(brokers) : workloads[j] = StatefulSet(a)
      BY DEF WorkloadsAre
    <3>2. workloads[j].labels = Selector(a) /\ WorkloadMatches(workloads[j], Selector(b))
      BY <2>1, <2>4, <3>1, <1>1
    <3>3. a.n = b.n
      BY <3>2, MatchesOwn
    <3> QED BY <3>1, <3>3, SameBroker
  <2>5. H \subseteq Nat
    <3>1. PICK S : workloads \in Seq(S)
      BY DEF WorkloadsAre
    <3>2. DOMAIN workloads \subseteq Nat
      BY <3>1
    <3> QED BY <3>2
  <2> HIDE DEF H
  <2> QED BY <2>3, <2>4, <2>5, OnlyOne
<1>4. HintIs(hint, b)
  <2>1. owner # None
    BY <1>0, <1>3, ObjectsArePresent
  <2> HIDE DEF owner
  <2> QED BY <2>1, <1>0, <1>3, HintOfWorkload
<1>5. /\ Chosen(b) \in {15672, 15671} /\ (Chosen(b) = 15671) = (b.tls = "only") /\ Chosen(b) # None
      /\ PortName(Chosen(b)) # None /\ (PortName(Chosen(b)) = "management-tls") = (Chosen(b) = 15671) /\ None # 15671
  <2>1. Chosen(b) \in {15672, 15671} /\ (Chosen(b) = 15671) = (b.tls = "only")
    BY <1>0, ChosenIs
  <2>2. \A n \in {15672, 15671} : n # None /\ PortName(n) # None
    BY <1>0, PortsArePresent
  <2> QED BY <2>1, <2>2 DEF PortName
<1>6. /\ port.port = Chosen(b) /\ port.name = PortName(Chosen(b))
      /\ port.target = (IF b.named THEN None ELSE Chosen(b)) /\ port.targetName = (IF b.named THEN PortName(Chosen(b)) ELSE None)
  BY DEF ServicePort
<1>7. t = IF DOMAIN c.service.selector = {} THEN None
          ELSE [name |-> c.service.name, namespace |-> c.service.namespace, source |-> "service",
                selector |-> c.service.selector, service |-> c.service.name,
                managementPort |-> IF c.management.targetName # None THEN [number |-> None, name |-> c.management.targetName]
                                   ELSE [number |-> Or(Or(c.management.target, c.management.port),
                                           DefaultPort(15671 \in {c.management.port, c.management.target} \/ c.management.name = "management-tls")),
                                         name |-> None],
                portNumber |-> Or(c.management.port, c.management.target),
                tls |-> 15671 \in {c.management.port, c.management.target} \/ c.management.name = "management-tls",
                hint |-> Or(Or(LET o == FirstAt(workloads, {i \in DOMAIN workloads : workloads[i].namespace = c.service.namespace /\
                                                                 WorkloadMatches(workloads[i], c.service.selector)})
                               IN IF o = None THEN None ELSE HintFromWorkload(o),
                               BitnamiHint(c.service)), [kind |-> "guess", username |-> "guest"]),
                ca |-> None]
  BY DEF ParseServiceTarget, First
<1>8. /\ t = [name |-> t.name, namespace |-> t.namespace, source |-> t.source, selector |-> t.selector, service |-> t.service,
               managementPort |-> t.managementPort, portNumber |-> t.portNumber, tls |-> t.tls, hint |-> t.hint, ca |-> t.ca]
      /\ t.name = svc.name /\ t.service = svc.name /\ t.namespace = svc.namespace /\ t.source = "service" /\ t.selector = svc.selector /\ t.ca = None
      /\ t.managementPort = (IF port.targetName # None THEN [number |-> None, name |-> port.targetName]
                             ELSE [number |-> Or(Or(port.target, port.port), DefaultPort(tls)), name |-> None])
      /\ t.portNumber = Or(port.port, port.target) /\ t.tls = tls
      /\ t.hint = Or(Or(hint, BitnamiHint(svc)), [kind |-> "guess", username |-> "guest"])
  <2> HIDE DEF t, c, svc, port
  <2>1. c.service = svc /\ c.management = port /\ DOMAIN c.service.selector # {}
    BY <1>1, <1>2
  <2> QED BY <1>7, <2>1
<1> HIDE DEF t, svc, port, hint
<1>9. tls = (b.tls = "only")
  BY <1>5, <1>6
<1> HIDE DEF tls
<1>10. t.tls = (b.tls = "only") /\ t.portNumber = Chosen(b)
  BY <1>5, <1>6, <1>8, <1>9 DEF Or
<1>11. t.managementPort \in {[number |-> None, name |-> PortName(Chosen(b))], [number |-> Chosen(b), name |-> None]}
  <2>1. CASE b.named
    BY <1>5, <1>6, <1>8, <2>1
  <2>2. CASE ~b.named
    <3>1. Or(Or(port.target, port.port), DefaultPort(tls)) = Chosen(b)
      BY <1>5, <1>6, <2>2 DEF Or
    <3>2. port.targetName = None
      BY <1>6, <2>2
    <3> QED BY <3>1, <3>2, <1>8
  <2> QED BY <2>1, <2>2
<1>12. /\ IF b.login = "unset" THEN t.hint = [kind |-> "guess", username |-> "guest"] ELSE HintIs(t.hint, b)
       /\ t.hint \in HintsOf(b)
  <2>1. BitnamiHint(svc) = None
    BY <1>1 DEF BitnamiHint
  <2>2. CASE b.login = "unset"
    <3>1. hint = None
      BY <1>4, <2>2 DEF HintIs
    <3>2. t.hint = [kind |-> "guess", username |-> "guest"]
      BY <2>1, <3>1, <1>8 DEF Or
    <3> QED BY <2>2, <3>2 DEF HintsOf
  <2>3. CASE b.login # "unset"
    <3>1. /\ HintAt(b, "user", None) \in HintsOf(b) /\ HintAt(b, None, User(b)) \in HintsOf(b)
          /\ HintAt(b, None, None) \in HintsOf(b) /\ [kind |-> "guess", username |-> User(b)] \in HintsOf(b)
      BY DEF HintsOf, HintAt
    <3>2. hint \in HintsOf(b)
      BY <1>0, <1>4, <2>3, <3>1 DEF HintIs, IsBroker
    <3>3. t.hint = hint
      BY <1>0, <1>8, <3>2 DEF Or, Present
    <3> QED BY <1>4, <2>3, <3>2, <3>3
  <2> QED BY <2>2, <2>3
<1>13. t.namespace = "ns" /\ t.selector = Selector(b) /\ t.ca = None /\ t.source = "service"
  BY <1>1, <1>8
<1>14. TargetIs(t, b)
  BY <1>10, <1>11, <1>12, <1>13 DEF TargetIs
<1>15. t \in TargetsOf(b)
  <2>1. t.name = ServiceName(b, FALSE) /\ t.service = ServiceName(b, FALSE)
    BY <1>1, <1>8
  <2>2. t.managementPort \in [number : {None} \cup Listens(b), name : {None} \cup {PortName(number) : number \in Listens(b)}]
    <3>1. Chosen(b) \in Listens(b)
      BY <1>0, ChosenIs
    <3> QED BY <1>11, <3>1
  <2>3. t.portNumber \in Listens(b) /\ t.tls \in BOOLEAN
    BY <1>0, <1>10, ChosenIs
  <2>4. t = [name |-> t.name, namespace |-> t.namespace, source |-> t.source, selector |-> t.selector, service |-> t.service,
             managementPort |-> t.managementPort, portNumber |-> t.portNumber, tls |-> t.tls, hint |-> t.hint, ca |-> t.ca]
    BY <1>8
  <2> QED BY <1>12, <1>13, <2>1, <2>2, <2>3, <2>4 DEF TargetsOf
<1> QED BY <1>14, <1>15 DEF t

-----------------------------------------------------------------------------
(* What each Service of a list is taken for, when some are folded into resources. *)
ClassifiedIn(services, operated) ==
    [i \in DOMAIN services |-> IF Folded(services[i], operated) THEN None ELSE ClassifyService(services[i])]
(* Those taken for something. *)
CandidatesIn(services, operated) == {i \in DOMAIN services : ClassifiedIn(services, operated)[i] # None}
(* What a group is found by: its first Service that is not headless, if any. *)
Best(services, classified, g) ==
    FirstAt(classified, LET direct == {i \in g : ~services[i].headless} IN IF direct = {} THEN g ELSE direct)

(* Those of the brokers that the operator did not make. *)
CandidatesAre(services, brokers, classified, candidates) ==
    /\ \A i \in candidates : \E b \in ToSet(brokers) : ~ByOperator(b) /\ services[i] \in {Service(b, TRUE), Service(b, FALSE)}
    /\ \A b \in ToSet(brokers) : \A i \in DOMAIN services :
          ~ByOperator(b) /\ services[i] = Service(b, FALSE) => i \in candidates /\ classified[i] = Classified(b, FALSE)

(* The candidates of the cluster of some brokers are those. *)
LEMMA CandidatesFound ==
    ASSUME NEW brokers, Deployed(brokers), NEW crs, ResourcesAre(crs, brokers),
           NEW services, ServicesAre(services, brokers)
    PROVE  LET operated == {<<cr.namespace, cr.name>> : cr \in ToSet(crs)}
           IN CandidatesAre(services, brokers, ClassifiedIn(services, operated), CandidatesIn(services, operated))
<1> DEFINE operated == {<<cr.namespace, cr.name>> : cr \in ToSet(crs)}
           classified == ClassifiedIn(services, operated)
           candidates == CandidatesIn(services, operated)
<1>1. \A i \in DOMAIN services : classified[i] = IF Folded(services[i], operated) THEN None ELSE ClassifyService(services[i])
  BY DEF ClassifiedIn
<1>2. candidates = {i \in DOMAIN services : classified[i] # None}
  BY DEF CandidatesIn
<1>3. ASSUME NEW b \in ToSet(brokers), ByOperator(b) PROVE <<"ns", b.n>> \in operated
  <2>1. PICK i \in DOMAIN crs : crs[i] = Resource(b)
    BY <1>3 DEF ResourcesAre
  <2>2. Resource(b).namespace = "ns" /\ Resource(b).name = b.n
    BY DEF Resource
  <2>3. crs[i] \in ToSet(crs)
    BY DEF ToSet
  <2> QED BY <2>1, <2>2, <2>3
<1> HIDE DEF operated
<1>4. ASSUME NEW b \in ToSet(brokers), NEW h \in BOOLEAN
      PROVE  Folded(Service(b, h), operated) \/ ~ByOperator(b)
  <2>1. SUFFICES ASSUME ByOperator(b) PROVE Folded(Service(b, h), operated)
    OBVIOUS
  <2>2. Service(b, h).partOf /\ Service(b, h).labels = Selector(b) /\ Service(b, h).namespace = "ns"
    BY <2>1, ServiceIs
  <2>3. NameLabel \in DOMAIN Selector(b) /\ Selector(b)[NameLabel] = b.n
    BY DEF Selector
  <2> QED BY <1>3, <2>1, <2>2, <2>3 DEF Folded
<1>5. ASSUME NEW b \in ToSet(brokers), ~ByOperator(b)
      PROVE  ~Folded(Service(b, FALSE), operated) /\ ClassifyService(Service(b, FALSE)) = Classified(b, FALSE)
             /\ Classified(b, FALSE) # None
  <2>1. IsBroker(b) /\ Present(b)
    BY OneOfThem
  <2>2. ~Service(b, FALSE).partOf
    <3>1. \A h \in BOOLEAN : Service(b, h).partOf = ByOperator(b)
      BY ServiceIs
    <3>2. Service(b, FALSE).partOf = ByOperator(b)
      BY <3>1
    <3> QED BY <1>5, <3>2
  <2>3. Classified(b, FALSE) \in CandidatesOf(b)
    BY <2>1, ChosenIs DEF Classified, CandidatesOf
  <2>4. Classified(b, FALSE) # None
    BY <2>1, <2>3 DEF Present
  <2> QED BY <2>1, <2>2, <2>4, ClassifyIs DEF Folded
<1> HIDE DEF classified, candidates
<1>6. ASSUME NEW i \in candidates
      PROVE  \E b \in ToSet(brokers) : ~ByOperator(b) /\ services[i] \in {Service(b, TRUE), Service(b, FALSE)}
  <2>1. PICK b \in ToSet(brokers) : services[i] \in {Service(b, TRUE), Service(b, FALSE)}
    BY <1>2 DEF ServicesAre
  <2>2. ~Folded(services[i], operated)
    BY <1>1, <1>2
  <2>3. ~ByOperator(b)
    BY <2>1, <2>2, <1>4
  <2> QED BY <2>1, <2>3
<1>7. ASSUME NEW b \in ToSet(brokers), NEW i \in DOMAIN services, ~ByOperator(b), services[i] = Service(b, FALSE)
      PROVE  i \in candidates /\ classified[i] = Classified(b, FALSE)
  BY <1>1, <1>2, <1>5, <1>7
<1>8. CandidatesAre(services, brokers, classified, candidates)
  BY <1>6, <1>7 DEF CandidatesAre
<1> QED BY <1>8 DEF classified, candidates, operated

(* Of the Services of a broker, the one that is not headless. *)
LEMMA BestIs ==
    ASSUME NEW brokers, Deployed(brokers), NEW services, ServicesAre(services, brokers), NEW classified, NEW candidates,
           candidates \subseteq DOMAIN services, CandidatesAre(services, brokers, classified, candidates)
    PROVE  {Best(services, classified, g) : g \in GroupedBySelector(services, candidates)}
             = {Classified(b, FALSE) : b \in {x \in ToSet(brokers) : ~ByOperator(x)}}
<1> DEFINE G(i) == {j \in candidates : services[j].namespace = services[i].namespace /\ services[j].selector = services[i].selector}
<1>1. GroupedBySelector(services, candidates) = {G(i) : i \in candidates}
  BY DEF GroupedBySelector
<1>2. ASSUME NEW i \in candidates, NEW b \in ToSet(brokers), ~ByOperator(b), services[i] \in {Service(b, TRUE), Service(b, FALSE)}
      PROVE  Best(services, classified, G(i)) = Classified(b, FALSE)
  <2> DEFINE D == {j \in G(i) : ~services[j].headless}
  <2>1. \A a : \A h \in BOOLEAN : /\ Service(a, h).namespace = "ns" /\ Service(a, h).selector = Selector(a)
                                  /\ Service(a, h).headless = h
    BY ServiceIs
  <2>2. services[i].namespace = "ns" /\ services[i].selector = Selector(b)
    BY <1>2, <2>1
  <2>3. ASSUME NEW j \in D PROVE services[j] = Service(b, FALSE)
    <3>1. PICK a \in ToSet(brokers) : services[j] \in {Service(a, TRUE), Service(a, FALSE)}
      BY DEF CandidatesAre
    <3>2. services[j].selector = Selector(a)
      BY <2>1, <3>1
    <3>3. a.n = b.n
      BY <2>2, <3>2, SelectorsDiffer
    <3>4. a = b
      BY <3>3, SameBroker
    <3>5. Service(a, TRUE).headless
      BY <2>1
    <3> QED BY <3>1, <3>4, <3>5
  <2>4. PICK k \in DOMAIN services : services[k] = Service(b, FALSE)
    BY DEF ServicesAre
  <2>5. k \in candidates
    BY <1>2, <2>4 DEF CandidatesAre
  <2>6. k \in D
    <3>1. services[k].namespace = "ns" /\ services[k].selector = Selector(b) /\ services[k].headless = FALSE
      BY <2>1, <2>4
    <3> QED BY <2>2, <2>5, <3>1
  <2>7. \A j \in D : classified[j] = Classified(b, FALSE)
    BY <1>2, <2>3 DEF CandidatesAre
  <2>8. D \subseteq Nat
    <3>1. PICK S : services \in Seq(S)
      BY DEF ServicesAre
    <3>2. DOMAIN services \subseteq Nat
      BY <3>1
    <3> QED BY <3>2
  <2>9. Best(services, classified, G(i)) = FirstAt(classified, IF D = {} THEN G(i) ELSE D)
    BY DEF Best
  <2> HIDE DEF D
  <2>10. FirstAt(classified, D) = Classified(b, FALSE)
    BY <2>6, <2>7, <2>8, OnlyOne
  <2> QED BY <2>6, <2>9, <2>10
<1> HIDE DEF G
<1>3. \A i \in candidates : \E b \in ToSet(brokers) : ~ByOperator(b) /\ Best(services, classified, G(i)) = Classified(b, FALSE)
  BY <1>2 DEF CandidatesAre
<1>4. \A b \in ToSet(brokers) : ~ByOperator(b) => \E i \in candidates : Best(services, classified, G(i)) = Classified(b, FALSE)
  <2> SUFFICES ASSUME NEW b \in ToSet(brokers), ~ByOperator(b) PROVE \E i \in candidates : Best(services, classified, G(i)) = Classified(b, FALSE)
    OBVIOUS
  <2>1. PICK k \in DOMAIN services : services[k] = Service(b, FALSE)
    BY DEF ServicesAre
  <2>2. k \in candidates
    BY <2>1 DEF CandidatesAre
  <2> QED BY <2>1, <2>2, <1>2
<1> DEFINE best(g) == Best(services, classified, g)
           own(b) == Classified(b, FALSE)
<1>5. /\ \A i \in candidates : \E b \in {x \in ToSet(brokers) : ~ByOperator(x)} : best(G(i)) = own(b)
      /\ \A b \in {x \in ToSet(brokers) : ~ByOperator(x)} : \E i \in candidates : best(G(i)) = own(b)
  BY <1>3, <1>4
<1>6. {best(g) : g \in {G(i) : i \in candidates}} = {best(G(i)) : i \in candidates}
  <2> HIDE DEF best
  <2> QED OBVIOUS
<1>7. {best(G(i)) : i \in candidates} = {own(b) : b \in {x \in ToSet(brokers) : ~ByOperator(x)}}
  <2> HIDE DEF best, own
  <2> QED BY <1>5
<1> QED BY <1>1, <1>6, <1>7

(* Two lists, one after the other. *)
LEMMA TwoLists ==
    ASSUME NEW S, NEW T, NEW a \in Seq(S), NEW b \in Seq(T)
    PROVE  /\ a \o b \in Seq(S \cup T)
           /\ \A k \in DOMAIN a : k \in DOMAIN (a \o b) /\ (a \o b)[k] = a[k]
           /\ \A k \in DOMAIN b : k + Len(a) \in DOMAIN (a \o b) /\ (a \o b)[k + Len(a)] = b[k]
           /\ \A k \in DOMAIN (a \o b) :
                 \/ k \in DOMAIN a /\ (a \o b)[k] = a[k]
                 \/ \E l \in DOMAIN b : k = l + Len(a) /\ (a \o b)[k] = b[l]
<1>1. a \in Seq(S \cup T) /\ b \in Seq(S \cup T) /\ Len(a) \in Nat /\ Len(b) \in Nat /\ DOMAIN a = 1..Len(a) /\ DOMAIN b = 1..Len(b)
  OBVIOUS
<1>2. a \o b \in Seq(S \cup T) /\ DOMAIN (a \o b) = 1..(Len(a) + Len(b))
  BY <1>1
<1>3. \A k \in 1..(Len(a) + Len(b)) : (a \o b)[k] = IF k <= Len(a) THEN a[k] ELSE b[k - Len(a)]
  BY <1>1
<1>4. \A k \in DOMAIN a : k \in DOMAIN (a \o b) /\ (a \o b)[k] = a[k]
  BY <1>1, <1>2, <1>3
<1>5. ASSUME NEW k \in DOMAIN b PROVE k + Len(a) \in DOMAIN (a \o b) /\ (a \o b)[k + Len(a)] = b[k]
  <2>1. k + Len(a) \in 1..(Len(a) + Len(b)) /\ ~(k + Len(a) <= Len(a)) /\ (k + Len(a)) - Len(a) = k
    BY <1>1
  <2> QED BY <2>1, <1>2, <1>3
<1>6. ASSUME NEW k \in DOMAIN (a \o b), k \notin DOMAIN a
      PROVE  \E l \in DOMAIN b : k = l + Len(a) /\ (a \o b)[k] = b[l]
  <2>1. k - Len(a) \in DOMAIN b /\ k = (k - Len(a)) + Len(a) /\ ~(k <= Len(a)) /\ k \in 1..(Len(a) + Len(b))
    BY <1>1, <1>2, <1>6
  <2> QED BY <2>1, <1>3
<1> QED BY <1>2, <1>4, <1>5, <1>6

(* One target for each broker. *)
OneEach(targets, brokers) ==
    /\ \E S : targets \in Seq(S)
    /\ \A i \in DOMAIN targets : \E b \in ToSet(brokers) : TargetIs(targets[i], b)
    /\ \A b \in ToSet(brokers) : \E i \in DOMAIN targets : TargetIs(targets[i], b)
    /\ \A i, j \in DOMAIN targets : \A b \in ToSet(brokers) : TargetIs(targets[i], b) /\ TargetIs(targets[j], b) => i = j

(* A target is one broker's. *)
LEMMA TargetOfOne ==
    ASSUME NEW brokers, Deployed(brokers), NEW a \in ToSet(brokers), NEW b \in ToSet(brokers), NEW t,
           TargetIs(t, a), TargetIs(t, b)
    PROVE  a = b
<1>1. Selector(a) = Selector(b)
  BY DEF TargetIs
<1> QED BY <1>1, SelectorsDiffer, SameBroker

(* Discovery finds one target for each broker. *)
LEMMA DiscoveryFinds ==
    ASSUME NEW S, NEW brokers \in Seq(S), Deployed(brokers)
    PROVE  OneEach(DiscoverRabbitmq(Cluster(brokers)), brokers)
<1> DEFINE cluster == Cluster(brokers)
           crs == Resources(cluster)
           services == cluster.services
           workloads == cluster.deployments \o cluster.statefulSets
           operated == {<<cr.namespace, cr.name>> : cr \in ToSet(crs)}
           classified == ClassifiedIn(services, operated)
           candidates == CandidatesIn(services, operated)
           groups == GroupedBySelector(services, candidates)
           A == [i \in DOMAIN crs |-> ParseRabbitmqCluster(crs[i], services)]
           X == {ParseServiceTarget(Best(services, classified, g), workloads) : g \in groups} \ {None}
           P == {x \in ToSet(brokers) : ~ByOperator(x)}
           own(b) == ParseServiceTarget(Classified(b, FALSE), workloads)
           B == SetToSeq(X)
<1>1. DiscoverRabbitmq(cluster) = A \o B
  BY DEF DiscoverRabbitmq, ClassifiedIn, CandidatesIn, Best
<1>2. ResourcesAre(crs, brokers) /\ ServicesAre(services, brokers) /\ WorkloadsAre(workloads, brokers)
  BY ResourcesFound, ServicesFound, WorkloadsFound
<1> HIDE DEF cluster, crs, services, workloads
<1>3. CandidatesAre(services, brokers, classified, candidates)
  BY <1>2, CandidatesFound
<1>4. candidates \subseteq DOMAIN services
  BY DEF CandidatesIn
<1> HIDE DEF classified, candidates, operated
<1>5. {Best(services, classified, g) : g \in groups} = {Classified(b, FALSE) : b \in P}
  BY <1>2, <1>3, <1>4, BestIs
<1> HIDE DEF groups
<1>6. ASSUME NEW b \in P PROVE TargetIs(own(b), b) /\ own(b) # None
  <2>1. TargetIs(own(b), b)
    BY <1>2, ServiceTarget
  <2>2. own(b) \in TargetsOf(b)
    BY <1>2, ServiceTarget
  <2>3. Present(b)
    BY OneOfThem
  <2> HIDE DEF own
  <2> QED BY <2>1, <2>2, <2>3 DEF Present
<1>7. X = {own(b) : b \in P}
  <2> DEFINE found(c) == ParseServiceTarget(c, workloads)
  <2>1. X = {found(c) : c \in {Best(services, classified, g) : g \in groups}} \ {None}
    OBVIOUS
  <2>2. X = {found(c) : c \in {Classified(b, FALSE) : b \in P}} \ {None}
    BY <2>1, <1>5
  <2>3. {found(c) : c \in {Classified(b, FALSE) : b \in P}} = {own(b) : b \in P}
    OBVIOUS
  <2> HIDE DEF X, P, own
  <2> QED BY <2>2, <2>3, <1>6
<1> HIDE DEF X
<1>8. IsFiniteSet(X)
  <2> DEFINE f == [b \in P |-> own(b)]
  <2>1. IsFiniteSet(ToSet(brokers))
    <3>1. IsFiniteSet(1..Len(brokers)) /\ DOMAIN brokers = 1..Len(brokers)
      <4>1. Len(brokers) \in Int /\ 1 \in Int /\ DOMAIN brokers = 1..Len(brokers)
        OBVIOUS
      <4> QED BY <4>1, FS_Interval
    <3>2. brokers \in Surjection(DOMAIN brokers, ToSet(brokers))
      BY DEF Surjection, ToSet
    <3> QED BY <3>1, <3>2, FS_Surjection
  <2>2. P \in SUBSET ToSet(brokers)
    OBVIOUS
  <2> HIDE DEF P, own
  <2>3. IsFiniteSet(P)
    BY <2>1, <2>2, FS_Subset
  <2>4. f \in Surjection(P, X)
    BY <1>7 DEF Surjection
  <2> HIDE DEF f
  <2> QED BY <2>3, <2>4, FS_Surjection
<1>9. B \in Seq(X) /\ Once(B) /\ \A x \in X : \E i \in DOMAIN B : B[i] = x
  BY <1>8, SequenceOnce
<1> HIDE DEF B
<1>10. /\ \E R : A \in Seq(R)
       /\ DOMAIN A = DOMAIN crs
       /\ \A i \in DOMAIN A : \E b \in ToSet(brokers) : ByOperator(b) /\ crs[i] = Resource(b) /\ TargetIs(A[i], b)
       /\ \A b \in ToSet(brokers) : ByOperator(b) => \E i \in DOMAIN A : TargetIs(A[i], b)
  <2>1. PICK Q : crs \in Seq(Q)
    BY <1>2 DEF ResourcesAre
  <2>2. DOMAIN A = DOMAIN crs /\ \A i \in DOMAIN crs : A[i] = ParseRabbitmqCluster(crs[i], services)
    OBVIOUS
  <2>3. A \in Seq({A[i] : i \in DOMAIN crs})
    <3>1. DOMAIN crs = 1..Len(crs) /\ Len(crs) \in Nat
      BY <2>1
    <3>2. A \in [1..Len(crs) -> {A[i] : i \in DOMAIN crs}]
      BY <3>1
    <3> HIDE DEF A
    <3> QED BY <3>1, <3>2
  <2>4. \A b \in ToSet(brokers) : ByOperator(b) => TargetIs(ParseRabbitmqCluster(Resource(b), services), b)
    BY <1>2, ResourceTarget
  <2> HIDE DEF A
  <2> QED BY <1>2, <2>2, <2>3, <2>4 DEF ResourcesAre
<1> HIDE DEF A
<1>11. PICK R : A \in Seq(R)
  BY <1>10
<1> DEFINE targets == A \o B
<1>12. /\ targets \in Seq(R \cup X)
       /\ \A k \in DOMAIN A : k \in DOMAIN targets /\ targets[k] = A[k]
       /\ \A k \in DOMAIN B : k + Len(A) \in DOMAIN targets /\ targets[k + Len(A)] = B[k]
       /\ \A k \in DOMAIN targets : \/ k \in DOMAIN A /\ targets[k] = A[k]
                                    \/ \E l \in DOMAIN B : k = l + Len(A) /\ targets[k] = B[l]
  BY <1>9, <1>11, TwoLists
<1> HIDE DEF targets
<1>13. \A i \in DOMAIN B : \E b \in P : B[i] = own(b) /\ TargetIs(B[i], b)
  <2> SUFFICES ASSUME NEW i \in DOMAIN B PROVE \E b \in P : B[i] = own(b) /\ TargetIs(B[i], b)
    OBVIOUS
  <2>1. B[i] \in X
    BY <1>9
  <2>2. PICK b \in P : B[i] = own(b)
    BY <2>1, <1>7
  <2> HIDE DEF own, P
  <2> QED BY <2>2, <1>6
<1>14. \A b \in P : \E i \in DOMAIN B : TargetIs(B[i], b)
  <2> SUFFICES ASSUME NEW b \in P PROVE \E i \in DOMAIN B : TargetIs(B[i], b)
    OBVIOUS
  <2>1. own(b) \in X
    BY <1>7
  <2> HIDE DEF own, P
  <2> QED BY <2>1, <1>6, <1>9
<1> HIDE DEF own
<1>15. \A i \in DOMAIN targets : \E b \in ToSet(brokers) : TargetIs(targets[i], b)
  BY <1>10, <1>12, <1>13
<1>16. \A b \in ToSet(brokers) : \E i \in DOMAIN targets : TargetIs(targets[i], b)
  BY <1>10, <1>12, <1>14
<1>17. ASSUME NEW i \in DOMAIN targets, NEW j \in DOMAIN targets, NEW b \in ToSet(brokers),
              TargetIs(targets[i], b), TargetIs(targets[j], b)
       PROVE  i = j
  <2>1. ASSUME NEW k \in DOMAIN A, TargetIs(A[k], b) PROVE ByOperator(b) /\ crs[k] = Resource(b)
    <3>1. PICK a \in ToSet(brokers) : ByOperator(a) /\ crs[k] = Resource(a) /\ TargetIs(A[k], a)
      BY <1>10
    <3>2. a = b
      BY <2>1, <3>1, TargetOfOne
    <3> QED BY <3>1, <3>2
  <2>2. ASSUME NEW k \in DOMAIN B, TargetIs(B[k], b) PROVE ~ByOperator(b) /\ B[k] = own(b)
    <3>1. PICK a \in P : B[k] = own(a) /\ TargetIs(B[k], a)
      BY <1>13
    <3>2. a = b
      BY <2>2, <3>1, TargetOfOne
    <3> QED BY <3>1, <3>2
  <2>3. CASE ByOperator(b)
    <3>1. i \in DOMAIN A /\ targets[i] = A[i] /\ j \in DOMAIN A /\ targets[j] = A[j]
      BY <1>12, <1>17, <2>2, <2>3
    <3>2. crs[i] = crs[j] /\ i \in DOMAIN crs /\ j \in DOMAIN crs
      BY <1>10, <1>17, <2>1, <3>1
    <3> QED BY <1>2, <3>2 DEF ResourcesAre, Once
  <2>4. CASE ~ByOperator(b)
    <3>1. PICK k \in DOMAIN B : i = k + Len(A) /\ targets[i] = B[k]
      BY <1>12, <1>17, <2>1, <2>4
    <3>2. PICK l \in DOMAIN B : j = l + Len(A) /\ targets[j] = B[l]
      BY <1>12, <1>17, <2>1, <2>4
    <3>3. B[k] = B[l]
      BY <1>17, <2>2, <3>1, <3>2
    <3>4. k = l
      BY <1>9, <3>3 DEF Once
    <3> QED BY <3>1, <3>2, <3>4
  <2> QED BY <2>3, <2>4
<1>18. OneEach(targets, brokers)
  BY <1>12, <1>15, <1>16, <1>17 DEF OneEach
<1> QED BY <1>1, <1>18 DEF targets, cluster

-----------------------------------------------------------------------------
(* The pod of a target is the broker's. *)
LEMMA PodIs ==
    ASSUME NEW S, NEW brokers \in Seq(S), Deployed(brokers), NEW b \in ToSet(brokers), NEW t, TargetIs(t, b)
    PROVE  \E k : ResolvePod(Pods(brokers), t) = Pod(b, k)
<1> DEFINE pods == Pods(brokers)
           Runs(p) == p.namespace = t.namespace /\ WorkloadMatches(p, t.selector) /\ p.phase = "Running"
           ready == {p \in ToSet(pods) : Runs(p) /\ p.ready}
<1>1. \A a, k : /\ Pod(a, k).namespace = "ns" /\ Pod(a, k).labels = Selector(a) /\ Pod(a, k).phase = "Running"
                /\ Pod(a, k).ready = TRUE /\ Pod(a, k).rank = k
  BY DEF Pod
<1>2. t.namespace = "ns" /\ t.selector = Selector(b)
  BY DEF TargetIs
<1>3. ResolvePod(pods, t) = IF ready # {} THEN CHOOSE p \in ready : \A q \in ready : p.rank <= q.rank
                            ELSE FirstAt(pods, {i \in DOMAIN pods : Runs(pods[i])})
  BY DEF ResolvePod, First
<1>4. PICK k \in DOMAIN brokers : brokers[k] = b
  BY DEF ToSet
<1>5. DOMAIN pods = DOMAIN brokers /\ \A i \in DOMAIN brokers : pods[i] = Pod(brokers[i], i)
  BY DEF Pods
<1> HIDE DEF pods
<1>6. ready = {Pod(b, k)}
  <2>1. Pod(b, k) \in ready
    <3>1. WorkloadMatches(Pod(b, k), Selector(b))
      <4>1. Pod(b, k).labels = Selector(b)
        BY <1>1
      <4> QED BY <4>1, MatchesOwn
    <3>2. Pod(b, k) \in ToSet(pods)
      BY <1>4, <1>5 DEF ToSet
    <3> QED BY <1>1, <1>2, <3>1, <3>2
  <2>2. ASSUME NEW p \in ready PROVE p = Pod(b, k)
    <3>1. PICK i \in DOMAIN brokers : p = Pod(brokers[i], i)
      BY <1>5 DEF ToSet
    <3>2. WorkloadMatches(p, Selector(b)) /\ p.labels = Selector(brokers[i])
      BY <1>1, <1>2, <3>1
    <3>3. brokers[i].n = b.n
      BY <3>2, MatchesOwn
    <3>4. i = k
      BY <1>4, <3>3 DEF Deployed
    <3> QED BY <1>4, <3>1, <3>4
  <2> HIDE DEF ready
  <2> QED BY <2>1, <2>2
<1>7. k <= k
  BY <1>4
<1>8. (CHOOSE p \in {Pod(b, k)} : \A q \in {Pod(b, k)} : p.rank <= q.rank) = Pod(b, k)
  <2>1. Pod(b, k).rank <= Pod(b, k).rank
    BY <1>1, <1>7
  <2> DEFINE x == Pod(b, k)
  <2> HIDE DEF x
  <2>2. x.rank <= x.rank => (CHOOSE p \in {x} : \A q \in {x} : p.rank <= q.rank) = x
    OBVIOUS
  <2> QED BY <2>1, <2>2 DEF x
<1> HIDE DEF ready
<1>9. ResolvePod(pods, t) = Pod(b, k)
  BY <1>3, <1>6, <1>8
<1> QED BY <1>9 DEF pods

(* The port found on it is the one that was chosen. *)
LEMMA PortIs ==
    ASSUME NEW b, IsBroker(b), Present(b), NEW t, TargetIs(t, b), NEW k
    PROVE  ResolvePort(Pod(b, k), t.managementPort, t.tls) = Chosen(b)
<1> DEFINE ports == Pod(b, k).ports
           port == t.managementPort
           H == {i \in DOMAIN ports : ports[i].name = port.name}
           P == {ContainerPort(number) : number \in Listens(b)}
<1>1. ResolvePort(Pod(b, k), port, t.tls) =
         IF port.number # None THEN port.number
         ELSE IF FirstAt(ports, H) # None THEN FirstAt(ports, H).number ELSE DefaultPort(t.tls)
  BY DEF ResolvePort, First
<1>2. Chosen(b) \in Listens(b) /\ Listens(b) \subseteq {15672, 15671}
  BY ChosenIs
<1>3. \A n \in {15672, 15671} : n # None /\ ContainerPort(n) # None
  BY PortsArePresent
<1>4. port \in {[number |-> None, name |-> PortName(Chosen(b))], [number |-> Chosen(b), name |-> None]}
  BY DEF TargetIs
<1>5. \A n : ContainerPort(n).name = PortName(n) /\ ContainerPort(n).number = n
  BY DEF ContainerPort
<1>6. ports = SetToSeq(P)
  BY DEF Pod
<1>7. IsFiniteSet(P)
  <2>1. P \in SUBSET {ContainerPort(15672), ContainerPort(15671)}
    BY <1>2
  <2> DEFINE one == ContainerPort(15672)  other == ContainerPort(15671)
  <2> HIDE DEF P, ports, H, port, one, other
  <2>2. IsFiniteSet({one, other})
    BY PairIsFinite
  <2> QED BY <2>1, <2>2, FS_Subset DEF one, other
<1> HIDE DEF ports, P, port
<1>8. ports \in Seq(P) /\ \A x \in P : \E i \in DOMAIN ports : ports[i] = x
  BY <1>6, <1>7, SequenceOnce
<1>9. CASE port = [number |-> Chosen(b), name |-> None]
  <2>1. port.number = Chosen(b) /\ Chosen(b) # None
    BY <1>2, <1>3, <1>9
  <2> QED BY <1>1, <2>1 DEF port
<1>10. CASE port = [number |-> None, name |-> PortName(Chosen(b))]
  <2>1. port.number = None /\ port.name = PortName(Chosen(b))
    BY <1>10
  <2>2. \A m, n \in {15672, 15671} : PortName(m) = PortName(n) => m = n
    BY DEF PortName
  <2>3. \A i \in H : ports[i] = ContainerPort(Chosen(b))
    <3> SUFFICES ASSUME NEW i \in DOMAIN ports, ports[i].name = port.name PROVE ports[i] = ContainerPort(Chosen(b))
      OBVIOUS
    <3>1. PICK n \in Listens(b) : ports[i] = ContainerPort(n)
      <4>1. ports[i] \in P
        BY <1>8
      <4> QED BY <4>1 DEF P
    <3> QED BY <3>1, <1>2, <1>5, <2>1, <2>2
  <2>4. PICK i \in DOMAIN ports : ports[i] = ContainerPort(Chosen(b))
    <3>1. ContainerPort(Chosen(b)) \in P
      BY <1>2 DEF P
    <3> QED BY <1>8, <3>1
  <2>5. i \in H /\ H \subseteq Nat
    BY <1>5, <1>8, <2>1, <2>4
  <2> HIDE DEF H
  <2>6. FirstAt(ports, H) = ContainerPort(Chosen(b))
    BY <2>3, <2>5, OnlyOne
  <2> QED BY <1>1, <1>2, <1>3, <1>5, <2>1, <2>6 DEF port
<1> QED BY <1>4, <1>9, <1>10

(* What the Secrets of a broker hold. *)
LEMMA SecretsAre ==
    ASSUME NEW brokers, Deployed(brokers), NEW b \in ToSet(brokers)
    PROVE  /\ Decode(Secrets(brokers), <<b.n, "default-user">>, "username") = User(b)
           /\ Decode(Secrets(brokers), <<b.n, "default-user">>, "password") = Password(b)
           /\ Decode(Secrets(brokers), <<b.n, "login">>, "user") = User(b)
           /\ Decode(Secrets(brokers), <<b.n, "login">>, "pass") = Password(b)
           /\ Decode(Secrets(brokers), <<b.n, "login">>, "username") = None
           /\ Decode(Secrets(brokers), <<b.n, "login">>, "rabbitmq-username") = None
<1> DEFINE secrets == Secrets(brokers)
           D == UNION {{<<brokers[i].n, "login">>, <<brokers[i].n, "default-user">>} : i \in DOMAIN brokers}
           held(s) == LET a == CHOOSE x \in ToSet(brokers) : x.n = s[1]
                      IN IF s[2] = "default-user" THEN [k \in {"username", "password"} |-> IF k = "username" THEN User(a) ELSE Password(a)]
                         ELSE [k \in {"user", "pass"} |-> IF k = "user" THEN User(a) ELSE Password(a)]
<1>1. DOMAIN secrets = D /\ \A s \in D : secrets[s] = held(s)
  BY DEF Secrets
<1>2. (CHOOSE x \in ToSet(brokers) : x.n = b.n) = b
  BY SameBroker
<1>3. <<b.n, "login">> \in D /\ <<b.n, "default-user">> \in D
  <2>1. PICK i \in DOMAIN brokers : brokers[i] = b
    BY DEF ToSet
  <2>2. {<<brokers[i].n, "login">>, <<brokers[i].n, "default-user">>} \in
            {{<<brokers[j].n, "login">>, <<brokers[j].n, "default-user">>} : j \in DOMAIN brokers}
    OBVIOUS
  <2> QED BY <2>1, <2>2
<1>4. held(<<b.n, "default-user">>) = [k \in {"username", "password"} |-> IF k = "username" THEN User(b) ELSE Password(b)]
  BY <1>2
<1>5. held(<<b.n, "login">>) = [k \in {"user", "pass"} |-> IF k = "user" THEN User(b) ELSE Password(b)]
  BY <1>2
<1> HIDE DEF secrets, D, held
<1>6. /\ secrets[<<b.n, "default-user">>] = [k \in {"username", "password"} |-> IF k = "username" THEN User(b) ELSE Password(b)]
      /\ secrets[<<b.n, "login">>] = [k \in {"user", "pass"} |-> IF k = "user" THEN User(b) ELSE Password(b)]
  BY <1>1, <1>3, <1>4, <1>5
<1>7. \A s \in D : \A k : Decode(secrets, s, k) = IF k \in DOMAIN secrets[s] THEN secrets[s][k] ELSE None
  BY <1>1 DEF Decode
<1> QED BY <1>3, <1>6, <1>7 DEF secrets

(* The login found: the broker's own, its name with the default password as a guess, or none. *)
LEMMA LoginIs ==
    ASSUME NEW brokers, Deployed(brokers), NEW b \in ToSet(brokers), NEW t, TargetIs(t, b)
    PROVE  ResolveCredentials(Secrets(brokers), t.hint) = LoginOf(b)
<1> DEFINE Read(s, k) == Decode(Secrets(brokers), s, k)
           Pair(u, p) == IF u \in {None, ""} \/ p \in {None, ""} THEN None ELSE <<u, p>>
           h == t.hint
           login == ResolveCredentials(Secrets(brokers), h)
<1>1. IsBroker(b) /\ Present(b)
  BY OneOfThem
<1>2. User(b) # None /\ Password(b) # None /\ "user" # None
  BY <1>1 DEF Present
<1>3. User(b) # "" /\ Password(b) # ""
  BY <1>1 DEF Present
<1>4. /\ Read(<<b.n, "default-user">>, "username") = User(b) /\ Read(<<b.n, "default-user">>, "password") = Password(b)
      /\ Read(<<b.n, "login">>, "user") = User(b) /\ Read(<<b.n, "login">>, "pass") = Password(b)
      /\ Read(<<b.n, "login">>, "username") = None /\ Read(<<b.n, "login">>, "rabbitmq-username") = None
  BY SecretsAre
<1>5. login = CASE h.kind = "operator-default-user" -> Pair(Read(h.secret, "username"), Read(h.secret, "password"))
                [] h.kind = "secret" ->
                     Pair(Or(Or(IF h.usernameKey = None THEN None ELSE Read(h.secret, h.usernameKey), h.username),
                             Or(Read(h.secret, "username"), Read(h.secret, "rabbitmq-username"))),
                          Read(h.secret, Or(h.passwordKey, "password")))
                [] h.kind = "guess" -> <<h.username, "guest">>
  BY DEF ResolveCredentials
<1>6. Pair(User(b), Password(b)) = <<User(b), Password(b)>>
  BY <1>2, <1>3
<1>a. \A p : Pair(None, p) = None
  OBVIOUS
<1> HIDE DEF h, login, Read, Pair
<1>7. CASE ByOperator(b)
  <2>1. h = [kind |-> "operator-default-user", secret |-> <<b.n, "default-user">>] /\ b.login = "secret"
    BY <1>1, <1>7 DEF TargetIs, IsBroker, h
  <2>2. login = Pair(Read(<<b.n, "default-user">>, "username"), Read(<<b.n, "default-user">>, "password"))
    BY <1>5, <2>1
  <2> QED BY <1>4, <1>6, <2>1, <2>2 DEF login, h, LoginOf
<1>8. CASE ~ByOperator(b) /\ b.login = "unset"
  <2>1. h = [kind |-> "guess", username |-> "guest"]
    BY <1>8 DEF TargetIs, h
  <2>2. login = <<"guest", "guest">> /\ User(b) = "guest" /\ Password(b) = "guest"
    BY <1>5, <1>8, <2>1 DEF User, Password
  <2> QED BY <1>8, <2>2 DEF login, h, LoginOf
<1>9. ASSUME ~ByOperator(b), NEW word, NEW name, h = HintAt(b, word, name), "pass" # None
      PROVE  login = Pair(Or(Or(IF word = None THEN None ELSE Read(<<b.n, "login">>, word), name), None), Password(b))
  <2>1. h.kind = "secret" /\ h.secret = <<b.n, "login">> /\ h.usernameKey = word /\ h.username = name /\ h.passwordKey = "pass"
    BY <1>9 DEF HintAt
  <2>2. Or("pass", "password") = "pass" /\ Or(None, None) = None
    BY <1>9 DEF Or
  <2> QED BY <1>4, <1>5, <2>1, <2>2
<1>b. "pass" # None
  BY <1>1 DEF Present
<1>10. CASE ~ByOperator(b) /\ b.login = "secret"
  <2>1. h = HintAt(b, "user", None)
    BY <1>10 DEF TargetIs, HintIs, h
  <2>2. login = Pair(Or(Or(Read(<<b.n, "login">>, "user"), None), None), Password(b))
    BY <1>2, <1>9, <1>10, <1>b, <2>1
  <2>3. Or(Or(User(b), None), None) = User(b)
    BY <1>2 DEF Or
  <2> QED BY <1>4, <1>6, <1>10, <2>2, <2>3 DEF login, h, LoginOf
<1>11. CASE ~ByOperator(b) /\ b.login = "value"
  <2>1. h = HintAt(b, None, User(b))
    BY <1>11 DEF TargetIs, HintIs, h
  <2>2. login = Pair(Or(Or(None, User(b)), None), Password(b))
    BY <1>9, <1>11, <1>b, <2>1
  <2>3. Or(Or(None, User(b)), None) = User(b)
    BY <1>2 DEF Or
  <2> QED BY <1>6, <1>11, <2>2, <2>3 DEF login, h, LoginOf
<1>12. CASE ~ByOperator(b) /\ b.login = "elsewhere"
  <2>1. h = HintAt(b, None, None)
    BY <1>12 DEF TargetIs, HintIs, h
  <2>2. login = Pair(Or(Or(None, None), None), Password(b))
    BY <1>9, <1>12, <1>b, <2>1
  <2>3. Or(Or(None, None), None) = None
    BY DEF Or
  <2> QED BY <1>a, <1>12, <2>2, <2>3 DEF login, h, LoginOf
<1>13. CASE ~ByOperator(b) /\ b.login = "plain"
  <2>1. h = [kind |-> "guess", username |-> User(b)]
    BY <1>13 DEF TargetIs, HintIs, h
  <2>2. login = <<User(b), "guest">>
    BY <1>5, <2>1
  <2> QED BY <1>13, <2>2 DEF login, h, LoginOf
<1> QED BY <1>1, <1>7, <1>8, <1>10, <1>11, <1>12, <1>13 DEF IsBroker

(* As many targets as brokers, when each target is of one broker. *)
LEMMA AsMany ==
    ASSUME NEW S, NEW brokers \in Seq(S), Once(brokers), NEW T, NEW targets \in Seq(T), NEW of \in [DOMAIN targets -> ToSet(brokers)],
           \A i, j \in DOMAIN targets : of[i] = of[j] => i = j,
           \A b \in ToSet(brokers) : \E i \in DOMAIN targets : of[i] = b
    PROVE  Len(targets) = Len(brokers)
<1> DEFINE m == Len(targets)  n == Len(brokers)  B == ToSet(brokers)
<1>1. m \in Nat /\ n \in Nat /\ DOMAIN targets = 1..m /\ DOMAIN brokers = 1..n
  OBVIOUS
<1>2. of \in Bijection(1..m, B)
  BY <1>1 DEF Bijection, Injection, Surjection, IsInjective
<1>3. brokers \in Bijection(1..n, B)
  BY <1>1 DEF Bijection, Injection, Surjection, IsInjective, Once, ToSet
<1> HIDE DEF m, n, B
<1>4. IsFiniteSet(1..m) /\ Cardinality(1..m) = m /\ IsFiniteSet(1..n) /\ Cardinality(1..n) = n
  <2>1. 1 \in Int /\ m \in Int /\ n \in Int
    BY <1>1
  <2>2. IsFiniteSet(1..m) /\ Cardinality(1..m) = IF 1 > m THEN 0 ELSE m - 1 + 1
    BY <2>1, FS_Interval
  <2>3. IsFiniteSet(1..n) /\ Cardinality(1..n) = IF 1 > n THEN 0 ELSE n - 1 + 1
    BY <2>1, FS_Interval
  <2> QED BY <1>1, <2>2, <2>3
<1>5. Cardinality(1..m) = Cardinality(B)
  BY <1>2, <1>4, FS_Bijection DEF ExistsBijection
<1>6. Cardinality(1..n) = Cardinality(B)
  BY <1>3, <1>4, FS_Bijection DEF ExistsBijection
<1> QED BY <1>4, <1>5, <1>6 DEF m, n

(* Brokers deployed in any number, each under a name of its own, by whomever and however: discovery lists      *)
(* each of them once, and leads to its pod, to a port that listens there, and to its login: its own, its own   *)
(* name with the default password where the password is in plain text, or none.                                *)
THEOREM EveryBrokerIsReached ==
    ASSUME NEW Names, NEW brokers \in Seq(UNION {Brokers(n) : n \in Names}),
           \A i, j \in DOMAIN brokers : brokers[i].n = brokers[j].n => i = j,
           \A i \in DOMAIN brokers : Present(brokers[i])
    PROVE  ReachesEveryBrokerOnce(brokers)
<1> DEFINE S == UNION {Brokers(n) : n \in Names}
           targets == DiscoverRabbitmq(Cluster(brokers))
           pod(t) == ResolvePod(Pods(brokers), t)
           port(t) == ResolvePort(pod(t), t.managementPort, t.tls)
           broker(t) == CHOOSE b \in ToSet(brokers) : b.n = pod(t).of
           login(t) == ResolveCredentials(Secrets(brokers), t.hint)
           Reached(t, b) == /\ port(t) \in Listens(b) /\ t.tls = (port(t) = 15671)
                            /\ t.portNumber = port(t)
                            /\ (ResolveTls(Secrets(brokers), t) = None) = ~t.tls
                            /\ login(t) = LoginOf(b)
<1>1. brokers \in Seq(S)
  OBVIOUS
<1>2. Deployed(brokers)
  <2>1. ASSUME NEW i \in DOMAIN brokers PROVE IsBroker(brokers[i])
    <3>1. brokers[i] \in S
      BY <1>1
    <3>2. PICK n \in Names : brokers[i] \in Brokers(n)
      BY <3>1
    <3> QED BY <3>2, BrokerIs
  <2> QED BY <2>1 DEF Deployed
<1> HIDE DEF S
<1>3. OneEach(targets, brokers)
  BY <1>1, <1>2, DiscoveryFinds
<1>4. ASSUME NEW t, NEW b \in ToSet(brokers), TargetIs(t, b) PROVE broker(t) = b /\ Reached(t, b)
  <2>1. IsBroker(b) /\ Present(b)
    BY <1>2, OneOfThem
  <2>2. PICK k : pod(t) = Pod(b, k)
    BY <1>1, <1>2, <1>4, PodIs
  <2>3. broker(t) = b
    <3>1. pod(t).of = b.n
      BY <2>2 DEF Pod
    <3>2. \A a \in ToSet(brokers) : a.n = b.n => a = b
      BY <1>2, SameBroker
    <3> HIDE DEF pod
    <3> QED BY <3>1, <3>2
  <2>4. port(t) = Chosen(b)
    <3> HIDE DEF pod
    <3> QED BY <2>1, <2>2, <1>4, PortIs
  <2>5. Chosen(b) \in Listens(b) /\ (Chosen(b) = 15671) = (b.tls = "only")
    BY <2>1, ChosenIs
  <2>6. t.tls = (b.tls = "only") /\ t.portNumber = Chosen(b) /\ t.ca = None
    BY <1>4 DEF TargetIs
  <2>7. (ResolveTls(Secrets(brokers), t) = None) = ~t.tls
    <3>1. CASE ~t.tls
      BY <3>1 DEF ResolveTls
    <3>2. CASE t.tls
      <4>1. ResolveTls(Secrets(brokers), t) = [ca |-> None, rejectUnauthorized |-> FALSE]
        BY <2>6, <3>2 DEF ResolveTls
      <4>2. [ca |-> None, rejectUnauthorized |-> FALSE] # None
        BY <2>1, ObjectsArePresent
      <4> QED BY <3>2, <4>1, <4>2
    <3> QED BY <3>1, <3>2
  <2>8. login(t) = LoginOf(b)
    BY <1>2, <1>4, LoginIs
  <2> HIDE DEF pod, port, broker, login
  <2> QED BY <2>3, <2>4, <2>5, <2>6, <2>7, <2>8
<1> HIDE DEF targets, broker, Reached
<1>5. PICK T : targets \in Seq(T)
  BY <1>3 DEF OneEach
<1>6. ASSUME NEW i \in DOMAIN targets
      PROVE  broker(targets[i]) \in ToSet(brokers) /\ TargetIs(targets[i], broker(targets[i])) /\ Reached(targets[i], broker(targets[i]))
  <2>1. PICK b \in ToSet(brokers) : TargetIs(targets[i], b)
    BY <1>3 DEF OneEach
  <2> QED BY <2>1, <1>4
<1>7. \A b \in ToSet(brokers) : \E i \in DOMAIN targets : broker(targets[i]) = b
  BY <1>3, <1>4 DEF OneEach
<1>8. Len(targets) = Len(brokers)
  <2> DEFINE of == [i \in DOMAIN targets |-> broker(targets[i])]
  <2>1. of \in [DOMAIN targets -> ToSet(brokers)]
    BY <1>6
  <2>2. \A i \in DOMAIN targets : of[i] = broker(targets[i])
    OBVIOUS
  <2> HIDE DEF of
  <2>3. \A i, j \in DOMAIN targets : of[i] = of[j] => i = j
    BY <1>3, <1>6, <2>2 DEF OneEach
  <2>4. \A b \in ToSet(brokers) : \E i \in DOMAIN targets : of[i] = b
    BY <1>7, <2>2
  <2>5. Once(brokers)
    BY DEF Once
  <2> QED BY <1>1, <1>5, <2>1, <2>3, <2>4, <2>5, AsMany
<1>9. {broker(targets[i]) : i \in DOMAIN targets} = ToSet(brokers)
  BY <1>6, <1>7
<1>10. \A i \in DOMAIN targets : Reached(targets[i], broker(targets[i]))
  BY <1>6
<1>11. ReachesEveryBrokerOnce(brokers) =
          /\ Len(targets) = Len(brokers)
          /\ {broker(targets[i]) : i \in DOMAIN targets} = ToSet(brokers)
          /\ \A i \in DOMAIN targets : Reached(targets[i], broker(targets[i]))
  BY DEF ReachesEveryBrokerOnce, targets, broker, Reached
<1> QED BY <1>8, <1>9, <1>10, <1>11

(* The brokers of a scene are reached once. *)
LEMMA SceneBrokers ==
    ASSUME scene \in Scenes \cup {None}, scene # None, scene.of = "cluster"
    PROVE  ReachesEveryBrokerOnce(scene.brokers)
<1>1. ASSUME NEW a \in Brokers("x"), scene.brokers = <<a>> PROVE ReachesEveryBrokerOnce(scene.brokers)
  <2> DEFINE brokers == scene.brokers
  <2>1. brokers \in Seq(UNION {Brokers(n) : n \in {"x"}}) /\ DOMAIN brokers = {1}
    BY <1>1
  <2>2. Present(a)
    BY SceneAssumption
  <2>3. /\ \A i, j \in DOMAIN brokers : brokers[i].n = brokers[j].n => i = j
        /\ \A i \in DOMAIN brokers : Present(brokers[i])
    BY <1>1, <2>1, <2>2
  <2> HIDE DEF brokers
  <2>4. ReachesEveryBrokerOnce(brokers)
    BY <2>1, <2>3, EveryBrokerIsReached
  <2> QED BY <2>4 DEF brokers
<1>2. ASSUME NEW a \in Brokers("x"), NEW b \in Brokers("y"), scene.brokers = <<a, b>>
      PROVE  ReachesEveryBrokerOnce(scene.brokers)
  <2> DEFINE brokers == scene.brokers
             S == UNION {Brokers(n) : n \in {"x", "y"}}
  <2>1. a \in S /\ b \in S
    OBVIOUS
  <2>2. brokers \in Seq(S) /\ DOMAIN brokers = {1, 2} /\ brokers[1] = a /\ brokers[2] = b
    <3> HIDE DEF S
    <3> QED BY <1>2, <2>1
  <2>3. Present(a) /\ Present(b) /\ a.n = "x" /\ b.n = "y"
    BY SceneAssumption, BrokerIs
  <2>4. /\ \A i, j \in DOMAIN brokers : brokers[i].n = brokers[j].n => i = j
        /\ \A i \in DOMAIN brokers : Present(brokers[i])
    BY <2>2, <2>3
  <2> HIDE DEF brokers
  <2>5. ReachesEveryBrokerOnce(brokers)
    BY <2>2, <2>4, EveryBrokerIsReached
  <2> QED BY <2>5 DEF brokers
<1>3. \/ \E a \in Brokers("x") : scene = [of |-> "cluster", brokers |-> <<a>>]
      \/ \E a \in Brokers("x"), b \in Brokers("y") : scene = [of |-> "cluster", brokers |-> <<a, b>>]
  <2>1. \/ scene \in {[of |-> "cluster", brokers |-> <<a>>] : a \in Brokers("x")}
        \/ scene \in {[of |-> "cluster", brokers |-> <<a, b>>] : a \in Brokers("x"), b \in Brokers("y")}
        \/ scene.of # "cluster"
    <3>1. \/ scene \in {[of |-> "cluster", brokers |-> <<a>>] : a \in Brokers("x")}
          \/ scene \in {[of |-> "cluster", brokers |-> <<a, b>>] : a \in Brokers("x"), b \in Brokers("y")}
          \/ scene \in {[of |-> "letter", own |-> own, deaths |-> d] : own \in {{}, {"CC", "app"}}, d \in DeathSequences}
          \/ scene \in {[of |-> "clients", pods |-> p] : p \in PodLists}
          \/ scene \in {[of |-> "broker", raw |-> r] : r \in RawBrokers}
      BY DEF Scenes
    <3>2. \A own, d : [of |-> "letter", own |-> own, deaths |-> d].of # "cluster"
      OBVIOUS
    <3>3. \A p : [of |-> "clients", pods |-> p].of # "cluster"
      OBVIOUS
    <3>4. \A r : [of |-> "broker", raw |-> r].of # "cluster"
      OBVIOUS
    <3> QED BY <3>1, <3>2, <3>3, <3>4
  <2> QED BY <2>1
<1>4. CASE \E a \in Brokers("x") : scene = [of |-> "cluster", brokers |-> <<a>>]
  <2>1. PICK a \in Brokers("x") : scene = [of |-> "cluster", brokers |-> <<a>>]
    BY <1>4
  <2>2. scene.brokers = <<a>>
    BY <2>1
  <2> QED BY <1>1, <2>2
<1>5. CASE \E a \in Brokers("x"), b \in Brokers("y") : scene = [of |-> "cluster", brokers |-> <<a, b>>]
  <2>1. PICK a \in Brokers("x"), b \in Brokers("y") : scene = [of |-> "cluster", brokers |-> <<a, b>>]
    BY <1>5
  <2>2. scene.brokers = <<a, b>>
    BY <2>1
  <2> QED BY <1>2, <2>2
<1> QED BY <1>3, <1>4, <1>5

(* From its Kubernetes objects every broker of a scene is reached once, as itself. *)
THEOREM BrokersStayReached == Spec => []BrokersAreReachedOnce
<1>1. PathInv => BrokersAreReachedOnce
  <2> SUFFICES ASSUME scene \in Scenes \cup {None}, scene # None, scene.of = "cluster"
               PROVE  ReachesEveryBrokerOnce(scene.brokers)
    BY DEF PathInv, BrokersAreReachedOnce
  <2> QED BY SceneBrokers
<1> QED BY <1>1, ReadPathInvariant, PTL
=============================================================================

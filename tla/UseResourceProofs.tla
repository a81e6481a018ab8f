------------------------- MODULE UseResourceProofs -------------------------
(***************************************************************************)
(* For any keys and any number of loads in flight, whatever the order of    *)
(* the answers: useResource never goes back, shows the data of its key     *)
(* once it has settled, and keeps the promise of AbstractResource.          *)
(***************************************************************************)
EXTENDS UseResource, TLAPS

Loads == [key : Keys, live : BOOLEAN, overtaken : BOOLEAN]

(* What `Ends` leaves of the loads in flight: each is one of those before, of which it keeps the key and *)
(* whether it is live; and the last one stays the last unless it is the one that ended.                  *)
LEMMA EndsKeeps ==
    ASSUME loads \in Seq(Loads), NEW i \in DOMAIN loads, Ends(i)
    PROVE  /\ loads' \in Seq(Loads) /\ Len(loads') = Len(loads) - 1
           /\ \A j \in DOMAIN loads' :
                 /\ j < i => loads'[j] = [loads[j] EXCEPT !.overtaken = TRUE]
                 /\ j >= i => loads'[j] = loads[j + 1]
<1> DEFINE marked == [j \in DOMAIN loads |-> IF j < i THEN [loads[j] EXCEPT !.overtaken = TRUE] ELSE loads[j]]
<1>1. marked \in Seq(Loads) /\ Len(marked) = Len(loads) /\ DOMAIN marked = DOMAIN loads
  <2>1. DOMAIN loads = 1..Len(loads) /\ Len(loads) \in Nat
    OBVIOUS
  <2>2. \A j \in DOMAIN loads : marked[j] \in Loads
    <3> SUFFICES ASSUME NEW j \in DOMAIN loads PROVE marked[j] \in Loads
      OBVIOUS
    <3>1. loads[j] \in Loads
      OBVIOUS
    <3>2. [loads[j] EXCEPT !.overtaken = TRUE] \in Loads
      BY <3>1 DEF Loads
    <3> QED BY <3>1, <3>2
  <2> QED BY <2>1, <2>2
<1>2. loads' = SubSeq(marked, 1, i - 1) \o SubSeq(marked, i + 1, Len(marked))
  BY DEF Ends, RemoveAt
<1> HIDE DEF marked
<1>3. i \in 1..Len(marked)
  BY <1>1
<1>4. /\ SubSeq(marked, 1, i - 1) \in Seq(Loads) /\ Len(SubSeq(marked, 1, i - 1)) = i - 1
      /\ \A j \in 1..(i - 1) : SubSeq(marked, 1, i - 1)[j] = marked[j]
  BY <1>1, <1>3
<1>5. /\ SubSeq(marked, i + 1, Len(marked)) \in Seq(Loads)
      /\ Len(SubSeq(marked, i + 1, Len(marked))) = Len(marked) - i
      /\ \A j \in 1..(Len(marked) - i) : SubSeq(marked, i + 1, Len(marked))[j] = marked[i + j]
  BY <1>1, <1>3
<1>6. loads' \in Seq(Loads) /\ Len(loads') = Len(loads) - 1
  BY <1>1, <1>2, <1>4, <1>5
<1>7. \A j \in DOMAIN loads' : loads'[j] = IF j < i THEN marked[j] ELSE marked[j + 1]
  <2> SUFFICES ASSUME NEW j \in DOMAIN loads'
               PROVE  loads'[j] = IF j < i THEN marked[j] ELSE marked[j + 1]
    OBVIOUS
  <2>1. j \in 1..(Len(marked) - 1) /\ i \in 1..Len(marked) /\ Len(marked) \in Nat
    BY <1>1, <1>3, <1>6
  <2> DEFINE before == SubSeq(marked, 1, i - 1)
             after == SubSeq(marked, i + 1, Len(marked))
  <2> HIDE DEF before, after
  <2>a. /\ before \in Seq(Loads) /\ after \in Seq(Loads) /\ loads' = before \o after
        /\ Len(before) = i - 1 /\ Len(after) = Len(marked) - i
        /\ \A n \in 1..(i - 1) : before[n] = marked[n]
        /\ \A n \in 1..(Len(marked) - i) : after[n] = marked[i + n]
    BY <1>2, <1>4, <1>5 DEF before, after
  <2>b. loads'[j] = IF j <= Len(before) THEN before[j] ELSE after[j - Len(before)]
    BY <2>1, <2>a
  <2>2. CASE j < i
    BY <2>1, <2>2, <2>a, <2>b
  <2>3. CASE j >= i
    <3>1. j - (i - 1) \in 1..(Len(marked) - i) /\ i + (j - (i - 1)) = j + 1 /\ ~(j < i)
      BY <2>1, <2>3
    <3>2. loads'[j] = after[j - (i - 1)]
      BY <2>1, <2>3, <2>a, <2>b
    <3> QED BY <3>1, <3>2, <2>a
  <2> QED BY <2>1, <2>2, <2>3
<1>8. \A j \in 1..Len(loads) : marked[j] = IF j < i THEN [loads[j] EXCEPT !.overtaken = TRUE] ELSE loads[j]
  <2>1. DOMAIN loads = 1..Len(loads)
    OBVIOUS
  <2> QED BY <2>1 DEF marked
<1>9. DOMAIN loads' = 1..(Len(loads) - 1) /\ Len(loads) \in Nat /\ i \in 1..Len(loads)
  BY <1>1, <1>3, <1>6
<1>10. \A j \in DOMAIN loads' : j < i => loads'[j] = [loads[j] EXCEPT !.overtaken = TRUE]
  <2> SUFFICES ASSUME NEW j \in DOMAIN loads', j < i
               PROVE  loads'[j] = [loads[j] EXCEPT !.overtaken = TRUE]
    OBVIOUS
  <2>1. j \in 1..Len(loads)
    BY <1>9
  <2> QED BY <2>1, <1>7, <1>8
<1>11. \A j \in DOMAIN loads' : j >= i => loads'[j] = loads[j + 1]
  <2> SUFFICES ASSUME NEW j \in DOMAIN loads', j >= i PROVE loads'[j] = loads[j + 1]
    OBVIOUS
  <2>1. j + 1 \in 1..Len(loads) /\ ~(j + 1 < i) /\ ~(j < i)
    BY <1>9
  <2> QED BY <2>1, <1>7, <1>8
<1> QED
  BY <1>6, <1>10, <1>11

LEMMA TypeStep ==
    ASSUME ResourceTypeOK, [ResourceNext]_resourceVars
    PROVE  ResourceTypeOK'
<1> USE ResourceAssumption
<1>1. ASSUME NEW k \in Keys \cup {None}, Rekey(k) PROVE ResourceTypeOK'
  BY <1>1 DEF ResourceTypeOK, Rekey
<1>2. ASSUME Reload PROVE ResourceTypeOK'
  BY <1>2 DEF ResourceTypeOK, Reload
<1>3. ASSUME Effect PROVE ResourceTypeOK'
  <2> DEFINE left == [i \in DOMAIN loads |-> [loads[i] EXCEPT !.live = FALSE]]
  <2>1. loads \in Seq(Loads) /\ Len(loads) \in Nat /\ DOMAIN loads = 1..Len(loads)
    BY DEF ResourceTypeOK, Loads
  <2>2. \A i \in DOMAIN loads : left[i] \in Loads
    <3> SUFFICES ASSUME NEW i \in DOMAIN loads PROVE left[i] \in Loads
      OBVIOUS
    <3>1. loads[i] \in Loads
      BY <2>1
    <3> QED BY <3>1 DEF Loads
  <2>3. left \in Seq(Loads) /\ Len(left) = Len(loads)
    BY <2>1, <2>2
  <2>4. loads' = IF key = None THEN left ELSE Append(left, Load(key))
    BY <1>3 DEF Effect
  <2> HIDE DEF left
  <2>5. key # None => Load(key) \in Loads
    BY DEF ResourceTypeOK, Load, Loads
  <2>6. loads' \in Seq(Loads) /\ Len(loads') <= Len(loads) + 1
    <3>1. CASE key = None
      BY <3>1, <2>1, <2>3, <2>4
    <3>2. CASE key # None
      BY <3>2, <2>1, <2>3, <2>4, <2>5
    <3> QED BY <3>1, <3>2
  <2>7. Len(loads') <= MaxLoads
    BY <1>3, <2>1, <2>6 DEF Effect
  <2>8. key' \in Keys \cup {None} /\ data' \in [key : Keys \cup {None}, overtaken : BOOLEAN]
    BY <1>3 DEF Effect, ResourceTypeOK, NoData
  <2>9. {due', error', loading'} \subseteq BOOLEAN
    BY <1>3 DEF Effect, ResourceTypeOK
  <2> QED BY <2>6, <2>7, <2>8, <2>9 DEF ResourceTypeOK, Loads
<1>4. ASSUME NEW i \in DOMAIN loads, Lands(i) \/ Fails(i) PROVE ResourceTypeOK'
  <2>1. loads \in Seq(Loads) /\ Len(loads) \in Nat /\ Len(loads) <= MaxLoads
    BY DEF ResourceTypeOK, Loads
  <2>2. loads' \in Seq(Loads) /\ Len(loads') = Len(loads) - 1
    BY <2>1, <1>4, EndsKeeps DEF Lands, Fails
  <2>3. loads[i] \in Loads
    BY <2>1
  <2>4. data' \in [key : Keys \cup {None}, overtaken : BOOLEAN]
    BY <1>4, <2>3 DEF Lands, Fails, Loads, ResourceTypeOK
  <2>5. key' = key /\ due' = due
    BY <1>4 DEF Lands, Fails
  <2>6. {error', loading'} \subseteq BOOLEAN
    BY <1>4, <2>3 DEF Lands, Fails, Loads, ResourceTypeOK
  <2> QED BY <2>1, <2>2, <2>4, <2>5, <2>6 DEF ResourceTypeOK, Loads
<1>5. CASE UNCHANGED resourceVars
  BY <1>5 DEF ResourceTypeOK, resourceVars
<1> QED BY <1>1, <1>2, <1>3, <1>4, <1>5 DEF ResourceNext

LEMMA InvStep ==
    ASSUME ResourceInv, [ResourceNext]_resourceVars
    PROVE  ResourceInv'
<1>1. ResourceTypeOK /\ ResourceTypeOK'
  BY TypeStep DEF ResourceInv
<1>2. loads \in Seq(Loads) /\ Len(loads) \in Nat /\ DOMAIN loads = 1..Len(loads)
  BY <1>1 DEF ResourceTypeOK, Loads
<1> USE ResourceAssumption
<1>3. ASSUME NEW k \in Keys \cup {None}, Rekey(k) PROVE ResourceInv'
  BY <1>1, <1>3 DEF ResourceInv, LiveIsLast, NeverBackwards, SettledShowsItsKey, Rekey
<1>4. ASSUME Reload PROVE ResourceInv'
  BY <1>1, <1>4 DEF ResourceInv, LiveIsLast, NeverBackwards, SettledShowsItsKey, Reload
<1>5. ASSUME Effect PROVE ResourceInv'
  <2> DEFINE left == [i \in DOMAIN loads |-> [loads[i] EXCEPT !.live = FALSE]]
  <2>1. \A i \in DOMAIN loads : ~left[i].live
    <3> SUFFICES ASSUME NEW i \in DOMAIN loads PROVE ~left[i].live
      OBVIOUS
    <3>1. loads[i] \in Loads
      BY <1>2
    <3> QED BY <3>1 DEF Loads
  <2>2. DOMAIN left = 1..Len(loads) /\ left \in Seq(Loads) /\ Len(left) = Len(loads)
    <3>1. \A i \in DOMAIN loads : left[i] \in Loads
      <4> SUFFICES ASSUME NEW i \in DOMAIN loads PROVE left[i] \in Loads
        OBVIOUS
      <4>1. loads[i] \in Loads
        BY <1>2
      <4> QED BY <4>1 DEF Loads
    <3> QED BY <1>2, <3>1
  <2>3. loads' = IF key = None THEN left ELSE Append(left, Load(key))
    BY <1>5 DEF Effect
  <2> HIDE DEF left
  <2>4. key' = key
    BY <1>5 DEF Effect
  <2>5. LiveIsLast'
    <3>1. CASE key = None
      BY <3>1, <1>2, <2>1, <2>2, <2>3 DEF LiveIsLast
    <3>2. CASE key # None
      <4>1. Load(key) \in Loads
        BY <1>1, <3>2 DEF Load, Loads, ResourceTypeOK
      <4>2. loads' = Append(left, Load(key)) /\ Len(loads') = Len(loads) + 1
        BY <3>2, <1>2, <2>2, <2>3, <4>1
      <4>3. \A i \in 1..Len(loads) : loads'[i] = left[i]
        BY <4>1, <4>2, <1>2, <2>2
      <4>4. loads'[Len(loads) + 1] = Load(key)
        BY <4>1, <4>2, <1>2, <2>2
      <4>5. DOMAIN loads' = 1..(Len(loads) + 1)
        BY <4>1, <4>2, <1>2, <2>2
      <4>6. ~Load(key).overtaken /\ Load(key).key = key
        BY DEF Load
      <4> QED BY <4>2, <4>3, <4>4, <4>5, <4>6, <2>1, <2>4, <1>2 DEF LiveIsLast
    <3> QED BY <3>1, <3>2
  <2>6. NeverBackwards'
    BY <1>5 DEF Effect, NeverBackwards, NoData, ResourceInv
  <2>7. SettledShowsItsKey'
    BY <1>5 DEF Effect, SettledShowsItsKey, NoData
  <2> QED BY <1>1, <2>5, <2>6, <2>7 DEF ResourceInv
<1>6. ASSUME NEW i \in DOMAIN loads, Lands(i) \/ Fails(i) PROVE ResourceInv'
  <2>1. /\ loads' \in Seq(Loads) /\ Len(loads') = Len(loads) - 1
        /\ \A j \in DOMAIN loads' :
              /\ j < i => loads'[j] = [loads[j] EXCEPT !.overtaken = TRUE]
              /\ j >= i => loads'[j] = loads[j + 1]
    BY <1>2, <1>6, EndsKeeps DEF Lands, Fails
  <2>2. DOMAIN loads' = 1..(Len(loads) - 1) /\ i \in 1..Len(loads)
    BY <1>2, <2>1
  <2>3. key' = key /\ due' = due
    BY <1>6 DEF Lands, Fails
  <2>4. loads[i] \in Loads
    BY <1>2
  <2>5. loads[i].live => i = Len(loads) /\ ~loads[i].overtaken /\ (due \/ loads[i].key = key)
    BY DEF ResourceInv, LiveIsLast
  <2>6. LiveIsLast'
    <3> SUFFICES ASSUME NEW j \in DOMAIN loads', loads'[j].live
                 PROVE  j = Len(loads') /\ ~loads'[j].overtaken /\ (due' \/ loads'[j].key = key')
      BY DEF LiveIsLast
    <3>1. j \in 1..Len(loads) /\ j + 1 \in 1..Len(loads)
      BY <2>2, <1>2
    <3>2. CASE j < i
      <4>1. loads[j] \in Loads /\ loads'[j] = [loads[j] EXCEPT !.overtaken = TRUE]
        BY <3>1, <3>2, <2>1, <1>2
      <4>2. loads[j].live
        BY <4>1 DEF Loads
      <4>3. j = Len(loads)
        BY <4>2, <3>1, <1>2 DEF ResourceInv, LiveIsLast
      <4> QED BY <4>3, <3>2, <2>2, <1>2
    <3>3. CASE j >= i
      <4>1. loads'[j] = loads[j + 1]
        BY <3>3, <2>1
      <4>2. j + 1 = Len(loads) /\ ~loads[j + 1].overtaken /\ (due \/ loads[j + 1].key = key)
        BY <4>1, <3>1, <1>2 DEF ResourceInv, LiveIsLast
      <4> QED BY <4>1, <4>2, <2>1, <2>2, <2>3, <1>2
    <3> QED BY <3>1, <3>2, <3>3, <2>2
  <2>7. NeverBackwards' /\ SettledShowsItsKey'
    <3>1. CASE ~loads[i].live
      <4>1. data' = data /\ (loading' <=> loading) /\ (error' <=> error)
        BY <1>6, <3>1 DEF Lands, Fails
      <4> QED BY <4>1, <2>3 DEF NeverBackwards, SettledShowsItsKey, ResourceInv
    <3>2. CASE loads[i].live /\ Lands(i)
      <4>1. data' = [key |-> loads[i].key, overtaken |-> loads[i].overtaken]
        BY <3>2 DEF Lands
      <4> QED BY <4>1, <3>2, <2>3, <2>5 DEF NeverBackwards, SettledShowsItsKey
    <3>3. CASE loads[i].live /\ Fails(i)
      <4>1. data' = data /\ error'
        BY <3>3 DEF Fails
      <4> QED BY <4>1 DEF NeverBackwards, SettledShowsItsKey, ResourceInv
    <3> QED BY <1>6, <3>1, <3>2, <3>3
  <2> QED BY <1>1, <2>6, <2>7 DEF ResourceInv
<1>7. CASE UNCHANGED resourceVars
  BY <1>1, <1>7 DEF ResourceInv, LiveIsLast, NeverBackwards, SettledShowsItsKey, resourceVars
<1> QED BY <1>3, <1>4, <1>5, <1>6, <1>7 DEF ResourceNext

(* The hook as it begins. *)
LEMMA InitHolds == ResourceInit => ResourceInv
<1> SUFFICES ASSUME ResourceInit PROVE ResourceInv
  OBVIOUS
<1>1. ResourceTypeOK
  <2>1. Len(loads) <= MaxLoads /\ loads \in Seq(Loads)
    BY ResourceAssumption DEF ResourceInit
  <2>2. data \in [key : Keys \cup {None}, overtaken : BOOLEAN]
    BY DEF ResourceInit, NoData
  <2>3. {due, error, loading} \subseteq BOOLEAN
    BY DEF ResourceInit
  <2> QED BY <2>1, <2>2, <2>3 DEF ResourceInit, ResourceTypeOK, Loads
<1>2. LiveIsLast
  BY DEF ResourceInit, LiveIsLast
<1>3. NeverBackwards
  BY DEF ResourceInit, NeverBackwards, NoData
<1>4. SettledShowsItsKey
  BY DEF ResourceInit, SettledShowsItsKey
<1> QED BY <1>1, <1>2, <1>3, <1>4 DEF ResourceInv

(* In every reachable state the hook's state has its type, only the load started last is live, and what   *)
(* the page has is what hooks.ts says it is.                                                              *)
THEOREM ResourceInvariant == ResourceSpec => []ResourceInv
BY InitHolds, InvStep, PTL DEF ResourceSpec

(* No answer replaces the answer to a later question. *)
THEOREM ResourceNeverGoesBack == ResourceSpec => []NeverBackwards
<1>1. ResourceInv => NeverBackwards
  BY DEF ResourceInv
<1> QED BY <1>1, ResourceInvariant, PTL

(* A hook that has settled without an error shows the data of its key. *)
THEOREM ResourceShowsItsKey == ResourceSpec => []SettledShowsItsKey
<1>1. ResourceInv => SettledShowsItsKey
  BY DEF ResourceInv
<1> QED BY <1>1, ResourceInvariant, PTL

-----------------------------------------------------------------------------
(* The load that may still be answered: with the invariant, the one `Late` names. *)
LEMMA LateIs ==
    ASSUME ResourceInv
    PROVE  /\ ~due => Late = None
           /\ loads = <<>> \/ ~loads[Len(loads)].live => Late = None
           /\ due /\ loads # <<>> /\ loads[Len(loads)].live => Late = loads[Len(loads)].key
           /\ ~due /\ loads # <<>> /\ loads[Len(loads)].live => loads[Len(loads)].key = key
<1>1. loads \in Seq(Loads)
  BY DEF ResourceInv, ResourceTypeOK, Loads
<1>2. loads # <<>> => Len(loads) \in DOMAIN loads
  BY <1>1
<1> QED BY <1>2 DEF Late, ResourceInv, LiveIsLast

(* A render, the poll and an effect do to the promise what they are called there. *)
LEMMA RenderKeeps ==
    ASSUME ResourceInv, ResourceInv',
           (\E k \in Keys \cup {None} : Rekey(k)) \/ Reload \/ Effect
    PROVE  Promise!Next
<1>1. ASSUME NEW k \in Keys \cup {None}, Rekey(k) PROVE Promise!Rekey(k)
  <2>1. loads' = loads /\ due' /\ data' = data /\ key' = k
    BY <1>1 DEF Rekey
  <2>2. Late' = IF loads # <<>> /\ loads[Len(loads)].live THEN loads[Len(loads)].key ELSE None
    BY <2>1 DEF Late
  <2> QED BY <2>1, <2>2, LateIs DEF Promise!Rekey
<1>2. ASSUME Reload PROVE Promise!Reload
  <2>1. loads' = loads /\ due' /\ data' = data /\ key' = key
    BY <1>2 DEF Reload
  <2>2. Late' = IF loads # <<>> /\ loads[Len(loads)].live THEN loads[Len(loads)].key ELSE None
    BY <2>1 DEF Late
  <2> QED BY <2>1, <2>2, LateIs DEF Promise!Reload
<1>3. ASSUME Effect PROVE Promise!Effect
  <2>1. Late' = None
    BY <1>3 DEF Effect, Late
  <2> QED BY <1>3, <2>1 DEF Effect, NoData, Promise!Effect
<1> QED BY <1>1, <1>2, <1>3 DEF Promise!Next

(* An answer is shown, or is lost with its load (a Reload of the promise), or changes nothing. *)
LEMMA AnswerKeeps ==
    ASSUME ResourceInv, ResourceInv', NEW i \in DOMAIN loads, Lands(i) \/ Fails(i)
    PROVE  Promise!Next \/ UNCHANGED <<key, Late, data.key>>
<1>1. loads \in Seq(Loads) /\ Len(loads) \in Nat /\ i \in 1..Len(loads) /\ loads # <<>>
  BY DEF ResourceInv, ResourceTypeOK, Loads
<1>2. /\ loads' \in Seq(Loads) /\ Len(loads') = Len(loads) - 1
      /\ \A j \in DOMAIN loads' :
            /\ j < i => loads'[j] = [loads[j] EXCEPT !.overtaken = TRUE]
            /\ j >= i => loads'[j] = loads[j + 1]
  BY <1>1, EndsKeeps DEF Lands, Fails
<1>3. key' = key /\ due' = due
  BY DEF Lands, Fails
<1>4. loads[i] \in Loads /\ \A j \in DOMAIN loads : loads[j].live => j = Len(loads)
  BY <1>1 DEF ResourceInv, LiveIsLast
<1>5. CASE i = Len(loads)
  <2>1. Late' = None
    <3> SUFFICES ASSUME loads' # <<>> PROVE ~loads'[Len(loads')].live
      BY DEF Late
    <3>1. /\ Len(loads') = i - 1 /\ i - 1 \in DOMAIN loads' /\ i - 1 \in DOMAIN loads
          /\ i - 1 < i /\ i - 1 # Len(loads)
      BY <1>1, <1>2, <1>5
    <3>2. loads'[i - 1] = [loads[i - 1] EXCEPT !.overtaken = TRUE]
      BY <3>1, <1>2
    <3>3. loads'[i - 1].live = loads[i - 1].live
      <4>1. loads[i - 1] \in Loads
        BY <3>1, <1>1
      <4> QED BY <4>1, <3>2 DEF Loads
    <3> QED BY <3>1, <3>3, <1>4
  <2>2. CASE ~loads[i].live
    <3>1. Late = None
      BY <2>2, <1>5, LateIs
    <3>2. data' = data
      BY <2>2 DEF Lands, Fails
    <3> QED BY <2>1, <3>1, <3>2, <1>3
  <2>3. CASE loads[i].live /\ Fails(i)
    <3>1. data' = data
      BY <2>3 DEF Fails
    <3> QED BY <2>1, <3>1, <1>3 DEF Promise!Reload, Promise!Next
  <2>4. CASE loads[i].live /\ Lands(i)
    <3>1. data'.key = loads[i].key
      BY <2>4 DEF Lands
    <3>2. loads[i].key \in {key, Late}
      BY <2>4, <1>1, <1>5, LateIs
    <3>3. loads[i].key # None
      BY <1>4, ResourceAssumption DEF Loads
    <3> QED BY <2>1, <3>1, <3>2, <3>3, <1>3 DEF Promise!Show, Promise!Next
  <2> QED BY <2>2, <2>3, <2>4
<1>6. CASE i # Len(loads)
  <2>1. /\ Len(loads') = Len(loads) - 1 /\ Len(loads) - 1 \in DOMAIN loads' /\ Len(loads) - 1 >= i
        /\ Len(loads) - 1 + 1 = Len(loads)
    BY <1>1, <1>2, <1>6
  <2>2. loads'[Len(loads')] = loads[Len(loads)] /\ loads' # <<>>
    BY <2>1, <1>2
  <2>3. Late' = Late
    BY <2>2, <1>1, <1>3 DEF Late
  <2>4. ~loads[i].live
    BY <1>4, <1>6
  <2>5. data' = data
    BY <2>4 DEF Lands, Fails
  <2> QED BY <2>3, <2>5, <1>3
<1> QED BY <1>5, <1>6

(* Every step of the hook is one of its promise, or changes nothing there. *)
LEMMA PromiseStep ==
    ASSUME ResourceInv, ResourceInv', [ResourceNext]_resourceVars
    PROVE  Promise!Next \/ UNCHANGED Promise!vars
<1>1. CASE UNCHANGED resourceVars
  BY <1>1 DEF resourceVars, Late, Promise!vars
<1> QED BY <1>1, RenderKeeps, AnswerKeeps DEF ResourceNext, Promise!vars

(* The hook keeps the promise the pages are written against: what is shown was loaded for the key of the   *)
(* render or, until its effect has run, for the one before (hooks.ts:32-50).                              *)
THEOREM ResourceKeepsPromise == ResourceSpec => ImplementsPromise
<1>1. ResourceInit => Promise!Init
  BY DEF ResourceInit, NoData, Late, Promise!Init
<1>2. ResourceInv /\ ResourceInv' /\ [ResourceNext]_resourceVars => [Promise!Next]_(Promise!vars)
  BY PromiseStep
<1> QED BY <1>1, <1>2, ResourceInvariant, PTL DEF ResourceSpec, ImplementsPromise, Promise!Spec
=============================================================================

-------------------------- MODULE AlgorithmProofs ---------------------------
(***************************************************************************)
(* Proofs about the pure algorithms, for inputs of any size: the history   *)
(* of a dead letter, the batches the inspector filters (DeadLetter), and   *)
(* the rows of the Clients view (Clients).  An induction is over a set of  *)
(* natural numbers, or of parts of a finite set: the set of those of which *)
(* something holds has the first of them, and the next of each.            *)
(***************************************************************************)
EXTENDS DeadLetter, Clients, FiniteSetTheorems, SequenceTheorems, WellFoundedInduction, TLAPS

-----------------------------------------------------------------------------
(* Induction over the natural numbers, of a set of them. *)
LEMMA NatSet ==
    ASSUME NEW T, T \subseteq Nat, 0 \in T, \A n \in T : n + 1 \in T
    PROVE  T = Nat
<1> SUFFICES ASSUME Nat \ T # {} PROVE FALSE
  OBVIOUS
<1> DEFINE R == OpToRel(<, Nat)
<1>1. PICK n \in Nat \ T : \A m \in Nat \ T : ~(<<m, n>> \in R)
  <2>1. IsWellFoundedOn(R, Nat)
    BY NatLessThanWellFounded, Zenon
  <2> HIDE DEF R
  <2> QED BY <2>1, WFMin
<1>2. \A m \in Nat : m < n => <<m, n>> \in R
  BY SMT DEF OpToRel
<1> HIDE DEF R
<1>3. n # 0 /\ n - 1 \in Nat /\ n - 1 < n
  BY <1>1
<1>4. n - 1 \in T
  BY <1>1, <1>2, <1>3
<1> QED BY <1>1, <1>3, <1>4

(* Induction over an interval. *)
LEMMA RangeSet ==
    ASSUME NEW n \in Nat, NEW T, 0 \in T, \A i \in 1..n : i - 1 \in T => i \in T
    PROVE  0..n \subseteq T
<1> DEFINE U == {i \in Nat : i \in 0..n => i \in T}
<1>1. \A i \in U : i + 1 \in U
  <2> SUFFICES ASSUME NEW i \in U, i + 1 \in 0..n PROVE i + 1 \in T
    OBVIOUS
  <2>1. i \in T /\ i + 1 \in 1..n /\ (i + 1) - 1 = i
    OBVIOUS
  <2> QED BY <2>1
<1>2. U = Nat
  <2>1. 0 \in U /\ U \subseteq Nat
    OBVIOUS
  <2> HIDE DEF U
  <2> QED BY <1>1, <2>1, NatSet
<1> QED BY <1>2

(* Induction over the parts of a finite set. *)
LEMMA PartSet ==
    ASSUME NEW S, IsFiniteSet(S), NEW T, {} \in T,
           \A V \in SUBSET S : V # {} /\ (\A x \in V : V \ {x} \in T) => V \in T
    PROVE  SUBSET S \subseteq T
<1> DEFINE U == {n \in Nat : \A V \in SUBSET S : Cardinality(V) = n => V \in T}
<1>1. \A V \in SUBSET S : IsFiniteSet(V) /\ Cardinality(V) \in Nat
  BY FS_Subset, FS_CardinalityType
<1>2. 0 \in U
  <2> SUFFICES ASSUME NEW V \in SUBSET S, Cardinality(V) = 0 PROVE V \in T
    OBVIOUS
  <2>1. IsFiniteSet(V)
    BY <1>1
  <2>2. V = {}
    BY <2>1, FS_EmptySet
  <2> QED BY <2>2
<1>3. \A n \in U : n + 1 \in U
  <2> SUFFICES ASSUME NEW n \in U, NEW V \in SUBSET S, Cardinality(V) = n + 1 PROVE V \in T
    OBVIOUS
  <2>1. V # {}
    <3>1. Cardinality({}) = 0
      BY FS_EmptySet
    <3> QED BY <3>1
  <2>2. ASSUME NEW x \in V PROVE V \ {x} \in T
    <3>1. Cardinality(V \ {x}) = n /\ V \ {x} \in SUBSET S
      BY <1>1, FS_RemoveElement
    <3> QED BY <3>1
  <2> QED BY <2>1, <2>2
<1>4. U = Nat
  <2>1. U \subseteq Nat
    OBVIOUS
  <2> HIDE DEF U
  <2> QED BY <1>2, <1>3, <2>1, NatSet
<1> QED BY <1>1, <1>4

(* A function defined by recursion over an interval: it starts from `base`, and each step stays in X. *)
Recursion(X, n, base, step) == n \in Nat /\ base \in X /\ step \in [X \X (1..n) -> X]
Follows(h, X, n, base, step) == h \in [0..n -> X] /\ h[0] = base /\ \A i \in 1..n : h[i] = step[<<h[i - 1], i>>]

(* There is such a function. *)
LEMMA RecursionExists ==
    ASSUME NEW X, NEW n, NEW base, NEW step, Recursion(X, n, base, step)
    PROVE  \E h : Follows(h, X, n, base, step)
<1>a. n \in Nat /\ base \in X /\ step \in [X \X (1..n) -> X]
  BY DEF Recursion
<1> DEFINE Upto(m, h) == h[0] = base /\ \A i \in 1..m : h[i] = step[<<h[i - 1], i>>]
           T == {m \in 0..n : \E h \in [0..n -> X] : Upto(m, h)}
<1>1. 0 \in T
  <2> DEFINE g == [i \in 0..n |-> base]
  <2>1. g \in [0..n -> X] /\ Upto(0, g)
    BY <1>a
  <2> HIDE DEF g, Upto
  <2> QED BY <1>a, <2>1
<1>2. ASSUME NEW m \in 1..n, m - 1 \in T PROVE m \in T
  <2>1. PICK h \in [0..n -> X] : Upto(m - 1, h)
    BY <1>2
  <2> DEFINE g == [h EXCEPT ![m] = step[<<h[m - 1], m>>]]
  <2>2. g \in [0..n -> X] /\ g[0] = base
    BY <2>1, <1>a
  <2>3. ASSUME NEW i \in 1..m PROVE g[i] = step[<<g[i - 1], i>>]
    BY <2>1, <1>a
  <2>4. Upto(m, g)
    BY <2>2, <2>3
  <2> HIDE DEF g, Upto
  <2> QED BY <2>2, <2>4
<1>3. n \in T
  <2>1. n \in 0..n
    BY <1>a
  <2> HIDE DEF T
  <2> QED BY <1>a, <1>1, <1>2, <2>1, RangeSet
<1> QED BY <1>3 DEF Follows

-----------------------------------------------------------------------------
(* What a sum is: taken over the parts of S, it satisfies this. *)
Sums(g, f, S) ==
    g = [V \in SUBSET S |-> IF V = {} THEN 0 ELSE f[CHOOSE x \in V : TRUE] + g[V \ {CHOOSE x \in V : TRUE}]]

(* There is such a sum. *)
LEMMA SumsExist ==
    ASSUME NEW S, IsFiniteSet(S), NEW f \in [S -> Nat]
    PROVE  \E g \in [SUBSET S -> Nat] : Sums(g, f, S)
<1> DEFINE c(V) == CHOOSE x \in V : TRUE
           Eq(g, V) == g[V] = IF V = {} THEN 0 ELSE f[c(V)] + g[V \ {c(V)}]
           T == {n \in Nat : \E g \in [SUBSET S -> Nat] : \A V \in SUBSET S : Cardinality(V) <= n => Eq(g, V)}
<1>1. \A V \in SUBSET S : IsFiniteSet(V) /\ Cardinality(V) \in Nat /\ (Cardinality(V) = 0 <=> V = {})
  BY FS_Subset, FS_CardinalityType, FS_EmptySet
<1>2. \A V \in SUBSET S : V # {} => c(V) \in V
  OBVIOUS
<1>3. \A V \in SUBSET S : V # {} => V \ {c(V)} \in SUBSET S /\ Cardinality(V \ {c(V)}) = Cardinality(V) - 1
  BY <1>1, <1>2, FS_RemoveElement
<1> HIDE DEF c
<1>4. 0 \in T
  <2> DEFINE z == [V \in SUBSET S |-> 0]
  <2>1. z \in [SUBSET S -> Nat] /\ \A V \in SUBSET S : Cardinality(V) <= 0 => Eq(z, V)
    BY <1>1
  <2> HIDE DEF z, Eq
  <2> QED BY <2>1
<1>5. ASSUME NEW n \in T PROVE n + 1 \in T
  <2>1. PICK g \in [SUBSET S -> Nat] : \A V \in SUBSET S : Cardinality(V) <= n => Eq(g, V)
    OBVIOUS
  <2> DEFINE h == [V \in SUBSET S |-> IF Cardinality(V) = n + 1 THEN f[c(V)] + g[V \ {c(V)}] ELSE g[V]]
  <2>2. ASSUME NEW V \in SUBSET S, Cardinality(V) = n + 1 PROVE h[V] \in Nat /\ Eq(h, V)
    <3>1. V # {} /\ n \in Nat
      BY <1>1, <2>2
    <3>2. V \ {c(V)} \in SUBSET S /\ Cardinality(V \ {c(V)}) = n /\ c(V) \in S
      BY <1>2, <1>3, <2>2, <3>1
    <3>3. h[V \ {c(V)}] = g[V \ {c(V)}]
      BY <3>1, <3>2
    <3> QED BY <3>1, <3>2, <3>3, <2>2
  <2>3. ASSUME NEW V \in SUBSET S, Cardinality(V) # n + 1 PROVE h[V] \in Nat /\ h[V] = g[V]
    BY <2>3
  <2>4. ASSUME NEW V \in SUBSET S, Cardinality(V) <= n PROVE Eq(h, V)
    <3>1. Eq(g, V) /\ n \in Nat /\ Cardinality(V) \in Nat
      BY <2>1, <2>4, <1>1
    <3>2. h[V] = g[V]
      BY <2>3, <2>4, <3>1
    <3>3. CASE V = {}
      BY <3>1, <3>2, <3>3
    <3>4. CASE V # {}
      <4>1. V \ {c(V)} \in SUBSET S /\ Cardinality(V \ {c(V)}) = Cardinality(V) - 1
        BY <1>3, <3>4
      <4>2. h[V \ {c(V)}] = g[V \ {c(V)}]
        BY <4>1, <3>1, <2>3, <2>4
      <4> HIDE DEF h
      <4> QED BY <4>2, <3>1, <3>2, <3>4
    <3> QED BY <3>3, <3>4
  <2>5. h \in [SUBSET S -> Nat]
    BY <2>2, <2>3
  <2>6. \A V \in SUBSET S : Cardinality(V) <= n + 1 => Eq(h, V)
    <3> SUFFICES ASSUME NEW V \in SUBSET S, Cardinality(V) <= n + 1 PROVE Eq(h, V)
      OBVIOUS
    <3>1. n \in Nat /\ Cardinality(V) \in Nat
      BY <1>1
    <3>2. Cardinality(V) = n + 1 \/ Cardinality(V) <= n
      BY <3>1
    <3> HIDE DEF h, Eq
    <3> QED BY <3>2, <2>2, <2>4
  <2> HIDE DEF h, Eq
  <2> QED BY <2>5, <2>6
<1>6. T = Nat
  <2>1. T \subseteq Nat
    OBVIOUS
  <2> HIDE DEF T
  <2> QED BY <1>4, <1>5, <2>1, NatSet
<1>7. PICK g \in [SUBSET S -> Nat] : \A V \in SUBSET S : Cardinality(V) <= Cardinality(S) => Eq(g, V)
  <2>1. Cardinality(S) \in T
    BY <1>1, <1>6
  <2> QED BY <2>1
<1>8. \A V \in SUBSET S : Eq(g, V)
  BY <1>7, FS_Subset
<1>9. g = [V \in SUBSET S |-> IF V = {} THEN 0 ELSE f[c(V)] + g[V \ {c(V)}]]
  BY <1>8
<1> QED BY <1>9 DEF Sums, c

(* An element can be taken off in any order. *)
LEMMA SumsTakeOff ==
    ASSUME NEW S, IsFiniteSet(S), NEW f \in [S -> Nat], NEW g \in [SUBSET S -> Nat], Sums(g, f, S)
    PROVE  g[{}] = 0 /\ \A V \in SUBSET S : \A x \in V : g[V] = f[x] + g[V \ {x}]
<1> DEFINE c(V) == CHOOSE x \in V : TRUE
           T == {V \in SUBSET S : \A x \in V : g[V] = f[x] + g[V \ {x}]}
<1>1. \A V \in SUBSET S : V # {} => c(V) \in V /\ g[V] = f[c(V)] + g[V \ {c(V)}]
  BY DEF Sums
<1>2. g[{}] = 0
  BY DEF Sums
<1> HIDE DEF c
<1>3. {} \in T
  OBVIOUS
<1>4. ASSUME NEW V \in SUBSET S, V # {}, \A x \in V : V \ {x} \in T PROVE V \in T
  <2> SUFFICES ASSUME NEW x \in V PROVE g[V] = f[x] + g[V \ {x}]
    OBVIOUS
  <2>1. c(V) \in V /\ g[V] = f[c(V)] + g[V \ {c(V)}]
    BY <1>1, <1>4
  <2>2. CASE c(V) = x
    BY <2>1, <2>2
  <2>3. CASE c(V) # x
    <3>1. g[V \ {c(V)}] = f[x] + g[(V \ {c(V)}) \ {x}]
      BY <1>4, <2>1, <2>3
    <3>2. g[V \ {x}] = f[c(V)] + g[(V \ {x}) \ {c(V)}]
      BY <1>4, <2>1, <2>3
    <3>3. (V \ {c(V)}) \ {x} = (V \ {x}) \ {c(V)}
      OBVIOUS
    <3>4. g[(V \ {x}) \ {c(V)}] \in Nat /\ f[x] \in Nat /\ f[c(V)] \in Nat
      BY <2>1
    <3>5. g[V] = f[c(V)] + (f[x] + g[(V \ {x}) \ {c(V)}])
      BY <2>1, <3>1, <3>3
    <3> QED BY <3>2, <3>4, <3>5
  <2> QED BY <2>2, <2>3
<1>5. SUBSET S \subseteq T
  <2> HIDE DEF T
  <2> QED BY <1>3, <1>4, PartSet
<1> QED BY <1>2, <1>5

(* The sum of a function over a part of its domain: nothing at first, and one element more or less. *)
LEMMA SumTakesOff ==
    ASSUME NEW S, IsFiniteSet(S), NEW f \in [S -> Nat]
    PROVE  /\ SumFunctionOnSet(f, {}) = 0
           /\ \A V \in SUBSET S : SumFunctionOnSet(f, V) \in Nat
           /\ \A V \in SUBSET S : \A x \in V : SumFunctionOnSet(f, V) = f[x] + SumFunctionOnSet(f, V \ {x})
<1>1. PICK g \in [SUBSET S -> Nat] : Sums(g, f, S)
  BY SumsExist
<1>2. g[{}] = 0 /\ \A V \in SUBSET S : \A x \in V : g[V] = f[x] + g[V \ {x}]
  BY <1>1, SumsTakeOff
<1>3. ASSUME NEW A \in SUBSET S PROVE SumFunctionOnSet(f, A) = g[A]
  <2> DEFINE iter == CHOOSE it : Sums(it, f, A)
             r == [x \in A |-> f[x]]
             T == {V \in SUBSET A : iter[V] = g[V]}
  <2>1. SumFunctionOnSet(f, A) = iter[A]
    BY DEF SumFunctionOnSet, FoldFunctionOnSet, MapThenFoldSet, Sums
  <2>2. IsFiniteSet(A) /\ r \in [A -> Nat]
    BY FS_Subset
  <2>3. \E h : Sums(h, f, A)
    <3>1. PICK h \in [SUBSET A -> Nat] : Sums(h, r, A)
      BY <2>2, SumsExist
    <3>2. \A V \in SUBSET A : V # {} => r[CHOOSE x \in V : TRUE] = f[CHOOSE x \in V : TRUE]
      OBVIOUS
    <3> HIDE DEF r
    <3>3. Sums(h, f, A)
      BY <3>1, <3>2 DEF Sums
    <3> QED BY <3>3
  <2>4. Sums(iter, f, A)
    <3> HIDE DEF iter
    <3> QED BY <2>3 DEF iter
  <2> HIDE DEF iter
  <2>5. {} \in T
    BY <2>4, <1>2 DEF Sums
  <2>6. ASSUME NEW V \in SUBSET A, V # {}, \A x \in V : V \ {x} \in T PROVE V \in T
    <3> DEFINE x == CHOOSE y \in V : TRUE
    <3>1. x \in V
      BY <2>6
    <3>2. iter[V] = f[x] + iter[V \ {x}]
      BY <2>4, <2>6 DEF Sums
    <3> HIDE DEF x
    <3>3. iter[V \ {x}] = g[V \ {x}] /\ V \in SUBSET S
      BY <3>1, <2>6
    <3> QED BY <3>1, <3>2, <3>3, <1>2
  <2>7. SUBSET A \subseteq T
    <3> HIDE DEF T
    <3> QED BY <2>2, <2>5, <2>6, PartSet
  <2> QED BY <2>1, <2>7
<1>4. \A V \in SUBSET S : \A x \in V : V \ {x} \in SUBSET S
  OBVIOUS
<1> QED BY <1>2, <1>3, <1>4

(* Functions that agree where it is taken have one sum. *)
LEMMA SumsAgree ==
    ASSUME NEW S, IsFiniteSet(S), NEW f \in [S -> Nat], NEW g \in [S -> Nat],
           NEW A \in SUBSET S, \A x \in A : f[x] = g[x]
    PROVE  SumFunctionOnSet(f, A) = SumFunctionOnSet(g, A)
<1> DEFINE T == {V \in SUBSET A : SumFunctionOnSet(f, V) = SumFunctionOnSet(g, V)}
<1>1. {} \in T
  BY SumTakesOff
<1>2. ASSUME NEW V \in SUBSET A, V # {}, \A x \in V : V \ {x} \in T PROVE V \in T
  <2>1. PICK x \in V : TRUE
    BY <1>2
  <2>2. SumFunctionOnSet(f, V) = f[x] + SumFunctionOnSet(f, V \ {x})
    BY SumTakesOff
  <2>3. SumFunctionOnSet(g, V) = g[x] + SumFunctionOnSet(g, V \ {x})
    BY SumTakesOff
  <2>4. SumFunctionOnSet(f, V \ {x}) = SumFunctionOnSet(g, V \ {x}) /\ f[x] = g[x]
    BY <1>2
  <2> QED BY <2>2, <2>3, <2>4
<1>3. SUBSET A \subseteq T
  <2>1. IsFiniteSet(A)
    BY FS_Subset
  <2> HIDE DEF T
  <2> QED BY <1>1, <1>2, <2>1, PartSet
<1> QED BY <1>3

(* The sum of nothing but zeros. *)
LEMMA SumOfZeros ==
    ASSUME NEW S, IsFiniteSet(S), NEW f \in [S -> Nat], \A x \in S : f[x] = 0
    PROVE  SumFunctionOnSet(f, S) = 0
<1> DEFINE T == {V \in SUBSET S : SumFunctionOnSet(f, V) = 0}
<1>1. {} \in T
  BY SumTakesOff
<1>2. ASSUME NEW V \in SUBSET S, V # {}, \A x \in V : V \ {x} \in T PROVE V \in T
  <2>1. PICK x \in V : TRUE
    BY <1>2
  <2>2. SumFunctionOnSet(f, V) = f[x] + SumFunctionOnSet(f, V \ {x})
    BY SumTakesOff
  <2>3. SumFunctionOnSet(f, V \ {x}) = 0 /\ f[x] = 0
    BY <1>2
  <2> QED BY <2>2, <2>3
<1>3. SUBSET S \subseteq T
  <2> HIDE DEF T
  <2> QED BY <1>1, <1>2, PartSet
<1> QED BY <1>3

(* The sum of a function over a part of its domain is that of the function there. *)
LEMMA SumOfPart ==
    ASSUME NEW S, IsFiniteSet(S), NEW f \in [S -> Nat], NEW A \in SUBSET S, NEW g \in [A -> Nat], \A x \in A : g[x] = f[x]
    PROVE  SumFunction(g) = SumFunctionOnSet(f, A)
<1> DEFINE T == {V \in SUBSET A : SumFunctionOnSet(g, V) = SumFunctionOnSet(f, V)}
<1>1. IsFiniteSet(A)
  BY FS_Subset
<1>2. {} \in T
  BY <1>1, SumTakesOff
<1>3. ASSUME NEW V \in SUBSET A, V # {}, \A x \in V : V \ {x} \in T PROVE V \in T
  <2>1. PICK x \in V : TRUE
    BY <1>3
  <2>2. SumFunctionOnSet(f, V) = f[x] + SumFunctionOnSet(f, V \ {x})
    BY SumTakesOff
  <2>3. SumFunctionOnSet(g, V) = g[x] + SumFunctionOnSet(g, V \ {x})
    BY <1>1, SumTakesOff
  <2>4. SumFunctionOnSet(f, V \ {x}) = SumFunctionOnSet(g, V \ {x}) /\ f[x] = g[x]
    BY <1>3
  <2> QED BY <2>2, <2>3, <2>4
<1>4. SUBSET A \subseteq T
  <2> HIDE DEF T
  <2> QED BY <1>1, <1>2, <1>3, PartSet
<1>5. SumFunctionOnSet(g, A) = SumFunctionOnSet(f, A)
  BY <1>4
<1> QED BY <1>5 DEF SumFunction

(* `S` falls into groups, `group` by `key`, and `m` measures the parts of S by the weights of their elements. *)
Grouped(S, K, key, group) ==
    /\ IsFiniteSet(S) /\ IsFiniteSet(K) /\ key \in [S -> K] /\ group \in [K -> SUBSET S]
    /\ \A k \in K : \A x \in S : x \in group[k] <=> key[x] = k
Measures(S, w, m) ==
    /\ w \in [S -> Nat] /\ m \in [SUBSET S -> Nat] /\ m[{}] = 0
    /\ \A V \in SUBSET S : \A x \in V : m[V] = w[x] + m[V \ {x}]

(* A set is as much as its groups are together. *)
LEMMA GroupsAddUp ==
    ASSUME NEW S, NEW K, NEW key, NEW group, NEW w, NEW m, Grouped(S, K, key, group), Measures(S, w, m),
           NEW f \in [K -> Nat], \A k \in K : f[k] = m[group[k]]
    PROVE  SumFunction(f) = m[S]
<1> USE DEF Grouped, Measures
<1> DEFINE Group(V, k) == {x \in V : key[x] = k}
           G(V) == [k \in K |-> m[Group(V, k)]]
           T == {V \in SUBSET S : SumFunctionOnSet(G(V), K) = m[V]}
<1>1. ASSUME NEW V \in SUBSET S PROVE G(V) \in [K -> Nat]
  OBVIOUS
<1>2. {} \in T
  <2>1. \A k \in K : G({})[k] = 0
    <3>1. \A k \in K : Group({}, k) = {}
      OBVIOUS
    <3> QED BY <3>1
  <2>2. G({}) \in [K -> Nat]
    BY <1>1
  <2> HIDE DEF G
  <2>3. SumFunctionOnSet(G({}), K) = 0
    BY <2>1, <2>2, SumOfZeros
  <2> QED BY <2>3
<1>3. ASSUME NEW V \in SUBSET S, V # {}, \A x \in V : V \ {x} \in T PROVE V \in T
  <2>1. PICK x \in V : TRUE
    BY <1>3
  <2> DEFINE U == V \ {x}
             k == key[x]
             rest == K \ {k}
  <2>2. U \in SUBSET S /\ k \in K /\ G(U) \in [K -> Nat] /\ G(V) \in [K -> Nat] /\ x \in S
    BY <1>1
  <2>3. SumFunctionOnSet(G(U), K) = m[U] /\ m[V] = w[x] + m[U]
    BY <1>3
  <2>4. G(V)[k] = w[x] + G(U)[k]
    <3>1. Group(V, k) \in SUBSET S /\ x \in Group(V, k) /\ Group(V, k) \ {x} = Group(U, k)
      OBVIOUS
    <3> DEFINE A == Group(V, k)
    <3>2. A \in SUBSET S /\ x \in A /\ A \ {x} = Group(U, k)
      BY <3>1
    <3> HIDE DEF Group, U, A
    <3>3. m[A] = w[x] + m[A \ {x}]
      BY <3>2
    <3>4. m[Group(V, k)] = w[x] + m[Group(U, k)]
      BY <3>2, <3>3 DEF A
    <3> QED BY <3>4, <2>2
  <2>5. ASSUME NEW j \in rest PROVE G(V)[j] = G(U)[j]
    <3>1. Group(V, j) = Group(U, j)
      OBVIOUS
    <3> QED BY <3>1
  <2> HIDE DEF G, U, k
  <2>6. SumFunctionOnSet(G(V), rest) = SumFunctionOnSet(G(U), rest)
      <3>1. IsFiniteSet(K) /\ rest \in SUBSET K
      OBVIOUS
    <3> HIDE DEF rest, Grouped, Measures
    <3> QED BY <2>2, <2>5, <3>1, SumsAgree
  <2>7. SumFunctionOnSet(G(V), K) = G(V)[k] + SumFunctionOnSet(G(V), rest)
    BY <2>2, SumTakesOff
  <2>8. SumFunctionOnSet(G(U), K) = G(U)[k] + SumFunctionOnSet(G(U), rest)
    BY <2>2, SumTakesOff
  <2>9. SumFunctionOnSet(G(U), rest) \in Nat /\ w[x] \in Nat /\ G(U)[k] \in Nat
    BY <2>2, SumTakesOff
  <2>10. SumFunctionOnSet(G(V), K) = m[V]
    BY <2>3, <2>4, <2>6, <2>7, <2>8, <2>9
  <2> QED BY <2>10
<1>4. SUBSET S \subseteq T
  <2> HIDE DEF T
  <2> QED BY <1>2, <1>3, PartSet
<1>5. SumFunctionOnSet(G(S), K) = m[S]
  BY <1>4
<1>6. f = G(S) /\ DOMAIN f = K
  <2>1. \A k \in K : Group(S, k) = group[k]
    OBVIOUS
  <2> HIDE DEF Group
  <2> QED BY <2>1
<1> QED BY <1>5, <1>6 DEF SumFunction

(* As many elements as there are in the groups together. *)
LEMMA GroupsCount ==
    ASSUME NEW S, NEW K, NEW key, NEW group, Grouped(S, K, key, group),
           NEW f \in [K -> Nat], \A k \in K : f[k] = Cardinality(group[k])
    PROVE  SumFunction(f) = Cardinality(S)
<1> DEFINE w == [x \in S |-> 1]
           m == [V \in SUBSET S |-> Cardinality(V)]
<1>1. ASSUME NEW V \in SUBSET S PROVE IsFiniteSet(V) /\ Cardinality(V) \in Nat
  BY FS_Subset, FS_CardinalityType DEF Grouped
<1>2. w \in [S -> Nat] /\ m \in [SUBSET S -> Nat] /\ m[{}] = 0
  BY <1>1, FS_EmptySet
<1>3. \A V \in SUBSET S : \A x \in V : m[V] = w[x] + m[V \ {x}]
  <2> SUFFICES ASSUME NEW V \in SUBSET S, NEW x \in V PROVE m[V] = w[x] + m[V \ {x}]
    OBVIOUS
  <2>1. V \ {x} \in SUBSET S /\ w[x] = 1 /\ Cardinality(V \ {x}) = Cardinality(V) - 1
    BY <1>1, FS_RemoveElement
  <2> QED BY <2>1, <1>1
<1>4. \A k \in K : f[k] = m[group[k]]
  BY DEF Grouped
<1>5. m[S] = Cardinality(S)
  OBVIOUS
<1> HIDE DEF w, m
<1>6. Measures(S, w, m)
  BY <1>2, <1>3 DEF Measures
<1>7. SumFunction(f) = m[S]
  BY <1>4, <1>6, GroupsAddUp
<1> QED BY <1>5, <1>7

-----------------------------------------------------------------------------
(* The headers of a message, of the form the broker writes. *)
Written(Q, R, E, K, H) ==
    [death : Seq(DeathEntry(Q, R, E, K)), firstQueue : Q \cup {None}, firstReason : R \cup {None},
     firstExchange : E \cup {None}, lastQueue : Q \cup {None}, lastReason : R \cup {None}, other : SUBSET H]

(* A set of natural numbers that is not empty has a least one. *)
LEMMA FirstOfSome ==
    ASSUME NEW S, S \subseteq Nat, S # {}
    PROVE  Min(S) \in S /\ \A i \in S : Min(S) <= i
<1> DEFINE R == OpToRel(<, Nat)
<1>1. PICK n \in S : \A m \in S : ~(<<m, n>> \in R)
  <2>1. IsWellFoundedOn(R, Nat)
    BY NatLessThanWellFounded, Zenon
  <2> HIDE DEF R
  <2> QED BY <2>1, WFMin
<1>2. \A m \in S : m < n => <<m, n>> \in R
  BY SMT DEF OpToRel
<1> HIDE DEF R
<1>3. \A m \in S : n <= m
  <2> SUFFICES ASSUME NEW m \in S PROVE n <= m
    OBVIOUS
  <2>1. ~(m < n) /\ m \in Nat /\ n \in Nat
    BY <1>1, <1>2
  <2> QED BY <2>1
<1> QED BY <1>3 DEF Min

(* What is left of a sequence without one of its elements. *)
LEMMA WithoutOne ==
    ASSUME NEW S, NEW s \in Seq(S), NEW i \in DOMAIN s
    PROVE  /\ RemoveAt(s, i) \in Seq(S) /\ Len(RemoveAt(s, i)) = Len(s) - 1
           /\ \A j \in 1..(Len(s) - 1) : RemoveAt(s, i)[j] = IF j < i THEN s[j] ELSE s[j + 1]
<1>1. i \in 1..Len(s) /\ Len(s) \in Nat
  OBVIOUS
<1> DEFINE before == SubSeq(s, 1, i - 1)
           after == SubSeq(s, i + 1, Len(s))
<1>2. before \in Seq(S) /\ Len(before) = i - 1 /\ \A j \in 1..(i - 1) : before[j] = s[j]
  BY <1>1
<1>3. after \in Seq(S) /\ Len(after) = Len(s) - i /\ \A j \in 1..(Len(s) - i) : after[j] = s[i + j]
  BY <1>1
<1>4. RemoveAt(s, i) = before \o after
  BY DEF RemoveAt
<1> HIDE DEF before, after
<1>5. RemoveAt(s, i) \in Seq(S) /\ Len(RemoveAt(s, i)) = Len(s) - 1
  <2>1. before \o after \in Seq(S) /\ Len(before \o after) = Len(before) + Len(after)
    BY <1>2, <1>3, ConcatProperties
  <2> QED BY <1>1, <1>2, <1>3, <1>4, <2>1
<1>6. ASSUME NEW j \in 1..(Len(s) - 1) PROVE RemoveAt(s, i)[j] = IF j < i THEN s[j] ELSE s[j + 1]
  <2>1. j \in 1..(Len(before) + Len(after))
    BY <1>1, <1>2, <1>3
  <2>2. (before \o after)[j] = IF j <= Len(before) THEN before[j] ELSE after[j - Len(before)]
    BY <1>2, <1>3, <2>1, ConcatProperties
  <2>3. CASE j < i
    BY <1>1, <1>2, <1>4, <2>2, <2>3
  <2>4. CASE ~(j < i)
    <3>1. j - (i - 1) \in 1..(Len(s) - i) /\ i + (j - (i - 1)) = j + 1 /\ ~(j <= i - 1)
      BY <1>1, <2>4
    <3>2. after[j - (i - 1)] = s[j + 1]
      BY <1>3, <3>1
    <3> QED BY <1>2, <1>4, <2>2, <2>4, <3>1, <3>2
  <2> QED BY <2>3, <2>4
<1> QED BY <1>5, <1>6

(* The headers of a message as it was published. *)
Start(own) == [NoHeaders EXCEPT !.other = own]

(* `h`: the headers after each of the deaths. *)
AfterEach(h, own, deaths, X) ==
    h \in [0..Len(deaths) -> X] /\ h[0] = Start(own) /\ \A i \in 1..Len(deaths) : h[i] = Died(h[i - 1], deaths[i])

(* The headers after some deaths are the last of those after each of them. *)
LEMMA HeadersWritten ==
    ASSUME NEW Q, NEW R, NEW E, NEW K, NEW H, NEW own \in SUBSET H, NEW deaths \in Seq(Death(Q, R, E, K)),
           \A h \in Written(Q, R, E, K, H), d \in Death(Q, R, E, K) : Died(h, d) \in Written(Q, R, E, K, H)
    PROVE  \E h : AfterEach(h, own, deaths, Written(Q, R, E, K, H)) /\ HeadersAfter(own, deaths) = h[Len(deaths)]
<1> DEFINE X == Written(Q, R, E, K, H)
           n == Len(deaths)
           base == Start(own)
           Is(f) == f = [i \in 0..n |-> IF i = 0 THEN base ELSE Died(f[i - 1], deaths[i])]
           f == CHOOSE g : Is(g)
<1>1. n \in Nat /\ \A i \in 1..n : deaths[i] \in Death(Q, R, E, K)
  OBVIOUS
<1>2. base \in X
  <2>1. <<>> \in Seq(DeathEntry(Q, R, E, K))
    OBVIOUS
  <2> QED BY <2>1 DEF Start, NoHeaders, Written
<1>3. \E g : Is(g)
  <2> DEFINE step == [p \in X \X (1..n) |-> Died(p[1], deaths[p[2]])]
  <2>1. step \in [X \X (1..n) -> X] /\ \A h \in X, i \in 1..n : step[<<h, i>>] = Died(h, deaths[i])
    BY <1>1
  <2> HIDE DEF X, n, base, step
  <2>2. PICK g \in [0..n -> X] : g[0] = base /\ \A i \in 1..n : g[i] = step[<<g[i - 1], i>>]
    <3>1. Recursion(X, n, base, step)
      BY <1>1, <1>2, <2>1 DEF Recursion
    <3>2. PICK g : Follows(g, X, n, base, step)
      BY <3>1, RecursionExists
    <3> QED BY <3>2 DEF Follows
  <2>3. \A i \in 1..n : g[i] = Died(g[i - 1], deaths[i])
    <3> SUFFICES ASSUME NEW i \in 1..n PROVE g[i] = Died(g[i - 1], deaths[i])
      OBVIOUS
    <3>1. i - 1 \in 0..n
      BY <1>1
    <3> QED BY <2>1, <2>2, <3>1
  <2>4. g = [i \in 0..n |-> g[i]]
    BY <2>2
  <2>5. g = [i \in 0..n |-> IF i = 0 THEN base ELSE Died(g[i - 1], deaths[i])]
    BY <1>1, <2>2, <2>3, <2>4
  <2> QED BY <2>5
<1>4. Is(f)
  <2> HIDE DEF Is
  <2> QED BY <1>3
<1>5. HeadersAfter(own, deaths) = f[n]
  BY DEF HeadersAfter, Start
<1> HIDE DEF f, X, base
<1>6. f[0] = base /\ \A i \in 1..n : f[i] = Died(f[i - 1], deaths[i])
  BY <1>1, <1>4
<1>7. f \in [0..n -> X]
  <2> DEFINE T == {i \in 0..n : f[i] \in X}
  <2>1. 0 \in T
    BY <1>1, <1>2, <1>6
  <2>2. ASSUME NEW i \in 1..n, i - 1 \in T PROVE i \in T
    BY <1>1, <1>6, <2>2 DEF X
  <2>3. 0..n \subseteq T
    <3> HIDE DEF T, n
    <3> QED BY <1>1, <2>1, <2>2, RangeSet
  <2> QED BY <1>4, <2>3
<1>8. AfterEach(f, own, deaths, X)
  BY <1>6, <1>7 DEF AfterEach, base
<1> QED BY <1>5, <1>8 DEF X

(* An element in front. *)
LEMMA InFront ==
    ASSUME NEW S, NEW s \in Seq(S), NEW e \in S
    PROVE  /\ <<e>> \o s \in Seq(S) /\ Len(<<e>> \o s) = Len(s) + 1 /\ (<<e>> \o s)[1] = e
           /\ \A j \in 1..Len(s) : (<<e>> \o s)[j + 1] = s[j]
<1>1. <<e>> \in Seq(S) /\ Len(<<e>>) = 1 /\ <<e>>[1] = e /\ Len(s) \in Nat
  OBVIOUS
<1> DEFINE f == <<e>>
<1> HIDE DEF f
<1>2. /\ f \o s \in Seq(S) /\ Len(f \o s) = Len(f) + Len(s)
      /\ \A i \in 1..(Len(f) + Len(s)) : (f \o s)[i] = IF i <= Len(f) THEN f[i] ELSE s[i - Len(f)]
  BY <1>1, ConcatProperties DEF f
<1>3. Len(f) = 1 /\ f[1] = e
  BY <1>1 DEF f
<1>4. f \o s \in Seq(S) /\ Len(f \o s) = Len(s) + 1 /\ (f \o s)[1] = e
  BY <1>1, <1>2, <1>3
<1>5. ASSUME NEW j \in 1..Len(s) PROVE (f \o s)[j + 1] = s[j]
  <2>1. j + 1 \in 1..(Len(f) + Len(s)) /\ ~(j + 1 <= Len(f)) /\ (j + 1) - Len(f) = j
    BY <1>1, <1>3
  <2> QED BY <1>2, <2>1
<1> QED BY <1>4, <1>5 DEF f

(* The entries of the same queue and reason as `of`. *)
Same(a, b) == a.queue = b.queue /\ a.reason = b.reason
Old(death, d) == {i \in DOMAIN death : Same(death[i], d)}
Made(d) == [queue |-> d.queue, reason |-> d.reason, count |-> 1, exchange |-> d.exchange, routingKeys |-> <<d.key>>]
Counted(e) == [e EXCEPT !.count = @ + 1]

(* A death of a new queue or reason makes an entry, in front of the others. *)
LEMMA DeathMakesEntry ==
    ASSUME NEW Q, NEW R, NEW E, NEW K, NEW H, NEW h \in Written(Q, R, E, K, H), NEW d \in Death(Q, R, E, K),
           Old(h.death, d) = {}
    PROVE  LET s == Died(h, d).death
           IN /\ s \in Seq(DeathEntry(Q, R, E, K)) /\ Len(s) = Len(h.death) + 1 /\ s[1] = Made(d)
              /\ \A j \in 1..Len(h.death) : s[j + 1] = h.death[j]
<1>1. h.death \in Seq(DeathEntry(Q, R, E, K)) /\ Made(d) \in DeathEntry(Q, R, E, K)
  BY DEF Written, DeathEntry, Death, Made
<1>2. Died(h, d).death = <<Made(d)>> \o h.death
  BY DEF Died, Old, Same, Made, Written
<1> QED BY <1>1, <1>2, InFront

(* A death of a queue and reason of before is counted by their entry, which comes to the front. *)
LEMMA DeathIsCounted ==
    ASSUME NEW Q, NEW R, NEW E, NEW K, NEW H, NEW h \in Written(Q, R, E, K, H), NEW d \in Death(Q, R, E, K),
           Old(h.death, d) # {}
    PROVE  LET s == Died(h, d).death
           IN \E m \in Old(h.death, d) :
                 /\ s \in Seq(DeathEntry(Q, R, E, K)) /\ Len(s) = Len(h.death)
                 /\ s[1] = Counted(h.death[m])
                 /\ \A j \in 1..(Len(h.death) - 1) : s[j + 1] = IF j < m THEN h.death[j] ELSE h.death[j + 1]
<1> DEFINE D == h.death
           m == Min(Old(D, d))
           e == Counted(D[m])
<1>1. D \in Seq(DeathEntry(Q, R, E, K)) /\ Len(D) \in Nat /\ DOMAIN D = 1..Len(D)
  BY DEF Written
<1>2. m \in Old(D, d) /\ m \in DOMAIN D
  <2>1. Old(D, d) \subseteq Nat
    BY <1>1 DEF Old
  <2>2. m \in Old(D, d)
    BY <2>1, FirstOfSome
  <2> QED BY <2>2 DEF Old
<1>3. Died(h, d).death = <<e>> \o RemoveAt(D, m)
  BY DEF Died, Old, Same, Written, Counted
<1> HIDE DEF D, m
<1>4. e \in DeathEntry(Q, R, E, K)
  <2>1. D[m] \in DeathEntry(Q, R, E, K)
    BY <1>1, <1>2
  <2> QED BY <2>1 DEF DeathEntry, Counted
<1> HIDE DEF e
<1>5. /\ RemoveAt(D, m) \in Seq(DeathEntry(Q, R, E, K)) /\ Len(RemoveAt(D, m)) = Len(D) - 1
      /\ \A j \in 1..(Len(D) - 1) : RemoveAt(D, m)[j] = IF j < m THEN D[j] ELSE D[j + 1]
  BY <1>1, <1>2, WithoutOne
<1> DEFINE W == RemoveAt(D, m)
<1> HIDE DEF W
<1>6. /\ Died(h, d).death \in Seq(DeathEntry(Q, R, E, K)) /\ Len(Died(h, d).death) = Len(D)
      /\ Died(h, d).death[1] = e
      /\ \A j \in 1..(Len(D) - 1) : Died(h, d).death[j + 1] = W[j]
  <2>1. W \in Seq(DeathEntry(Q, R, E, K)) /\ Len(W) = Len(D) - 1 /\ Died(h, d).death = <<e>> \o W
    BY <1>3, <1>5 DEF W
  <2>2. /\ <<e>> \o W \in Seq(DeathEntry(Q, R, E, K)) /\ Len(<<e>> \o W) = Len(W) + 1 /\ (<<e>> \o W)[1] = e
        /\ \A j \in 1..Len(W) : (<<e>> \o W)[j + 1] = W[j]
    BY <1>4, <2>1, InFront
  <2>3. Len(W) + 1 = Len(D)
    BY <1>1, <2>1
  <2> QED BY <2>1, <2>2, <2>3
<1> QED BY <1>2, <1>5, <1>6 DEF D, e, W

(* What the broker writes is of its form. *)
LEMMA DiedIsWritten ==
    ASSUME NEW Q, NEW R, NEW E, NEW K, NEW H, "x-delivery-count" \in H,
           NEW h \in Written(Q, R, E, K, H), NEW d \in Death(Q, R, E, K)
    PROVE  Died(h, d) \in Written(Q, R, E, K, H)
<1> DEFINE s == Died(h, d).death
<1>1. s \in Seq(DeathEntry(Q, R, E, K))
  BY DeathMakesEntry, DeathIsCounted
<1>2. Died(h, d) = [h EXCEPT !.death = s, !.firstQueue = Or(@, d.queue), !.firstReason = Or(@, d.reason),
                             !.firstExchange = Or(@, d.exchange), !.lastQueue = d.queue, !.lastReason = d.reason,
                             !.other = @ \cup {"x-delivery-count"}]
  BY DEF Died, Written
<1> HIDE DEF s
<1>3. /\ Or(h.firstQueue, d.queue) \in Q \cup {None} /\ Or(h.firstReason, d.reason) \in R \cup {None}
      /\ Or(h.firstExchange, d.exchange) \in E \cup {None} /\ d.queue \in Q /\ d.reason \in R
      /\ h.other \cup {"x-delivery-count"} \in SUBSET H
  BY DEF Written, Death, Or
<1> QED BY <1>1, <1>2, <1>3 DEF Written

(* Which of the first n deaths were of this queue and reason. *)
Times(deaths, n, e) == {i \in 1..n : Same(deaths[i], e)}

(* What the headers tell of the first n deaths. *)
Unique(death) == \A k, l \in DOMAIN death : Same(death[k], death[l]) => k = l
Recorded(death, deaths, n) ==
    /\ \A i \in 1..n : \E k \in DOMAIN death : Same(death[k], deaths[i])
    /\ \A k \in DOMAIN death : death[k].count = Cardinality(Times(deaths, n, death[k]))
    /\ \A k \in DOMAIN death : Same(death[k], deaths[1]) =>
          death[k].exchange = deaths[1].exchange /\ death[k].routingKeys = <<deaths[1].key>>
EndsTell(h, own, deaths, n) ==
    /\ h.firstQueue = deaths[1].queue /\ h.firstReason = deaths[1].reason /\ h.firstExchange = deaths[1].exchange
    /\ h.lastQueue = deaths[n].queue /\ h.lastReason = deaths[n].reason
    /\ h.other = own \cup {"x-delivery-count"}
Tells(h, own, deaths, n) ==
    /\ Unique(h.death) /\ Recorded(h.death, deaths, n)
    /\ IF n = 0 THEN h = Start(own) ELSE EndsTell(h, own, deaths, n)

(* The first and the last death, and the other headers, are kept up. *)
LEMMA EndsStep ==
    ASSUME NEW Q, NEW R, NEW E, NEW K, NEW H, Named(Q, R, E, K), NEW own \in SUBSET H,
           NEW deaths \in Seq(Death(Q, R, E, K)), NEW n \in 1..Len(deaths),
           NEW h \in Written(Q, R, E, K, H), Tells(h, own, deaths, n - 1)
    PROVE  EndsTell(Died(h, deaths[n]), own, deaths, n)
<1> DEFINE d == deaths[n]
           g == Died(h, d)
<1>1. d \in Death(Q, R, E, K) /\ deaths[1] \in Death(Q, R, E, K)
  OBVIOUS
<1>2. /\ d.queue # None /\ d.reason # None /\ d.exchange # None
      /\ deaths[1].queue # None /\ deaths[1].reason # None /\ deaths[1].exchange # None
  BY <1>1 DEF Named, Death
<1>3. /\ g.firstQueue = Or(h.firstQueue, d.queue) /\ g.firstReason = Or(h.firstReason, d.reason)
      /\ g.firstExchange = Or(h.firstExchange, d.exchange) /\ g.lastQueue = d.queue /\ g.lastReason = d.reason
      /\ g.other = h.other \cup {"x-delivery-count"}
  BY DEF Died, Written
<1> HIDE DEF g
<1>4. CASE n = 1
  <2>1. h = Start(own)
    BY <1>4 DEF Tells
  <2>2. h.firstQueue = None /\ h.firstReason = None /\ h.firstExchange = None /\ h.other = own
    BY <2>1 DEF Start, NoHeaders
  <2> QED BY <1>3, <1>4, <2>2 DEF EndsTell, Or, g
<1>5. CASE n # 1
  <2>1. EndsTell(h, own, deaths, n - 1)
    BY <1>5 DEF Tells
  <2> QED BY <1>2, <1>3, <2>1 DEF EndsTell, Or, g
<1> QED BY <1>4, <1>5

(* Where the entries of other queues and reasons are found after a death: they are all kept, and no others. *)
Kept(old, new, d, at) ==
    /\ at \in [2..Len(new) -> DOMAIN old]
    /\ \A j \in 2..Len(new) : new[j] = old[at[j]] /\ ~Same(old[at[j]], d)
    /\ \A i, j \in 2..Len(new) : at[i] = at[j] => i = j
    /\ \A k \in DOMAIN old : ~Same(old[k], d) => \E j \in 2..Len(new) : at[j] = k

(* A death leaves the entries of other queues and reasons as they were, in the order they had. *)
LEMMA OthersAreKept ==
    ASSUME NEW Q, NEW R, NEW E, NEW K, NEW H, NEW h \in Written(Q, R, E, K, H), Unique(h.death),
           NEW d \in Death(Q, R, E, K)
    PROVE  /\ Died(h, d).death \in Seq(DeathEntry(Q, R, E, K)) /\ 1 \in DOMAIN Died(h, d).death
           /\ IF Old(h.death, d) = {} THEN Died(h, d).death[1] = Made(d)
              ELSE \E m \in Old(h.death, d) : Died(h, d).death[1] = Counted(h.death[m])
           /\ \E at : Kept(h.death, Died(h, d).death, d, at)
<1> DEFINE D == h.death
           s == Died(h, d).death
<1>1. D \in Seq(DeathEntry(Q, R, E, K)) /\ Len(D) \in Nat /\ DOMAIN D = 1..Len(D)
  BY DEF Written
<1>2. CASE Old(D, d) = {}
  <2>1. /\ s \in Seq(DeathEntry(Q, R, E, K)) /\ Len(s) = Len(D) + 1 /\ s[1] = Made(d)
        /\ \A j \in 1..Len(D) : s[j + 1] = D[j]
    BY <1>2, DeathMakesEntry
  <2> DEFINE at == [j \in 2..Len(s) |-> j - 1]
  <2>2. \A k \in DOMAIN D : ~Same(D[k], d)
    BY <1>2 DEF Old
  <2> HIDE DEF s, D
  <2>3. at \in [2..Len(s) -> DOMAIN D]
    BY <1>1, <2>1
  <2>4. \A j \in 2..Len(s) : s[j] = D[at[j]]
    <3> SUFFICES ASSUME NEW j \in 2..Len(s) PROVE s[j] = D[at[j]]
      OBVIOUS
    <3>1. j - 1 \in 1..Len(D) /\ (j - 1) + 1 = j /\ at[j] = j - 1
      BY <1>1, <2>1
    <3> QED BY <2>1, <3>1
  <2>5. \A i, j \in 2..Len(s) : at[i] = at[j] => i = j
    OBVIOUS
  <2>6. \A k \in DOMAIN D : \E j \in 2..Len(s) : at[j] = k
    <3> SUFFICES ASSUME NEW k \in DOMAIN D PROVE \E j \in 2..Len(s) : at[j] = k
      OBVIOUS
    <3>1. k + 1 \in 2..Len(s) /\ at[k + 1] = k
      BY <1>1, <2>1
    <3> QED BY <3>1
  <2>7. Kept(D, s, d, at)
    BY <2>2, <2>3, <2>4, <2>5, <2>6 DEF Kept
  <2>8. 1 \in DOMAIN s
    BY <1>1, <2>1
  <2> QED BY <1>2, <2>1, <2>7, <2>8 DEF s, D
<1>3. CASE Old(D, d) # {}
  <2>1. PICK m \in Old(D, d) :
           /\ s \in Seq(DeathEntry(Q, R, E, K)) /\ Len(s) = Len(D)
           /\ s[1] = Counted(D[m])
           /\ \A j \in 1..(Len(D) - 1) : s[j + 1] = IF j < m THEN D[j] ELSE D[j + 1]
    BY <1>3, DeathIsCounted
  <2> DEFINE at == [j \in 2..Len(s) |-> IF j - 1 < m THEN j - 1 ELSE j]
  <2>2. m \in 1..Len(D) /\ Same(D[m], d) /\ \A k \in DOMAIN D : Same(D[k], d) => k = m
    BY <1>1 DEF Old, Same, Unique
  <2> HIDE DEF s, D
  <2>3. at \in [2..Len(s) -> DOMAIN D] /\ \A j \in 2..Len(s) : at[j] # m
    BY <1>1, <2>1, <2>2
  <2>4. \A j \in 2..Len(s) : s[j] = D[at[j]]
    <3> SUFFICES ASSUME NEW j \in 2..Len(s) PROVE s[j] = D[at[j]]
      OBVIOUS
    <3>1. j - 1 \in 1..(Len(D) - 1) /\ (j - 1) + 1 = j
      BY <1>1, <2>1
    <3> QED BY <2>1, <3>1
  <2>5. \A i, j \in 2..Len(s) : at[i] = at[j] => i = j
    BY <1>1, <2>1, <2>2
  <2>6. \A k \in DOMAIN D : k # m => \E j \in 2..Len(s) : at[j] = k
    <3> SUFFICES ASSUME NEW k \in DOMAIN D, k # m PROVE \E j \in 2..Len(s) : at[j] = k
      OBVIOUS
    <3> DEFINE j == IF k < m THEN k + 1 ELSE k
    <3>1. j \in 2..Len(s) /\ at[j] = k
      BY <1>1, <2>1, <2>2
    <3> QED BY <3>1
  <2>7. Kept(D, s, d, at)
    BY <2>2, <2>3, <2>4, <2>5, <2>6 DEF Kept
  <2>8. 1 \in DOMAIN s
    BY <1>1, <2>1, <2>2
  <2> QED BY <1>3, <2>1, <2>7, <2>8 DEF s, D
<1> QED BY <1>2, <1>3

(* One death more, of those of a queue and reason. *)
LEMMA OneMoreTime ==
    ASSUME NEW n \in Nat \ {0}, NEW deaths, NEW e
    PROVE  /\ Cardinality(Times(deaths, n, e)) \in Nat
           /\ Same(deaths[n], e) => Cardinality(Times(deaths, n, e)) = Cardinality(Times(deaths, n - 1, e)) + 1
           /\ ~Same(deaths[n], e) => Cardinality(Times(deaths, n, e)) = Cardinality(Times(deaths, n - 1, e))
<1> DEFINE before == Times(deaths, n - 1, e)
           now == Times(deaths, n, e)
<1>1. IsFiniteSet(1..(n - 1)) /\ before \subseteq 1..(n - 1) /\ n \notin before
  BY FS_Interval DEF Times
<1>2. IsFiniteSet(before)
  BY <1>1, FS_Subset
<1>3. now = IF Same(deaths[n], e) THEN before \cup {n} ELSE before
  BY DEF Times
<1> HIDE DEF before, now
<1> QED BY <1>1, <1>2, <1>3, FS_AddElement, FS_CardinalityType DEF before, now

(* The entries stay told apart, and go on recording every death. *)
LEMMA RecordStep ==
    ASSUME NEW Q, NEW R, NEW E, NEW K, NEW H, NEW own,
           NEW deaths \in Seq(Death(Q, R, E, K)), NEW n \in 1..Len(deaths),
           NEW h \in Written(Q, R, E, K, H), Tells(h, own, deaths, n - 1)
    PROVE  Unique(Died(h, deaths[n]).death) /\ Recorded(Died(h, deaths[n]).death, deaths, n)
<1> DEFINE d == deaths[n]
           D == h.death
           s == Died(h, d).death
<1>1. d \in Death(Q, R, E, K) /\ n \in Nat \ {0} /\ Unique(D) /\ Recorded(D, deaths, n - 1)
  BY DEF Tells
<1>2. D \in Seq(DeathEntry(Q, R, E, K)) /\ Len(D) \in Nat /\ DOMAIN D = 1..Len(D)
  BY DEF Written
<1>3. /\ s \in Seq(DeathEntry(Q, R, E, K)) /\ 1 \in DOMAIN s
      /\ IF Old(D, d) = {} THEN s[1] = Made(d)
         ELSE \E m \in Old(D, d) : s[1] = Counted(D[m])
      /\ \E at : Kept(D, s, d, at)
  BY <1>1, OthersAreKept
<1> HIDE DEF s, D, d
<1>4. PICK at : Kept(D, s, d, at)
  BY <1>3
<1>5. DOMAIN s = 1..Len(s) /\ Len(s) \in Nat
  BY <1>3
<1>6. \A k \in DOMAIN D : D[k].count = Cardinality(Times(deaths, n - 1, D[k])) /\ D[k].count > 0
  <2>1. \A k \in DOMAIN D : D[k] \in DeathEntry(Q, R, E, K)
    BY <1>2
  <2>2. \A k \in DOMAIN D : D[k].count \in Nat \ {0}
    BY <2>1 DEF DeathEntry
  <2> QED BY <1>1, <2>2 DEF Recorded
(* The entry in front is that of this death. *)
<1>7. Same(s[1], d) /\ s[1].count = Cardinality(Times(deaths, n - 1, d)) + 1
  <2>1. CASE Old(D, d) = {}
    <3>1. ASSUME NEW i \in 1..(n - 1) PROVE ~Same(deaths[i], d)
      <4>1. PICK k \in DOMAIN D : Same(D[k], deaths[i])
        BY <1>1 DEF Recorded
      <4>2. ~Same(D[k], d)
        BY <2>1 DEF Old
      <4> QED BY <4>1, <4>2 DEF Same
    <3>2. Times(deaths, n - 1, d) = {}
      BY <3>1 DEF Times
    <3>3. s[1] = Made(d)
      BY <1>3, <2>1
    <3>4. Cardinality(Times(deaths, n - 1, d)) = 0
      BY <3>2, FS_EmptySet
    <3> QED BY <3>3, <3>4 DEF Made, Same
  <2>2. CASE Old(D, d) # {}
    <3>1. PICK m \in Old(D, d) : s[1] = Counted(D[m])
      BY <1>3, <2>2
    <3>2. m \in DOMAIN D /\ Same(D[m], d) /\ D[m] \in DeathEntry(Q, R, E, K)
      BY <1>2 DEF Old
    <3>3. s[1].queue = D[m].queue /\ s[1].reason = D[m].reason /\ s[1].count = D[m].count + 1
      BY <3>1, <3>2 DEF DeathEntry, Counted
    <3>4. Times(deaths, n - 1, d) = Times(deaths, n - 1, D[m])
      BY <3>2 DEF Times, Same
    <3> QED BY <1>6, <3>2, <3>3, <3>4 DEF Same
  <2> QED BY <2>1, <2>2
<1>8. ASSUME NEW j \in 2..Len(s) PROVE s[j] = D[at[j]] /\ at[j] \in DOMAIN D /\ ~Same(s[j], d)
  BY <1>4 DEF Kept
<1>9. Unique(s)
  <2> SUFFICES ASSUME NEW k \in 1..Len(s), NEW l \in 1..Len(s), Same(s[k], s[l]) PROVE k = l
    BY <1>5 DEF Unique
  <2>1. CASE k = 1 \/ l = 1
    <3>1. (k = 1 \/ k \in 2..Len(s)) /\ (l = 1 \/ l \in 2..Len(s))
      BY <1>5
    <3>2. Same(s[k], d) /\ Same(s[l], d)
      BY <1>7, <2>1 DEF Same
    <3> QED BY <1>8, <3>1, <3>2
  <2>2. CASE k # 1 /\ l # 1
    <3>1. k \in 2..Len(s) /\ l \in 2..Len(s)
      BY <1>5, <2>2
    <3>2. at[k] = at[l]
      BY <1>1, <1>8, <3>1 DEF Unique
    <3> QED BY <1>4, <3>1, <3>2 DEF Kept
  <2> QED BY <2>1, <2>2
<1>10. \A i \in 1..n : \E k \in DOMAIN s : Same(s[k], deaths[i])
  <2> SUFFICES ASSUME NEW i \in 1..n, ~Same(deaths[i], d) PROVE \E k \in DOMAIN s : Same(s[k], deaths[i])
    BY <1>3, <1>7 DEF Same
  <2>1. i \in 1..(n - 1)
    BY <1>1 DEF d, Same
  <2>2. PICK k \in DOMAIN D : Same(D[k], deaths[i])
    BY <1>1, <2>1 DEF Recorded
  <2>3. ~Same(D[k], d)
    BY <2>2 DEF Same
  <2>4. PICK j \in 2..Len(s) : at[j] = k
    BY <1>4, <2>3 DEF Kept
  <2>5. j \in DOMAIN s
    BY <1>5
  <2> QED BY <1>8, <2>2, <2>4, <2>5
<1>11. \A k \in DOMAIN s : s[k].count = Cardinality(Times(deaths, n, s[k]))
  <2> SUFFICES ASSUME NEW k \in 1..Len(s) PROVE s[k].count = Cardinality(Times(deaths, n, s[k]))
    BY <1>5
  <2>1. CASE k = 1
    <3>1. Times(deaths, n - 1, d) = Times(deaths, n - 1, s[1]) /\ Same(deaths[n], s[1])
      BY <1>7 DEF Times, Same, d
    <3> QED BY <1>1, <1>7, <2>1, <3>1, OneMoreTime
  <2>2. CASE k # 1
    <3>1. k \in 2..Len(s)
      BY <1>5, <2>2
    <3>2. ~Same(deaths[n], s[k]) /\ s[k].count = Cardinality(Times(deaths, n - 1, s[k]))
      BY <1>6, <1>8, <3>1 DEF Same, d
    <3> QED BY <1>1, <3>2, OneMoreTime
  <2> QED BY <2>1, <2>2
<1>12. ASSUME NEW k \in DOMAIN s, Same(s[k], deaths[1])
       PROVE  s[k].exchange = deaths[1].exchange /\ s[k].routingKeys = <<deaths[1].key>>
  <2>1. CASE k = 1 /\ n = 1
    <3>1. Old(D, d) = {}
      <4> SUFFICES ASSUME NEW i \in DOMAIN D PROVE FALSE
        BY DEF Old
      <4>1. Times(deaths, n - 1, D[i]) = {}
        BY <2>1 DEF Times
      <4>2. Cardinality(Times(deaths, n - 1, D[i])) = 0
        BY <4>1, FS_EmptySet
      <4> QED BY <1>6, <4>2
    <3> QED BY <1>3, <2>1, <3>1 DEF Made, d
  <2>2. CASE k = 1 /\ n # 1
    <3>1. Same(deaths[1], d) /\ 1 \in 1..(n - 1)
      BY <1>1, <1>7, <1>12, <2>2 DEF Same
    <3>2. Old(D, d) # {}
      <4>1. PICK i \in DOMAIN D : Same(D[i], deaths[1])
        BY <1>1, <3>1 DEF Recorded
      <4> QED BY <3>1, <4>1 DEF Old, Same
    <3>3. PICK m \in Old(D, d) : s[1] = Counted(D[m])
      BY <1>3, <3>2
    <3>4. m \in DOMAIN D /\ Same(D[m], deaths[1]) /\ D[m] \in DeathEntry(Q, R, E, K)
      BY <1>2, <3>1 DEF Old, Same
    <3>5. s[1].exchange = D[m].exchange /\ s[1].routingKeys = D[m].routingKeys
      BY <3>3, <3>4 DEF DeathEntry, Counted
    <3> QED BY <1>1, <2>2, <3>4, <3>5 DEF Recorded
  <2>3. CASE k # 1
    <3>1. k \in 2..Len(s)
      BY <1>5, <2>3
    <3> QED BY <1>1, <1>8, <1>12, <3>1 DEF Recorded
  <2> QED BY <2>1, <2>2, <2>3
<1>13. Recorded(s, deaths, n)
  BY <1>10, <1>11, <1>12 DEF Recorded
<1> QED BY <1>9, <1>13 DEF s, d

(* Whatever happened to a message, its headers tell it. *)
LEMMA HeadersTell ==
    ASSUME NEW Q, NEW R, NEW E, NEW K, NEW H, Named(Q, R, E, K), "x-delivery-count" \in H, NEW own \in SUBSET H,
           NEW deaths \in Seq(Death(Q, R, E, K))
    PROVE  /\ HeadersAfter(own, deaths) \in Written(Q, R, E, K, H)
           /\ Tells(HeadersAfter(own, deaths), own, deaths, Len(deaths))
<1>1. PICK h : AfterEach(h, own, deaths, Written(Q, R, E, K, H)) /\ HeadersAfter(own, deaths) = h[Len(deaths)]
  <2>1. \A h \in Written(Q, R, E, K, H), d \in Death(Q, R, E, K) : Died(h, d) \in Written(Q, R, E, K, H)
    BY DiedIsWritten
  <2> QED BY <2>1, HeadersWritten
<1> DEFINE T == {i \in 0..Len(deaths) : Tells(h[i], own, deaths, i)}
<1>2. /\ Len(deaths) \in Nat /\ h \in [0..Len(deaths) -> Written(Q, R, E, K, H)] /\ h[0] = Start(own)
      /\ \A i \in 1..Len(deaths) : h[i] = Died(h[i - 1], deaths[i])
  BY <1>1 DEF AfterEach
<1>3. 0 \in T
  <2>1. Start(own).death = <<>>
    BY DEF Start, NoHeaders
  <2>2. DOMAIN Start(own).death = {}
    BY <2>1
  <2> QED BY <1>2, <2>2 DEF Tells, Unique, Recorded
<1>4. ASSUME NEW i \in 1..Len(deaths), i - 1 \in T PROVE i \in T
  <2>1. h[i - 1] \in Written(Q, R, E, K, H) /\ Tells(h[i - 1], own, deaths, i - 1) /\ h[i] = Died(h[i - 1], deaths[i])
    BY <1>2, <1>4
  <2>2. Unique(h[i].death) /\ Recorded(h[i].death, deaths, i) /\ EndsTell(h[i], own, deaths, i)
    BY <2>1, EndsStep, RecordStep
  <2> QED BY <2>2 DEF Tells
<1>5. 0..Len(deaths) \subseteq T
  <2> HIDE DEF T
  <2> QED BY <1>2, <1>3, <1>4, RangeSet
<1>6. Tells(h[Len(deaths)], own, deaths, Len(deaths))
  BY <1>2, <1>5
<1> QED BY <1>1, <1>2, <1>6

(* Entries as the broker writes them are all read, as they are. *)
LEMMA EntryIsRead ==
    ASSUME NEW Q, NEW R, NEW E, NEW K, Named(Q, R, E, K), NEW e \in DeathEntry(Q, R, E, K)
    PROVE  ~Falsy(e.queue) /\ ~Falsy(e.reason) /\ ToEntry(e) = e
<1>1. e.queue \in Q /\ e.reason \in R /\ e.count \in Nat \ {0}
  BY DEF DeathEntry
<1>2. ~Falsy(e.queue) /\ ~Falsy(e.reason)
  BY <1>1 DEF Falsy, Named
<1>3. e.count # None /\ e.count > 0
  <2>1. None \notin Nat
    BY DEF Named
  <2> DEFINE c == e.count
  <2>2. c \in Nat \ {0}
    BY <1>1
  <2> HIDE DEF c
  <2>3. c # None
    BY <2>1, <2>2, Zenon
  <2>4. c > 0
    BY <2>2
  <2> QED BY <2>3, <2>4 DEF c
<1>4. ToEntry(e) = [e EXCEPT !.count = e.count]
  BY <1>3 DEF ToEntry
<1>5. [e EXCEPT !.count = e.count] = e
  BY DEF DeathEntry
<1> QED BY <1>2, <1>4, <1>5

(* The history that is decoded is the one the broker wrote, no entry left out or changed. *)
LEMMA HistoryIsRead ==
    ASSUME NEW Q, NEW R, NEW E, NEW K, NEW H, Named(Q, R, E, K), NEW h \in Written(Q, R, E, K, H)
    PROVE  History(h) = h.death
<1> DEFINE D == h.death
           n == Len(D)
           next(x, i) == IF Falsy(D[i].queue) \/ Falsy(D[i].reason) THEN x ELSE Append(x, ToEntry(D[i]))
           Is(f) == f = [i \in 0..n |-> IF i = 0 THEN <<>> ELSE next(f[i - 1], i)]
           f == CHOOSE g : Is(g)
           g == [i \in 0..n |-> SubSeq(D, 1, i)]
<1>1. D \in Seq(DeathEntry(Q, R, E, K)) /\ n \in Nat
  BY DEF Written
<1>2. f[n] = History(h)
  BY DEF History
<1>3. \A i \in 1..n : \A x : next(x, i) = Append(x, D[i])
  <2> SUFFICES ASSUME NEW i \in 1..n, NEW x PROVE next(x, i) = Append(x, D[i])
    OBVIOUS
  <2>1. D[i] \in DeathEntry(Q, R, E, K)
    BY <1>1
  <2> HIDE DEF D
  <2> QED BY <2>1, EntryIsRead
<1> HIDE DEF D, next
<1>4. g[0] = <<>> /\ g[n] = D /\ \A i \in 1..n : g[i] = Append(g[i - 1], D[i])
  <2>1. SubSeq(D, 1, 0) = <<>> /\ SubSeq(D, 1, n) = D
    BY <1>1, SubSeqEmpty, SubSeqFull
  <2> SUFFICES ASSUME NEW i \in 1..n PROVE SubSeq(D, 1, i) = Append(SubSeq(D, 1, i - 1), D[i])
    BY <1>1, <2>1
  <2>2. SubSeq(D, 1, i) = SubSeq(D, 1, i - 1) \o <<D[i]>>
    BY <1>1, SubSeqRecursiveSecond
  <2>3. SubSeq(D, 1, i - 1) \in Seq(DeathEntry(Q, R, E, K)) /\ D[i] \in DeathEntry(Q, R, E, K)
    BY <1>1
  <2> QED BY <2>2, <2>3, AppendIsConcat
<1>5. g = [i \in 0..n |-> g[i]]
  OBVIOUS
<1> HIDE DEF n, g
<1>6. Is(g)
  <2>1. \A i \in 1..n : g[i] = next(g[i - 1], i)
    BY <1>3, <1>4
  <2>2. \A i \in 0..n : i = 0 \/ i \in 1..n
    BY <1>1
  <2>3. \A i \in 0..n : g[i] = IF i = 0 THEN <<>> ELSE next(g[i - 1], i)
    BY <1>4, <2>1, <2>2
  <2> QED BY <1>5, <2>3
<1>7. Is(f)
  <2> HIDE DEF Is
  <2> QED BY <1>6
<1> HIDE DEF f
<1>8. f[0] = <<>> /\ \A i \in 1..n : f[i] = Append(f[i - 1], D[i])
  <2>1. 0 \in 0..n /\ \A i \in 1..n : i \in 0..n /\ i # 0
    BY <1>1
  <2> QED BY <1>3, <1>7, <2>1
<1> DEFINE T == {i \in 0..n : f[i] = g[i]}
<1>9. 0 \in T
  BY <1>1, <1>4, <1>8
<1>10. ASSUME NEW i \in 1..n, i - 1 \in T PROVE i \in T
  <2>1. f[i - 1] = g[i - 1] /\ i \in 0..n
    BY <1>1, <1>10
  <2>2. f[i] = Append(f[i - 1], D[i]) /\ g[i] = Append(g[i - 1], D[i])
    BY <1>4, <1>8
  <2> QED BY <2>1, <2>2
<1>11. 0..n \subseteq T
  <2> HIDE DEF T
  <2> QED BY <1>1, <1>9, <1>10, RangeSet
<1>12. f[n] = g[n]
  BY <1>1, <1>11
<1> QED BY <1>2, <1>4, <1>12 DEF D

(* The counts of the entries are together as many as the deaths. *)
LEMMA CountsAddUp ==
    ASSUME NEW Q, NEW R, NEW E, NEW K, NEW death \in Seq(DeathEntry(Q, R, E, K)), NEW deaths, NEW n \in Nat,
           Unique(death), Recorded(death, deaths, n)
    PROVE  SumFunction([i \in DOMAIN death |-> death[i].count]) = n
<1> DEFINE S == 1..n
           J == DOMAIN death
           key == [i \in S |-> CHOOSE k \in J : Same(death[k], deaths[i])]
           group == [k \in J |-> Times(deaths, n, death[k])]
           f == [i \in J |-> death[i].count]
<1>1. IsFiniteSet(S) /\ IsFiniteSet(J)
  <2>1. Len(death) \in Nat /\ J = 1..Len(death)
    OBVIOUS
  <2> HIDE DEF J
  <2> QED BY <2>1, FS_Interval
<1>2. \A i \in S : key[i] \in J /\ Same(death[key[i]], deaths[i])
  BY DEF Recorded
<1>3. group \in [J -> SUBSET S]
  BY DEF Times
<1>4. \A k \in J : \A i \in S : i \in group[k] <=> key[i] = k
  <2> SUFFICES ASSUME NEW k \in J, NEW i \in S PROVE i \in group[k] <=> key[i] = k
    OBVIOUS
  <2>1. i \in group[k] <=> Same(deaths[i], death[k])
    BY DEF Times
  <2>2. key[i] \in J /\ Same(death[key[i]], deaths[i])
    BY <1>2
  <2> HIDE DEF key, group
  <2>3. Same(deaths[i], death[k]) <=> key[i] = k
    BY <2>2 DEF Unique, Same
  <2> QED BY <2>1, <2>3
<1>5. f \in [J -> Nat] /\ \A k \in J : f[k] = Cardinality(group[k])
  <2>1. \A k \in J : death[k] \in DeathEntry(Q, R, E, K)
    OBVIOUS
  <2>2. \A k \in J : death[k].count \in Nat
    BY <2>1 DEF DeathEntry
  <2> QED BY <2>2 DEF Recorded
<1>6. Cardinality(S) = n
  BY FS_Interval
<1>7. key \in [S -> J]
  BY <1>2
<1> HIDE DEF S, J, key, group, f
<1>8. Grouped(S, J, key, group)
  BY <1>1, <1>3, <1>4, <1>7 DEF Grouped
<1>9. SumFunction(f) = Cardinality(S)
  BY <1>5, <1>8, GroupsCount
<1> QED BY <1>6, <1>9 DEF f, J

(* What is read in the headers of a message that died. *)
LEMMA DeathIsParsed ==
    ASSUME NEW Q, NEW R, NEW E, NEW K, NEW H, Named(Q, R, E, K),
           NEW own, NEW deaths \in Seq(Death(Q, R, E, K)), deaths # <<>>,
           NEW h \in Written(Q, R, E, K, H), Tells(h, own, deaths, Len(deaths))
    PROVE  ParseDeath(h) = [total |-> Len(deaths), firstQueue |-> deaths[1].queue, firstReason |-> deaths[1].reason,
                            lastQueue |-> Last(deaths).queue, lastReason |-> Last(deaths).reason,
                            original |-> [exchange |-> deaths[1].exchange, routingKeys |-> <<deaths[1].key>>,
                                          queue |-> deaths[1].queue]]
<1> DEFINE D == h.death
           n == Len(deaths)
           counted == SumFunction([i \in DOMAIN History(h) |-> History(h)[i].count])
           first == FirstEntry(h)
<1>1. n \in Nat \ {0} /\ 1 \in 1..n /\ n \in 1..n
  OBVIOUS
<1>2. deaths[1] \in Death(Q, R, E, K) /\ deaths[n] \in Death(Q, R, E, K) /\ Last(deaths) = deaths[n]
  BY <1>1 DEF Last
<1>3. D \in Seq(DeathEntry(Q, R, E, K)) /\ Unique(D) /\ Recorded(D, deaths, n) /\ EndsTell(h, own, deaths, n)
  BY <1>1 DEF Written, Tells
<1>4. History(h) = D
  BY HistoryIsRead
<1>5. counted = n
  BY <1>1, <1>3, <1>4, CountsAddUp
<1>6. /\ deaths[1].queue \in Q /\ deaths[1].reason \in R /\ deaths[n].queue \in Q /\ deaths[n].reason \in R
      /\ h.firstQueue = deaths[1].queue /\ h.firstReason = deaths[1].reason
      /\ h.lastQueue = deaths[n].queue /\ h.lastReason = deaths[n].reason
  BY <1>2, <1>3 DEF Death, EndsTell
<1>7. /\ h.firstQueue # None /\ h.firstReason # None /\ h.lastQueue # None /\ h.lastReason # None
      /\ ~Falsy(h.firstQueue) /\ ~Falsy(h.firstReason)
  BY <1>6 DEF Named, Falsy
<1>8. first \in DeathEntry(Q, R, E, K) /\ Same(first, deaths[1]) /\ first.exchange = deaths[1].exchange
      /\ first.routingKeys = <<deaths[1].key>>
  <2> DEFINE ones == {i \in DOMAIN D : D[i].queue = h.firstQueue /\ (Falsy(h.firstReason) \/ D[i].reason = h.firstReason)}
  <2>1. PICK k \in DOMAIN D : Same(D[k], deaths[1])
    BY <1>1, <1>3 DEF Recorded
  <2>2. k \in ones /\ D # <<>>
    BY <1>6, <2>1 DEF Same
  <2>3. first = D[Min(ones)]
    BY <1>4, <2>2 DEF FirstEntry
  <2>4. ones \subseteq Nat
    BY <1>3
  <2>5. Min(ones) \in ones
    BY <2>2, <2>4, FirstOfSome
  <2>6. Min(ones) \in DOMAIN D /\ Same(D[Min(ones)], deaths[1])
    BY <1>6, <1>7, <2>5 DEF Same
  <2> HIDE DEF ones, D, first
  <2>7. D[Min(ones)] \in DeathEntry(Q, R, E, K)
    BY <1>3, <2>6
  <2> QED BY <1>3, <2>3, <2>6, <2>7 DEF Recorded
<1>9. first # None /\ first.queue = deaths[1].queue
  BY <1>8 DEF Named, Same
<1> HIDE DEF D, n, counted, first
<1>10. ParseDeath(h) =
         [total |-> IF counted = 0 THEN 1 ELSE counted,
          firstQueue |-> Or(h.firstQueue, first.queue), firstReason |-> Or(h.firstReason, first.reason),
          lastQueue |-> Or(h.lastQueue, Newest(h, "queue")), lastReason |-> Or(h.lastReason, Newest(h, "reason")),
          original |-> [exchange |-> first.exchange, routingKeys |-> first.routingKeys, queue |-> first.queue]]
  BY <1>7, <1>9 DEF ParseDeath, first, counted
<1> QED BY <1>1, <1>2, <1>5, <1>6, <1>7, <1>8, <1>9, <1>10 DEF Or, n

(* Decoding is the inverse of what the broker wrote, however often and wherever a message died. *)
THEOREM HistoryIsDecoded ==
    ASSUME NEW Q, NEW R, NEW E, NEW K, Named(Q, R, E, K), NEW own, own \cap BrokerHeaders = {},
           NEW deaths \in Seq(Death(Q, R, E, K))
    PROVE  DecodesTheHistory(own, deaths)
<1> DEFINE H == own \cup {"x-delivery-count"}
           h == HeadersAfter(own, deaths)
           death == ParseDeath(h)
           back == PlanReplay(h, "failed-queue")
           again == PlanReplay(h, "original-exchange")
<1>1. "x-delivery-count" \in H /\ own \in SUBSET H /\ Len(deaths) \in Nat
  OBVIOUS
<1>2. h \in Written(Q, R, E, K, H) /\ Tells(h, own, deaths, Len(deaths))
  <2> HIDE DEF H
  <2> QED BY <1>1, HeadersTell
<1> HIDE DEF H, h
<1>3. CASE deaths = <<>>
  <2>1. h = Start(own)
    BY <1>2, <1>3 DEF Tells
  <2>2. History(h) = <<>> /\ h.firstQueue = None
    BY <1>2, <2>1, HistoryIsRead DEF Start, NoHeaders
  <2>3. death = None
    BY <2>2 DEF ParseDeath, Falsy
  <2>4. back = None /\ again = None
    BY <2>3 DEF PlanReplay
  <2> QED BY <1>3, <2>3, <2>4 DEF DecodesTheHistory, h
<1>4. CASE deaths # <<>>
  <2> DEFINE d == deaths[1]
  <2>1. death = [total |-> Len(deaths), firstQueue |-> d.queue, firstReason |-> d.reason,
                 lastQueue |-> Last(deaths).queue, lastReason |-> Last(deaths).reason,
                 original |-> [exchange |-> d.exchange, routingKeys |-> <<d.key>>, queue |-> d.queue]]
    BY <1>2, <1>4, DeathIsParsed
  <2>2. d \in Death(Q, R, E, K) /\ Last(deaths) \in Death(Q, R, E, K) /\ Len(deaths) # 0
    BY <1>1, <1>4 DEF Last
  <2>3. /\ death.total = Len(deaths) /\ death.firstQueue = d.queue /\ death.lastQueue = Last(deaths).queue
        /\ death.lastReason = Last(deaths).reason
        /\ death.original.exchange = d.exchange /\ death.original.routingKeys = <<d.key>>
    BY <2>1
  <2>4. death \in DeathInfo(Q, R, E, K)
    BY <2>1, <2>2 DEF DeathInfo, Death
  <2>5. death # None /\ ~Falsy(d.queue) /\ Last(deaths).reason # None
    BY <2>2, <2>4 DEF Named, Falsy, Death
  <2>6. h.other = own \cup {"x-delivery-count"}
    BY <1>2, <2>2 DEF Tells, EndsTell
  <2> HIDE DEF death, d
  <2>7. DeathReason(death) = Last(deaths).reason
    BY <2>3, <2>5 DEF DeathReason, Or
  <2>8. back = [exchange |-> "", routingKey |-> d.queue,
                headers |-> [NoHeaders EXCEPT !.other = own \ ExtraRoutingHeaders]]
    <3>1. h.other \ (BrokerHeaders \cup ExtraRoutingHeaders) = own \ ExtraRoutingHeaders
      BY <2>6 DEF BrokerHeaders
    <3> QED BY <2>3, <2>5, <3>1 DEF PlanReplay, death
  <2>9. again = [exchange |-> d.exchange, routingKey |-> d.key, headers |-> Start(own)]
    <3>1. h.other \ (BrokerHeaders \cup {}) = own
      BY <2>6 DEF BrokerHeaders
    <3>2. death.original.routingKeys # <<>> /\ Head(death.original.routingKeys) = d.key
      BY <2>3
    <3> QED BY <2>3, <2>5, <3>1, <3>2 DEF PlanReplay, death, Start
  <2>10. HeadersAfter(own, <<>>) = Start(own)
    <3>1. <<>> \in Seq(Death(Q, R, E, K)) /\ Len(<<>>) = 0
      OBVIOUS
    <3>2. Tells(HeadersAfter(own, <<>>), own, <<>>, 0)
      BY <1>1, <3>1, HeadersTell
    <3> QED BY <3>2 DEF Tells
  <2> HIDE DEF back, again
  <2>11. back.exchange = "" /\ back.routingKey = d.queue /\ back.headers.other = own \ ExtraRoutingHeaders
    <3>1. back.headers = [NoHeaders EXCEPT !.other = own \ ExtraRoutingHeaders]
      BY <2>8
    <3>2. back.headers.other = own \ ExtraRoutingHeaders
      BY <3>1 DEF NoHeaders
    <3> QED BY <2>8, <3>2
  <2>12. again.exchange = d.exchange /\ again.routingKey = d.key /\ again.headers = HeadersAfter(own, <<>>)
    BY <2>9, <2>10
  <2> USE DEF d
  <2>13. /\ death.total = Len(deaths) /\ death.firstQueue = deaths[1].queue /\ death.lastQueue = Last(deaths).queue
         /\ DeathReason(death) = Last(deaths).reason
    BY <2>3, <2>7
  <2>14. /\ back.exchange = "" /\ back.routingKey = deaths[1].queue
         /\ again.exchange = deaths[1].exchange /\ again.routingKey = deaths[1].key
         /\ again.headers = HeadersAfter(own, <<>>) /\ back.headers.other = own \ ExtraRoutingHeaders
    BY <2>11, <2>12
  <2> QED BY <1>4, <2>13, <2>14, Zenon DEF DecodesTheHistory, h, death, back, again
<1> QED BY <1>3, <1>4

(* No message that died has a reason that the filter takes for "all" or for "none died". *)
Filterable(batch) ==
    \A i \in DOMAIN batch : ParseDeath(batch[i]) = None \/ DeathReason(ParseDeath(batch[i])) \notin {"", "none"}

(* Each option of the filter shows as many messages as it says, and the queues add up, of every such batch. *)
THEOREM FilterIsHonest ==
    ASSUME NEW X, NEW batch \in Seq(X), Filterable(batch)
    PROVE  FilterSaysWhatItShows(batch)
<1> DEFINE S == DOMAIN batch
           dead == {i \in S : ParseDeath(batch[i]) # None}
           reason(i) == DeathReason(ParseDeath(batch[i]))
           queue(i) == Or(ParseDeath(batch[i]).lastQueue, "unknown")
           reasons == {reason(i) : i \in dead}
           queues == {queue(i) : i \in dead}
           summary == SummarizeDeaths(batch)
           shown(filter) == {i \in S : MatchesReason(batch[i], filter)}
           byQueue == [q \in queues |-> Cardinality({i \in dead : queue(i) = q})]
<1>1. S = 1..Len(batch) /\ Len(batch) \in Nat /\ IsFiniteSet(S) /\ Cardinality(S) = Len(batch)
  <2>1. S = 1..Len(batch) /\ Len(batch) \in Nat
    OBVIOUS
  <2> HIDE DEF S
  <2> QED BY <2>1, FS_Interval
<1>2. summary = [total |-> Len(batch), deadLettered |-> Cardinality(dead),
                 byReason |-> [r \in reasons |-> Cardinality({i \in dead : reason(i) = r})], byQueue |-> byQueue]
  BY DEF SummarizeDeaths
<1>3. dead \subseteq S /\ IsFiniteSet(dead)
  <2>1. dead \subseteq S
    OBVIOUS
  <2> HIDE DEF S, dead
  <2> QED BY <1>1, <2>1, FS_Subset
<1>4. ASSUME NEW r \in reasons PROVE Cardinality(shown(r)) = summary.byReason[r]
  <2>1. r \notin {"", "none"}
    BY DEF Filterable
  <2>2. shown(r) = {i \in dead : reason(i) = r}
    BY <2>1 DEF MatchesReason
  <2>3. summary.byReason[r] = Cardinality({i \in dead : reason(i) = r})
    <3> HIDE DEF dead, reason, summary, byQueue, reasons
    <3> QED BY <1>2
  <2> QED BY <2>2, <2>3
<1>5. Cardinality(shown("none")) = summary.total - summary.deadLettered
  <2>1. shown("none") = S \ dead
    <3> SUFFICES ASSUME NEW i \in S PROVE MatchesReason(batch[i], "none") <=> ParseDeath(batch[i]) = None
      OBVIOUS
    <3> QED BY DEF MatchesReason
  <2>2. S \cap dead = dead
    OBVIOUS
  <2> HIDE DEF S, dead, summary, shown
  <2>3. Cardinality(S \ dead) = Cardinality(S) - Cardinality(dead)
    <3>1. IsFiniteSet(S)
      BY <1>1
    <3>2. Cardinality(S \ dead) = Cardinality(S) - Cardinality(S \cap dead)
      BY <3>1, FS_Difference, Zenon
    <3> QED BY <2>2, <3>2
  <2> QED BY <1>1, <1>2, <2>1, <2>3
<1>6. Cardinality(shown("")) = summary.total
  <2>1. shown("") = S
    BY DEF MatchesReason
  <2> HIDE DEF S, summary, shown
  <2> QED BY <1>1, <1>2, <2>1
<1>7. SumFunction(summary.byQueue) = summary.deadLettered
  <2> DEFINE key == [i \in dead |-> queue(i)]
             group == [q \in queues |-> {i \in dead : queue(i) = q}]
  <2>1. key \in [dead -> queues] /\ group \in [queues -> SUBSET dead]
    OBVIOUS
  <2>2. \A q \in queues : \A i \in dead : i \in group[q] <=> key[i] = q
    OBVIOUS
  <2>3. \A q \in queues : byQueue[q] = Cardinality(group[q])
    OBVIOUS
  <2>4. \A q \in queues : \E i \in dead : key[i] = q
    OBVIOUS
  <2> HIDE DEF key, group, dead, queues, byQueue, summary
  <2>5. IsFiniteSet(queues)
    <3>1. key \in Surjection(dead, queues)
      BY <2>1, <2>4 DEF Surjection
    <3> QED BY <1>3, <3>1, FS_Surjection
  <2>6. Grouped(dead, queues, key, group)
    BY <1>3, <2>1, <2>2, <2>5 DEF Grouped
  <2>7. byQueue \in [queues -> Nat]
    <3>1. \A q \in queues : IsFiniteSet(group[q])
      BY <1>3, <2>1, FS_Subset
    <3>2. \A q \in queues : Cardinality(group[q]) \in Nat
      BY <3>1, FS_CardinalityType
    <3> USE DEF byQueue
    <3>3. DOMAIN byQueue = queues
      OBVIOUS
    <3> QED BY <2>3, <3>2, <3>3
  <2>8. SumFunction(byQueue) = Cardinality(dead)
    BY <2>3, <2>6, <2>7, GroupsCount
  <2> QED BY <1>2, <2>8
<1>8. DOMAIN summary.byReason = reasons
  <2> HIDE DEF summary, dead, reason, reasons, byQueue
  <2> QED BY <1>2
<1> HIDE DEF summary, reasons
<1> QED BY <1>4, <1>5, <1>6, <1>7, <1>8 DEF FilterSaysWhatItShows, summary

-----------------------------------------------------------------------------
(* Each of the first n pods that can be a client's is at its address, or a pod that has a better claim. *)
Placed(byIp, pods, wanted, n) ==
    /\ DOMAIN byIp = {NormalizeAddress(pods[i].ip) : i \in {j \in 1..n : Candidate(pods[j], wanted)}}
    /\ \A a \in DOMAIN byIp : \E i \in 1..n :
          /\ Candidate(pods[i], wanted) /\ NormalizeAddress(pods[i].ip) = a /\ byIp[a] = pods[i]
          /\ pods[i].terminating =>
                \A j \in 1..n : Candidate(pods[j], wanted) /\ NormalizeAddress(pods[j].ip) = a => pods[j].terminating

(* One pod more: it takes its address, or the pod that is there has the better claim. *)
LEMMA PlacedStep ==
    ASSUME NEW pods, NEW wanted, NEW n \in Nat \ {0}, \A i \in 1..n : pods[i].terminating \in BOOLEAN,
           NEW byIp, Placed(byIp, pods, wanted, n - 1)
    PROVE  Placed(AddPod(byIp, pods[n], wanted), pods, wanted, n)
<1> DEFINE pod == pods[n]
           ip == NormalizeAddress(pod.ip)
           new == AddPod(byIp, pod, wanted)
           can(i) == Candidate(pods[i], wanted)
           at(i) == NormalizeAddress(pods[i].ip)
           held == ip \in DOMAIN byIp
<1>1. \A i \in 1..n : i \in 1..(n - 1) \/ i = n
  OBVIOUS
<1>2. \A i \in 1..(n - 1) : i \in 1..n
  OBVIOUS
<1>a. n \in 1..n
  OBVIOUS
<1>3. DOMAIN byIp = {at(i) : i \in {j \in 1..(n - 1) : can(j)}}
  BY DEF Placed
<1>4. ASSUME NEW a \in DOMAIN byIp
      PROVE  \E i \in 1..(n - 1) : /\ can(i) /\ at(i) = a /\ byIp[a] = pods[i]
                                   /\ pods[i].terminating => \A j \in 1..(n - 1) : can(j) /\ at(j) = a => pods[j].terminating
  BY DEF Placed
<1>5. CASE ~can(n)
  <2>1. new = byIp
    BY <1>5 DEF AddPod
  <2>2. DOMAIN new = {at(i) : i \in {j \in 1..n : can(j)}}
    <3>1. {j \in 1..n : can(j)} = {j \in 1..(n - 1) : can(j)}
      BY <1>1, <1>2, <1>5
    <3> QED BY <1>3, <2>1, <3>1
  <2> HIDE DEF can, new
  <2>3. ASSUME NEW a \in DOMAIN new
        PROVE  \E i \in 1..n : /\ can(i) /\ at(i) = a /\ new[a] = pods[i]
                               /\ pods[i].terminating => \A j \in 1..n : can(j) /\ at(j) = a => pods[j].terminating
    <3>1. PICK i \in 1..(n - 1) : /\ can(i) /\ at(i) = a /\ byIp[a] = pods[i]
                                  /\ pods[i].terminating => \A j \in 1..(n - 1) : can(j) /\ at(j) = a => pods[j].terminating
      BY <1>4, <2>1
    <3>2. pods[i].terminating => \A j \in 1..n : can(j) /\ at(j) = a => pods[j].terminating
      BY <1>1, <1>5, <3>1
    <3> QED BY <1>2, <2>1, <3>1, <3>2
  <2> QED BY <2>2, <2>3 DEF Placed, can, new
<1>6. CASE can(n) /\ held /\ (pod.terminating \/ ~byIp[ip].terminating)
  <2>1. new = byIp
    BY <1>6 DEF AddPod
  <2>2. DOMAIN new = {at(i) : i \in {j \in 1..n : can(j)}}
    BY <1>1, <1>2, <1>3, <1>6, <2>1
  <2> HIDE DEF can, new
  <2>3. ASSUME NEW a \in DOMAIN new
        PROVE  \E i \in 1..n : /\ can(i) /\ at(i) = a /\ new[a] = pods[i]
                               /\ pods[i].terminating => \A j \in 1..n : can(j) /\ at(j) = a => pods[j].terminating
    <3>1. PICK i \in 1..(n - 1) : /\ can(i) /\ at(i) = a /\ byIp[a] = pods[i]
                                  /\ pods[i].terminating => \A j \in 1..(n - 1) : can(j) /\ at(j) = a => pods[j].terminating
      BY <1>4, <2>1
    <3>2. pods[i].terminating => \A j \in 1..n : can(j) /\ at(j) = a => pods[j].terminating
      BY <1>1, <1>6, <3>1
    <3> QED BY <1>2, <2>1, <3>1, <3>2
  <2> QED BY <2>2, <2>3 DEF Placed, can, new
<1>7. CASE can(n) /\ ~(held /\ (pod.terminating \/ ~byIp[ip].terminating))
  <2>1. new = [a \in DOMAIN byIp \cup {ip} |-> IF a = ip THEN pod ELSE byIp[a]]
    BY <1>7 DEF AddPod
  <2>2. DOMAIN new = DOMAIN byIp \cup {ip} /\ new[ip] = pod /\ \A a \in DOMAIN byIp : a # ip => new[a] = byIp[a]
    BY <2>1
  <2>3. DOMAIN new = {at(i) : i \in {j \in 1..n : can(j)}}
    BY <1>1, <1>2, <1>a, <1>3, <1>7, <2>2
  <2>4. ASSUME held, pod.terminating, NEW j \in 1..(n - 1), can(j), at(j) = ip PROVE FALSE
    BY <1>7, <2>4
  <2>5. ASSUME ~held, NEW j \in 1..(n - 1), can(j), at(j) = ip PROVE FALSE
    BY <1>3, <2>5
  <2> HIDE DEF can, new
  <2>6. ASSUME NEW a \in DOMAIN new
        PROVE  \E i \in 1..n : /\ can(i) /\ at(i) = a /\ new[a] = pods[i]
                               /\ pods[i].terminating => \A j \in 1..n : can(j) /\ at(j) = a => pods[j].terminating
    <3>1. CASE a = ip
      <4>1. can(n) /\ at(n) = a /\ new[a] = pods[n]
        BY <1>7, <2>2, <3>1
      <4>2. pods[n].terminating => \A j \in 1..n : can(j) /\ at(j) = a => pods[j].terminating
        BY <1>1, <2>4, <2>5, <3>1
      <4> QED BY <1>a, <4>1, <4>2
    <3>2. CASE a # ip
      <4>1. a \in DOMAIN byIp /\ new[a] = byIp[a]
        BY <2>2, <3>2
      <4>2. PICK i \in 1..(n - 1) : /\ can(i) /\ at(i) = a /\ byIp[a] = pods[i]
                                    /\ pods[i].terminating => \A j \in 1..(n - 1) : can(j) /\ at(j) = a => pods[j].terminating
        BY <1>4, <4>1
      <4>3. pods[i].terminating => \A j \in 1..n : can(j) /\ at(j) = a => pods[j].terminating
        BY <1>1, <3>2, <4>2
      <4> QED BY <1>2, <4>1, <4>2, <4>3
    <3> QED BY <3>1, <3>2
  <2> QED BY <2>3, <2>6 DEF Placed, can, new
<1> QED BY <1>5, <1>6, <1>7

(* What the pods listed come to. *)
LEMMA PodsArePlaced ==
    ASSUME NEW Z, NEW pods \in Seq(Z), NEW wanted, \A i \in DOMAIN pods : pods[i].terminating \in BOOLEAN
    PROVE  Placed(MatchClientPods(pods, wanted), pods, wanted, Len(pods))
<1> DEFINE n == Len(pods)
           Addr == {NormalizeAddress(pods[i].ip) : i \in 1..n}
           P == {pods[i] : i \in 1..n}
           X == UNION {[A -> P] : A \in SUBSET Addr}
           next(x, i) == AddPod(x, pods[i], wanted)
           Is(f) == f = [i \in 0..n |-> IF i = 0 THEN << >> ELSE next(f[i - 1], i)]
           f == CHOOSE g : Is(g)
           step == [p \in X \X (1..n) |-> next(p[1], p[2])]
<1>1. n \in Nat /\ DOMAIN pods = 1..n
  OBVIOUS
<1>2. f[n] = MatchClientPods(pods, wanted)
  BY DEF MatchClientPods
<1>3. << >> \in X
  <2>1. << >> \in [{} -> P] /\ {} \in SUBSET Addr
    OBVIOUS
  <2> QED BY <2>1
<1>4. ASSUME NEW x \in X, NEW i \in 1..n PROVE next(x, i) \in X
  <2>1. PICK A \in SUBSET Addr : x \in [A -> P]
    OBVIOUS
  <2> DEFINE ip == NormalizeAddress(pods[i].ip)
             y == [a \in A \cup {ip} |-> IF a = ip THEN pods[i] ELSE x[a]]
  <2>2. next(x, i) = x \/ next(x, i) = y
    BY <2>1 DEF AddPod
  <2>3. A \cup {ip} \in SUBSET Addr /\ y \in [A \cup {ip} -> P]
    BY <2>1
  <2>4. y \in X
    BY <2>3
  <2> QED BY <2>2, <2>4
<1>5. step \in [X \X (1..n) -> X] /\ \A x \in X, i \in 1..n : step[<<x, i>>] = next(x, i)
  <2> HIDE DEF X, next, n
  <2> QED BY <1>4
<1> HIDE DEF X, next, n, step
<1>6. \E g : Is(g)
  <2>1. Recursion(X, n, << >>, step)
    BY <1>1, <1>3, <1>5 DEF Recursion
  <2>2. PICK g : Follows(g, X, n, << >>, step)
    BY <2>1, RecursionExists
  <2>3. g \in [0..n -> X] /\ g[0] = << >> /\ \A i \in 1..n : g[i] = step[<<g[i - 1], i>>]
    BY <2>2 DEF Follows
  <2>4. \A i \in 1..n : g[i] = next(g[i - 1], i)
    <3> SUFFICES ASSUME NEW i \in 1..n PROVE g[i] = next(g[i - 1], i)
      OBVIOUS
    <3>1. i - 1 \in 0..n
      BY <1>1
    <3>2. g[i - 1] \in X
      BY <2>3, <3>1
    <3> QED BY <1>5, <2>3, <3>2
  <2>5. \A i \in 0..n : i = 0 \/ i \in 1..n
    BY <1>1
  <2>6. g = [i \in 0..n |-> g[i]]
    BY <2>3
  <2>7. \A i \in 0..n : g[i] = IF i = 0 THEN << >> ELSE next(g[i - 1], i)
    BY <2>3, <2>4, <2>5
  <2> QED BY <2>6, <2>7
<1>7. Is(f)
  <2> HIDE DEF Is
  <2> QED BY <1>6
<1> HIDE DEF f
<1>8. f[0] = << >> /\ \A i \in 1..n : f[i] = next(f[i - 1], i)
  <2>1. 0 \in 0..n /\ \A i \in 1..n : i \in 0..n /\ i # 0
    BY <1>1
  <2> QED BY <1>7, <2>1
<1> DEFINE T == {i \in 0..n : Placed(f[i], pods, wanted, i)}
<1>9. 0 \in T
  <2>1. DOMAIN f[0] = {} /\ 0 \in 0..n /\ 1..0 = {}
    BY <1>1, <1>8
  <2> QED BY <2>1 DEF Placed
<1>10. ASSUME NEW i \in 1..n, i - 1 \in T PROVE i \in T
  <2>1. Placed(f[i - 1], pods, wanted, i - 1) /\ i \in 0..n /\ i \in Nat \ {0}
    BY <1>1, <1>10
  <2>2. \A j \in 1..i : pods[j].terminating \in BOOLEAN
    BY <1>1
  <2>3. Placed(AddPod(f[i - 1], pods[i], wanted), pods, wanted, i)
    BY <2>1, <2>2, PlacedStep
  <2> QED BY <1>8, <2>1, <2>3 DEF next
<1>11. 0..n \subseteq T
  <2> HIDE DEF T
  <2> QED BY <1>1, <1>9, <1>10, RangeSet
<1>12. Placed(f[n], pods, wanted, n)
  BY <1>1, <1>11
<1> QED BY <1>2, <1>12 DEF n

(* The connections and the pods of a cluster, and who holds the connections: a pod that is alive, the only   *)
(* one at its address that does not shut down, or no pod at all, and then none is at the address.            *)
HeldByPods(connections, pods, holder) ==
    /\ IsFiniteSet(connections) /\ \A c \in connections : c.channels \in Nat
    /\ \A i \in DOMAIN pods : pods[i].terminating \in BOOLEAN /\ <<pods[i].namespace, PodWorkload(pods[i])>> # None
    /\ \A i, j \in DOMAIN pods : \A c \in connections :
          LET here == {NormalizeAddress(c.peer)}
          IN c.peer # None /\ Candidate(pods[i], here) /\ ~pods[i].terminating
                          /\ Candidate(pods[j], here) /\ ~pods[j].terminating => i = j
    /\ \A c \in connections :
          LET here == {NormalizeAddress(c.peer)}
          IN IF holder[c] = None THEN c.peer # None => \A i \in DOMAIN pods : ~Candidate(pods[i], here)
             ELSE /\ c.peer # None
                  /\ \E i \in DOMAIN pods : Candidate(pods[i], here) /\ ~pods[i].terminating /\ pods[i].name = holder[c]

(* Every address that the connections come from is looked up. *)
LEMMA AddressesAreLookedUp ==
    ASSUME NEW connections, IsFiniteSet(connections), NEW Z, NEW pods \in Seq(Z),
           \A i \in DOMAIN pods : pods[i].terminating \in BOOLEAN
    PROVE  LET ips == ClientAddresses(connections)
           IN Placed(ResolveClientPods(pods, ips, Cardinality(connections)), pods, ips, Len(pods))
<1> DEFINE ips == ClientAddresses(connections)
           some == {d \in connections : d.peer # None}
           max == Cardinality(connections)
           bounded == CHOOSE s \in SUBSET ips : Cardinality(s) = Min({max, Cardinality(ips)})
<1>1. IsFiniteSet(some) /\ Cardinality(some) <= max /\ max \in Nat
  <2>1. some \in SUBSET connections
    OBVIOUS
  <2> HIDE DEF some
  <2> QED BY <2>1, FS_Subset, FS_CardinalityType
<1>2. IsFiniteSet(ips) /\ Cardinality(ips) \in Nat /\ Cardinality(ips) <= max
  <2> DEFINE f == [c \in some |-> NormalizeAddress(c.peer)]
  <2>1. f \in Surjection(some, ips)
    <3>1. f \in [some -> ips] /\ \A a \in ips : \E c \in some : f[c] = a
      BY DEF ClientAddresses
    <3> HIDE DEF f, some, ips
    <3> QED BY <3>1 DEF Surjection
  <2> HIDE DEF f, some, ips, max
  <2>2. IsFiniteSet(ips) /\ Cardinality(ips) <= Cardinality(some)
    BY <1>1, <2>1, FS_Surjection
  <2> QED BY <1>1, <2>2, FS_CardinalityType
<1> HIDE DEF ips, max, some
<1>3. Min({max, Cardinality(ips)}) = Cardinality(ips)
  <2>1. {max, Cardinality(ips)} \subseteq Nat
    BY <1>1, <1>2
  <2> QED BY <1>1, <1>2 DEF Min
<1>4. bounded = ips
  <2>1. ips \in SUBSET ips
    OBVIOUS
  <2>2. bounded \in SUBSET ips /\ Cardinality(bounded) = Cardinality(ips)
    BY <1>3, <2>1
  <2> HIDE DEF bounded
  <2> QED BY <1>2, <2>2, FS_Subset
<1>5. ResolveClientPods(pods, ips, max) = IF ips = {} THEN << >> ELSE MatchClientPods(pods, ips)
  <2>1. ResolveClientPods(pods, ips, max) = IF bounded = {} THEN << >> ELSE MatchClientPods(pods, bounded)
    BY DEF ResolveClientPods
  <2> HIDE DEF bounded
  <2> QED BY <1>4, <2>1
<1>6. Placed(MatchClientPods(pods, ips), pods, ips, Len(pods))
  BY PodsArePlaced
<1>7. CASE ips = {}
  <2>1. Placed(<< >>, pods, ips, Len(pods))
    BY <1>7 DEF Placed, Candidate
  <2> QED BY <1>5, <1>7, <2>1 DEF ips, max
<1> QED BY <1>5, <1>6, <1>7 DEF ips, max

(* A pod can be the client at an address it has. *)
LEMMA CandidateAt ==
    ASSUME NEW pod, NEW wanted, NEW a \in wanted
    PROVE  Candidate(pod, {a}) <=> Candidate(pod, wanted) /\ NormalizeAddress(pod.ip) = a
BY DEF Candidate

(* What is looked up leads from a connection to its holder. *)
LeadsToHolder(byIp, connections, pods, holder) ==
    /\ \A a \in DOMAIN byIp : \E i \in DOMAIN pods : byIp[a] = pods[i]
    /\ \A c \in connections :
          IF holder[c] = None THEN c.peer = None \/ NormalizeAddress(c.peer) \notin DOMAIN byIp
          ELSE c.peer # None /\ NormalizeAddress(c.peer) \in DOMAIN byIp /\ byIp[NormalizeAddress(c.peer)].name = holder[c]

(* The pod found at a connection's address is its holder; where no pod holds it, none is found. *)
LEMMA HolderIsFound ==
    ASSUME NEW connections, NEW Z, NEW pods \in Seq(Z), NEW holder, HeldByPods(connections, pods, holder)
    PROVE  LeadsToHolder(ResolveClientPods(pods, ClientAddresses(connections), Cardinality(connections)),
                         connections, pods, holder)
<1> DEFINE byIp == ResolveClientPods(pods, ClientAddresses(connections), Cardinality(connections))
           ips == ClientAddresses(connections)
           n == Len(pods)
<1>1. Placed(byIp, pods, ips, n) /\ DOMAIN pods = 1..n
  BY AddressesAreLookedUp DEF HeldByPods
<1>2. \A a \in DOMAIN byIp : \E i \in DOMAIN pods : byIp[a] = pods[i]
  BY <1>1 DEF Placed
<1>3. ASSUME NEW c \in connections, c.peer # None PROVE NormalizeAddress(c.peer) \in ips
  BY <1>3 DEF ClientAddresses
<1> HIDE DEF byIp, ips, n
<1>4. ASSUME NEW c \in connections, holder[c] = None, c.peer # None PROVE NormalizeAddress(c.peer) \notin DOMAIN byIp
  <2> SUFFICES ASSUME NormalizeAddress(c.peer) \in DOMAIN byIp PROVE FALSE
    OBVIOUS
  <2>1. PICK i \in 1..n : Candidate(pods[i], ips) /\ NormalizeAddress(pods[i].ip) = NormalizeAddress(c.peer)
    BY <1>1 DEF Placed
  <2>2. Candidate(pods[i], {NormalizeAddress(c.peer)})
    BY <1>3, <1>4, <2>1, CandidateAt
  <2> QED BY <1>1, <1>4, <2>2 DEF HeldByPods
<1>5. ASSUME NEW c \in connections, holder[c] # None
      PROVE  c.peer # None /\ NormalizeAddress(c.peer) \in DOMAIN byIp /\ byIp[NormalizeAddress(c.peer)].name = holder[c]
  <2> DEFINE a == NormalizeAddress(c.peer)
  <2>1. PICK i \in 1..n : Candidate(pods[i], {a}) /\ ~pods[i].terminating /\ pods[i].name = holder[c]
    BY <1>1, <1>5 DEF HeldByPods
  <2>2. c.peer # None /\ a \in ips
    BY <1>3, <1>5 DEF HeldByPods
  <2> HIDE DEF a
  <2>3. Candidate(pods[i], ips) /\ NormalizeAddress(pods[i].ip) = a
    BY <2>1, <2>2, CandidateAt
  <2>4. a \in DOMAIN byIp
    BY <1>1, <2>3 DEF Placed
  <2>5. PICK j \in 1..n :
           /\ Candidate(pods[j], ips) /\ NormalizeAddress(pods[j].ip) = a /\ byIp[a] = pods[j]
           /\ pods[j].terminating =>
                 \A k \in 1..n : Candidate(pods[k], ips) /\ NormalizeAddress(pods[k].ip) = a => pods[k].terminating
    BY <1>1, <2>4 DEF Placed
  <2>6. ~pods[j].terminating /\ Candidate(pods[j], {a})
    BY <2>1, <2>2, <2>3, <2>5, CandidateAt
  <2>7. i = j
    BY <1>1, <2>1, <2>2, <2>6 DEF HeldByPods, a
  <2> QED BY <2>1, <2>2, <2>4, <2>5, <2>7 DEF a
<1> QED BY <1>2, <1>4, <1>5 DEF LeadsToHolder, byIp

(* The row of a client tells of its connections. *)
RowTells(k, connections, byIp, by) ==
    LET row == GroupConnectionsByClient(connections, byIp, by)[k]
        mine == {c \in connections : Identify(c, byIp, by) = k}
    IN /\ row.connections = Cardinality(mine) /\ row.channels = SumFunction([c \in mine |-> c.channels])
       /\ row.ips = ClientAddresses(mine)

(* A row of the view counts the connections of its client. *)
LEMMA RowSays ==
    ASSUME NEW connections, NEW byIp, NEW by, NEW d \in connections
    PROVE  RowTells(Identify(d, byIp, by), connections, byIp, by)
BY DEF GroupConnectionsByClient, RowTells

(* The rows of the connections of S, and of no others. *)
RowsOf(rows, S, connections, byIp, by) ==
    /\ IsFiniteSet(connections) /\ \A c \in connections : c.channels \in Nat
    /\ S \in SUBSET connections
    /\ DOMAIN rows = {Identify(c, byIp, by) : c \in S}
    /\ \A c \in connections : Identify(c, byIp, by) \in DOMAIN rows => c \in S
    /\ \A k \in DOMAIN rows : rows[k] = GroupConnectionsByClient(connections, byIp, by)[k]
AddUpTo(rows, S) ==
    /\ SumFunction([k \in DOMAIN rows |-> rows[k].connections]) = Cardinality(S)
    /\ SumFunction([k \in DOMAIN rows |-> rows[k].channels]) = SumFunction([c \in S |-> c.channels])
    /\ UNION {rows[k].ips : k \in DOMAIN rows} = ClientAddresses(S)

(* Rows that between them have the connections of S, and no others, add up to what S is. *)
LEMMA RowsAddUp ==
    ASSUME NEW connections, NEW byIp, NEW by, NEW S, NEW rows, RowsOf(rows, S, connections, byIp, by)
    PROVE  AddUpTo(rows, S)
<1> USE DEF RowsOf
<1> DEFINE id(c) == Identify(c, byIp, by)
           K == DOMAIN rows
           key == [c \in S |-> id(c)]
           group == [k \in K |-> {c \in connections : id(c) = k}]
           counts == [k \in K |-> rows[k].connections]
           channels == [k \in K |-> rows[k].channels]
           w == [c \in S |-> c.channels]
           m == [V \in SUBSET S |-> SumFunctionOnSet(w, V)]
<1>1. key \in [S -> K] /\ group \in [K -> SUBSET S] /\ \A k \in K : \A c \in S : c \in group[k] <=> key[c] = k
  OBVIOUS
<1>2. \A k \in K : \E c \in S : key[c] = k
  OBVIOUS
<1>3. ASSUME NEW k \in K
      PROVE  /\ rows[k].connections = Cardinality(group[k])
             /\ rows[k].channels = SumFunction([c \in group[k] |-> c.channels])
             /\ rows[k].ips = ClientAddresses(group[k])
  <2>1. PICK d \in connections : k = Identify(d, byIp, by)
    OBVIOUS
  <2>2. group[k] = {c \in connections : id(c) = k}
    OBVIOUS
  <2> HIDE DEF group
  <2>3. RowTells(k, connections, byIp, by)
    <3> HIDE DEF RowsOf, K, key
    <3> QED BY <2>1, RowSays
  <2> QED BY <2>2, <2>3 DEF RowTells
<1>4. IsFiniteSet(S) /\ w \in [S -> Nat] /\ \A c \in S : w[c] = c.channels
  BY FS_Subset
<1> HIDE DEF K, key, group, w
<1>5. IsFiniteSet(K)
  <2>1. key \in Surjection(S, K)
    BY <1>1, <1>2 DEF Surjection
  <2> QED BY <1>4, <2>1, FS_Surjection
<1>6. Grouped(S, K, key, group)
  BY <1>1, <1>4, <1>5 DEF Grouped
<1>7. \A k \in K : IsFiniteSet(group[k]) /\ Cardinality(group[k]) \in Nat
  BY <1>1, <1>4, FS_Subset, FS_CardinalityType
<1>8. SumFunction(counts) = Cardinality(S)
  <2>1. counts \in [K -> Nat] /\ \A k \in K : counts[k] = Cardinality(group[k])
    BY <1>3, <1>7
  <2> HIDE DEF counts
  <2> QED BY <1>6, <2>1, GroupsCount
<1>9. Measures(S, w, m)
  <2>1. \A V \in SUBSET S : m[V] = SumFunctionOnSet(w, V)
    OBVIOUS
  <2>2. m \in [SUBSET S -> Nat] /\ m[{}] = 0
    BY <1>4, <2>1, SumTakesOff
  <2>3. \A V \in SUBSET S : \A x \in V : m[V] = w[x] + m[V \ {x}]
    <3> SUFFICES ASSUME NEW V \in SUBSET S, NEW x \in V PROVE m[V] = w[x] + m[V \ {x}]
      OBVIOUS
    <3>1. V \ {x} \in SUBSET S
      OBVIOUS
    <3> HIDE DEF m
    <3> QED BY <1>4, <2>1, <3>1, SumTakesOff
  <2> HIDE DEF m
  <2> QED BY <1>4, <2>2, <2>3 DEF Measures
<1>10. \A k \in K : channels[k] = m[group[k]] /\ channels[k] \in Nat
  <2> SUFFICES ASSUME NEW k \in K PROVE channels[k] = m[group[k]] /\ channels[k] \in Nat
    OBVIOUS
  <2> DEFINE g == [c \in group[k] |-> c.channels]
  <2>1. group[k] \in SUBSET S
    BY <1>1
  <2>2. g \in [group[k] -> Nat] /\ \A c \in group[k] : g[c] = w[c]
    BY <1>4, <2>1
  <2>3. channels[k] = SumFunction(g) /\ m[group[k]] = SumFunctionOnSet(w, group[k])
    BY <1>3, <2>1
  <2> HIDE DEF g, m, channels
  <2>4. SumFunction(g) = SumFunctionOnSet(w, group[k])
    BY <1>4, <2>1, <2>2, SumOfPart
  <2>5. m[group[k]] \in Nat
    BY <1>9, <2>1 DEF Measures
  <2> QED BY <2>3, <2>4, <2>5
<1>11. SumFunction(channels) = SumFunction(w)
  <2>1. channels \in [K -> Nat]
    BY <1>10
  <2>2. m[S] = SumFunction(w)
    <3>1. m[S] = SumFunctionOnSet(w, S) /\ DOMAIN w = S
      BY <1>4
    <3> QED BY <3>1 DEF SumFunction
  <2> HIDE DEF m, channels
  <2>3. SumFunction(channels) = m[S]
    BY <1>6, <1>9, <1>10, <2>1, GroupsAddUp
  <2> QED BY <2>2, <2>3
<1>12. UNION {rows[k].ips : k \in K} = ClientAddresses(S)
  <2>1. ASSUME NEW c \in S PROVE key[c] \in K /\ c \in group[key[c]]
    BY <1>1
  <2>2. \A k \in K : rows[k].ips = {NormalizeAddress(c.peer) : c \in {d \in group[k] : d.peer # None}}
    BY <1>3 DEF ClientAddresses
  <2>3. ASSUME NEW a \in ClientAddresses(S) PROVE \E k \in K : a \in rows[k].ips
    <3>1. PICK c \in S : c.peer # None /\ a = NormalizeAddress(c.peer)
      BY DEF ClientAddresses
    <3> QED BY <2>1, <2>2, <3>1
  <2>4. ASSUME NEW k \in K, NEW a \in rows[k].ips PROVE a \in ClientAddresses(S)
    BY <1>1, <2>2 DEF ClientAddresses
  <2> QED BY <2>3, <2>4
<1> QED BY <1>8, <1>11, <1>12 DEF AddUpTo, K, w

(* The rows below a workload's are those of its pods. *)
BelowSay(rows, k, connections, byIp) ==
    /\ DOMAIN rows = {p \in {Identify(c, byIp, "pod") : c \in connections} :
                         p.kind = "pod" /\ p.workload # None /\ <<p.namespace, p.workload>> = <<k.namespace, k.workload>>}
    /\ \A p \in DOMAIN rows : rows[p] = GroupConnectionsByClient(connections, byIp, "pod")[p]

(* Every row of the overview, and the rows below one. *)
LEMMA TopRows ==
    ASSUME NEW connections, NEW byIp
    PROVE  LET rows == FilteredClients(Overview("workload"), connections, byIp)
           IN /\ DOMAIN rows = {Identify(c, byIp, "workload") : c \in connections}
              /\ \A k \in DOMAIN rows : rows[k] = GroupConnectionsByClient(connections, byIp, "workload")[k]
<1> DEFINE groups == GroupConnectionsByClient(connections, byIp, "workload")
           rows == FilteredClients(Overview("workload"), connections, byIp)
<1>1. DOMAIN groups = {Identify(c, byIp, "workload") : c \in connections}
  BY DEF GroupConnectionsByClient
<1>2. Overview("workload").grouping = "workload"
  BY DEF Overview
<1> HIDE DEF groups
<1>3. rows = [k \in DOMAIN groups |-> groups[k]]
  BY <1>2 DEF FilteredClients, Restrict, groups
<1> QED BY <1>1, <1>3 DEF groups

(* The rows that a click on a workload's row shows are those of its pods. *)
LEMMA BelowRows ==
    ASSUME NEW connections, NEW byIp, NEW k, k.kind = "workload", <<k.namespace, k.workload>> # None, NEW group
    PROVE  BelowSay(FilteredClients(OpenClient(Overview("workload"), k, group), connections, byIp), k, connections, byIp)
<1> DEFINE groups == GroupConnectionsByClient(connections, byIp, "pod")
           page == OpenClient(Overview("workload"), k, group)
           rows == FilteredClients(page, connections, byIp)
<1>1. DOMAIN groups = {Identify(c, byIp, "pod") : c \in connections}
  BY DEF GroupConnectionsByClient
<1>2. page.grouping = "pod" /\ page.drill = <<k.namespace, k.workload>> /\ page.drill # None
  BY DEF OpenClient, Overview
<1> HIDE DEF groups, page
<1>3. rows = [p \in {q \in DOMAIN groups : q.kind = "pod" /\ q.workload # None /\ <<q.namespace, q.workload>> = page.drill} |-> groups[p]]
  BY <1>2 DEF FilteredClients, Restrict, groups
<1> QED BY <1>1, <1>2, <1>3 DEF BelowSay, groups, page

(* Every connection is counted once, in the row of the pod that holds it or of that pod's workload; and the *)
(* rows below a workload's are together what it was - of any pods, listed in any order, and any connections. *)
THEOREM EveryConnectionIsAttributed ==
    ASSUME NEW connections, NEW Z, NEW pods \in Seq(Z), NEW holder, HeldByPods(connections, pods, holder)
    PROVE  ConnectionsAreAttributed(connections, pods, holder)
<1> DEFINE byIp == ResolveClientPods(pods, ClientAddresses(connections), Cardinality(connections))
           rows(page) == FilteredClients(page, connections, byIp)
           top == rows(Overview("workload"))
           below(k) == rows(OpenClient(Overview("workload"), k, top[k]))
           W(c) == Identify(c, byIp, "workload")
           P(c) == Identify(c, byIp, "pod")
<1>a. LeadsToHolder(byIp, connections, pods, holder)
  BY HolderIsFound
<1>1. /\ \A a \in DOMAIN byIp : \E i \in DOMAIN pods : byIp[a] = pods[i]
      /\ \A c \in connections :
            IF holder[c] = None THEN c.peer = None \/ NormalizeAddress(c.peer) \notin DOMAIN byIp
            ELSE c.peer # None /\ NormalizeAddress(c.peer) \in DOMAIN byIp /\ byIp[NormalizeAddress(c.peer)].name = holder[c]
  <2> HIDE DEF byIp
  <2> QED BY <1>a DEF LeadsToHolder
<1>2. IsFiniteSet(connections) /\ \A c \in connections : c.channels \in Nat
  BY DEF HeldByPods
<1>3. \A i \in DOMAIN pods : <<pods[i].namespace, PodWorkload(pods[i])>> # None
  BY DEF HeldByPods
<1>4. /\ DOMAIN top = {W(c) : c \in connections}
      /\ \A k \in DOMAIN top : top[k] = GroupConnectionsByClient(connections, byIp, "workload")[k]
  BY TopRows
<1> HIDE DEF byIp
<1>5. ClientMetrics(top).connections = Cardinality(connections)
  <2> HIDE DEF top
  <2>1. RowsOf(top, connections, connections, byIp, "workload")
    BY <1>2, <1>4 DEF RowsOf
  <2>2. AddUpTo(top, connections)
    BY <2>1, RowsAddUp
  <2> QED BY <2>2 DEF ClientMetrics, AddUpTo
<1>6. ASSUME NEW c \in connections
      PROVE  LET k == P(c) IN IF holder[c] = None THEN k.kind # "pod" ELSE k.kind = "pod" /\ k.pod = holder[c]
  <2>1. CASE holder[c] = None
    <3>1. P(c) = [kind |-> "unknown"] \/ P(c) = [kind |-> "external", ip |-> NormalizeAddress(c.peer)]
      BY <1>1, <2>1 DEF Identify
    <3> QED BY <2>1, <3>1
  <2>2. CASE holder[c] # None
    <3>1. P(c) = [kind |-> "pod", namespace |-> byIp[NormalizeAddress(c.peer)].namespace, pod |-> holder[c],
                  workload |-> PodWorkload(byIp[NormalizeAddress(c.peer)])]
      BY <1>1, <2>2 DEF Identify
    <3> QED BY <2>2, <3>1
  <2> QED BY <2>1, <2>2
<1>7. ASSUME NEW k \in DOMAIN top, k.kind = "workload"
      PROVE  /\ ClientMetrics(below(k)).connections = top[k].connections
             /\ SumFunction([p \in DOMAIN below(k) |-> below(k)[p].channels]) = top[k].channels
             /\ UNION {below(k)[p].ips : p \in DOMAIN below(k)} = top[k].ips
  <2> DEFINE mine == {c \in connections : W(c) = k}
             of(p) == p.kind = "pod" /\ p.workload # None /\ <<p.namespace, p.workload>> = <<k.namespace, k.workload>>
             pod(c) == byIp[NormalizeAddress(c.peer)]
  (* The connections of a workload are those of its pods. *)
  <2>1. ASSUME NEW c \in connections PROVE W(c) = k <=> of(P(c))
    <3>1. CASE c.peer = None \/ NormalizeAddress(c.peer) \notin DOMAIN byIp
      <4>1. W(c) = P(c) /\ (P(c) = [kind |-> "unknown"] \/ P(c) = [kind |-> "external", ip |-> NormalizeAddress(c.peer)])
        BY <3>1 DEF Identify
      <4>2. P(c).kind # "pod" /\ P(c).kind # "workload"
        BY <4>1
      <4> HIDE DEF W, P
      <4> QED BY <1>7, <4>1, <4>2
    <3>2. CASE ~(c.peer = None \/ NormalizeAddress(c.peer) \notin DOMAIN byIp) /\ PodWorkload(pod(c)) = None
      <4>1. W(c) = P(c) /\ P(c).kind = "pod" /\ P(c).workload = None
        BY <3>2 DEF Identify
      <4> HIDE DEF W, P
      <4> QED BY <1>7, <4>1
    <3>3. CASE ~(c.peer = None \/ NormalizeAddress(c.peer) \notin DOMAIN byIp) /\ PodWorkload(pod(c)) # None
      <4>1. /\ W(c) = [kind |-> "workload", namespace |-> pod(c).namespace, workload |-> PodWorkload(pod(c))]
            /\ P(c) = [kind |-> "pod", namespace |-> pod(c).namespace, pod |-> pod(c).name, workload |-> PodWorkload(pod(c))]
        BY <3>3 DEF Identify
      <4>2. PICK d \in connections : k = W(d)
        BY <1>4
      <4>3. k = [kind |-> "workload", namespace |-> pod(d).namespace, workload |-> PodWorkload(pod(d))]
        BY <1>7, <4>2 DEF Identify
      <4> HIDE DEF W, P, pod
      <4> QED BY <3>3, <4>1, <4>3
    <3> QED BY <3>1, <3>2, <3>3
  <2>2. <<k.namespace, k.workload>> # None
    <3>1. PICK d \in connections : k = W(d)
      BY <1>4
    <3>2. /\ NormalizeAddress(d.peer) \in DOMAIN byIp
          /\ k = [kind |-> "workload", namespace |-> pod(d).namespace, workload |-> PodWorkload(pod(d))]
      BY <1>7, <3>1 DEF Identify
    <3>3. PICK i \in DOMAIN pods : pod(d) = pods[i]
      BY <1>1, <3>2
    <3> HIDE DEF W, pod
    <3> QED BY <1>3, <3>2, <3>3
  <2>3. /\ DOMAIN below(k) = {p \in {P(c) : c \in connections} : of(p)}
        /\ \A p \in DOMAIN below(k) : below(k)[p] = GroupConnectionsByClient(connections, byIp, "pod")[p]
    <3> HIDE DEF top
    <3>1. BelowSay(FilteredClients(OpenClient(Overview("workload"), k, top[k]), connections, byIp), k, connections, byIp)
      BY <1>7, <2>2, BelowRows
    <3> QED BY <3>1 DEF BelowSay
  <2>4. /\ top[k].connections = Cardinality(mine) /\ top[k].channels = SumFunction([c \in mine |-> c.channels])
        /\ top[k].ips = ClientAddresses(mine)
    <3>1. PICK d \in connections : k = Identify(d, byIp, "workload")
      BY <1>4
    <3> HIDE DEF top
    <3>2. RowTells(k, connections, byIp, "workload")
      BY <3>1, RowSays
    <3> QED BY <1>4, <3>2 DEF RowTells
  <2> DEFINE r == below(k)
  <2>5. mine \in SUBSET connections /\ \A c \in connections : c \in mine <=> of(P(c))
    BY <2>1
  <2> HIDE DEF of, mine, r, W
  <2>6. DOMAIN r = {P(c) : c \in mine} /\ \A c \in connections : P(c) \in DOMAIN r => c \in mine
    <3>1. DOMAIN r = {p \in {P(c) : c \in connections} : of(p)}
      BY <2>3 DEF r
    <3> HIDE DEF P
    <3> QED BY <2>5, <3>1
  <2>7. \A p \in DOMAIN r : r[p] = GroupConnectionsByClient(connections, byIp, "pod")[p]
    BY <2>3 DEF r
  <2>8. /\ SumFunction([p \in DOMAIN r |-> r[p].connections]) = Cardinality(mine)
        /\ SumFunction([p \in DOMAIN r |-> r[p].channels]) = SumFunction([c \in mine |-> c.channels])
        /\ UNION {r[p].ips : p \in DOMAIN r} = ClientAddresses(mine)
    <3>1. RowsOf(r, mine, connections, byIp, "pod")
      BY <1>2, <2>5, <2>6, <2>7 DEF RowsOf
    <3>2. AddUpTo(r, mine)
      BY <3>1, RowsAddUp
    <3> QED BY <3>2 DEF AddUpTo
  <2>9. ClientMetrics(r).connections = SumFunction([p \in DOMAIN r |-> r[p].connections])
    BY DEF ClientMetrics
  <2> QED BY <2>4, <2>8, <2>9 DEF r
<1> HIDE DEF rows, W, P
<1> QED BY <1>5, <1>6, <1>7, Zenon DEF ConnectionsAreAttributed, byIp, rows, P
=============================================================================

-------------------------- MODULE HttpClientProofs --------------------------
(***************************************************************************)
(* For any set of requests and any limit of the agent: sockets are never   *)
(* exceeded nor left idle while a request waits, and a request that has    *)
(* settled holds none.                                                     *)
(***************************************************************************)
EXTENDS HttpClient, FiniteSetTheorems, TLAPS

(* The two properties need each other: that a socket handed on goes to a request that has none keeps the  *)
(* count, and that a socket is only given up by a request that has one.                                   *)
Inv ==
    /\ TypeOK
    /\ IsFiniteSet(using)
    /\ SocketsAreShared
    /\ SettledHoldsNothing

LEMMA TypeCorrect == Spec => []TypeOK
<1>1. Init => TypeOK
  BY DEF Init, TypeOK
<1>2. TypeOK /\ [Next]_vars => TypeOK'
  <2> SUFFICES ASSUME TypeOK, [Next]_vars PROVE TypeOK'
    OBVIOUS
  <2>1. ASSUME NEW r \in Requests, SocketCloses(r)
        PROVE  using' \in SUBSET Requests /\ queue' \in Seq(Requests)
               /\ (headers \subseteq using => headers' \subseteq using')
    <3>1. CASE queue = <<>>
      BY <2>1, <3>1 DEF SocketCloses, TypeOK
    <3>2. CASE queue # <<>>
      <4>1. Head(queue) \in Requests /\ Tail(queue) \in Seq(Requests)
        BY <3>2 DEF TypeOK
      <4> QED BY <2>1, <3>2, <4>1 DEF SocketCloses, TypeOK
    <3> QED BY <3>1, <3>2
  <2>2. ASSUME NEW r \in Requests, NEW how \in Settled, Settles(r, how) PROVE TypeOK'
    BY <2>1, <2>2 DEF Settles, TypeOK
  <2>3. ASSUME NEW r \in Requests, Begin(r) PROVE TypeOK'
    <3>1. Append(queue, r) \in Seq(Requests)
      BY DEF TypeOK
    <3> QED BY <2>3, <3>1 DEF Begin, TypeOK
  <2>4. ASSUME NEW r \in Requests, Responds(r) PROVE TypeOK'
    BY <2>4 DEF Responds, TypeOK
  <2>5. ASSUME NEW r \in Requests, ResponseEnds(r) \/ TimesOut(r) \/ ConnectionFails(r) PROVE TypeOK'
    BY <2>5, <2>2 DEF ResponseEnds, TimesOut, ConnectionFails, Settled
  <2>6. ASSUME NEW r \in Requests, ResponseCut(r) PROVE TypeOK'
    BY <2>6, <2>1 DEF ResponseCut, TypeOK
  <2>7. CASE UNCHANGED vars
    BY <2>7 DEF TypeOK, vars
  <2> QED BY <2>3, <2>4, <2>5, <2>6, <2>7 DEF Next
<1> QED BY <1>1, <1>2, PTL DEF Spec

-----------------------------------------------------------------------------
(* The socket of r goes to the request that waits longest, or nowhere. *)
LEMMA CloseKeeps ==
    ASSUME Inv, NEW r \in using, SocketCloses(r),
           \A s \in Requests \ {r} : promise'[s] = promise[s]
    PROVE  /\ IsFiniteSet(using') /\ SocketsAreShared'
           /\ SettledHoldsNothing'
<1>1. /\ r \in Requests /\ queue \in Seq(Requests) /\ Len(queue) \in Nat /\ MaxSockets \in Nat
      /\ IsFiniteSet(using) /\ Cardinality(using) \in Nat /\ Cardinality(using) <= MaxSockets
      /\ queue # <<>> => Cardinality(using) = MaxSockets
  BY FS_CardinalityType, MaxSocketsAssumption DEF Inv, TypeOK, SocketsAreShared
<1>2. /\ using \cup Waiting \subseteq {s \in Requests : promise[s] = "pending"}
      /\ using \cap Waiting = {}
      /\ \A i, j \in 1..Len(queue) : queue[i] = queue[j] => i = j
  BY DEF Inv, SettledHoldsNothing
<1>3. IsFiniteSet(using \ {r}) /\ Cardinality(using \ {r}) = Cardinality(using) - 1
  BY <1>1, FS_RemoveElement
<1>4. CASE queue = <<>>
  <2>1. using' = using \ {r} /\ queue' = <<>>
    BY <1>4 DEF SocketCloses
  <2>2. Waiting' = {} /\ Len(queue') = 0
    BY <2>1 DEF Waiting
  <2>3. SocketsAreShared'
    BY <2>1, <1>1, <1>3 DEF SocketsAreShared
  <2>4. SettledHoldsNothing'
    BY <2>1, <2>2, <1>2 DEF SettledHoldsNothing
  <2> QED BY <2>1, <2>3, <2>4, <1>3
<1>5. CASE queue # <<>>
  <2> DEFINE first == Head(queue)
  <2>1. using' = (using \ {r}) \cup {first} /\ queue' = Tail(queue)
    BY <1>5 DEF SocketCloses
  <2>2. /\ Len(queue') \in Nat /\ Len(queue) = Len(queue') + 1 /\ first = queue[1]
        /\ \A i \in 1..Len(queue') : queue'[i] = queue[i + 1]
    BY <2>1, <1>1, <1>5
  <2>3. first \in Waiting /\ first \notin using
    BY <2>2, <1>2 DEF Waiting
  <2>4. Waiting' \subseteq Waiting \ {first}
    <3> SUFFICES ASSUME NEW i \in 1..Len(queue') PROVE queue'[i] \in Waiting \ {first}
      BY DEF Waiting
    <3>1. queue'[i] = queue[i + 1] /\ i + 1 \in 1..Len(queue) /\ 1 \in 1..Len(queue) /\ i + 1 # 1
      BY <2>2
    <3> QED BY <3>1, <2>2, <1>2 DEF Waiting
  <2>5. IsFiniteSet(using') /\ Cardinality(using') = Cardinality(using)
    <3> HIDE DEF first
    <3>1. first \notin using \ {r}
      BY <2>3
    <3>2. IsFiniteSet((using \ {r}) \cup {first}) /\ Cardinality((using \ {r}) \cup {first}) = Cardinality(using \ {r}) + 1
      BY <3>1, <1>3, FS_AddElement
    <3> QED BY <3>2, <2>1, <1>1, <1>3
  <2>6. SocketsAreShared'
    BY <2>5, <1>1, <1>5 DEF SocketsAreShared
  <2>7. using' \cup Waiting' \subseteq {s \in Requests : promise'[s] = "pending"}
    BY <2>1, <2>3, <2>4, <1>2
  <2>8. using' \cap Waiting' = {}
    BY <2>1, <2>3, <2>4, <1>2
  <2>9. \A i, j \in 1..Len(queue') : queue'[i] = queue'[j] => i = j
    <3> SUFFICES ASSUME NEW i \in 1..Len(queue'), NEW j \in 1..Len(queue'), queue'[i] = queue'[j] PROVE i = j
      OBVIOUS
    <3>1. queue[i + 1] = queue[j + 1] /\ i + 1 \in 1..Len(queue) /\ j + 1 \in 1..Len(queue)
      BY <2>2
    <3>2. i + 1 = j + 1
      BY <3>1, <1>2
    <3> QED BY <3>2
  <2> QED BY <2>5, <2>6, <2>7, <2>8, <2>9 DEF SettledHoldsNothing
<1> QED BY <1>4, <1>5

LEMMA BeginKeeps ==
    ASSUME Inv, NEW r \in Requests, Begin(r)
    PROVE  IsFiniteSet(using') /\ SocketsAreShared' /\ SettledHoldsNothing'
<1>1. /\ queue \in Seq(Requests) /\ Len(queue) \in Nat /\ MaxSockets \in Nat
      /\ IsFiniteSet(using) /\ Cardinality(using) \in Nat /\ Cardinality(using) <= MaxSockets
      /\ queue # <<>> => Cardinality(using) = MaxSockets
  BY FS_CardinalityType, MaxSocketsAssumption DEF Inv, TypeOK, SocketsAreShared
<1>2. /\ using \cup Waiting \subseteq {s \in Requests : promise[s] = "pending"}
      /\ using \cap Waiting = {}
      /\ \A i, j \in 1..Len(queue) : queue[i] = queue[j] => i = j
  BY DEF Inv, SettledHoldsNothing
<1>3. r \notin using \cup Waiting
  BY <1>2 DEF Begin
<1>4. \A s \in Requests : promise'[s] = IF s = r THEN "pending" ELSE promise[s]
  BY DEF Begin, Inv, TypeOK
<1>5. CASE Cardinality(using) < MaxSockets
  <2>1. using' = using \cup {r} /\ queue' = queue /\ queue = <<>>
    BY <1>5, <1>1 DEF Begin
  <2>2. IsFiniteSet(using') /\ Cardinality(using') = Cardinality(using) + 1
    BY <2>1, <1>1, <1>3, FS_AddElement
  <2>3. SocketsAreShared'
    BY <2>1, <2>2, <1>1, <1>5 DEF SocketsAreShared
  <2>4. Waiting' = Waiting
    BY <2>1 DEF Waiting
  <2>5. SettledHoldsNothing'
    BY <2>1, <2>4, <1>2, <1>3, <1>4 DEF SettledHoldsNothing
  <2> QED BY <2>2, <2>3, <2>5
<1>6. CASE ~(Cardinality(using) < MaxSockets)
  <2>1. using' = using /\ queue' = Append(queue, r)
    BY <1>6 DEF Begin
  <2>2. /\ Len(queue') = Len(queue) + 1 /\ queue'[Len(queue) + 1] = r
        /\ \A i \in 1..Len(queue) : queue'[i] = queue[i]
    BY <2>1, <1>1
  <2>3. Waiting' = Waiting \cup {r}
    <3>1. 1..Len(queue') = 1..Len(queue) \cup {Len(queue) + 1}
      BY <2>2, <1>1
    <3> QED BY <3>1, <2>2 DEF Waiting
  <2>4. SocketsAreShared'
    BY <2>1, <1>1, <1>6 DEF SocketsAreShared
  <2>5. \A i, j \in 1..Len(queue') : queue'[i] = queue'[j] => i = j
    <3>1. \A i \in 1..Len(queue) : queue[i] # r
      BY <1>3 DEF Waiting
    <3>2. \A i \in 1..Len(queue') : i \in 1..Len(queue) \/ i = Len(queue) + 1
      BY <2>2, <1>1
    <3> QED BY <3>1, <3>2, <2>2, <1>2
  <2>6. using' \cup Waiting' \subseteq {s \in Requests : promise'[s] = "pending"} /\ using' \cap Waiting' = {}
    BY <2>1, <2>3, <1>2, <1>3, <1>4
  <2> QED BY <2>1, <2>4, <2>5, <2>6, <1>1 DEF SettledHoldsNothing
<1> QED BY <1>5, <1>6

(* A response that is cut short gives its socket up as a settled request does, its promise pending. *)
LEMMA InvStep ==
    ASSUME Inv, TypeOK', [Next]_vars
    PROVE  Inv'
<1>1. ASSUME NEW r \in Requests, Begin(r) PROVE Inv'
  BY <1>1, BeginKeeps DEF Inv
<1>2. ASSUME NEW r \in Requests, Responds(r) PROVE Inv'
  BY <1>2 DEF Inv, Responds, SocketsAreShared, SettledHoldsNothing, Waiting
<1>3. ASSUME NEW r \in Requests, ResponseEnds(r) \/ TimesOut(r) \/ ConnectionFails(r) \/ ResponseCut(r) PROVE Inv'
  <2>1. r \in using
    BY <1>3 DEF ResponseEnds, TimesOut, ConnectionFails, ResponseCut, Inv, TypeOK
  <2>2. SocketCloses(r) /\ \A s \in Requests \ {r} : promise'[s] = promise[s]
    BY <1>3 DEF ResponseEnds, TimesOut, ConnectionFails, ResponseCut, Settles, Inv, TypeOK
  <2> QED BY <2>1, <2>2, CloseKeeps DEF Inv
<1>4. CASE UNCHANGED vars
  BY <1>4 DEF Inv, vars, SocketsAreShared, SettledHoldsNothing, Waiting
<1> QED BY <1>1, <1>2, <1>3, <1>4 DEF Next

LEMMA InvCorrect == Spec => []Inv
<1>1. Init => Inv
  BY FS_EmptySet, MaxSocketsAssumption
     DEF Init, Inv, TypeOK, SocketsAreShared, SettledHoldsNothing, Waiting
<1>2. Inv /\ TypeOK' /\ [Next]_vars => Inv'
  BY InvStep
<1> QED BY <1>1, <1>2, TypeCorrect, PTL DEF Spec

(* The agent never holds more sockets than its limit, and none is idle while a request waits. *)
THEOREM SocketsShared == Spec => []SocketsAreShared
<1>1. Inv => SocketsAreShared
  BY DEF Inv
<1> QED BY <1>1, InvCorrect, PTL

(* Only a request whose promise is pending has a socket or waits for one, and for one only. *)
THEOREM SettledHolds == Spec => []SettledHoldsNothing
<1>1. Inv => SettledHoldsNothing
  BY DEF Inv
<1> QED BY <1>1, InvCorrect, PTL
=============================================================================

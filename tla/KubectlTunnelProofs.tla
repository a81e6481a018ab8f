------------------------ MODULE KubectlTunnelProofs ------------------------
(***************************************************************************)
(* Theorems about KubectlTunnel for any number of tunnels: the inductive   *)
(* invariant Inv, what follows from it about a quit and about rejected     *)
(* promises, and that every step is a step of TunnelContract or a stutter. *)
(***************************************************************************)
EXTENDS KubectlTunnel, TLAPS

(* fail() keeps the types of the promise, the timer and the child, whatever the child became. *)
LEMMA FailsType ==
    ASSUME TypeOK, NEW t \in Tunnels, NEW childNow,
           childNow \in [Tunnels -> {"none", "alive", "signalled", "gone"}], Fails(t, childNow)
    PROVE  /\ phase' \in [Tunnels -> {"idle", "preparing", "starting", "ready", "rejected"}]
           /\ timer' \in [Tunnels -> BOOLEAN]
           /\ listening' \in [Tunnels -> BOOLEAN]
           /\ child' \in [Tunnels -> {"none", "alive", "signalled", "gone"}]
BY DEF Fails, TypeOK, Settles, Unsettled

(* Every callback keeps the types. *)
LEMMA TypeStep == ASSUME TypeOK, [Next]_vars PROVE TypeOK'
<1>1. CASE UNCHANGED vars
  BY <1>1 DEF vars, TypeOK
<1>2. CASE MainExits
  BY <1>2 DEF MainExits, TypeOK
<1>3. ASSUME NEW t \in Tunnels, Event(t) PROVE TypeOK'
  <2>1. CASE Call(t) \/ Spawn(t) \/ PrepareFails(t) \/ Forwards(t) \/ Close(t)
    BY <2>1 DEF Call, Spawn, PrepareFails, Forwards, Close, Settles, Killed, TypeOK
  <2>2. CASE Problem(t) \/ ProblemTimeout(t)
    BY <2>2 DEF Problem, ProblemTimeout, TypeOK
  <2>3. ASSUME NEW blank \in BOOLEAN, Stderr(t, blank) PROVE TypeOK'
    <3>1. afterReady' \in [Tunnels -> BOOLEAN]
      BY <2>3 DEF Stderr, TypeOK
    <3>2. asked' \in [Tunnels -> {"no", "waiting", "told", "untold"}]
      BY <2>3, <3>1 DEF Stderr, TypeOK
    <3> QED BY <2>3, <3>1, <3>2 DEF Stderr, TypeOK
  <2>4. CASE Abort(t)
    <3>1. CASE Fails(t, child)
      <4>1. aborted' \in [Tunnels -> BOOLEAN]
        BY <2>4 DEF Abort, TypeOK
      <4> QED BY <2>4, <3>1, <4>1, FailsType DEF Abort, TypeOK
    <3>2. CASE Unsettled(t) /\ UNCHANGED child
      BY <2>4, <3>2 DEF Abort, Unsettled, TypeOK
    <3> QED BY <2>4, <3>1, <3>2 DEF Abort
  <2>5. CASE ReadyTimeout(t)
    BY <2>5, FailsType DEF ReadyTimeout, TypeOK
  <2>6. CASE Exits(t)
    <3>1. [child EXCEPT ![t] = "gone"] \in [Tunnels -> {"none", "alive", "signalled", "gone"}]
      BY DEF TypeOK
    <3> QED BY <2>6, <3>1, FailsType DEF Exits, TypeOK
  <2> QED BY <1>3, <2>1, <2>2, <2>3, <2>4, <2>5, <2>6 DEF Event
<1> QED BY <1>1, <1>2, <1>3 DEF Next

(* The part of Inv that is not about types, for one tunnel: all its clauses relate one tunnel's own state. *)
TunnelInv(t) ==
    /\ timer[t] \/ listening[t] => phase[t] = "starting"
    /\ main = "exited" => child[t] # "alive"
    /\ child[t] \in {"alive", "signalled"} => t \in running
    /\ child[t] = "alive" => phase[t] = "ready" \/ (phase[t] = "starting" /\ ~aborted[t])
    /\ phase[t] = "starting" => timer[t] /\ listening[t] /\ ~aborted[t]
    /\ phase[t] \in {"idle", "preparing"} => child[t] = "none"

(* Inv is TunnelInv of every tunnel, with the types. *)
LEMMA InvByTunnel == Inv <=> TypeOK /\ \A t \in Tunnels : TunnelInv(t)
BY DEF Inv, TunnelInv, SettledIsQuiet, QuitLeavesNoKubectl, AliveIsListed, RejectedHasNoKubectl

(* A callback of one tunnel touches nothing of another, and no part of the Main process. *)
LEMMA OthersKept ==
    ASSUME TypeOK, NEW t \in Tunnels, Event(t), NEW u \in Tunnels, u # t
    PROVE  /\ phase'[u] = phase[u] /\ child'[u] = child[u] /\ timer'[u] = timer[u]
           /\ listening'[u] = listening[u] /\ aborted'[u] = aborted[u]
           /\ (u \in running') = (u \in running)
           /\ main' = main
BY DEF Event, Call, Spawn, PrepareFails, Abort, ReadyTimeout, Forwards, Stderr, Exits, Problem,
       ProblemTimeout, Close, Fails, Settles, Unsettled, Killed, TypeOK

(* A callback keeps TunnelInv of its own tunnel: every settlement disarms the timer and the listener, *)
(* and every rejection kills the child.                                                               *)
LEMMA OwnKept ==
    ASSUME TypeOK, main = "up", NEW t \in Tunnels, Event(t), TunnelInv(t)
    PROVE  TunnelInv(t)'
<1> USE DEF TunnelInv, TypeOK
<1>1. CASE Call(t)
  BY <1>1 DEF Call
<1>2. CASE Spawn(t)
  BY <1>2 DEF Spawn
<1>3. CASE PrepareFails(t)
  BY <1>3 DEF PrepareFails
<1>4. CASE Abort(t)
  <2>1. CASE phase[t] = "starting"
    BY <1>4, <2>1 DEF Abort, Fails, Settles, Unsettled
  <2>2. CASE phase[t] # "starting"
    BY <1>4, <2>2 DEF Abort, Fails, Settles, Unsettled
  <2> QED BY <2>1, <2>2
<1>5. CASE ReadyTimeout(t)
  BY <1>5 DEF ReadyTimeout, Fails, Settles, Unsettled
<1>6. CASE Forwards(t)
  BY <1>6 DEF Forwards, Settles
<1>7. ASSUME NEW blank \in BOOLEAN, Stderr(t, blank) PROVE TunnelInv(t)'
  BY <1>7 DEF Stderr
<1>8. CASE Exits(t)
  BY <1>8 DEF Exits, Fails, Settles, Unsettled
<1>9. CASE Problem(t) \/ ProblemTimeout(t)
  BY <1>9 DEF Problem, ProblemTimeout
<1>10. CASE Close(t)
  BY <1>10 DEF Close, Killed
<1> QED BY <1>1, <1>2, <1>3, <1>4, <1>5, <1>6, <1>7, <1>8, <1>9, <1>10 DEF Event

(* Inv is inductive. *)
LEMMA InvStep == Inv /\ [Next]_vars => Inv'
<1> SUFFICES ASSUME Inv, [Next]_vars PROVE Inv'
  OBVIOUS
<1>1. TypeOK /\ \A t \in Tunnels : TunnelInv(t)
  BY InvByTunnel
<1>2. TypeOK'
  BY <1>1, TypeStep
<1>3. \A u \in Tunnels : TunnelInv(u)'
  <2>1. CASE UNCHANGED vars
    BY <1>1, <2>1 DEF vars, TunnelInv
  <2>2. CASE MainExits
    BY <1>1, <2>2 DEF MainExits, TunnelInv, TypeOK
  <2>3. ASSUME main = "up", NEW t \in Tunnels, Event(t), NEW u \in Tunnels PROVE TunnelInv(u)'
    <3>1. CASE u = t
      BY <1>1, <2>3, <3>1, OwnKept
    <3>2. CASE u # t
      BY <1>1, <2>3, <3>2, OthersKept DEF TunnelInv
    <3> QED BY <3>1, <3>2
  <2> QED BY <2>1, <2>2, <2>3 DEF Next
<1>4. (\A u \in Tunnels : TunnelInv(u))'
  BY <1>3
<1> QED BY <1>2, <1>4, InvByTunnel DEF Inv, TunnelInv, SettledIsQuiet, QuitLeavesNoKubectl,
           AliveIsListed, RejectedHasNoKubectl

(* Inv holds of the module before the first call. *)
LEMMA InvInit == Init => Inv
BY DEF Init, Inv, TypeOK, SettledIsQuiet, QuitLeavesNoKubectl, AliveIsListed, RejectedHasNoKubectl

(* The opener's state satisfies Inv always. *)
THEOREM TunnelInvariant == Spec => []Inv
BY InvInit, InvStep, PTL DEF Spec

(* A quit of the Main process leaves no kubectl of the extension running (port-forward.ts:58). *)
THEOREM QuitKills == Spec => []QuitLeavesNoKubectl
BY TunnelInvariant, PTL DEF Inv

(* No timer and no abort listener outlives the promise it was armed for. *)
THEOREM Quiet == Spec => []SettledIsQuiet
BY TunnelInvariant, PTL DEF Inv

(* A rejected promise, and an open aborted before its tunnel was ready, leave no kubectl running. *)
THEOREM RejectionKills == Spec => []RejectedHasNoKubectl
BY TunnelInvariant, PTL DEF Inv

-----------------------------------------------------------------------------
(* What the contract sees of the opener's state. *)
State == [t \in Tunnels |-> IF phase[t] = "rejected" THEN "over" ELSE phase[t]]
Up == {t \in Tunnels : child[t] = "alive"}
Stop == {t \in Tunnels : aborted[t]}

(* The opener starts where the contract starts. *)
LEMMA ContractInit == Init => Contract!Init
BY DEF Init, Contract!Init

(* A rejection while kubectl is starting is a Rejects step. *)
LEMMA RejectionMaps ==
    ASSUME Inv, NEW t \in Tunnels, phase[t] = "starting", Settles(t, "rejected"), UNCHANGED aborted,
           child'[t] # "alive", \A u \in Tunnels \ {t} : child'[u] = child[u]
    PROVE  Contract!Rejects(t)
<1>1. State' = [State EXCEPT ![t] = "over"]
  BY DEF Inv, TypeOK, Settles, State
<1>2. Up' = Up \ {t}
  BY DEF Up
<1>3. State[t] = "starting"
  BY DEF State
<1> QED BY <1>1, <1>2, <1>3 DEF Contract!Rejects, Contract!Moves, State, Up

(* A child that goes down after its promise settled is a GoesDown step or is not seen. *)
LEMMA DownMaps ==
    ASSUME Inv, NEW t \in Tunnels, phase[t] # "starting", UNCHANGED <<phase, aborted>>,
           child'[t] # "alive", \A u \in Tunnels \ {t} : child'[u] = child[u]
    PROVE  Contract!GoesDown(t) \/ UNCHANGED Contract!vars
<1>1. CASE child[t] = "alive"
  <2>1. phase[t] = "ready"
    BY <1>1 DEF Inv, RejectedHasNoKubectl
  <2>2. Up' = Up \ {t}
    BY DEF Up
  <2> QED BY <2>1, <2>2 DEF Contract!GoesDown, Up
<1>2. CASE child[t] # "alive"
  <2>1. Up' = Up
    BY <1>2 DEF Up
  <2> QED BY <2>1 DEF Contract!vars, Up
<1> QED BY <1>1, <1>2

(* Every callback is a step of the contract, or is not seen by it. *)
LEMMA ContractStep == Inv /\ [Next]_vars => [Contract!Next]_(Contract!vars)
<1> SUFFICES ASSUME Inv, [Next]_vars PROVE Contract!Next \/ UNCHANGED Contract!vars
  OBVIOUS
<1> USE DEF State, Up, Stop
<1>1. CASE UNCHANGED vars
  BY <1>1 DEF vars, Contract!vars
<1>2. CASE main = "up" /\ MainExits
  <2>1. Up' = {}
    BY <1>2 DEF MainExits, Inv, AliveIsListed, TypeOK
  <2> QED BY <1>2, <2>1 DEF MainExits, Contract!Next, Contract!Quits
<1>3. ASSUME NEW t \in Tunnels, Event(t) PROVE Contract!Next \/ UNCHANGED Contract!vars
  <2>1. CASE Call(t)
    <3>1. State' = [State EXCEPT ![t] = "preparing"] /\ State[t] = "idle"
      BY <2>1 DEF Call, Inv, TypeOK
    <3> QED BY <2>1, <3>1 DEF Call, Contract!Next, Contract!Asked, Contract!Moves
  <2>2. CASE Spawn(t)
    <3>1. State' = [State EXCEPT ![t] = "starting"] /\ State[t] = "preparing"
      BY <2>2 DEF Spawn, Inv, TypeOK
    <3>2. Up' = Up \cup {t} /\ t \notin Stop
      BY <2>2 DEF Spawn, Inv, TypeOK
    <3> QED BY <2>2, <3>1, <3>2 DEF Spawn, Contract!Next, Contract!Starts, Contract!Moves
  <2>3. CASE PrepareFails(t)
    <3>1. State' = [State EXCEPT ![t] = "over"] /\ State[t] = "preparing"
      BY <2>3 DEF PrepareFails, Inv, TypeOK
    <3>2. Up' = Up \ {t}
      BY <2>3 DEF PrepareFails, Inv
    <3> QED BY <2>3, <3>1, <3>2 DEF PrepareFails, Contract!Next, Contract!Rejects, Contract!Moves
  <2>4. CASE Abort(t)
    <3>1. Stop' = Stop \cup {t}
      BY <2>4 DEF Abort, Inv, TypeOK
    <3>2. CASE phase[t] = "starting"
      <4>1. listening[t] /\ ~aborted[t] /\ Settles(t, "rejected")
        BY <2>4, <3>2 DEF Abort, Fails, Inv
      <4>2. State' = [State EXCEPT ![t] = "over"] /\ State[t] = "starting"
        BY <3>2, <4>1 DEF Settles, Inv, TypeOK
      <4>3. Up' = Up \ {t}
        BY <2>4, <3>2, <4>1 DEF Abort, Fails, Inv, TypeOK
      <4> QED BY <3>1, <4>2, <4>3 DEF Contract!Next, Contract!Aborts
    <3>3. CASE phase[t] # "starting"
      <4>1. UNCHANGED <<phase, child>>
        BY <2>4, <3>3 DEF Abort, Fails, Unsettled
      <4>2. State' = [State EXCEPT ![t] = IF @ = "starting" THEN "over" ELSE @]
        BY <3>3, <4>1 DEF Inv, TypeOK
      <4> QED BY <3>1, <3>3, <4>1, <4>2 DEF Contract!Next, Contract!Aborts
    <3> QED BY <3>2, <3>3
  <2>5. CASE ReadyTimeout(t)
    <3>1. phase[t] = "starting" /\ Settles(t, "rejected") /\ UNCHANGED aborted
      BY <2>5 DEF ReadyTimeout, Fails, Inv, SettledIsQuiet
    <3>2. child'[t] # "alive" /\ \A u \in Tunnels \ {t} : child'[u] = child[u]
      BY <2>5, <3>1 DEF ReadyTimeout, Fails, Inv, TypeOK
    <3> QED BY <3>1, <3>2, RejectionMaps DEF Contract!Next
  <2>6. CASE Forwards(t)
    <3>1. State' = [State EXCEPT ![t] = "ready"] /\ State[t] = "starting"
      BY <2>6 DEF Forwards, Settles, Inv, TypeOK
    <3>2. t \notin Stop
      BY <2>6 DEF Forwards, Inv
    <3> QED BY <2>6, <3>1, <3>2 DEF Forwards, Contract!Next, Contract!Ready, Contract!Moves
  <2>7. ASSUME NEW blank \in BOOLEAN, Stderr(t, blank) PROVE UNCHANGED Contract!vars
    BY <2>7 DEF Stderr, Contract!vars
  <2>8. CASE Exits(t)
    <3>1. CASE phase[t] = "starting"
      <4>1. Settles(t, "rejected") /\ UNCHANGED aborted
        BY <2>8, <3>1 DEF Exits, Fails
      <4>2. child'[t] # "alive" /\ \A u \in Tunnels \ {t} : child'[u] = child[u]
        BY <2>8, <3>1 DEF Exits, Fails, Inv, TypeOK
      <4> QED BY <3>1, <4>1, <4>2, RejectionMaps DEF Contract!Next
    <3>2. CASE phase[t] # "starting"
      <4>1. UNCHANGED <<phase, aborted>>
        BY <2>8, <3>2 DEF Exits, Fails, Unsettled
      <4>2. child'[t] # "alive" /\ \A u \in Tunnels \ {t} : child'[u] = child[u]
        BY <2>8, <3>2 DEF Exits, Fails, Inv, TypeOK
      <4> QED BY <3>2, <4>1, <4>2, DownMaps DEF Contract!Next
    <3> QED BY <3>1, <3>2
  <2>9. CASE Problem(t) \/ ProblemTimeout(t)
    BY <2>9 DEF Problem, ProblemTimeout, Contract!vars
  <2>10. CASE Close(t)
    <3>1. phase[t] # "starting" /\ UNCHANGED <<phase, aborted>>
      BY <2>10 DEF Close
    <3>2. child'[t] # "alive" /\ \A u \in Tunnels \ {t} : child'[u] = child[u]
      BY <2>10 DEF Close, Killed, Inv, TypeOK
    <3> QED BY <3>1, <3>2, DownMaps DEF Contract!Next
  <2> QED BY <1>3, <2>1, <2>2, <2>3, <2>4, <2>5, <2>6, <2>7, <2>8, <2>9, <2>10 DEF Event
<1> QED BY <1>1, <1>2, <1>3 DEF Next

(* The opener implements the contract the session manager is written against. *)
THEOREM KeepsContract == Spec => ImplementsContract
<1>1. Inv /\ [Next]_vars => [Contract!Next]_(Contract!vars)
  BY ContractStep
<1> QED BY <1>1, ContractInit, TunnelInvariant, PTL DEF Spec, ImplementsContract, Contract!Spec
=============================================================================

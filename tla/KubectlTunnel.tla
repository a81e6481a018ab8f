---------------------------- MODULE KubectlTunnel ----------------------------
(***************************************************************************)
(* createKubectlTunnelOpener (src/main/rabbitmq/port-forward.ts): the      *)
(* promise of a tunnel, the kubectl child behind it, and the events that   *)
(* race for it: the line that says kubectl forwards, the ready timeout,    *)
(* the abort signal, the child's error and exit, and the exit of the Main  *)
(* process.  A step is one event callback.                                 *)
(***************************************************************************)
CONSTANT Tunnels   \* calls of the opener

VARIABLES
    phase,      \* of the promise: "idle" before the call, "preparing" kubectl, "starting" it,
                \* settled as "ready" or "rejected"
    child,      \* the kubectl child: "none", "alive", "signalled" by kill(), "gone"
    running,    \* the module's set of children the exit hook kills
    timer,      \* whether the ready timer is armed
    listening,  \* whether the abort listener is registered
    aborted,    \* whether the signal was aborted
    afterReady, \* whether kubectl printed on stderr after the promise settled
    asked,      \* problem(): "no" call yet, "waiting", or answered: "told" what kubectl printed, "untold"
    main        \* the Main process: "up", or "exited" after its exit hook

vars == <<phase, child, running, timer, listening, aborted, afterReady, asked, main>>

TypeOK ==
    /\ phase \in [Tunnels -> {"idle", "preparing", "starting", "ready", "rejected"}]
    /\ child \in [Tunnels -> {"none", "alive", "signalled", "gone"}]
    /\ running \in SUBSET Tunnels
    /\ timer \in [Tunnels -> BOOLEAN]
    /\ listening \in [Tunnels -> BOOLEAN]
    /\ aborted \in [Tunnels -> BOOLEAN]
    /\ afterReady \in [Tunnels -> BOOLEAN]
    /\ asked \in [Tunnels -> {"no", "waiting", "told", "untold"}]
    /\ main \in {"up", "exited"}

Init ==
    /\ phase = [t \in Tunnels |-> "idle"]
    /\ child = [t \in Tunnels |-> "none"]
    /\ running = {}
    /\ timer = [t \in Tunnels |-> FALSE]
    /\ listening = [t \in Tunnels |-> FALSE]
    /\ aborted = [t \in Tunnels |-> FALSE]
    /\ afterReady = [t \in Tunnels |-> FALSE]
    /\ asked = [t \in Tunnels |-> "no"]
    /\ main = "up"

-----------------------------------------------------------------------------
(* child.kill() *)
Killed(t) == [child EXCEPT ![t] = IF @ = "alive" THEN "signalled" ELSE @]

(* Mutant: the ready timer keeps running when the promise settles. *)
SettlesTimed(t, how) ==
    /\ phase' = [phase EXCEPT ![t] = how]
    /\ listening' = [listening EXCEPT ![t] = FALSE]
    /\ UNCHANGED timer

(* The promise settles: the ready timer and the abort listener are taken away. *)
Settles(t, how) ==
    /\ phase' = [phase EXCEPT ![t] = how]
    /\ timer' = [timer EXCEPT ![t] = FALSE]
    /\ listening' = [listening EXCEPT ![t] = FALSE]

Unsettled(t) == UNCHANGED <<phase, timer, listening>>

(* Mutant: the promise rejects and kubectl is left running. *)
FailsKeepingChild(t, childNow) ==
    /\ child' = childNow
    /\ IF phase[t] = "starting" THEN Settles(t, "rejected") ELSE Unsettled(t)

(* fail(): rejects the promise and kills kubectl, unless the promise has settled. *)
Fails(t, childNow) ==
    \/ /\ phase[t] = "starting"
       /\ Settles(t, "rejected")
       /\ child' = [childNow EXCEPT ![t] = IF @ = "alive" THEN "signalled" ELSE @]
    \/ /\ phase[t] # "starting"
       /\ Unsettled(t)
       /\ child' = childNow

Call(t) ==
    /\ phase[t] = "idle"
    /\ phase' = [phase EXCEPT ![t] = "preparing"]
    /\ UNCHANGED <<child, running, timer, listening, aborted, afterReady, asked, main>>

(* Mutant: the child is not added to the set the exit hook walks. *)
SpawnUnlisted(t) ==
    /\ phase[t] = "preparing"
    /\ ~aborted[t]
    /\ phase' = [phase EXCEPT ![t] = "starting"]
    /\ child' = [child EXCEPT ![t] = "alive"]
    /\ timer' = [timer EXCEPT ![t] = TRUE]
    /\ listening' = [listening EXCEPT ![t] = TRUE]
    /\ UNCHANGED <<running, aborted, afterReady, asked, main>>

(* Mutant: no ready timer is armed. *)
SpawnUntimed(t) ==
    /\ phase[t] = "preparing"
    /\ ~aborted[t]
    /\ phase' = [phase EXCEPT ![t] = "starting"]
    /\ child' = [child EXCEPT ![t] = "alive"]
    /\ running' = running \cup {t}
    /\ listening' = [listening EXCEPT ![t] = TRUE]
    /\ UNCHANGED <<timer, aborted, afterReady, asked, main>>

(* Mutant: an open aborted while kubectl was prepared is not noticed. *)
SpawnAborted(t) ==
    /\ phase[t] = "preparing"
    /\ phase' = [phase EXCEPT ![t] = "starting"]
    /\ child' = [child EXCEPT ![t] = "alive"]
    /\ running' = running \cup {t}
    /\ timer' = [timer EXCEPT ![t] = TRUE]
    /\ listening' = [listening EXCEPT ![t] = TRUE]
    /\ UNCHANGED <<aborted, afterReady, asked, main>>

(* kubectl and its environment are prepared, the open was not aborted: kubectl is spawned. *)
Spawn(t) ==
    /\ phase[t] = "preparing"
    /\ ~aborted[t]
    /\ phase' = [phase EXCEPT ![t] = "starting"]
    /\ child' = [child EXCEPT ![t] = "alive"]
    /\ running' = running \cup {t}
    /\ timer' = [timer EXCEPT ![t] = TRUE]
    /\ listening' = [listening EXCEPT ![t] = TRUE]
    /\ UNCHANGED <<aborted, afterReady, asked, main>>

(* It could not be prepared, or the open was aborted meanwhile. *)
PrepareFails(t) ==
    /\ phase[t] = "preparing"
    /\ phase' = [phase EXCEPT ![t] = "rejected"]
    /\ UNCHANGED <<child, running, timer, listening, aborted, afterReady, asked, main>>

(* Mutant: the abort listener is not told of an abort. *)
AbortUnheard(t) ==
    /\ phase[t] # "idle"
    /\ aborted' = [aborted EXCEPT ![t] = TRUE]
    /\ UNCHANGED <<phase, timer, listening, child, running, afterReady, asked, main>>

Abort(t) ==
    /\ phase[t] # "idle"
    /\ aborted' = [aborted EXCEPT ![t] = TRUE]
    /\ IF listening[t] /\ ~aborted[t] THEN Fails(t, child) ELSE Unsettled(t) /\ UNCHANGED child
    /\ UNCHANGED <<running, afterReady, asked, main>>

ReadyTimeout(t) ==
    /\ timer[t]
    /\ Fails(t, child)
    /\ UNCHANGED <<running, aborted, afterReady, asked, main>>

(* A chunk of stdout completes the "Forwarding from" line; one that comes after the promise *)
(* settled (the output of a killed kubectl) is ignored.                                      *)
Forwards(t) ==
    /\ phase[t] = "starting"
    /\ Settles(t, "ready")
    /\ UNCHANGED <<child, running, aborted, afterReady, asked, main>>

(* A chunk of stderr: kept for the error before the promise settles, else given to the waiters. *)
(* A chunk of white space only ends their wait too, and tells them nothing.                     *)
Stderr(t, blank) ==
    /\ phase[t] \in {"ready", "rejected"}
    /\ child[t] # "none"
    /\ afterReady' = [afterReady EXCEPT ![t] = @ \/ ~blank]
    /\ asked' = [asked EXCEPT ![t] = IF @ # "waiting" THEN @ ELSE IF afterReady'[t] THEN "told" ELSE "untold"]
    /\ UNCHANGED <<phase, child, running, timer, listening, aborted, main>>

(* The child's exit, or its error when it could not be started. *)
Exits(t) ==
    /\ child[t] \in {"alive", "signalled"}
    /\ running' = running \ {t}
    /\ Fails(t, [child EXCEPT ![t] = "gone"])
    /\ UNCHANGED <<aborted, afterReady, asked, main>>

Problem(t) ==
    /\ phase[t] = "ready"
    /\ asked[t] = "no"
    /\ asked' = [asked EXCEPT ![t] = IF afterReady[t] THEN "told" ELSE "waiting"]
    /\ UNCHANGED <<phase, child, running, timer, listening, aborted, afterReady, main>>

(* Mutant: the wait ends on what kubectl prints only, never on a timeout. *)
ProblemUntimed(t) ==
    /\ asked[t] = "waiting"
    /\ afterReady[t]
    /\ asked' = [asked EXCEPT ![t] = "told"]
    /\ UNCHANGED <<phase, child, running, timer, listening, aborted, afterReady, main>>

ProblemTimeout(t) ==
    /\ asked[t] = "waiting"
    /\ asked' = [asked EXCEPT ![t] = IF afterReady[t] THEN "told" ELSE "untold"]
    /\ UNCHANGED <<phase, child, running, timer, listening, aborted, afterReady, main>>

(* tunnel.close() *)
Close(t) ==
    /\ phase[t] = "ready"
    /\ child' = Killed(t)
    /\ UNCHANGED <<phase, running, timer, listening, aborted, afterReady, asked, main>>

(* The exit hook: the Main process ends and none of its callbacks runs any more. *)
MainExits ==
    /\ main' = "exited"
    /\ child' = [t \in Tunnels |-> IF t \in running /\ child[t] = "alive" THEN "signalled" ELSE child[t]]
    /\ UNCHANGED <<phase, running, timer, listening, aborted, afterReady, asked>>

-----------------------------------------------------------------------------
Event(t) ==
    \/ Call(t) \/ Spawn(t) \/ PrepareFails(t) \/ Abort(t) \/ ReadyTimeout(t) \/ Forwards(t)
    \/ \E blank \in BOOLEAN : Stderr(t, blank)
    \/ Exits(t) \/ Problem(t) \/ ProblemTimeout(t) \/ Close(t)

Next == main = "up" /\ ((\E t \in Tunnels : Event(t)) \/ MainExits)

Fairness ==
    \A t \in Tunnels :
        /\ WF_vars(main = "up" /\ (Spawn(t) \/ PrepareFails(t)))   \* Freelens answers
        /\ WF_vars(main = "up" /\ ReadyTimeout(t))                 \* timers fire
        /\ WF_vars(main = "up" /\ ProblemTimeout(t))

Spec == Init /\ [][Next]_vars /\ Fairness

-----------------------------------------------------------------------------
(* Nothing is left armed against a promise that settled: a late timeout cannot kill a tunnel in use. *)
SettledIsQuiet == \A t \in Tunnels : timer[t] \/ listening[t] => phase[t] = "starting"

(* The exit hook finds every kubectl: "killed when the Main process exits so a quit never leaves one *)
(* behind" (port-forward.ts:58).                                                                     *)
QuitLeavesNoKubectl == main = "exited" => \A t \in Tunnels : child[t] # "alive"

(* What the quit relies on: a child that may still run is in the set. *)
AliveIsListed == \A t \in Tunnels : child[t] \in {"alive", "signalled"} => t \in running

(* A promise that rejected, and an open aborted before its tunnel was ready, have no kubectl running. *)
RejectedHasNoKubectl ==
    \A t \in Tunnels : child[t] = "alive" => phase[t] = "ready" \/ (phase[t] = "starting" /\ ~aborted[t])

Inv ==
    /\ TypeOK
    /\ SettledIsQuiet
    /\ QuitLeavesNoKubectl
    /\ AliveIsListed
    /\ RejectedHasNoKubectl
    /\ \A t \in Tunnels : /\ phase[t] = "starting" => timer[t] /\ listening[t] /\ ~aborted[t]
                          /\ phase[t] \in {"idle", "preparing"} => child[t] = "none"

Contract == INSTANCE TunnelContract WITH
    state <- [t \in Tunnels |-> IF phase[t] = "rejected" THEN "over" ELSE phase[t]],
    up <- {t \in Tunnels : child[t] = "alive"},
    stop <- {t \in Tunnels : aborted[t]}

(* The opener keeps the contract the session manager is written against. *)
ImplementsContract == Contract!Spec

(* The promise settles: kubectl becomes ready, fails, or the ready timer fires. *)
PromiseSettles ==
    \A t \in Tunnels : (phase[t] = "preparing") ~> (phase[t] \in {"ready", "rejected"} \/ main = "exited")

(* A caller of problem() is answered: open() awaits it before it kills the tunnel. *)
ProblemAnswered == \A t \in Tunnels : (asked[t] = "waiting") ~> (asked[t] # "waiting" \/ main = "exited")
=============================================================================

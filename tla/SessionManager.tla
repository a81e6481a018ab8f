--------------------------- MODULE SessionManager ---------------------------
(***************************************************************************)
(* RabbitmqSessionManager (src/main/rabbitmq/session-manager.ts): one      *)
(* port-forward tunnel and one authenticated client per target, shared by  *)
(* every request of the renderer.                                          *)
(*                                                                         *)
(* The code runs on the one thread of the Freelens Main process, so a step *)
(* of the model is the code between two awaits that really suspend: an IPC *)
(* handler up to its first await, the continuation of an await of the      *)
(* cluster, of kubectl or of the broker, a timer.  The promise jobs that   *)
(* follow such a step (the .catch and .finally of getOrOpen, the callers   *)
(* that await the settled promise) run before the next IPC message or      *)
(* timer, and belong to the step.                                          *)
(*                                                                         *)
(* An element of Opens identifies one run of open(): its AbortController,  *)
(* its kubectl, and the session it stores.  It is used again once nothing  *)
(* refers to it, so behaviours do not end when the identifiers run out.    *)
(***************************************************************************)
CONSTANTS
    Keys,     \* session keys: a Kubernetes cluster and a target (sessionKey)
    Callers,  \* requests of the renderer that can be under way at a time
    Opens,    \* runs of open() that can be under way or stored at a time
    Creds,    \* credentials a session may log in with ...
    Hint,     \* ... among them those of the cluster, when none were typed in
    None      \* no run of open()

ASSUME CredsAssumption == Hint \in Creds
ASSUME NoneAssumption == None \notin Opens

VARIABLES
    sessions,   \* the sessions map: the run of open() that stored the session
    pending,    \* the pending map: the run of open() in flight and not closed
    manual,     \* manualCredentials, Hint where the map has no entry
    writeMode,  \* the targets Write Mode is on for
    timer,      \* whether idleTimers holds an armed timer for the key
    stage,      \* of a run of open(): which await it is suspended at
    key,        \* its session key
    cred,       \* the credentials it resolved when it started
    reason,     \* the reason its AbortController was aborted with, or "none"
    alive,      \* the runs whose kubectl child is running and was not killed
    call,       \* of a request: where it is in withSession
    wants,      \* the key it is for
    awaits,     \* the run of open() whose promise it awaits
    retried     \* whether it is past the one reopening of withSession

openVars == <<stage, key, cred, reason, alive>>
callVars == <<call, wants, awaits, retried>>
vars == <<sessions, pending, manual, writeMode, timer, openVars, callVars>>

InFlight == {"credentials", "pod", "preparing", "tunnel", "ready", "whoami", "problem"}
Stages == {"free", "opened"} \cup InFlight

(* The stages at which a run of open() that rejects finds a kubectl to kill. *)
WithKubectl == {"tunnel", "ready", "whoami", "problem"}

TypeOK ==
    /\ sessions \in [Keys -> Opens \cup {None}]
    /\ pending \in [Keys -> Opens \cup {None}]
    /\ manual \in [Keys -> Creds]
    /\ writeMode \in SUBSET Keys
    /\ timer \in [Keys -> BOOLEAN]
    /\ stage \in [Opens -> Stages]
    /\ key \in [Opens -> Keys]
    /\ cred \in [Opens -> Creds]
    /\ reason \in [Opens -> {"none", "closed", "reopen"}]
    /\ alive \in SUBSET Opens
    /\ call \in [Callers -> {"idle", "opening", "running"}]
    /\ wants \in [Callers -> Keys]
    /\ awaits \in [Callers -> Opens \cup {None}]
    /\ retried \in [Callers -> BOOLEAN]

Init ==
    /\ sessions = [k \in Keys |-> None]
    /\ pending = [k \in Keys |-> None]
    /\ manual = [k \in Keys |-> Hint]
    /\ writeMode = {}
    /\ timer = [k \in Keys |-> FALSE]
    /\ stage = [o \in Opens |-> "free"]
    /\ key \in {[o \in Opens |-> k] : k \in Keys}
    /\ cred = [o \in Opens |-> Hint]
    /\ reason = [o \in Opens |-> "none"]
    /\ alive = {}
    /\ call = [c \in Callers |-> "idle"]
    /\ wants \in {[c \in Callers |-> k] : k \in Keys}
    /\ awaits = [c \in Callers |-> None]
    /\ retried = [c \in Callers |-> FALSE]

-----------------------------------------------------------------------------
(* close(key, reason), of every key of K. *)

Without(f, K) == [k \in Keys |-> IF k \in K THEN None ELSE f[k]]
Disarmed(K) == [k \in Keys |-> timer[k] /\ k \notin K]

Stored(o, K) == \E k \in K : sessions[k] = o
Opening(o, K) == \E k \in K : pending[k] = o

(* The session object is dropped: nothing refers to its run of open() any more. *)
ClosedStage(K) == [o \in Opens |-> IF Stored(o, K) THEN "free" ELSE stage[o]]

ClosedReason(K, why) == [o \in Opens |-> IF Opening(o, K) THEN why ELSE reason[o]]

(* tunnel.close() of the session; the abort listener kills a kubectl that is not ready yet. *)
ClosedAlive(K) == {o \in alive : ~Stored(o, K) /\ ~(Opening(o, K) /\ stage[o] = "tunnel")}

Close(K, why) ==
    /\ sessions' = Without(sessions, K)
    /\ pending' = Without(pending, K)
    /\ timer' = Disarmed(K)
    /\ stage' = ClosedStage(K)
    /\ reason' = ClosedReason(K, why)
    /\ alive' = ClosedAlive(K)
    /\ UNCHANGED <<key, cred>>

-----------------------------------------------------------------------------
(* Requests: withSession(fn) and getOrOpen. *)

(* open() up to its first await: manual credentials are read before it. *)
Resolves(o, k) ==
    /\ key' = [key EXCEPT ![o] = k]
    /\ cred' = [cred EXCEPT ![o] = manual[k]]

Starts(o, k) ==
    /\ Resolves(o, k)
    /\ pending' = [pending EXCEPT ![k] = o]
    /\ stage' = [stage EXCEPT ![o] = "credentials"]
    /\ reason' = [reason EXCEPT ![o] = "none"]

Asks(c, k, how, o) ==
    /\ call[c] = "idle"
    /\ call' = [call EXCEPT ![c] = how]
    /\ wants' = [wants EXCEPT ![c] = k]
    /\ awaits' = [awaits EXCEPT ![c] = o]
    /\ UNCHANGED <<manual, writeMode, retried>>

(* getOrOpen resolves with the session the target has. *)
CallOnSession(c, k) ==
    /\ sessions[k] # None
    /\ Asks(c, k, "running", None)
    /\ UNCHANGED <<sessions, pending, timer, openVars>>

(* getOrOpen returns the promise of the run of open() in flight. *)
CallJoinsOpen(c, k) ==
    /\ sessions[k] = None
    /\ pending[k] # None
    /\ Asks(c, k, "opening", pending[k])
    /\ UNCHANGED <<sessions, pending, timer, openVars>>

(* Mutant: getOrOpen does not look for an open in flight. *)
CallOpensUnshared(c, k, o) ==
    /\ sessions[k] = None
    /\ stage[o] = "free"
    /\ Asks(c, k, "opening", o)
    /\ Starts(o, k)
    /\ UNCHANGED <<sessions, timer, alive>>

(* getOrOpen starts open(). *)
CallOpens(c, k, o) ==
    /\ sessions[k] = None
    /\ pending[k] = None
    /\ stage[o] = "free"
    /\ Asks(c, k, "opening", o)
    /\ Starts(o, k)
    /\ UNCHANGED <<sessions, timer, alive>>

Finishes(c) ==
    /\ call' = [call EXCEPT ![c] = "idle"]
    /\ retried' = [retried EXCEPT ![c] = FALSE]
    /\ UNCHANGED <<manual, writeMode, wants, awaits>>

(* fn resolves.  touch() arms the idle timer of the key, whether or not the session is still stored. *)
FnSucceeds(c) ==
    /\ call[c] = "running"
    /\ Finishes(c)
    /\ timer' = [timer EXCEPT ![wants[c]] = TRUE]
    /\ UNCHANGED <<sessions, pending, openVars>>

(* close(key), and open() at once. *)
Reopens(c, o) ==
    /\ stage[o] = "free"
    /\ LET k == wants[c] IN
         /\ sessions' = Without(sessions, {k})
         /\ pending' = [pending EXCEPT ![k] = o]
         /\ timer' = Disarmed({k})
         /\ stage' = [ClosedStage({k}) EXCEPT ![o] = "credentials"]
         /\ reason' = [ClosedReason({k}, "closed") EXCEPT ![o] = "none"]
         /\ alive' = ClosedAlive({k})
         /\ Resolves(o, k)
    /\ call' = [call EXCEPT ![c] = "opening"]
    /\ awaits' = [awaits EXCEPT ![c] = o]
    /\ retried' = [retried EXCEPT ![c] = TRUE]
    /\ UNCHANGED <<manual, writeMode, wants>>

(* Mutant: withSession reopens as often as fn finds the session stale. *)
FnRetriesForever(c, o) == call[c] = "running" /\ Reopens(c, o)

(* fn rejects with "unreachable" the first time. *)
FnRetries(c, o) == call[c] = "running" /\ ~retried[c] /\ Reopens(c, o)

(* fn rejects with "unauthorized" the first time: the session is closed. *)
FnUnauthorized(c) ==
    /\ call[c] = "running"
    /\ ~retried[c]
    /\ Finishes(c)
    /\ Close({wants[c]}, "closed")

(* fn rejects with another error, or with any error after the reopening. *)
FnFails(c) ==
    /\ call[c] = "running"
    /\ Finishes(c)
    /\ UNCHANGED <<sessions, pending, timer, openVars>>

-----------------------------------------------------------------------------
(* The steps of open(). *)

(* An await of open() resolves and the open goes on: it was not aborted. *)
Advances(o, from, to) ==
    /\ stage[o] = from
    /\ reason[o] = "none"
    /\ stage' = [stage EXCEPT ![o] = to]
    /\ UNCHANGED <<sessions, pending, manual, writeMode, timer, key, cred, reason, callVars>>

CredentialsResolved(o) == Advances(o, "credentials", "pod") /\ UNCHANGED alive
PodLocated(o) == Advances(o, "pod", "preparing") /\ UNCHANGED alive

(* openTunnel: kubectl is prepared and spawned. *)
KubectlSpawned(o) == Advances(o, "preparing", "tunnel") /\ alive' = alive \cup {o}

(* The promise of openTunnel resolves, and open() asks the broker who it is.  The promise of a *)
(* TunnelOpener may have resolved when the abort comes, so the two are steps of their own.     *)
TunnelReady(o) == Advances(o, "tunnel", "ready") /\ UNCHANGED alive
TunnelTaken(o) == Advances(o, "ready", "whoami") /\ UNCHANGED alive

(* whoami() rejects with "unreachable": open() awaits tunnel.problem(), aborted or not. *)
WhoamiUnreachable(o) ==
    /\ stage[o] = "whoami"
    /\ stage' = [stage EXCEPT ![o] = "problem"]
    /\ UNCHANGED <<sessions, pending, manual, writeMode, timer, key, cred, reason, alive, callVars>>

Awaiting(o) == {c \in Callers : call[c] = "opening" /\ awaits[c] = o}

(* The promise of o settles: every request that awaits it runs fn, or rejects. *)
Settles(o, how) ==
    /\ call' = [c \in Callers |-> IF c \in Awaiting(o) THEN how ELSE call[c]]
    /\ awaits' = [c \in Callers |-> IF c \in Awaiting(o) THEN None ELSE awaits[c]]
    /\ retried' = [c \in Callers |-> retried[c] /\ (c \in Awaiting(o) => how # "idle")]
    /\ UNCHANGED wants

(* .finally of getOrOpen. *)
NoLongerPending(o) == pending' = [k \in Keys |-> IF pending[k] = o THEN None ELSE pending[k]]

StoresSession(o) ==
    /\ stage[o] = "whoami"
    /\ reason[o] = "none"
    /\ stage' = [stage EXCEPT ![o] = "opened"]
    /\ sessions' = [sessions EXCEPT ![key[o]] = o]
    /\ NoLongerPending(o)
    /\ Settles(o, "running")
    /\ UNCHANGED <<manual, writeMode, key, cred, reason, alive>>

(* whoami() resolves: the session is stored and its idle timer armed. *)
SessionStored(o) == StoresSession(o) /\ timer' = [timer EXCEPT ![key[o]] = TRUE]

(* Mutant: an open that rejects leaves its kubectl running. *)
KubectlKept(o) == UNCHANGED alive

(* open() rejects: an await rejected, or it resolved and stopIfClosed throws.  A tunnel that  *)
(* is ready is not lost by itself, so there only the abort rejects.                           *)
Rejects(o) ==
    /\ stage[o] \in InFlight
    /\ stage[o] = "ready" => reason[o] # "none"

KubectlGone(o) == alive' = alive \ {o}

(* ... its kubectl is killed, if it has one, and the run is over. *)
Ends(o) ==
    /\ stage' = [stage EXCEPT ![o] = "free"]
    /\ reason' = [reason EXCEPT ![o] = "none"]
    /\ KubectlGone(o)
    /\ UNCHANGED <<key, cred>>

(* ... of itself or closed: the callers' promise rejects. *)
OpenFails(o) ==
    /\ Rejects(o)
    /\ reason[o] # "reopen"
    /\ Ends(o)
    /\ NoLongerPending(o)
    /\ Settles(o, "idle")
    /\ UNCHANGED <<sessions, manual, writeMode, timer>>

(* ... closed for new credentials: getOrOpen again, which finds a session, ... *)
ReopenOnSession(o) ==
    /\ Rejects(o)
    /\ reason[o] = "reopen"
    /\ sessions[key[o]] # None
    /\ Ends(o)
    /\ Settles(o, "running")
    /\ UNCHANGED <<sessions, pending, manual, writeMode, timer>>

(* ... or an open in flight, ... *)
ReopenJoinsOpen(o) ==
    /\ Rejects(o)
    /\ reason[o] = "reopen"
    /\ sessions[key[o]] = None
    /\ pending[key[o]] # None
    /\ Ends(o)
    /\ awaits' = [c \in Callers |-> IF c \in Awaiting(o) THEN pending[key[o]] ELSE awaits[c]]
    /\ UNCHANGED <<sessions, pending, manual, writeMode, timer, call, wants, retried>>

(* Mutant: the .catch of getOrOpen forgets the callers of an open closed for new credentials. *)
ReopenLosesCallers(o) ==
    /\ Rejects(o)
    /\ reason[o] = "reopen"
    /\ sessions[key[o]] = None
    /\ pending[key[o]] = None
    /\ Ends(o)
    /\ UNCHANGED <<sessions, pending, manual, writeMode, timer, callVars>>

(* ... or starts open() again, for the callers that awaited the closed one (the same *)
(* element of Opens stands for the new run).                                         *)
ReopenStarts(o) ==
    /\ Rejects(o)
    /\ reason[o] = "reopen"
    /\ sessions[key[o]] = None
    /\ pending[key[o]] = None
    /\ Starts(o, key[o])
    /\ KubectlGone(o)
    /\ UNCHANGED <<sessions, manual, writeMode, timer, callVars>>

-----------------------------------------------------------------------------
(* The other handlers, and the environment. *)

(* Mutant: new credentials do not close the session opened with the old ones. *)
SetManualKeepsSession(k, cr) ==
    /\ manual' = [manual EXCEPT ![k] = cr]
    /\ UNCHANGED <<sessions, pending, timer, openVars, writeMode, callVars>>

(* setManualCredentials, and clearManualCredentials (cr = Hint). *)
SetManualCredentials(k, cr) ==
    /\ manual' = [manual EXCEPT ![k] = cr]
    /\ Close({k}, "reopen")
    /\ UNCHANGED <<writeMode, callVars>>

SetWriteMode(k, on) ==
    /\ writeMode' = IF on THEN writeMode \cup {k} ELSE writeMode \ {k}
    /\ UNCHANGED <<sessions, pending, manual, timer, openVars, callVars>>

CloseTarget(k) ==
    /\ Close({k}, "closed")
    /\ UNCHANGED <<manual, writeMode, callVars>>

(* Mutant: closeAll overlooks the targets being opened. *)
CloseAllStored ==
    /\ Close({k \in Keys : sessions[k] # None}, "closed")
    /\ manual' = [k \in Keys |-> Hint]
    /\ writeMode' = {}
    /\ UNCHANGED callVars

(* closeAll, of a disconnect without a target and of shutdown. *)
CloseAll ==
    /\ Close({k \in Keys : sessions[k] # None \/ pending[k] # None}, "closed")
    /\ manual' = [k \in Keys |-> Hint]
    /\ writeMode' = {}
    /\ UNCHANGED callVars

IdleExpires(k) ==
    /\ timer[k]
    /\ Close({k}, "closed")
    /\ UNCHANGED <<manual, writeMode, callVars>>

(* kubectl exits of itself once it is ready; nobody is told (before, its exit rejects open()). *)
KubectlExits(o) ==
    /\ o \in alive
    /\ stage[o] # "tunnel"
    /\ KubectlGone(o)
    /\ UNCHANGED <<sessions, pending, manual, writeMode, timer, stage, key, cred, reason, callVars>>

-----------------------------------------------------------------------------
OpenGoesOn(o) ==
    \/ CredentialsResolved(o) \/ PodLocated(o) \/ KubectlSpawned(o)
    \/ TunnelReady(o) \/ TunnelTaken(o) \/ WhoamiUnreachable(o) \/ SessionStored(o)
    \/ OpenFails(o)
    \/ ReopenOnSession(o) \/ ReopenJoinsOpen(o) \/ ReopenStarts(o)

FnEnds(c) ==
    \/ FnSucceeds(c)
    \/ \E o \in Opens : FnRetries(c, o)
    \/ FnUnauthorized(c)
    \/ FnFails(c)

Call(c, k) ==
    \/ CallOnSession(c, k)
    \/ CallJoinsOpen(c, k)
    \/ \E o \in Opens : CallOpens(c, k, o)

CredentialsChange == \E k \in Keys, cr \in Creds : SetManualCredentials(k, cr)

UserCloses == CloseAll \/ \E k \in Keys : CloseTarget(k)

Next ==
    \/ \E c \in Callers : FnEnds(c) \/ \E k \in Keys : Call(c, k)
    \/ \E o \in Opens : OpenGoesOn(o) \/ KubectlExits(o)
    \/ CredentialsChange
    \/ UserCloses
    \/ \E k \in Keys : IdleExpires(k) \/ \E on \in BOOLEAN : SetWriteMode(k, on)

(* Every await of open() and of fn ends: the readiness of kubectl and tunnel.problem() have    *)
(* timeouts (KubectlTunnel), Freelens answers the reads of the cluster, and the HTTP client    *)
(* settles every request whose response is not cut short (HttpClient, RequestsSettle).         *)
Fairness ==
    /\ \A o \in Opens : WF_vars(OpenGoesOn(o))
    /\ \A c \in Callers : WF_vars(FnEnds(c))

Spec == Init /\ [][Next]_vars
FairSpec == Spec /\ Fairness

-----------------------------------------------------------------------------
(* Safety. *)

(* The parts of the inductive invariant; each says what one map of the class relies on. *)

(* pending holds the runs of open() in flight that were not closed, and no others. *)
PendingIsInFlight ==
    \A k \in Keys, o \in Opens :
        pending[k] = o <=> key[o] = k /\ stage[o] \in InFlight /\ reason[o] = "none"

SessionIsOpened ==
    \A k \in Keys, o \in Opens :
        sessions[k] = o <=> key[o] = k /\ stage[o] = "opened"

OpenedIsNotAborted == \A o \in Opens : stage[o] = "opened" => reason[o] = "none"

(* A target never has a second open beside its session or its open: getOrOpen shares them, also *)
(* when an open closed for new credentials comes back to it later, so that the broker is not    *)
(* given two tunnels for one target and no session is overwritten in the map.                   *)
OneSessionPerKey == \A k \in Keys : sessions[k] = None \/ pending[k] = None

(* The session of a target, and the open that will store one, use the credentials set last: those *)
(* typed in (setManualCredentials), or those of the cluster after they were cleared.              *)
SessionUsesCurrentCredentials ==
    \A k \in Keys : \A o \in Opens :
        sessions[k] = o \/ pending[k] = o => cred[o] = manual[k]

(* No kubectl child is left behind: it belongs to a stored session, or to an open that has yet to *)
(* store it or kill it (the tunnel.close() calls of open() and close()).                          *)
NoOrphanKubectl ==
    \A o \in alive : stage[o] \in WithKubectl \/ sessions[key[o]] = o

(* A stored session always has an armed idle timer, else its tunnel would never be closed. *)
SessionHasIdleTimer == \A k \in Keys : sessions[k] # None => timer[k]

(* A request that waits, waits for a run of open() for its own key that will settle. *)
WaitsForAnOpen ==
    \A c \in Callers : call[c] = "opening" =>
        \E o \in Opens : awaits[c] = o /\ stage[o] \in InFlight /\ key[o] = wants[c]

(* The promise of AbstractSessions: a request is served the one session of its target, opened with *)
(* the credentials in force when it is served, and asks for a second one at most once.             *)
SessionCredentials == [k \in Keys |-> {cred[o] : o \in {sessions[k]} \ {None}}]

PhaseOf(how) == CASE how = "idle" -> "idle" [] how = "opening" -> "waiting" [] how = "running" -> "served"

Phase == [c \in Callers |-> PhaseOf(call[c])]

Promise == INSTANCE AbstractSessions WITH
    inForce <- manual, live <- SessionCredentials, phase <- Phase, target <- wants, again <- retried

ImplementsPromise == Promise!Spec

(* The invariant is inductive; the theorems of SessionManagerProofs rest on it. *)
Inv ==
    /\ TypeOK
    /\ PendingIsInFlight
    /\ SessionIsOpened
    /\ OpenedIsNotAborted
    /\ OneSessionPerKey
    /\ SessionUsesCurrentCredentials
    /\ NoOrphanKubectl
    /\ SessionHasIdleTimer
    /\ WaitsForAnOpen

-----------------------------------------------------------------------------
(* Liveness. *)

(* Every request ends, once the user has stopped changing credentials (every change makes the *)
(* requests that wait for the target wait for another open).                                  *)
EveryCallEnds ==
    <>[][~CredentialsChange]_vars =>
        \A c \in Callers : (call[c] # "idle") ~> (call[c] = "idle")

(* An open that was closed does not keep its kubectl: it is killed when the await it is at ends. *)
ClosedOpenLosesKubectl ==
    \A o \in Opens : (o \in alive /\ reason[o] # "none") ~> (o \notin alive)
=============================================================================

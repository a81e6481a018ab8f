------------------------ MODULE SessionManagerProofs ------------------------
EXTENDS SessionManager, TLAPS

USE CredsAssumption, NoneAssumption
USE DEF Stages, InFlight, WithKubectl

(* Every handler and every step of open() keeps the types. *)
LEMMA TypeStep == TypeOK /\ [Next]_vars => TypeOK'
<1> SUFFICES ASSUME TypeOK, [Next]_vars PROVE TypeOK'
  OBVIOUS
<1> USE DEF TypeOK
<1>1. ASSUME NEW c \in Callers, NEW k \in Keys, Call(c, k) PROVE TypeOK'
  <2>1. CASE CallOnSession(c, k)
    BY <2>1 DEF CallOnSession, Asks, openVars
  <2>2. CASE CallJoinsOpen(c, k)
    BY <2>2 DEF CallJoinsOpen, Asks, openVars
  <2>3. ASSUME NEW o \in Opens, CallOpens(c, k, o) PROVE TypeOK'
    BY <2>3 DEF CallOpens, Asks, Starts, Resolves
  <2> QED BY <1>1, <2>1, <2>2, <2>3 DEF Call
<1>2. ASSUME NEW K \in SUBSET Keys, NEW why \in {"closed", "reopen"}, Close(K, why)
      PROVE  /\ sessions' \in [Keys -> Opens \cup {None}]
             /\ pending' \in [Keys -> Opens \cup {None}]
             /\ timer' \in [Keys -> BOOLEAN]
             /\ stage' \in [Opens -> Stages]
             /\ reason' \in [Opens -> {"none", "closed", "reopen"}]
             /\ alive' \in SUBSET Opens
             /\ key' = key /\ cred' = cred
  BY <1>2 DEF Close, Without, Disarmed, ClosedStage, ClosedReason, ClosedAlive
<1>3. ASSUME NEW c \in Callers, FnEnds(c) PROVE TypeOK'
  <2>1. CASE FnSucceeds(c)
    BY <2>1 DEF FnSucceeds, Finishes, openVars
  <2>2. ASSUME NEW o \in Opens, FnRetries(c, o) PROVE TypeOK'
    BY <2>2 DEF FnRetries, Reopens, Without, Disarmed, ClosedStage, ClosedReason, ClosedAlive, Starts, Resolves
  <2>3. CASE FnUnauthorized(c)
    BY <2>3, <1>2 DEF FnUnauthorized, Finishes
  <2>4. CASE FnFails(c)
    BY <2>4 DEF FnFails, Finishes, openVars
  <2> QED BY <1>3, <2>1, <2>2, <2>3, <2>4 DEF FnEnds
<1>4. ASSUME NEW o \in Opens, OpenGoesOn(o) PROVE TypeOK'
  <2> USE DEF callVars
  <2>1. ASSUME NEW from, NEW to \in Stages, Advances(o, from, to), alive' \in SUBSET Opens PROVE TypeOK'
    BY <2>1 DEF Advances
  <2>2. CASE CredentialsResolved(o) BY <2>1, <2>2 DEF CredentialsResolved
  <2>3. CASE PodLocated(o) BY <2>1, <2>3 DEF PodLocated
  <2>4. CASE KubectlSpawned(o) BY <2>1, <2>4 DEF KubectlSpawned
  <2>5. CASE TunnelReady(o) BY <2>1, <2>5 DEF TunnelReady
  <2>6. CASE TunnelTaken(o) BY <2>1, <2>6 DEF TunnelTaken
  <2>7. CASE WhoamiUnreachable(o) BY <2>7 DEF WhoamiUnreachable
  <2>8. CASE SessionStored(o) BY <2>8 DEF SessionStored, StoresSession, NoLongerPending, Settles
  <2>9. CASE OpenFails(o) BY <2>9 DEF OpenFails, NoLongerPending, Ends, KubectlGone, Settles
  <2>10. CASE ReopenOnSession(o) BY <2>10 DEF ReopenOnSession, Ends, KubectlGone, Settles
  <2>11. CASE ReopenJoinsOpen(o) BY <2>11 DEF ReopenJoinsOpen, Ends, KubectlGone
  <2>12. CASE ReopenStarts(o) BY <2>12 DEF ReopenStarts, Starts, Resolves, KubectlGone
  <2> QED BY <1>4, <2>2, <2>3, <2>4, <2>5, <2>6, <2>7, <2>8, <2>9, <2>10, <2>11, <2>12 DEF OpenGoesOn
<1>5. ASSUME NEW o \in Opens, KubectlExits(o) PROVE TypeOK'
  BY <1>5 DEF KubectlExits, KubectlGone, callVars
<1>6. CASE CredentialsChange
  BY <1>2, <1>6 DEF CredentialsChange, SetManualCredentials, callVars
<1>7. CASE UserCloses
  <2>1. CASE CloseAll BY <1>2, <2>1 DEF CloseAll, callVars
  <2>2. ASSUME NEW k \in Keys, CloseTarget(k) PROVE TypeOK'
    BY <1>2, <2>2 DEF CloseTarget, callVars
  <2> QED BY <1>7, <2>1, <2>2 DEF UserCloses
<1>8. ASSUME NEW k \in Keys, IdleExpires(k) PROVE TypeOK'
  BY <1>2, <1>8 DEF IdleExpires, callVars
<1>9. ASSUME NEW k \in Keys, NEW on \in BOOLEAN, SetWriteMode(k, on) PROVE TypeOK'
  BY <1>9 DEF SetWriteMode, openVars, callVars
<1>10. CASE UNCHANGED vars
  BY <1>10 DEF vars, openVars, callVars
<1> QED BY <1>1, <1>3, <1>4, <1>5, <1>6, <1>7, <1>8, <1>9, <1>10 DEF Next

(* The maps of a new manager have their types. *)
LEMMA TypeInit == Init => TypeOK
BY DEF Init, TypeOK

(* Every variable keeps its type. *)
THEOREM TypeCorrect == Spec => []TypeOK
<1> QED BY TypeInit, TypeStep, PTL DEF Spec

-----------------------------------------------------------------------------
(***************************************************************************)
(* The inductive invariant.  A lemma per kind of step, and in it a step    *)
(* per part of the invariant that such a step can disturb.                 *)
(***************************************************************************)

(* A request that arrives joins a session, joins an open or starts one: the invariant is kept. *)
LEMMA CallStep ==
    ASSUME Inv, TypeOK', NEW c \in Callers, NEW k \in Keys, Call(c, k) PROVE Inv'
<1> USE DEF Inv, TypeOK, PendingIsInFlight, SessionIsOpened, OpenedIsNotAborted, OneSessionPerKey
<1>1. CASE CallOnSession(c, k)
  BY <1>1 DEF CallOnSession, Asks, openVars, SessionUsesCurrentCredentials, NoOrphanKubectl,
              SessionHasIdleTimer, WaitsForAnOpen
<1>2. CASE CallJoinsOpen(c, k)
  <2> USE <1>2 DEF CallJoinsOpen, Asks, openVars
  <2>1. WaitsForAnOpen'
    BY DEF WaitsForAnOpen
  <2> QED BY <2>1 DEF SessionUsesCurrentCredentials, NoOrphanKubectl, SessionHasIdleTimer
<1>3. ASSUME NEW o \in Opens, CallOpens(c, k, o) PROVE Inv'
  <2> USE <1>3 DEF CallOpens, Asks, Starts, Resolves
  <2>1. PendingIsInFlight' OBVIOUS
  <2>2. SessionIsOpened' /\ OpenedIsNotAborted' OBVIOUS
  <2>3. OneSessionPerKey' OBVIOUS
  <2>4. SessionUsesCurrentCredentials' BY DEF SessionUsesCurrentCredentials
  <2>5. NoOrphanKubectl' BY DEF NoOrphanKubectl
  <2>6. SessionHasIdleTimer' BY DEF SessionHasIdleTimer
  <2>7. WaitsForAnOpen' BY DEF WaitsForAnOpen
  <2> QED BY <2>1, <2>2, <2>3, <2>4, <2>5, <2>6, <2>7
<1> QED BY <1>1, <1>2, <1>3 DEF Call

(* close(), with what the handlers that call it do besides: they change the credentials of a key *)
(* only if they close it, or if there is nothing to close, and no request begins to wait.         *)
LEMMA CloseStep ==
    ASSUME Inv, TypeOK', NEW K \in SUBSET Keys, NEW why \in {"closed", "reopen"}, Close(K, why),
           \A k \in Keys \ K : sessions[k] # None \/ pending[k] # None => manual'[k] = manual[k],
           \A c \in Callers : call'[c] = "opening" => call[c] = "opening",
           wants' = wants, awaits' = awaits
    PROVE  Inv'
<1> USE DEF Inv, TypeOK, PendingIsInFlight, SessionIsOpened, OpenedIsNotAborted,
            Close, Without, Disarmed, ClosedStage, ClosedReason, ClosedAlive, Stored, Opening
<1>1. PendingIsInFlight' OBVIOUS
<1>2. SessionIsOpened' OBVIOUS
<1>3. OpenedIsNotAborted' OBVIOUS
<1>4. OneSessionPerKey' BY DEF OneSessionPerKey
<1>5. SessionUsesCurrentCredentials' BY DEF SessionUsesCurrentCredentials
<1>6. NoOrphanKubectl' BY DEF NoOrphanKubectl
<1>7. SessionHasIdleTimer' BY DEF SessionHasIdleTimer
<1>8. WaitsForAnOpen' BY DEF WaitsForAnOpen
<1> QED BY <1>1, <1>2, <1>3, <1>4, <1>5, <1>6, <1>7, <1>8

(* The retry on a stale tunnel closes the session and opens again (withSession): the invariant is kept. *)
LEMMA RetryStep ==
    ASSUME Inv, TypeOK', NEW c \in Callers, NEW o \in Opens, FnRetries(c, o) PROVE Inv'
<1> DEFINE k == wants[c]
<1> USE DEF Inv, TypeOK, PendingIsInFlight, SessionIsOpened, OpenedIsNotAborted, FnRetries, Reopens, Starts, Resolves,
            Without, Disarmed, ClosedStage, ClosedReason, ClosedAlive, Stored, Opening
<1>1. ASSUME NEW p \in Opens, p # o
      PROVE  /\ stage'[p] = IF sessions[k] = p THEN "free" ELSE stage[p]
             /\ reason'[p] = IF pending[k] = p THEN "closed" ELSE reason[p]
             /\ key'[p] = key[p] /\ cred'[p] = cred[p]
  BY <1>1
<1>2. /\ stage'[o] = "credentials" /\ reason'[o] = "none" /\ key'[o] = k /\ cred'[o] = manual[k]
      /\ \A j \in Keys : sessions[j] # o /\ pending[j] # o
      /\ o \notin alive
  BY DEF NoOrphanKubectl
<1>3. PendingIsInFlight'
  <2> SUFFICES ASSUME NEW j \in Keys, NEW p \in Opens
               PROVE  (pending[j] = p <=> key[p] = j /\ stage[p] \in InFlight /\ reason[p] = "none")'
    BY DEF PendingIsInFlight
  <2>1. CASE p = o BY <1>2, <2>1
  <2>2. CASE p # o BY <1>1, <2>2
  <2> QED BY <2>1, <2>2
<1>4. SessionIsOpened' OBVIOUS
<1>5. OpenedIsNotAborted' OBVIOUS
<1>6. OneSessionPerKey' BY DEF OneSessionPerKey
<1>7. SessionUsesCurrentCredentials' BY DEF SessionUsesCurrentCredentials
<1>8. NoOrphanKubectl'
  <2> SUFFICES ASSUME NEW p \in alive' PROVE (stage[p] \in WithKubectl \/ sessions[key[p]] = p)'
    BY DEF NoOrphanKubectl
  <2>1. p \in alive /\ p \in Opens /\ p # o /\ sessions[k] # p
    BY <1>2
  <2>2. stage'[p] = stage[p] /\ key'[p] = key[p]
    BY <1>1, <2>1
  <2> QED BY <2>1, <2>2 DEF NoOrphanKubectl
<1>9. SessionHasIdleTimer' BY DEF SessionHasIdleTimer
<1>10. WaitsForAnOpen'
  <2> SUFFICES ASSUME NEW d \in Callers, call'[d] = "opening"
               PROVE  (\E p \in Opens : awaits[d] = p /\ stage[p] \in InFlight /\ key[p] = wants[d])'
    BY DEF WaitsForAnOpen
  <2>1. CASE d = c BY <1>2, <2>1
  <2>2. CASE d # c
    <3>1. PICK p \in Opens : awaits[d] = p /\ stage[p] \in InFlight /\ key[p] = wants[d]
      BY <2>2 DEF WaitsForAnOpen
    <3>2. p # o /\ sessions[k] # p
      BY <3>1
    <3>3. stage'[p] = stage[p] /\ key'[p] = key[p]
      BY <1>1, <3>2
    <3> QED BY <2>2, <3>1, <3>3
  <2> QED BY <2>1, <2>2
<1> QED BY <1>3, <1>4, <1>5, <1>6, <1>7, <1>8, <1>9, <1>10

(* However fn ends, the invariant is kept. *)
LEMMA FnStep == ASSUME Inv, TypeOK', NEW c \in Callers, FnEnds(c) PROVE Inv'
<1> USE DEF Inv, Finishes
<1>1. CASE FnSucceeds(c)
  BY <1>1 DEF FnSucceeds, openVars, TypeOK, PendingIsInFlight, SessionIsOpened, OpenedIsNotAborted,
              OneSessionPerKey, SessionUsesCurrentCredentials, NoOrphanKubectl, SessionHasIdleTimer,
              WaitsForAnOpen
<1>2. ASSUME NEW o \in Opens, FnRetries(c, o) PROVE Inv'
  BY <1>2, RetryStep
<1>3. CASE FnUnauthorized(c)
  BY <1>3, CloseStep DEF FnUnauthorized, TypeOK
<1>4. CASE FnFails(c)
  BY <1>4 DEF FnFails, openVars, TypeOK, PendingIsInFlight, SessionIsOpened, OpenedIsNotAborted,
              OneSessionPerKey, SessionUsesCurrentCredentials, NoOrphanKubectl, SessionHasIdleTimer,
              WaitsForAnOpen
<1> QED BY <1>1, <1>2, <1>3, <1>4 DEF FnEnds

(* The steps of open() that only move it to its next await. *)
LEMMA AdvanceStep ==
    ASSUME Inv, TypeOK', NEW o \in Opens, NEW from \in InFlight, NEW to \in InFlight,
           Advances(o, from, to),
           \/ alive' = alive /\ (from \in WithKubectl => to \in WithKubectl)
           \/ alive' = alive \cup {o} /\ to \in WithKubectl
    PROVE  Inv'
<1> USE DEF Inv, TypeOK, PendingIsInFlight, SessionIsOpened, OpenedIsNotAborted, Advances, callVars
<1>1. PendingIsInFlight' OBVIOUS
<1>2. SessionIsOpened' OBVIOUS
<1>3. OpenedIsNotAborted' OBVIOUS
<1>4. OneSessionPerKey' BY DEF OneSessionPerKey
<1>5. SessionUsesCurrentCredentials' BY DEF SessionUsesCurrentCredentials
<1>6. NoOrphanKubectl' BY DEF NoOrphanKubectl
<1>7. SessionHasIdleTimer' BY DEF SessionHasIdleTimer
<1>8. WaitsForAnOpen' BY DEF WaitsForAnOpen
<1> QED BY <1>1, <1>2, <1>3, <1>4, <1>5, <1>6, <1>7, <1>8

(* An open that ends without a session: its promise rejects, or settles with that of another. *)
LEMMA EndStep ==
    ASSUME Inv, TypeOK', NEW o \in Opens, Rejects(o), Ends(o), Awaiting(o) \in SUBSET Callers,
           UNCHANGED <<sessions, manual, timer, wants>>,
           pending' = [k \in Keys |-> IF pending[k] = o THEN None ELSE pending[k]],
           \A c \in Callers : call'[c] = "opening" =>
               /\ call[c] = "opening"
               /\ \/ c \notin Awaiting(o) /\ awaits'[c] = awaits[c]
                  \/ c \in Awaiting(o) /\ pending[key[o]] \notin {None, o} /\ awaits'[c] = pending[key[o]]
    PROVE  Inv'
<1> USE DEF Inv, TypeOK, PendingIsInFlight, SessionIsOpened, OpenedIsNotAborted, Rejects, Ends, KubectlGone
<1>1. PendingIsInFlight' OBVIOUS
<1>2. SessionIsOpened' OBVIOUS
<1>3. OpenedIsNotAborted' OBVIOUS
<1>4. OneSessionPerKey' BY DEF OneSessionPerKey
<1>5. SessionUsesCurrentCredentials' BY DEF SessionUsesCurrentCredentials
<1>6. NoOrphanKubectl' BY DEF NoOrphanKubectl
<1>7. SessionHasIdleTimer' BY DEF SessionHasIdleTimer
<1>8. WaitsForAnOpen' BY DEF WaitsForAnOpen, Awaiting
<1> QED BY <1>1, <1>2, <1>3, <1>4, <1>5, <1>6, <1>7, <1>8

(* However a run of open() goes on or ends, the invariant is kept. *)
LEMMA OpenStep == ASSUME Inv, TypeOK', NEW o \in Opens, OpenGoesOn(o) PROVE Inv'
<1> USE DEF Inv, TypeOK, PendingIsInFlight, SessionIsOpened, OpenedIsNotAborted
<1>1. CASE \/ CredentialsResolved(o) \/ PodLocated(o) \/ KubectlSpawned(o)
           \/ TunnelReady(o) \/ TunnelTaken(o)
  BY <1>1, AdvanceStep DEF CredentialsResolved, PodLocated, KubectlSpawned, TunnelReady, TunnelTaken
<1>2. CASE WhoamiUnreachable(o)
  BY <1>2 DEF WhoamiUnreachable, callVars, OneSessionPerKey, SessionUsesCurrentCredentials,
              NoOrphanKubectl, SessionHasIdleTimer, WaitsForAnOpen
<1>3. CASE SessionStored(o)
  <2> USE <1>3 DEF SessionStored, StoresSession, NoLongerPending, Settles, Awaiting
  <2>1. PendingIsInFlight' OBVIOUS
  <2>2. SessionIsOpened' BY DEF OneSessionPerKey
  <2>3. OpenedIsNotAborted' OBVIOUS
  <2>4. OneSessionPerKey' BY DEF OneSessionPerKey
  <2>5. SessionUsesCurrentCredentials' BY DEF SessionUsesCurrentCredentials
  <2>6. NoOrphanKubectl' BY DEF NoOrphanKubectl, OneSessionPerKey
  <2>7. SessionHasIdleTimer' BY DEF SessionHasIdleTimer
  <2>8. WaitsForAnOpen' BY DEF WaitsForAnOpen
  <2> QED BY <2>1, <2>2, <2>3, <2>4, <2>5, <2>6, <2>7, <2>8
<1>4. CASE OpenFails(o)
  BY <1>4, EndStep DEF OpenFails, NoLongerPending, Settles, Awaiting
<1>5. CASE ReopenOnSession(o)
  <2>1. \A k \in Keys : pending[k] # o
    BY <1>5 DEF ReopenOnSession
  <2> QED BY <1>5, <2>1, EndStep DEF ReopenOnSession, Settles, Awaiting
<1>6. CASE ReopenJoinsOpen(o)
  <2>1. \A k \in Keys : pending[k] # o
    BY <1>6 DEF ReopenJoinsOpen
  <2> QED BY <1>6, <2>1, EndStep DEF ReopenJoinsOpen, Awaiting
<1>7. CASE ReopenStarts(o)
  <2> USE <1>7 DEF ReopenStarts, Rejects, Starts, Resolves, KubectlGone, callVars
  <2>1. PendingIsInFlight' OBVIOUS
  <2>2. SessionIsOpened' OBVIOUS
  <2>3. OpenedIsNotAborted' OBVIOUS
  <2>4. OneSessionPerKey' BY DEF OneSessionPerKey
  <2>5. SessionUsesCurrentCredentials' BY DEF SessionUsesCurrentCredentials
  <2>6. NoOrphanKubectl' BY DEF NoOrphanKubectl
  <2>7. SessionHasIdleTimer' BY DEF SessionHasIdleTimer
  <2>8. WaitsForAnOpen' BY DEF WaitsForAnOpen
  <2> QED BY <2>1, <2>2, <2>3, <2>4, <2>5, <2>6, <2>7, <2>8
<1> QED BY <1>1, <1>2, <1>3, <1>4, <1>5, <1>6, <1>7 DEF OpenGoesOn

(* Inv is inductive: every handler, callback and step of open() keeps it. *)
LEMMA InvStep == Inv /\ [Next]_vars => Inv'
<1> SUFFICES ASSUME Inv, [Next]_vars PROVE Inv'
  OBVIOUS
<1>0. TypeOK /\ TypeOK'
  BY TypeStep DEF Inv
<1>1. ASSUME NEW c \in Callers, NEW k \in Keys, Call(c, k) PROVE Inv'
  BY <1>0, <1>1, CallStep
<1>2. ASSUME NEW c \in Callers, FnEnds(c) PROVE Inv'
  BY <1>0, <1>2, FnStep
<1>3. ASSUME NEW o \in Opens, OpenGoesOn(o) PROVE Inv'
  BY <1>0, <1>3, OpenStep
<1>4. ASSUME NEW o \in Opens, KubectlExits(o) PROVE Inv'
  BY <1>0, <1>4 DEF KubectlExits, KubectlGone, callVars, Inv, TypeOK, PendingIsInFlight, SessionIsOpened,
      OpenedIsNotAborted, OneSessionPerKey, SessionUsesCurrentCredentials, NoOrphanKubectl,
      SessionHasIdleTimer, WaitsForAnOpen
<1>5. CASE CredentialsChange
  BY <1>0, <1>5, CloseStep DEF CredentialsChange, SetManualCredentials, callVars, TypeOK
<1>6. CASE UserCloses
  <2>1. CASE CloseAll
    <3> DEFINE K == {k \in Keys : sessions[k] # None \/ pending[k] # None}
    <3>1. Close(K, "closed") /\ UNCHANGED callVars
      BY <2>1 DEF CloseAll
    <3>2. \A k \in Keys \ K : sessions[k] = None /\ pending[k] = None
      OBVIOUS
    <3> HIDE DEF K
    <3>3. K \in SUBSET Keys
      BY DEF K
    <3> QED BY <1>0, <3>1, <3>2, <3>3, CloseStep DEF callVars
  <2>2. ASSUME NEW k \in Keys, CloseTarget(k) PROVE Inv'
    BY <1>0, <2>2, CloseStep DEF CloseTarget, callVars, TypeOK
  <2> QED BY <1>6, <2>1, <2>2 DEF UserCloses
<1>7. ASSUME NEW k \in Keys, IdleExpires(k) PROVE Inv'
  BY <1>0, <1>7, CloseStep DEF IdleExpires, callVars, TypeOK
<1>8. CASE \/ UNCHANGED vars
           \/ \E k \in Keys, on \in BOOLEAN : SetWriteMode(k, on)
  BY <1>0, <1>8 DEF SetWriteMode, vars, openVars, callVars, Inv, TypeOK, PendingIsInFlight,
      SessionIsOpened, OpenedIsNotAborted, OneSessionPerKey, SessionUsesCurrentCredentials,
      NoOrphanKubectl, SessionHasIdleTimer, WaitsForAnOpen
<1> QED BY <1>1, <1>2, <1>3, <1>4, <1>5, <1>6, <1>7, <1>8 DEF Next

(* In every reachable state the maps of the class and the opens agree. *)
THEOREM InvCorrect == Spec => []Inv
<1>1. Init => Inv
  BY TypeInit DEF Init, Inv, TypeOK, PendingIsInFlight, SessionIsOpened, OpenedIsNotAborted,
      OneSessionPerKey, SessionUsesCurrentCredentials, NoOrphanKubectl, SessionHasIdleTimer, WaitsForAnOpen
<1> QED BY <1>1, InvStep, PTL DEF Spec

(* A target has a session or an open in flight, never both (getOrOpen). *)
THEOREM OneSession == Spec => []OneSessionPerKey
<1> QED BY InvCorrect, PTL DEF Inv

(* No request is ever given a session of credentials that were replaced or cleared. *)
THEOREM CurrentCredentials == Spec => []SessionUsesCurrentCredentials
<1> QED BY InvCorrect, PTL DEF Inv

(* Every kubectl is owned by an open in flight or by the stored session of its key. *)
THEOREM NoOrphan == Spec => []NoOrphanKubectl
<1> QED BY InvCorrect, PTL DEF Inv

(* No session escapes the idle timer. *)
THEOREM IdleTimer == Spec => []SessionHasIdleTimer
<1> QED BY InvCorrect, PTL DEF Inv

(* A request only waits for an open of its own target that is in flight. *)
THEOREM WaitsCorrect == Spec => []WaitsForAnOpen
<1> QED BY InvCorrect, PTL DEF Inv

-----------------------------------------------------------------------------
(* SessionManager implements AbstractSessions. *)

(* Under the invariant the mapped session is read off the maps, without the runs of open(). *)
LEMMA SessionCredentialsAre ==
    ASSUME Inv
    PROVE  SessionCredentials = [k \in Keys |-> IF sessions[k] = None THEN {} ELSE {manual[k]}]
<1>1. ASSUME NEW k \in Keys, sessions[k] # None PROVE cred[sessions[k]] = manual[k]
  BY <1>1 DEF Inv, TypeOK, SessionUsesCurrentCredentials
<1> QED BY <1>1 DEF SessionCredentials

(* Which phases of the promise a request that runs fn, or waits for an open, may be in. *)
LEMMA PhaseFacts ==
    /\ PhaseOf("idle") = "idle" /\ PhaseOf("opening") = "waiting" /\ PhaseOf("running") = "served"
    /\ TypeOK => \A c \in Callers :
         /\ Phase[c] = "idle" <=> call[c] = "idle"
         /\ Phase[c] = "waiting" <=> call[c] = "opening"
         /\ Phase[c] = "served" <=> call[c] = "running"
<1>1. PhaseOf("idle") = "idle" /\ PhaseOf("opening") = "waiting" /\ PhaseOf("running") = "served"
  BY DEF PhaseOf
<1>2. ASSUME TypeOK, NEW c \in Callers
      PROVE  /\ Phase[c] = "idle" <=> call[c] = "idle"
             /\ Phase[c] = "waiting" <=> call[c] = "opening"
             /\ Phase[c] = "served" <=> call[c] = "running"
  <2>1. Phase[c] = PhaseOf(call[c]) BY DEF Phase
  <2>2. call[c] \in {"idle", "opening", "running"} BY <1>2 DEF TypeOK
  <2> QED BY <1>1, <2>1, <2>2
<1> QED BY <1>1, <1>2

(* Some requests move to another phase and the others keep theirs. *)
LEMMA MovesOf ==
    ASSUME NEW W \in SUBSET Callers, NEW how \in {"idle", "opening", "running"}, TypeOK, TypeOK',
           call' = [c \in Callers |-> IF c \in W THEN how ELSE call[c]],
           retried' = [c \in Callers |-> retried[c] /\ (c \in W => how # "idle")]
    PROVE  Promise!Moves(W, PhaseOf(how))
<1>1. Phase' = [c \in Callers |-> IF c \in W THEN PhaseOf(how) ELSE Phase[c]]
  BY DEF Phase, TypeOK
<1>2. PhaseOf(how) # "idle" <=> how # "idle"
  BY PhaseFacts
<1> QED BY <1>1, <1>2 DEF Promise!Moves

(* A new manager is a promise to nobody. *)
LEMMA PromiseInit == Init => Promise!Init
BY DEF Init, Promise!Init, SessionCredentials, Phase, PhaseOf

(* A step of the manager is a step of the promise, or leaves its variables alone. *)
LEMMA PromiseStep == Inv /\ Inv' /\ [Next]_vars => Promise!Next \/ UNCHANGED Promise!vars
<1> SUFFICES ASSUME Inv, Inv', [Next]_vars PROVE Promise!Next \/ UNCHANGED Promise!vars
  OBVIOUS
<1> DEFINE L == [k \in Keys |-> IF sessions[k] = None THEN {} ELSE {manual[k]}]
<1>a. SessionCredentials = L /\ (SessionCredentials = L)'
  BY SessionCredentialsAre, PTL
<1>b. TypeOK /\ TypeOK'
  BY DEF Inv
<1>c. ASSUME call' = call PROVE Phase' = Phase
  BY <1>c DEF Phase
<1>d. ASSUME NEW K \in SUBSET Keys, sessions' = Without(sessions, K),
             \A k \in Keys \ K : sessions[k] # None => manual'[k] = manual[k]
      PROVE  SessionCredentials' = [k \in Keys |-> IF k \in K THEN {} ELSE SessionCredentials[k]]
  <2>1. L' = [k \in Keys |-> IF k \in K THEN {} ELSE L[k]]
    BY <1>d DEF Without
  <2> QED BY <1>a, <2>1
<1>e. ASSUME NEW k \in Keys, sessions' = Without(sessions, {k}),
             \A j \in Keys \ {k} : manual'[j] = manual[j]
      PROVE  SessionCredentials' = [SessionCredentials EXCEPT ![k] = {}]
  <2>1. SessionCredentials' = [j \in Keys |-> IF j \in {k} THEN {} ELSE SessionCredentials[j]]
    BY <1>d, <1>e
  <2> QED BY <1>a, <2>1
<1>1. ASSUME NEW c \in Callers, NEW k \in Keys, Call(c, k) PROVE Promise!Next
  <2> DEFINE how == IF sessions[k] = None THEN "opening" ELSE "running"
  <2>1. call[c] = "idle" /\ wants' = [wants EXCEPT ![c] = k] /\ UNCHANGED <<sessions, manual, retried>>
    BY <1>1 DEF Call, CallOnSession, CallJoinsOpen, CallOpens, Asks
  <2>2. call' = [call EXCEPT ![c] = how]
    BY <1>1 DEF Call, CallOnSession, CallJoinsOpen, CallOpens, Asks
  <2>3. Promise!Moves({c}, PhaseOf(how))
    <3>1. call' = [d \in Callers |-> IF d \in {c} THEN how ELSE call[d]]
      BY <1>b, <2>2 DEF TypeOK
    <3>2. retried' = [d \in Callers |-> retried[d] /\ (d \in {c} => how # "idle")]
      BY <1>b, <2>1 DEF TypeOK
    <3> QED BY <1>b, <3>1, <3>2, MovesOf
  <2>4. PhaseOf(how) = IF SessionCredentials[k] = {} THEN "waiting" ELSE "served"
    BY <1>a, PhaseFacts
  <2>5. SessionCredentials' = SessionCredentials
    BY <1>a, <2>1
  <2>6. Promise!Ask(c, k)
    BY <1>b, <2>1, <2>3, <2>4, <2>5, PhaseFacts DEF Promise!Ask
  <2> QED BY <2>6 DEF Promise!Next
<1>2. ASSUME NEW c \in Callers, FnEnds(c) PROVE Promise!Next
  <2>1. CASE FnSucceeds(c) \/ FnUnauthorized(c) \/ FnFails(c)
    <3>1. call[c] = "running" /\ Finishes(c)
      BY <2>1 DEF FnSucceeds, FnUnauthorized, FnFails
    <3>a. Phase[c] = "served" /\ UNCHANGED <<manual, wants>>
      BY <1>b, <3>1, PhaseFacts DEF Finishes
    <3>2. Promise!Moves({c}, "idle")
      <4>1. /\ call' = [d \in Callers |-> IF d \in {c} THEN "idle" ELSE call[d]]
            /\ retried' = [d \in Callers |-> retried[d] /\ (d \in {c} => "idle" # "idle")]
        BY <1>b, <3>1 DEF Finishes, TypeOK
      <4> QED BY <1>b, <4>1, MovesOf, PhaseFacts
    <3>3. CASE FnUnauthorized(c)
      <4>1. SessionCredentials' = [SessionCredentials EXCEPT ![wants[c]] = {}]
        BY <1>b, <1>e, <3>a, <3>3 DEF FnUnauthorized, Close, TypeOK
      <4>2. ~retried[c]
        BY <3>3 DEF FnUnauthorized
      <4>3. Promise!Answer(c, TRUE)
        BY <3>a, <3>2, <4>1, <4>2 DEF Promise!Answer
      <4> QED BY <4>3 DEF Promise!Next
    <3>4. CASE FnSucceeds(c) \/ FnFails(c)
      <4>1. SessionCredentials' = SessionCredentials
        BY <1>a, <3>1, <3>4 DEF FnSucceeds, FnFails, Finishes
      <4>2. Promise!Answer(c, FALSE)
        BY <3>a, <3>2, <4>1 DEF Promise!Answer
      <4> QED BY <4>2 DEF Promise!Next
    <3> QED BY <2>1, <3>3, <3>4
  <2>2. ASSUME NEW o \in Opens, FnRetries(c, o) PROVE Promise!AskAgain(c)
    <3>1. SessionCredentials' = [SessionCredentials EXCEPT ![wants[c]] = {}]
      BY <1>b, <1>e, <2>2 DEF FnRetries, Reopens, TypeOK
    <3>2. Phase' = [Phase EXCEPT ![c] = "waiting"]
      BY <1>b, <2>2, PhaseFacts DEF FnRetries, Reopens, Phase, TypeOK
    <3>3. Phase[c] = "served"
      BY <1>b, <2>2, PhaseFacts DEF FnRetries, Reopens
    <3>4. ~retried[c] /\ retried' = [retried EXCEPT ![c] = TRUE] /\ UNCHANGED <<manual, wants>>
      BY <2>2 DEF FnRetries, Reopens
    <3> QED BY <3>1, <3>2, <3>3, <3>4 DEF Promise!AskAgain
  <2> QED BY <1>2, <2>1, <2>2 DEF FnEnds, Promise!Next
<1>3. ASSUME NEW o \in Opens, OpenGoesOn(o) PROVE Promise!Next \/ UNCHANGED Promise!vars
  <2>1. Awaiting(o) \in SUBSET Promise!Waiting(key[o])
    <3>1. ASSUME NEW c \in Awaiting(o) PROVE c \in Callers /\ Phase[c] = "waiting" /\ wants[c] = key[o]
      BY <1>b, PhaseFacts DEF Inv, WaitsForAnOpen, Awaiting
    <3> QED BY <3>1 DEF Promise!Waiting
  <2>2. ASSUME NEW how \in {"idle", "running"}, Settles(o, how)
        PROVE  Promise!Moves(Awaiting(o), PhaseOf(how)) /\ wants' = wants
    BY <1>b, <2>2, MovesOf DEF Settles, Awaiting
  <2>3. CASE SessionStored(o)
    <3>1. sessions[key[o]] = None
      BY <1>b, <2>3 DEF SessionStored, StoresSession, NoLongerPending, Inv, PendingIsInFlight, OneSessionPerKey, TypeOK
    <3>2. /\ SessionCredentials[key[o]] = {}
          /\ SessionCredentials' = [SessionCredentials EXCEPT ![key[o]] = {manual[key[o]]}]
      <4>1. key[o] \in Keys /\ o # None
        BY <1>b DEF TypeOK
      <4>2. sessions' = [sessions EXCEPT ![key[o]] = o] /\ manual' = manual
        BY <2>3 DEF SessionStored, StoresSession, NoLongerPending
      <4>3. L[key[o]] = {} /\ L' = [L EXCEPT ![key[o]] = {manual[key[o]]}]
        BY <1>b, <3>1, <4>1, <4>2 DEF TypeOK
      <4> QED BY <1>a, <4>3
    <3>3. Promise!Establish(key[o], Awaiting(o))
      BY <2>2, <2>3, <3>2, PhaseFacts DEF SessionStored, StoresSession, NoLongerPending, Promise!Establish
    <3> QED BY <1>b, <2>1, <3>3 DEF Promise!Next, TypeOK
  <2>4. CASE OpenFails(o)
    <3>1. SessionCredentials' = SessionCredentials
      BY <1>a, <2>4 DEF OpenFails, NoLongerPending
    <3>2. Promise!GiveUp(key[o], Awaiting(o))
      BY <2>2, <2>4, <3>1, PhaseFacts DEF OpenFails, NoLongerPending, Promise!GiveUp
    <3> QED BY <1>b, <2>1, <3>2 DEF Promise!Next, TypeOK
  <2>5. CASE ReopenOnSession(o)
    <3>1. SessionCredentials' = SessionCredentials /\ SessionCredentials[key[o]] # {}
      BY <1>a, <1>b, <2>5 DEF ReopenOnSession, TypeOK
    <3>2. Promise!ServeLate(key[o], Awaiting(o))
      BY <2>2, <2>5, <3>1, PhaseFacts DEF ReopenOnSession, Promise!ServeLate
    <3> QED BY <1>b, <2>1, <3>2 DEF Promise!Next, TypeOK
  <2>6. CASE ReopenJoinsOpen(o) \/ ReopenStarts(o) \/ WhoamiUnreachable(o)
    BY <1>a, <1>c, <2>6 DEF ReopenJoinsOpen, ReopenStarts, WhoamiUnreachable, callVars, Promise!vars
  <2>7. CASE \/ CredentialsResolved(o) \/ PodLocated(o) \/ KubectlSpawned(o)
             \/ TunnelReady(o) \/ TunnelTaken(o)
    BY <1>a, <1>c, <2>7 DEF CredentialsResolved, PodLocated, KubectlSpawned, TunnelReady, TunnelTaken,
       Advances, callVars, Promise!vars
  <2> QED BY <1>3, <2>3, <2>4, <2>5, <2>6, <2>7 DEF OpenGoesOn
<1>4. ASSUME NEW o \in Opens, KubectlExits(o) PROVE UNCHANGED Promise!vars
  BY <1>a, <1>c, <1>4 DEF KubectlExits, callVars, Promise!vars
<1>5. ASSUME NEW k \in Keys, NEW cr \in Creds, SetManualCredentials(k, cr) PROVE Promise!Next
  <2>1. SessionCredentials' = [SessionCredentials EXCEPT ![k] = {}]
    BY <1>b, <1>e, <1>5 DEF SetManualCredentials, Close, TypeOK
  <2>2. Promise!ChangeCredentials(k, cr)
    BY <1>5, <1>c, <2>1 DEF SetManualCredentials, callVars, Promise!ChangeCredentials
  <2> QED BY <2>2 DEF Promise!Next
<1>6. ASSUME NEW k \in Keys, CloseTarget(k) \/ IdleExpires(k) PROVE Promise!Next
  <2>1. SessionCredentials' = [SessionCredentials EXCEPT ![k] = {}]
    BY <1>b, <1>e, <1>6 DEF CloseTarget, IdleExpires, Close, TypeOK
  <2>2. Promise!Drop(k)
    BY <1>6, <1>c, <2>1 DEF CloseTarget, IdleExpires, callVars, Promise!Drop
  <2> QED BY <2>2 DEF Promise!Next
<1>7. CASE CloseAll
  <2>1. SessionCredentials' = [k \in Keys |-> {}]
    BY <1>a, <1>b, <1>7 DEF CloseAll, Close, Without, TypeOK
  <2>2. Promise!DropAll
    BY <1>7, <1>c, <2>1 DEF CloseAll, callVars, Promise!DropAll
  <2> QED BY <2>2 DEF Promise!Next
<1>8. CASE \/ UNCHANGED vars
           \/ \E k \in Keys, on \in BOOLEAN : SetWriteMode(k, on)
  BY <1>a, <1>c, <1>8 DEF SetWriteMode, vars, openVars, callVars, Promise!vars
<1> QED BY <1>1, <1>2, <1>3, <1>4, <1>5, <1>6, <1>7, <1>8 DEF Next, CredentialsChange, UserCloses

(* The manager keeps the promise of AbstractSessions, for any number of targets and requests. *)
THEOREM KeepsPromise == Spec => ImplementsPromise
<1>1. Inv /\ Inv' /\ [Next]_vars => [Promise!Next]_(Promise!vars)
  BY PromiseStep
<1> QED BY <1>1, PromiseInit, InvCorrect, PTL DEF Spec, ImplementsPromise, Promise!Spec
=============================================================================

--------------------------- MODULE WriteRequests ---------------------------
(***************************************************************************)
(* The mutating handlers of RabbitmqIpcMain (src/main/ipc.ts) composed     *)
(* with the session manager, taken by its promise (AbstractSessions), and  *)
(* with a broker behind a tunnel that may break at any moment: the Write   *)
(* Mode gate, the retry of withSession and the replay of dead letters.     *)
(* A request is one call of a handler.  A publish stands for a purge too,  *)
(* which the broker also carries out each time it is asked.                *)
(***************************************************************************)
EXTENDS Naturals, Sequences, FiniteSets

CONSTANTS
    Keys, Callers, Creds, Hint,  \* as in AbstractSessions
    Batch                        \* the messages of a replay: TRUE for one that can be replayed

ASSUME CredsAssumption == Hint \in Creds
ASSUME BatchAssumption == Batch \in Seq(BOOLEAN) /\ Batch # <<>>

VARIABLES
    inForce, live, phase, target, again,  \* the sessions: see AbstractSessions
    writeMode,  \* the targets whose Write Mode is on, in the session manager
    armed,      \* of a request: whether Write Mode was on for its target when it came
    kind,       \* "none" before the request, "publish", "delete" or "replay"
    at,         \* fn: 0 before it runs, else the message of the batch it is at; a single write is message 1
    request,    \* the HTTP request fn awaits: "none", "sent", or the broker's answer
    late,       \* requests fn no longer awaits and the broker may still get, per message
    effects,    \* how often the broker carried a message's request out
    report,     \* of a replay: the outcomes so far
    result      \* of the call: "none" yet, "done", "failed", or "blocked" by the gate

sessionVars == <<inForce, live, phase, target, again>>
fnVars == <<at, request, late, effects, report>>
vars == <<sessionVars, writeMode, armed, kind, fnVars, result>>

Sessions == INSTANCE AbstractSessions

Items == 1..Len(Batch)
Kinds == {"publish", "delete", "replay"}
Answers == {"routed", "unroutable", "refused", "unauthorized"}

TypeOK ==
    /\ inForce \in [Keys -> Creds]
    /\ live \in [Keys -> SUBSET Creds]
    /\ phase \in [Callers -> {"idle", "waiting", "served"}]
    /\ target \in [Callers -> Keys]
    /\ again \in [Callers -> BOOLEAN]
    /\ writeMode \in SUBSET Keys
    /\ armed \in [Callers -> BOOLEAN]
    /\ kind \in [Callers -> Kinds \cup {"none"}]
    /\ at \in [Callers -> 0..Len(Batch) + 1]
    /\ request \in [Callers -> {"none", "sent"} \cup Answers]
    /\ late \in [Callers -> [Items -> Nat]]
    /\ effects \in [Callers -> [Items -> Nat]]
    /\ report \in [Callers -> Seq({"routed", "unroutable", "skipped", "failed"})]
    /\ result \in [Callers -> {"none", "done", "failed", "blocked"}]

Init ==
    /\ Sessions!Init
    /\ writeMode = {}
    /\ armed = [c \in Callers |-> FALSE]
    /\ kind = [c \in Callers |-> "none"]
    /\ at = [c \in Callers |-> 0]
    /\ request = [c \in Callers |-> "none"]
    /\ late = [c \in Callers |-> [i \in Items |-> 0]]
    /\ effects = [c \in Callers |-> [i \in Items |-> 0]]
    /\ report = [c \in Callers |-> <<>>]
    /\ result = [c \in Callers |-> "none"]

Set(f, c, v) == [f EXCEPT ![c] = v]

-----------------------------------------------------------------------------
(* Mutant: the handler trusts the renderer's copy of Write Mode. *)
ComesUngated(c, k, kd) ==
    /\ kind[c] = "none"
    /\ kind' = Set(kind, c, kd)
    /\ armed' = Set(armed, c, k \in writeMode)
    /\ Sessions!Ask(c, k)
    /\ UNCHANGED <<writeMode, fnVars, result>>

(* A handler is called: the gate is asserted before the session is asked for. *)
Comes(c, k, kd) ==
    /\ kind[c] = "none"
    /\ kind' = Set(kind, c, kd)
    /\ armed' = Set(armed, c, k \in writeMode)
    /\ IF k \in writeMode
       THEN Sessions!Ask(c, k) /\ UNCHANGED result
       ELSE result' = Set(result, c, "blocked") /\ UNCHANGED sessionVars
    /\ UNCHANGED <<writeMode, fnVars>>

(* fn ends the call. *)
Ends(c, how, drops) ==
    /\ result' = Set(result, c, how)
    /\ Sessions!Answer(c, drops)

Runs(c) == phase[c] = "served" /\ request[c] = "none"

(* fn begins: a single write sends its request; a replay asserts the gate again before its first message. *)
Begins(c) ==
    /\ Runs(c) /\ at[c] = 0
    /\ IF kind[c] = "replay" /\ target[c] \notin writeMode
       THEN Ends(c, "blocked", FALSE) /\ UNCHANGED <<at, request>>
       ELSE /\ at' = Set(at, c, 1)
            /\ request' = Set(request, c, IF kind[c] = "replay" THEN "none" ELSE "sent")
            /\ UNCHANGED <<sessionVars, result>>
    /\ UNCHANGED <<writeMode, armed, kind, late, effects, report>>

(* The batch of a replay is empty or too large, or its destination is unknown. *)
RejectsBatch(c) ==
    /\ Runs(c) /\ kind[c] = "replay" /\ at[c] = 0 /\ target[c] \in writeMode
    /\ Ends(c, "failed", FALSE)
    /\ UNCHANGED <<writeMode, armed, kind, fnVars>>

(* Mutant: the gate is asserted before every message. *)
PublishesGated(c) ==
    /\ Runs(c) /\ kind[c] = "replay" /\ at[c] \in Items /\ Batch[at[c]]
    /\ IF target[c] \notin writeMode
       THEN Ends(c, "blocked", FALSE) /\ UNCHANGED request
       ELSE request' = Set(request, c, "sent") /\ UNCHANGED <<sessionVars, result>>
    /\ UNCHANGED <<writeMode, armed, kind, at, late, effects, report>>

(* The replay publishes a copy of the message it is at. *)
Publishes(c) ==
    /\ Runs(c) /\ kind[c] = "replay" /\ at[c] \in Items /\ Batch[at[c]]
    /\ request' = Set(request, c, "sent")
    /\ UNCHANGED <<sessionVars, writeMode, armed, kind, at, late, effects, report, result>>

(* A message's outcome is reported, and the replay goes on with the next. *)
Reports(c, outcome) ==
    /\ report' = Set(report, c, Append(report[c], outcome))
    /\ at' = Set(at, c, at[c] + 1)
    /\ request' = Set(request, c, "none")

(* A message that was truncated, or that has no destination, is not published. *)
Skips(c) ==
    /\ Runs(c) /\ kind[c] = "replay" /\ at[c] \in Items /\ ~Batch[at[c]]
    /\ Reports(c, "skipped")
    /\ UNCHANGED <<sessionVars, writeMode, armed, kind, late, effects, result>>

ReplayEnds(c) ==
    /\ Runs(c) /\ kind[c] = "replay" /\ at[c] = Len(Batch) + 1
    /\ Ends(c, "done", FALSE)
    /\ UNCHANGED <<writeMode, armed, kind, fnVars>>

-----------------------------------------------------------------------------
(* The broker. *)

Carried(c, i) == [effects EXCEPT ![c][i] = @ + 1]

(* What a delete deletes is gone after the first. *)
CanCarry(c, i) == kind[c] = "delete" => effects[c][i] = 0

(* It gets the request fn awaits and carries it out, routes a copy nowhere, or refuses. *)
BrokerAnswers(c) ==
    /\ request[c] = "sent"
    /\ \/ /\ CanCarry(c, at[c])
          /\ effects' = Carried(c, at[c])
          /\ request' = Set(request, c, "routed")
       \/ /\ UNCHANGED effects
          /\ \E answer \in {"refused", "unauthorized"} \cup (IF kind[c] = "delete" THEN {} ELSE {"unroutable"}) :
                request' = Set(request, c, answer)
    /\ UNCHANGED <<sessionVars, writeMode, armed, kind, at, late, report, result>>

(* It gets a request whose connection broke or timed out meanwhile, or never gets it. *)
BrokerGetsLate(c, i) ==
    /\ late[c][i] > 0
    /\ late' = [late EXCEPT ![c][i] = @ - 1]
    /\ UNCHANGED effects \/ (CanCarry(c, i) /\ effects' = Carried(c, i))
    /\ UNCHANGED <<sessionVars, writeMode, armed, kind, at, request, report, result>>

-----------------------------------------------------------------------------
(* Mutant: an accepted copy counts as routed. *)
OutcomeAccepted(answer) == IF answer \in {"routed", "unroutable"} THEN "routed" ELSE "failed"

(* What a replay reports of a message the broker answered. *)
Outcome(answer) == IF answer \in {"routed", "unroutable"} THEN answer ELSE "failed"

(* The answer arrives. *)
Answered(c) ==
    /\ request[c] \in Answers
    /\ IF kind[c] = "replay"
       THEN /\ Reports(c, Outcome(request[c]))
            /\ UNCHANGED <<sessionVars, result>>
       ELSE /\ IF request[c] \in {"routed", "unroutable"}
               THEN Ends(c, "done", FALSE)
               ELSE Ends(c, "failed", request[c] = "unauthorized")
            /\ request' = Set(request, c, "none")
            /\ UNCHANGED <<at, report>>
    /\ UNCHANGED <<writeMode, armed, kind, late, effects>>

(* fn gives the request up; a request that was sent may still be on its way to the broker. *)
Abandons(c) == late' = IF request[c] = "sent" THEN [late EXCEPT ![c][at[c]] = @ + 1] ELSE late

(* Mutant: the error of a message ends the replay, so withSession retries it. *)
BreaksRetried(c) ==
    /\ request[c] # "none"
    /\ Abandons(c)
    /\ request' = Set(request, c, "none")
    /\ IF again[c]
       THEN Ends(c, "failed", FALSE) /\ UNCHANGED <<at, report>>
       ELSE /\ Sessions!AskAgain(c) /\ UNCHANGED result
            /\ at' = Set(at, c, 0) /\ report' = Set(report, c, <<>>)
    /\ UNCHANGED <<writeMode, armed, kind, effects>>

(* The connection breaks ("unreachable"): a replay reports it; withSession runs another write's fn again, *)
(* once, on another session.                                                                             *)
ConnectionBreaks(c) ==
    /\ request[c] # "none"
    /\ Abandons(c)
    /\ IF kind[c] = "replay"
       THEN Reports(c, "failed") /\ UNCHANGED <<sessionVars, result>>
       ELSE /\ request' = Set(request, c, "none")
            /\ UNCHANGED report
            /\ IF again[c]
               THEN Ends(c, "failed", FALSE) /\ UNCHANGED at
               ELSE Sessions!AskAgain(c) /\ at' = Set(at, c, 0) /\ UNCHANGED result
    /\ UNCHANGED <<writeMode, armed, kind, effects>>

(* No answer in time ("timeout"): not retried. *)
TimesOut(c) ==
    /\ request[c] # "none"
    /\ Abandons(c)
    /\ IF kind[c] = "replay"
       THEN Reports(c, "failed") /\ UNCHANGED <<sessionVars, result>>
       ELSE Ends(c, "failed", FALSE) /\ request' = Set(request, c, "none") /\ UNCHANGED <<at, report>>
    /\ UNCHANGED <<writeMode, armed, kind, effects>>

-----------------------------------------------------------------------------
(* The session manager. *)

Serves(k, W) ==
    /\ Sessions!Establish(k, W) \/ Sessions!ServeLate(k, W)
    /\ UNCHANGED <<writeMode, armed, kind, fnVars, result>>

(* Mutant: the requests that waited are not told that their open failed. *)
GivesUpSilently(k, W) ==
    /\ W # {}
    /\ Sessions!GiveUp(k, W)
    /\ UNCHANGED <<writeMode, armed, kind, fnVars, result>>

GivesUp(k, W) ==
    /\ W # {}
    /\ Sessions!GiveUp(k, W)
    /\ result' = [c \in Callers |-> IF c \in W THEN "failed" ELSE result[c]]
    /\ UNCHANGED <<writeMode, armed, kind, fnVars>>

(* New credentials, a disconnect or an idle timer. *)
SessionDrops(k) ==
    /\ Sessions!Drop(k) \/ \E cr \in Creds : Sessions!ChangeCredentials(k, cr)
    /\ UNCHANGED <<writeMode, armed, kind, fnVars, result>>

(* closeAll() clears Write Mode too. *)
SessionsDrop ==
    /\ Sessions!DropAll
    /\ writeMode' = {}
    /\ UNCHANGED <<armed, kind, fnVars, result>>

SetWriteMode(k, on) ==
    /\ writeMode' = IF on THEN writeMode \cup {k} ELSE writeMode \ {k}
    /\ UNCHANGED <<sessionVars, armed, kind, fnVars, result>>

-----------------------------------------------------------------------------
FnGoesOn(c) ==
    \/ Begins(c) \/ RejectsBatch(c) \/ Publishes(c) \/ Skips(c) \/ ReplayEnds(c)
    \/ Answered(c) \/ ConnectionBreaks(c) \/ TimesOut(c)

Settles(c) == \E W \in SUBSET Sessions!Waiting(target[c]) :
                 c \in W /\ (Serves(target[c], W) \/ GivesUp(target[c], W))

Next ==
    \/ \E c \in Callers :
         \/ \E k \in Keys, kd \in Kinds : Comes(c, k, kd)
         \/ FnGoesOn(c)
         \/ BrokerAnswers(c)
         \/ \E i \in Items : BrokerGetsLate(c, i)
    \/ \E k \in Keys :
         \/ \E W \in SUBSET Sessions!Waiting(k) : Serves(k, W) \/ GivesUp(k, W)
         \/ SessionDrops(k)
         \/ \E on \in BOOLEAN : SetWriteMode(k, on)
    \/ SessionsDrop

Spec == Init /\ [][Next]_vars

(* The manager ends every wait (EveryCallEnds of SessionManager), the HTTP client every request. *)
FairSpec == Spec /\ \A c \in Callers : WF_vars(FnGoesOn(c)) /\ WF_vars(Settles(c))

-----------------------------------------------------------------------------
Published(c, i) == effects[c][i] + late[c][i]

(* A copy of a dead letter is published at most once by a replay, whatever breaks: only a single publish, *)
(* which withSession may run twice, can reach the broker twice (replay.ts:56-90, session-manager.ts:124). *)
EffectsAreBounded ==
    \A c \in Callers, i \in Items : effects[c][i] <= IF kind[c] = "publish" THEN 2 ELSE 1

(* The broker is written only by requests that found Write Mode on ("enforced in Main"). *)
OnlyArmedRequestsWrite ==
    \A c \in Callers : ~armed[c] => \A i \in Items : Published(c, i) = 0 /\ request[c] = "none"

(* A request that the gate blocked, on arrival or in front of a replay, wrote nothing and will not. *)
BlockedWritesNothing ==
    \A c \in Callers : result[c] = "blocked" => \A i \in Items : Published(c, i) = 0 /\ request[c] = "none"

(* The report of a replay tells the truth of every message: a copy for each "routed", none for "skipped" *)
(* and "unroutable", and only "failed" may mean either; it names every message when the replay is done.  *)
ReportIsTrue ==
    \A c \in Callers : kind[c] = "replay" =>
        /\ \A i \in 1..Len(report[c]) :
             /\ report[c][i] = "routed" => effects[c][i] = 1
             /\ report[c][i] \in {"skipped", "unroutable"} => Published(c, i) = 0
        /\ result[c] = "done" => Len(report[c]) = Len(Batch)

(* A request ends: the retry and the loop of the replay are bounded. *)
WritesEnd == \A c \in Callers : (kind[c] # "none") ~> (result[c] # "none")

(* What "transparently reopening the tunnel once if it went stale" (session-manager.ts:111) says of a *)
(* write: the broker carries it out once, as it would on a tunnel that was not stale.                 *)
RetryIsTransparent == \A c \in Callers, i \in Items : effects[c][i] <= 1
=============================================================================

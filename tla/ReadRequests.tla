---------------------------- MODULE ReadRequests ----------------------------
(***************************************************************************)
(* A read handler of RabbitmqIpcMain (src/main/ipc.ts) that makes several  *)
(* requests at once, composed with the session manager, taken by its       *)
(* promise (AbstractSessions).  Promise.all fails with the first request   *)
(* that fails; the others go on, also while withSession runs the handler   *)
(* again on another session.  Other calls are what happens to the session. *)
(***************************************************************************)
EXTENDS Naturals

CONSTANTS
    Targets,   \* the targets
    Reader,    \* the call
    Creds,     \* credentials
    Hint       \* the credentials of the cluster

VARIABLES
    inForce, live, phase, target, again,  \* the sessions: see AbstractSessions
    read,    \* what is asked for, "none" before
    run,     \* how often fn was run
    out,     \* the requests in flight, each with the run that made it
    got,     \* the answers Promise.all holds, each with its run
    result   \* of the call: "none" yet, "done" or "failed"

readSessionVars == <<inForce, live, phase, target, again>>
readVars == <<readSessionVars, read, run, out, got, result>>

Sessions == INSTANCE AbstractSessions WITH Keys <- Targets, Callers <- {Reader}

(* What the requests of a read are; a list is one, page after page (see ManagementApi). *)
OverviewRequests == {"overview", "nodes", "vhosts"}
QueueRequests == {"queue", "bindings"}
ExchangeRequests == {"exchange", "bindings out", "bindings in"}
Requests(r) ==
    CASE r = "overview" -> OverviewRequests
      [] r = "queueDetail" -> QueueRequests
      [] r = "exchangeDetail" -> ExchangeRequests
      [] OTHER -> {"list"}

Reads == {"overview", "queueDetail", "exchangeDetail", "list"}

ReadInit ==
    /\ Sessions!Init
    /\ read = "none" /\ run = 0 /\ out = {} /\ got = {} /\ result = "none"

ReadComes(k, r) ==
    /\ read = "none"
    /\ read' = r
    /\ Sessions!Ask(Reader, k)
    /\ UNCHANGED <<run, out, got, result>>

Served == phase[Reader] = "served"
Turn == IF again[Reader] THEN 2 ELSE 1

(* fn makes all its requests. *)
ReadBegins ==
    /\ Served /\ run < Turn
    /\ run' = run + 1
    /\ out' = out \cup {<<run + 1, q>> : q \in Requests(read)}
    /\ got' = {}
    /\ UNCHANGED <<readSessionVars, read, result>>

(* The requests whose answers Promise.all still takes. *)
Awaited == {q \in out : Served /\ q[1] = run /\ run = Turn}

ReadEnds(how, drops) == result' = how /\ Sessions!Answer(Reader, drops)

(* The last answer ends the read. *)
RequestAnswered(q) ==
    /\ q \in Awaited
    /\ out' = out \ {q} /\ got' = got \cup {q}
    /\ IF {a[2] : a \in got'} = Requests(read) THEN ReadEnds("done", FALSE) ELSE UNCHANGED <<readSessionVars, result>>
    /\ UNCHANGED <<read, run>>

(* The first error is the read's: "unreachable" runs fn once more. *)
RequestUnreachable(q) ==
    /\ q \in Awaited
    /\ out' = out \ {q}
    /\ IF again[Reader] THEN ReadEnds("failed", FALSE) ELSE Sessions!AskAgain(Reader) /\ UNCHANGED result
    /\ UNCHANGED <<read, run, got>>

RequestFails(q) ==
    /\ q \in Awaited
    /\ out' = out \ {q}
    /\ \E unauthorized \in BOOLEAN : ReadEnds("failed", unauthorized)
    /\ UNCHANGED <<read, run, got>>

(* A request nobody awaits any more settles, well or badly. *)
RequestStraggles(q) ==
    /\ q \in out \ Awaited
    /\ out' = out \ {q}
    /\ UNCHANGED <<readSessionVars, read, run, got, result>>

(* The session manager; a call that is given up has waited. *)
ReaderServed(k) ==
    /\ Sessions!Waiting(k) # {}
    /\ Sessions!Establish(k, {Reader}) \/ Sessions!ServeLate(k, {Reader})
    /\ UNCHANGED <<read, run, out, got, result>>

ReaderGivenUp(k) ==
    /\ Sessions!Waiting(k) # {}
    /\ Sessions!GiveUp(k, {Reader})
    /\ result' = "failed"
    /\ UNCHANGED <<read, run, out, got>>

SessionChanges ==
    /\ \/ \E k \in Targets : Sessions!Establish(k, {}) \/ Sessions!Drop(k) \/ \E cr \in Creds : Sessions!ChangeCredentials(k, cr)
       \/ Sessions!DropAll
    /\ UNCHANGED <<read, run, out, got, result>>

ReadNext ==
    \/ \E k \in Targets, r \in Reads : ReadComes(k, r)
    \/ ReadBegins
    \/ \E q \in out : RequestAnswered(q) \/ RequestUnreachable(q) \/ RequestFails(q) \/ RequestStraggles(q)
    \/ \E k \in Targets : ReaderServed(k) \/ ReaderGivenUp(k)
    \/ SessionChanges

(* What a read returns was answered by one session, the last it was given, and nothing of it is missing, *)
(* also when requests of the run before are still in flight (ipc.ts:109, session-manager.ts:124-130).     *)
ReadsAreWhole == result = "done" => got = {<<run, q>> : q \in Requests(read)}
=============================================================================

-------------------------- MODULE CredentialsPanel --------------------------
(***************************************************************************)
(* The login a user types when a load fails for its credentials: the panel *)
(* under the error (src/renderer/components/connection-error.tsx, its form *)
(* in page-shell.tsx) hands it to Main (src/main/ipc.ts) and asks for the  *)
(* data again, while polls go on and the page may go to another target.    *)
(* Main is what AbstractSessions promises: a load is served with the login *)
(* in force when it is served.                                             *)
(***************************************************************************)
EXTENDS Renderer, Naturals, Sequences, SequencesExt

CONSTANTS
    Logins,         \* what may be typed
    Takes,          \* of each target, the login its broker takes
    Finds,          \* of each target, the login discovery finds, or None
    MaxCalls, MaxPageLoads   \* bounds: the calls of the form, and the page's loads, in flight

ASSUME LoginAssumption ==
    /\ None \notin Logins /\ Takes \in [Targets -> Logins] /\ Finds \in [Targets -> Logins \cup {None}]
    /\ None \notin Targets /\ {MaxCalls, MaxPageLoads} \subseteq Nat \ {0}

VARIABLES
    manual,    \* Main's manualCredentials
    calls,     \* the form's calls in flight, in order: target, login (None to clear), whether Main has done it
    served,    \* of each load in flight, what Main answered, or None: an outcome and the login it used
    told,      \* the answer the page has, or None
    lKey, lDue, lData, lError, lLoading, lLoads   \* the page's useResource

loginVars == <<manual, calls, served, told, lKey, lDue, lData, lError, lLoading, lLoads>>

Hook == INSTANCE UseResource WITH
    Keys <- Targets, MaxLoads <- MaxPageLoads, key <- lKey, due <- lDue, data <- lData,
    error <- lError, loading <- lLoading, loads <- lLoads

LoginInit ==
    /\ manual = [t \in Targets |-> None] /\ calls = <<>> /\ served = <<>> /\ told = None
    /\ Hook!ResourceInit /\ lKey = None

InForce(t) == Or(manual[t], Finds[t])

-----------------------------------------------------------------------------
ShowsTarget(t) == Hook!Rekey(t) /\ UNCHANGED <<manual, calls, served, told>>

(* The poll, or "Retry". *)
Again == Hook!Reload /\ UNCHANGED <<manual, calls, served, told>>

LoadStarts == Hook!Effect /\ served' = (IF lKey = None THEN served ELSE Append(served, None)) /\ UNCHANGED <<manual, calls, told>>

(* Main serves a load, whose page may have cancelled it. *)
Serves(i) ==
    LET login == InForce(lLoads[i].key)
    IN /\ served[i] = None
       /\ \E outcome \in {IF login = Takes[lLoads[i].key] THEN "ok" ELSE "denied", "unreachable"} :
             served' = [served EXCEPT ![i] = [is |-> outcome, login |-> login]]
       /\ UNCHANGED <<manual, calls, told, lKey, lDue, lData, lError, lLoading, lLoads>>

IsTold(i) ==
    /\ served[i] # None
    /\ IF served[i].is = "ok" THEN Hook!Lands(i) ELSE Hook!Fails(i)
    /\ told' = IF lLoads[i].live THEN served[i] ELSE told
    /\ served' = RemoveAt(served, i)
    /\ UNCHANGED <<manual, calls>>

-----------------------------------------------------------------------------
(* The form is there while the last answer was about credentials, whatever loads meanwhile. *)
FormShown == lKey # None /\ lError /\ told.is = "denied"

(* "Connect", the Enter key, which works while a call is in flight too, or "Use discovered". *)
Submits(login) ==
    /\ FormShown /\ Len(calls) < MaxCalls
    /\ calls' = Append(calls, [target |-> lKey, login |-> login, done |-> FALSE])
    /\ UNCHANGED <<manual, served, told, lKey, lDue, lData, lError, lLoading, lLoads>>

(* Main gets the calls in the order they were made. *)
MainSetsLogin(i) ==
    /\ ~calls[i].done /\ \A j \in 1..(i - 1) : calls[j].done
    /\ manual' = [manual EXCEPT ![calls[i].target] = calls[i].login]
    /\ calls' = [calls EXCEPT ![i].done = TRUE]
    /\ UNCHANGED <<served, told, lKey, lDue, lData, lError, lLoading, lLoads>>

(* Mutant: the page does not load again. *)
CallEndsQuietly ==
    /\ calls # <<>> /\ Head(calls).done
    /\ calls' = Tail(calls)
    /\ UNCHANGED <<manual, served, told, lKey, lDue, lData, lError, lLoading, lLoads>>

(* Main's answer: the page loads again, what it shows by then. *)
CallEnds ==
    /\ calls # <<>> /\ Head(calls).done
    /\ calls' = Tail(calls)
    /\ Hook!Reload
    /\ UNCHANGED <<manual, served, told>>

LoginNext ==
    \/ (\E t \in Targets : ShowsTarget(t)) \/ Again \/ LoadStarts \/ CallEnds
    \/ \E i \in DOMAIN served : Serves(i) \/ IsTold(i)
    \/ \E login \in Logins \cup {None} : Submits(login)
    \/ \E i \in DOMAIN calls : MainSetsLogin(i)

-----------------------------------------------------------------------------
(* Once the form's calls were answered and nothing loads, what the page has was answered with the login in *)
(* force for the target it shows: no late answer to the login before makes it ask for credentials that it  *)
(* was given, or hides that they are wrong (connection-error.tsx:36, 47).                                  *)
AnsweredWithItsLogin ==
    calls = <<>> /\ lKey # None /\ ~lDue /\ ~lLoading => told.login = InForce(lKey)
=============================================================================

-------------------------- MODULE AbstractSessions --------------------------
(***************************************************************************)
(* What the session manager promises to the requests of the renderer, with *)
(* no tunnel, no map of opens and no timer: a target has at most one       *)
(* session; it was opened with the credentials in force, and a change of   *)
(* the credentials drops it; a request waits until it is given the session *)
(* of its target or is given up; it is given a session at most twice.      *)
(***************************************************************************)
CONSTANTS
    Keys,     \* the targets
    Callers,  \* the requests
    Creds,    \* credentials
    Hint      \* the credentials of the cluster

VARIABLES
    inForce,  \* the credentials a session of the target must use
    live,     \* the credentials of its session: a singleton, or {} without one
    phase,    \* of a request: "idle", "waiting" for a session or "served" one
    target,   \* the target of a request
    again     \* whether the request already asked for a second session

vars == <<inForce, live, phase, target, again>>

Init ==
    /\ inForce = [k \in Keys |-> Hint]
    /\ live = [k \in Keys |-> {}]
    /\ phase = [c \in Callers |-> "idle"]
    /\ target \in {[c \in Callers |-> k] : k \in Keys}
    /\ again = [c \in Callers |-> FALSE]

Waiting(k) == {c \in Callers : phase[c] = "waiting" /\ target[c] = k}

(* The requests of W, and no other, go to phase p; one that goes idle forgets its retry. *)
Moves(W, p) ==
    /\ phase' = [c \in Callers |-> IF c \in W THEN p ELSE phase[c]]
    /\ again' = [c \in Callers |-> again[c] /\ (c \in W => p # "idle")]

(* A request asks for its target: served at once when there is a session. *)
Ask(c, k) ==
    /\ phase[c] = "idle"
    /\ Moves({c}, IF live[k] = {} THEN "waiting" ELSE "served")
    /\ target' = [target EXCEPT ![c] = k]
    /\ UNCHANGED <<inForce, live>>

(* A session is opened with the credentials in force, for some of the requests that wait. *)
Establish(k, W) ==
    /\ live[k] = {}
    /\ live' = [live EXCEPT ![k] = {inForce[k]}]
    /\ Moves(W, "served")
    /\ UNCHANGED <<inForce, target>>

(* Requests that waited for an open closed meanwhile are given the session there is. *)
ServeLate(k, W) ==
    /\ live[k] # {}
    /\ Moves(W, "served")
    /\ UNCHANGED <<inForce, live, target>>

GiveUp(k, W) ==
    /\ Moves(W, "idle")
    /\ UNCHANGED <<inForce, live, target>>

(* A served request ends; if the broker refused its credentials, the session goes with it. *)
Answer(c, drops) ==
    /\ phase[c] = "served"
    /\ Moves({c}, "idle")
    /\ live' = IF drops /\ ~again[c] THEN [live EXCEPT ![target[c]] = {}] ELSE live
    /\ UNCHANGED <<inForce, target>>

(* A served request finds the session stale: it waits for another one, once. *)
AskAgain(c) ==
    /\ phase[c] = "served"
    /\ ~again[c]
    /\ phase' = [phase EXCEPT ![c] = "waiting"]
    /\ again' = [again EXCEPT ![c] = TRUE]
    /\ live' = [live EXCEPT ![target[c]] = {}]
    /\ UNCHANGED <<inForce, target>>

ChangeCredentials(k, cr) ==
    /\ inForce' = [inForce EXCEPT ![k] = cr]
    /\ live' = [live EXCEPT ![k] = {}]
    /\ UNCHANGED <<phase, target, again>>

Drop(k) ==
    /\ live' = [live EXCEPT ![k] = {}]
    /\ UNCHANGED <<inForce, phase, target, again>>

DropAll ==
    /\ live' = [k \in Keys |-> {}]
    /\ inForce' = [k \in Keys |-> Hint]
    /\ UNCHANGED <<phase, target, again>>

Next ==
    \/ \E c \in Callers :
         \/ \E k \in Keys : Ask(c, k)
         \/ \E drops \in BOOLEAN : Answer(c, drops)
         \/ AskAgain(c)
    \/ \E k \in Keys :
         \/ \E W \in SUBSET Waiting(k) : Establish(k, W) \/ ServeLate(k, W) \/ GiveUp(k, W)
         \/ \E cr \in Creds : ChangeCredentials(k, cr)
         \/ Drop(k)
    \/ DropAll

Spec == Init /\ [][Next]_vars
=============================================================================

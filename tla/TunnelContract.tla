--------------------------- MODULE TunnelContract ---------------------------
(***************************************************************************)
(* What the session manager relies on when it calls a TunnelOpener: the    *)
(* steps its own model gives to the tunnel of an open.  An abort before    *)
(* the tunnel is ready means that kubectl is not started, or is killed;    *)
(* a promise that rejected leaves no kubectl; a tunnel that is ready stays *)
(* up until it is closed or kubectl exits, whatever is aborted later.      *)
(***************************************************************************)
CONSTANT Tunnels

VARIABLES
    state,   \* of the promise: "idle", "preparing", "starting", "ready" or "over" (rejected)
    up,      \* the tunnels whose kubectl runs and was not killed
    stop     \* the tunnels whose signal was aborted

vars == <<state, up, stop>>

Init == state = [t \in Tunnels |-> "idle"] /\ up = {} /\ stop = {}

Moves(t, from, to) == state[t] = from /\ state' = [state EXCEPT ![t] = to] /\ UNCHANGED stop

Asked(t) == Moves(t, "idle", "preparing") /\ UNCHANGED up
Starts(t) == Moves(t, "preparing", "starting") /\ t \notin stop /\ up' = up \cup {t}
Ready(t) == Moves(t, "starting", "ready") /\ t \notin stop /\ UNCHANGED up
Rejects(t) == (Moves(t, "preparing", "over") \/ Moves(t, "starting", "over")) /\ up' = up \ {t}

(* The signal is aborted; a tunnel that is starting is over at once. *)
Aborts(t) ==
    /\ stop' = stop \cup {t}
    /\ state' = [state EXCEPT ![t] = IF @ = "starting" THEN "over" ELSE @]
    /\ up' = IF state[t] = "starting" THEN up \ {t} ELSE up

(* A tunnel that is ready goes down: it is closed, or kubectl exits. *)
GoesDown(t) == state[t] = "ready" /\ up' = up \ {t} /\ UNCHANGED <<state, stop>>

(* The Main process ends, and every kubectl with it. *)
Quits == up' = {} /\ UNCHANGED <<state, stop>>

Next ==
    \/ \E t \in Tunnels :
         Asked(t) \/ Starts(t) \/ Ready(t) \/ Rejects(t) \/ Aborts(t) \/ GoesDown(t)
    \/ Quits

Spec == Init /\ [][Next]_vars
=============================================================================

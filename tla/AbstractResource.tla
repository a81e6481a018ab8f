-------------------------- MODULE AbstractResource --------------------------
(***************************************************************************)
(* What useResource (src/renderer/hooks.ts) promises its component: the    *)
(* data shown was loaded for the key it renders with or, until the effect  *)
(* of a new key has run, for a key it left; and once there is data there   *)
(* is data until the component renders without a key.                      *)
(***************************************************************************)
CONSTANTS Keys, None

VARIABLES
    key,    \* what the component renders with; None for no key, or not enabled
    late,   \* the key whose load may still be answered until the effect runs; else None
    shown   \* the key the data was loaded for; None for no data

vars == <<key, late, shown>>

Init == key \in Keys \cup {None} /\ late = None /\ shown = None

Rekey(k) == key' = k /\ late' \in {None, key, late} /\ UNCHANGED shown

Reload == late' \in {None, key, late} /\ UNCHANGED <<key, shown>>

(* The effect runs: what was loaded is kept while the key's own load is awaited. *)
Effect == late' = None /\ shown' = (IF key = None THEN None ELSE shown) /\ UNCHANGED key

(* An answer is shown. *)
Show == shown' \in {key, late} \ {None} /\ late' \in {late, None} /\ UNCHANGED key

Next == (\E k \in Keys \cup {None} : Rekey(k)) \/ Reload \/ Effect \/ Show

Spec == Init /\ [][Next]_vars
=============================================================================

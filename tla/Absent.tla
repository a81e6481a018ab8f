------------------------------- MODULE Absent -------------------------------
(* What `undefined` is in the code, and the operator ?? on it. *)
CONSTANT None

Or(a, b) == IF a # None THEN a ELSE b
=============================================================================

-------------------------- MODULE MCSessionManager --------------------------
(* Model values for SessionManager.  The requests, the runs of open() and the targets are *)
(* interchangeable: the safety run uses that, the liveness run must not.                  *)
EXTENDS SessionManager, TLC

CONSTANTS k1, c1, c2, o1, o2, o3, hint, typed

Symmetry == Permutations(Callers) \cup Permutations(Opens)
=============================================================================

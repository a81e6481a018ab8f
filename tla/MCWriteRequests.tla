-------------------------- MODULE MCWriteRequests --------------------------
EXTENDS WriteRequests, TLC
CONSTANTS k, c1, c2, hint, typed

(* A replay of two messages that can be published, with one that is skipped between them. *)
ThreeMessages == <<TRUE, FALSE, TRUE>>
TwoMessages == <<TRUE, TRUE>>

Symmetry == Permutations(Callers)
=============================================================================

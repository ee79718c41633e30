-------------------------- MODULE MCTaskLifecycle --------------------------
(* Requests differ only in what they ask for, so callers are symmetric. *)
EXTENDS TaskLifecycle, TLC

CONSTANTS c1, c2

MCCallers == {c1, c2}
Symmetry == Permutations(MCCallers)
=============================================================================

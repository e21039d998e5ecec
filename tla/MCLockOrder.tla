--------------------------- MODULE MCLockOrder ---------------------------
(* Sessions are interchangeable. *)
EXTENDS LockOrder, TLC

Symmetry == Permutations(Sessions)
=============================================================================

--------------------------- MODULE MCLockFreeQueue ---------------------------
(* Small instances of LockFreeQueue for TLC. *)
EXTENDS LockFreeQueue, TLC

\* The queue copies items and never looks at them.
Symmetry == Permutations(Items)
==============================================================================

--------------------------- MODULE MCThreadLocal ---------------------------
(* ThreadLocal on a few threads. *)
EXTENDS ThreadLocal, TLC

Symmetry == Permutations(Threads)
=============================================================================

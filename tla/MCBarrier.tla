------------------------------ MODULE MCBarrier ------------------------------
(* Barrier on a few threads, one of which notifies and waits. *)
EXTENDS Barrier, TLC
=============================================================================

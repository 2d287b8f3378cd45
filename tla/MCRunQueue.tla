----------------------------- MODULE MCRunQueue -----------------------------
(* RunQueue with the smallest capacity the code allows. *)
EXTENDS RunQueue, TLC

Symmetry == Permutations(Remotes)

\* The owner only pops and the others only push, at the back, while Empty() runs.
LapNext ==
  /\ \/ PopFront \/ PopFrontTake \/ PopFrontIndex
     \/ \E r \in Remotes : PushBack(r) \/ PushBackIndex(r) \/ PushBackReady(r)
     \/ \E t \in Observers : ObserverStep(t) \/ SnapshotStep(t)
  /\ Watch

LapSpec == Init /\ [][LapNext]_vars
=============================================================================

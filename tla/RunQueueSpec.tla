---------------------------- MODULE RunQueueSpec ----------------------------
(***************************************************************************)
(* What a run queue promises (Eigen/src/ThreadPool/RunQueue.h:18-20): an   *)
(* atomic deque of work items.  The front is the head of the sequence.     *)
(* RunQueue implements it with element states and rolling indices.         *)
(***************************************************************************)
EXTENDS Naturals, Sequences

CONSTANT Work       \* the work items

VARIABLE queue      \* the items queued, front first

InitRQ == queue \in Seq(Work)

Grows == Len(queue') = Len(queue) + 1
PushFront == Grows /\ queue = Tail(queue')
PushBack  == Grows /\ queue = SubSeq(queue', 1, Len(queue))
PopFront  == queue # <<>> /\ queue' = Tail(queue)

\* Items go from the back and what is left stays as it was: PopBack takes one,
\* PopBackHalf, as one step, half of what was there when it looked, which may
\* by now be all there is.
DropBack == queue' = SubSeq(queue, 1, Len(queue'))
PopBack == Len(queue) = Len(queue') + 1 /\ DropBack
PopBackHalf == Len(queue) > Len(queue') /\ DropBack

NextRQ == /\ queue' # queue /\ queue' \in Seq(Work)
          /\ PushFront \/ PushBack \/ PopFront \/ PopBack \/ PopBackHalf

SpecRQ == InitRQ /\ [][NextRQ]_queue
=============================================================================

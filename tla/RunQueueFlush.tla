--------------------------- MODULE RunQueueFlush ---------------------------
(***************************************************************************)
(* The destructor of a cancelled pool empties the queues of workers that   *)
(* may still be inside a task (ThreadPool/NonBlockingThreadPool.h:87-101): *)
(* Flush calls PopFront, which is the owner's, from another thread         *)
(* (RunQueue.h:147-152).                                                   *)
(*                                                                         *)
(* RunQueue lets the owner read front_ at every step, which comes to the   *)
(* same while nobody else stores it.  Here the owner and the flushing      *)
(* thread each keep the value they loaded: between the load and the store  *)
(* of one of them the other may move the front, and the move is lost.  The *)
(* pool has one worker, so nobody works on the back.                       *)
(***************************************************************************)
EXTENDS RunQueue

CONSTANT flusher   \* the destructor's thread: the one of Observers

\* The element at the front a thread has loaded.
FrontElem(t) == Elem(front[t] + Modulus - 1)

Load(t, l) ==
  /\ front' = [front EXCEPT ![t] = front_]
  /\ Goto(t, l)
  /\ UNCHANGED <<ends, array, arg, back, work>>

\* PushFront, by the owner, with the front it loaded.
PushLoad == pc[owner] = "idle" /\ issued < MaxWork /\ Load(owner, "push.claim")

PushClaim ==
  /\ pc[owner] = "push.claim"
  /\ issued' = issued + 1
  /\ LET e == Elem(front[owner])
     IN  \/ /\ elemState[e] = "Empty"
            /\ elemState' = [elemState EXCEPT ![e] = "Busy"]
            /\ arg' = [arg EXCEPT ![owner] = issued + 1]
            /\ Goto(owner, "push.index")
            /\ UNCHANGED ran
         \/ /\ elemState[e] # "Empty"
            /\ Give(issued + 1)
            /\ Goto(owner, "idle")
            /\ UNCHANGED <<elemState, arg>>
  /\ UNCHANGED <<ends, elemWork, snap>>

PushStore ==
  /\ pc[owner] = "push.index"
  /\ front_' = Up(front[owner])
  /\ Goto(owner, "push.ready")
  /\ UNCHANGED <<back_, array, arg, snap, work>>

PushRelease ==
  /\ pc[owner] = "push.ready"
  /\ LET e == Elem(front[owner])
     IN  /\ elemState' = [elemState EXCEPT ![e] = "Ready"]
         /\ elemWork' = [elemWork EXCEPT ![e] = arg[owner]]
  /\ arg' = [arg EXCEPT ![owner] = 0]
  /\ Goto(owner, "idle")
  /\ UNCHANGED <<ends, snap, work>>

\* PopFront, by either, with the front it loaded.
PopLoad(t, l) == pc[t] = l /\ Load(t, "pop.claim")

PopClaim(t) ==
  /\ pc[t] = "pop.claim"
  /\ LET e == FrontElem(t)
     IN  \/ /\ elemState[e] = "Ready"
            /\ elemState' = [elemState EXCEPT ![e] = "Busy"]
            /\ Goto(t, "pop.take")
         \/ /\ elemState[e] # "Ready"
            /\ Goto(t, "idle")
            /\ UNCHANGED elemState
  /\ UNCHANGED <<ends, elemWork, arg, snap, work>>

PopTake(t) ==
  /\ pc[t] = "pop.take"
  /\ LET e == FrontElem(t)
     IN  /\ elemState' = [elemState EXCEPT ![e] = "Empty"]
         /\ elemWork' = [elemWork EXCEPT ![e] = 0]
         /\ Give(elemWork[e])
  /\ Goto(t, "pop.index")
  /\ UNCHANGED <<ends, arg, snap, issued>>

PopStore(t) ==
  /\ pc[t] = "pop.index"
  /\ front_' = Down(front[t])
  /\ Goto(t, "idle")
  /\ UNCHANGED <<back_, array, arg, snap, work>>

PopStep(t) == PopClaim(t) \/ PopTake(t) \/ PopStore(t)

\* while (!Empty()) PopFront();
FlushTest == Empty(flusher) \/ SnapBack(flusher) \/ SnapRetry(flusher)

FlushBody ==
  /\ Consistent(flusher, "empty.front1")
  /\ Goto(flusher, IF MaybeZero(flusher) THEN "flushed" ELSE "pop")
  /\ UNCHANGED <<ends, array, arg, snap, work>>

OwnerBegins == PushLoad \/ PopLoad(owner, "idle")
OwnerGoesOn == PushClaim \/ PushStore \/ PushRelease \/ PopStep(owner)
Flush == FlushTest \/ FlushBody \/ PopLoad(flusher, "pop") \/ PopStep(flusher)

NextFlush == /\ OwnerBegins \/ OwnerGoesOn \/ Flush
             /\ UNCHANGED <<mutex_, half, sawEmpty, moves>>

\* Both threads are run; the owner need not call again when a call has returned.
FlushSpec == /\ Init /\ [][NextFlush]_vars
             /\ WF_vars(NextFlush /\ OwnerGoesOn) /\ WF_vars(NextFlush /\ Flush)

\* "Since we were cancelled, there might be entries in the queues.  Empty them
\* to prevent their destructor from asserting."
\* (NonBlockingThreadPool.h:96-97): the flushing thread does empty the queue
\* and go on.
FlushEnds == <>(pc[flusher] = "flushed")
=============================================================================

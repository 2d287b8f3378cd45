----------------------------- MODULE ParallelFor -----------------------------
(***************************************************************************)
(* The two parallel loops on top of Eigen's thread pool, sharing one pool. *)
(*                                                                         *)
(* ForkJoinScheduler::ParallelFor (ForkJoin.h) splits a range in two, puts *)
(* the right part into the pool, works on the left part and then, until the*)
(* right part is done, runs whatever tasks it gets from the pool - on top  *)
(* of its own stack.  CoreThreadPoolDevice::parallelFor splits a rectangle *)
(* a fixed number of times, keeps the first part, and waits on a barrier.  *)
(*                                                                         *)
(* A thread is a stack of frames, each a task and the place in it.  The    *)
(* pool is a set of queued tasks any worker may take any of (the modules   *)
(* ThreadPool and RunQueue say how), full when kSize of them fill the one  *)
(* queue that was chosen; a task that does not fit runs at once, in the    *)
(* thread that submits it.  Callers are no workers: they get no tasks from *)
(* the pool and sleep in Barrier::Wait (module Barrier) meanwhile.  The    *)
(* functions that are called do not call ParallelFor or parallelFor, which *)
(* the comment at ForkJoin.h:79 warns of.                                  *)
(***************************************************************************)
EXTENDS Integers, Sequences, FiniteSets

CONSTANTS
  Workers,    \* the threads of the pool
  Callers,    \* threads that call, once each
  kSize,      \* the capacity of each worker's queue
  Scenarios   \* what may be called: functions from Callers to requests,
              \* [device |-> BOOLEAN, rows, cols |-> <<begin, end>>, parameter |-> the
              \* granularity, or the levels of splitting]

Threads == Workers \cup Callers

ASSUME PAssumption ==
  /\ Workers \cap Callers = {} /\ IsFiniteSet(Workers) /\ kSize \in Nat \ {0}

\* A granularity is what round_down divides by.
ASSUME RequestsAssumption ==
  /\ Scenarios \subseteq [Callers -> [device : BOOLEAN, rows : Int \X Int, cols : Int \X Int,
                                      parameter : Nat]]
  /\ \A r \in Scenarios : \A c \in Callers : ~r[c].device => r[c].parameter > 0

VARIABLES
  request,   \* what each caller calls
  phase,     \* "idle", "called" or "returned", for each caller
  count,     \* what the barrier of each call still waits for
  queued,    \* the tasks in the pool
  stack,     \* of each thread, the frame on top first
  finished,  \* <<call, id>> of the right parts whose right_done is set
  ran        \* auxiliary: how often the function was called for each call and cell

vars == <<request, phase, count, queued, stack, finished, ran>>

Grid(rows, cols) == (rows[1]..(rows[2] - 1)) \X (cols[1]..(cols[2] - 1))

\* A task of a loop is told from the others by the part of the loop it stands for.
Task(c, kind, id, rows, cols, level) ==
  [call |-> c, kind |-> kind, id |-> id, rows |-> rows, cols |-> cols, level |-> level]
Frame(task) == [task |-> task, pc |-> "run"]

Init ==
  /\ request \in Scenarios
  /\ phase = [c \in Callers |-> "idle"] /\ count = [c \in Callers |-> 0]
  /\ queued = {} /\ stack = [t \in Threads |-> <<>>]
  /\ finished = {}
  /\ ran = [c \in Callers |-> [x \in Grid(request[c].rows, request[c].cols) |-> 0]]

----------------------------------------------------------------------------
(* Steps of a thread.                                                      *)

Top(t) == Head(stack[t])
At(t, kinds, pc) ==
  stack[t] # <<>> /\ Top(t).task.kind \in kinds /\ Top(t).pc = pc

\* The stack with its top frame replaced, and with frames on it
Replaced(t, frames) == [stack EXCEPT ![t] = frames \o Tail(@)]

\* A task that does not fit is lost.
BugSchedule(t, task, frames) ==
  \/ /\ Cardinality(queued) < kSize * Cardinality(Workers)
     /\ queued' = queued \cup {task} /\ stack' = [stack EXCEPT ![t] = frames]
  \/ /\ Cardinality(queued) >= kSize
     /\ stack' = [stack EXCEPT ![t] = frames] /\ UNCHANGED queued

\* Schedule(task) while the thread's stack becomes frames: push it, or run it at once.
Schedule(t, task, frames) ==
  \/ /\ Cardinality(queued) < kSize * Cardinality(Workers)
     /\ queued' = queued \cup {task} /\ stack' = [stack EXCEPT ![t] = frames]
  \/ /\ Cardinality(queued) >= kSize
     /\ stack' = [stack EXCEPT ![t] = <<Frame(task)>> \o frames] /\ UNCHANGED queued

\* A task ends: done() notifies the barrier, right_done is set.
Return(t) ==
  LET task == Top(t).task IN
  /\ stack' = Replaced(t, <<>>)
  /\ count' = IF task.kind \in {"root", "slice"} THEN [count EXCEPT ![task.call] = @ - 1] ELSE count
  /\ finished' = IF task.kind = "right" THEN finished \cup {<<task.call, task.id>>} ELSE finished

\* do_func() for every cell of the task
Execute(task) ==
  ran' = [ran EXCEPT ![task.call] =
            [x \in DOMAIN @ |-> IF x \in Grid(task.rows, task.cols) THEN @[x] + 1 ELSE @[x]]]

\* The 9/16 mark, rounded down; the level of a task of ForkJoinScheduler is the granularity.
ComputeMidpoint(task) ==
  LET b == task.cols[1]  e == task.cols[2]
  IN  b + task.level * (((9 * (e - b + 1)) \div 16) \div task.level)

\* The right part a frame waits for
Awaited(frame) == <<frame.task.call, ComputeMidpoint(frame.task)>>

\* A worker takes a task: in its main loop, or while it waits for a right part.
Waiting(t) == At(t, {"root", "left", "right"}, "help") /\ Awaited(Top(t)) \notin finished

\* A thread that waits for a right part does nothing else.
BugMaybeGetTask(t) ==
  /\ t \in Workers
  /\ stack[t] = <<>>
  /\ \E task \in queued :
       /\ queued' = queued \ {task}
       /\ stack' = [stack EXCEPT ![t] = <<Frame(task)>> \o @]
  /\ UNCHANGED <<request, phase, count, finished, ran>>

MaybeGetTask(t) ==
  /\ t \in Workers
  /\ stack[t] = <<>> \/ Waiting(t)
  /\ \E task \in queued :
       /\ queued' = queued \ {task}
       /\ stack' = [stack EXCEPT ![t] = <<Frame(task)>> \o @]
  /\ UNCHANGED <<request, phase, count, finished, ran>>

----------------------------------------------------------------------------
(* ForkJoinScheduler.                                                      *)

ForkJoinKinds == {"root", "left", "right"}

IsLeaf(task) ==
  LET b == task.cols[1]  e == task.cols[2]  mid == ComputeMidpoint(task)
  IN  e - b < task.level \/ mid = b \/ mid = e

RunLeaf(t) ==
  /\ At(t, ForkJoinKinds, "run") /\ IsLeaf(Top(t).task)
  /\ Execute(Top(t).task) /\ Return(t)
  /\ UNCHANGED <<request, phase, queued>>

\* ForkJoin(): the right part into the pool, ...
Fork(t) ==
  /\ At(t, ForkJoinKinds, "run") /\ ~IsLeaf(Top(t).task)
  /\ LET task == Top(t).task
         mid == ComputeMidpoint(task)
         right == Task(task.call, "right", mid, task.rows, <<mid, task.cols[2]>>, task.level)
     IN  Schedule(t, right, <<[task |-> task, pc |-> "forked"]>> \o Tail(stack[t]))
  /\ UNCHANGED <<request, phase, count, finished, ran>>

\* ... the left part right here, ...
RunLeft(t) ==
  /\ At(t, ForkJoinKinds, "forked")
  /\ LET task == Top(t).task
         left == [task EXCEPT !.kind = "left", !.cols = <<@[1], ComputeMidpoint(task)>>]
     IN  stack' = Replaced(t, <<Frame(left), [task |-> task, pc |-> "help"]>>)
  /\ UNCHANGED <<request, phase, count, queued, finished, ran>>

\* Nobody waits for right_done.
BugJoin(t) ==
  /\ At(t, ForkJoinKinds, "help")
  /\ Return(t)
  /\ UNCHANGED <<request, phase, queued, ran>>

\* ... and other tasks (MaybeGetTask) until right_done.
Join(t) ==
  /\ At(t, ForkJoinKinds, "help") /\ Awaited(Top(t)) \in finished
  /\ Return(t)
  /\ UNCHANGED <<request, phase, queued, ran>>

----------------------------------------------------------------------------
(* CoreThreadPoolDevice: parallelForImpl.  The one-dimensional loop is a   *)
(* single row; cells are packets.                                          *)

Halve(range) == range[1] + ((range[2] - range[1]) \div 2)

\* "innerEnd = innerMid" is missing.
BugSplit(t) ==
  /\ At(t, {"slice"}, "run") /\ Top(t).task.level > 0
  /\ LET task == Top(t).task
         level == task.level - 1
         byRows == task.rows[2] - task.rows[1] > 1
         mid == Halve(IF byRows THEN task.rows ELSE task.cols)
         part(rows, cols, id) == Task(task.call, "slice", id, rows, cols, level)
     IN  Schedule(t, IF byRows
                       THEN part(<<mid, task.rows[2]>>, task.cols, task.id + 2^level)
                       ELSE part(task.rows, <<mid, task.cols[2]>>, task.id + 2^level),
                  <<Frame(part(IF byRows THEN <<task.rows[1], mid>> ELSE task.rows, task.cols, task.id))>>
                    \o Tail(stack[t]))
  /\ UNCHANGED <<request, phase, count, finished, ran>>

Split(t) ==
  /\ At(t, {"slice"}, "run") /\ Top(t).task.level > 0
  /\ LET task == Top(t).task
         level == task.level - 1
         byRows == task.rows[2] - task.rows[1] > 1
         mid == Halve(IF byRows THEN task.rows ELSE task.cols)
         part(rows, cols, id) == Task(task.call, "slice", id, rows, cols, level)
         right == IF byRows
                    THEN part(<<mid, task.rows[2]>>, task.cols, task.id + 2^level)
                    ELSE part(task.rows, <<mid, task.cols[2]>>, task.id + 2^level)
         rest == IF byRows
                   THEN part(<<task.rows[1], mid>>, task.cols, task.id)
                   ELSE part(task.rows, <<task.cols[1], mid>>, task.id)
     IN  Schedule(t, right, <<Frame(rest)>> \o Tail(stack[t]))
  /\ UNCHANGED <<request, phase, count, finished, ran>>

RunSlice(t) ==
  /\ At(t, {"slice"}, "run") /\ Top(t).task.level = 0
  /\ Execute(Top(t).task) /\ Return(t)
  /\ UNCHANGED <<request, phase, queued>>

----------------------------------------------------------------------------
(* The callers.                                                            *)

\* ParallelFor: nothing to do
CallEmpty(c) ==
  /\ phase[c] = "idle" /\ ~request[c].device /\ request[c].cols[1] >= request[c].cols[2]
  /\ phase' = [phase EXCEPT ![c] = "returned"]
  /\ UNCHANGED <<request, count, queued, stack, finished, ran>>

ParallelFor(c) ==
  /\ phase[c] = "idle" /\ ~request[c].device /\ request[c].cols[1] < request[c].cols[2]
  /\ phase' = [phase EXCEPT ![c] = "called"] /\ count' = [count EXCEPT ![c] = 1]
  /\ Schedule(c, Task(c, "root", 0, request[c].rows, request[c].cols, request[c].parameter), <<>>)
  /\ UNCHANGED <<request, finished, ran>>

\* CoreThreadPoolDevice::parallelFor
DeviceParallelFor(c) ==
  /\ phase[c] = "idle" /\ request[c].device
  /\ phase' = [phase EXCEPT ![c] = "called"]
  /\ count' = [count EXCEPT ![c] = 2^request[c].parameter]
  /\ stack' = [stack EXCEPT ![c] =
       <<Frame(Task(c, "slice", 0, request[c].rows, request[c].cols, request[c].parameter))>>]
  /\ UNCHANGED <<request, queued, finished, ran>>

\* Barrier::Wait
BarrierWait(c) ==
  /\ phase[c] = "called" /\ stack[c] = <<>> /\ count[c] = 0
  /\ phase' = [phase EXCEPT ![c] = "returned"]
  /\ UNCHANGED <<request, count, queued, stack, finished, ran>>

----------------------------------------------------------------------------

ThreadStep(t) ==
  MaybeGetTask(t) \/ RunLeaf(t) \/ Fork(t) \/ RunLeft(t) \/ Join(t) \/ Split(t) \/ RunSlice(t)

CallerStep(c) == CallEmpty(c) \/ ParallelFor(c) \/ DeviceParallelFor(c) \/ BarrierWait(c)

\* Everybody has returned.
Finished == (\A c \in Callers : phase[c] = "returned") /\ UNCHANGED vars

Next == (\E t \in Threads : ThreadStep(t)) \/ (\E c \in Callers : CallerStep(c)) \/ Finished

\* Threads are scheduled, and a worker that looks for tasks again and again finds one.
Fairness ==
  /\ \A t \in Threads : WF_vars(ThreadStep(t))
  /\ \A c \in Callers : WF_vars(BarrierWait(c))

Spec == Init /\ [][Next]_vars /\ Fairness

----------------------------------------------------------------------------

Frames == UNION {{stack[t][i] : i \in 1..Len(stack[t])} : t \in Threads}
Pending == queued \cup {f.task : f \in Frames}

(* Every index is handed to the function exactly once before the call      *)
(* returns, whoever runs the parts, and nothing of the call is left then:  *)
(* no task that still refers to the function or the barrier, which are on  *)
(* the caller's stack ("done() is called exactly once after all tasks have *)
(* been executed", ForkJoin.h:63; the barrier of 1 << maxLevel,            *)
(* CoreThreadPoolDevice.h:126).                                            *)
EachOnce ==
  \A c \in Callers :
    /\ \A x \in DOMAIN ran[c] : ran[c][x] <= 1
    /\ (phase[c] # "idle" /\ count[c] = 0) =>
         /\ \A x \in DOMAIN ran[c] : ran[c][x] = 1
         /\ \A task \in Pending : task.call # c

(* As long as a right part is queued or runs, the frame that forked it is  *)
(* still on the stack of a thread and waits for it: right_done and the     *)
(* thunk it refers to live in that frame, below whatever tasks that thread *)
(* has taken on in the meantime (ForkJoin, ForkJoin.h:94).                 *)
ParentWaits ==
  \A task \in Pending : task.kind = "right" =>
    \E f \in Frames : f.pc \in {"forked", "help"} /\ Awaited(f) = <<task.call, task.id>>

(* Nobody waits in vain: a right part that is waited for is finished, in   *)
(* the pool or begun by some thread, and while a barrier is waited for,    *)
(* something of its call is still to be done (ForkJoin, ForkJoin.h:104;    *)
(* CoreThreadPoolDevice.h:126).                                            *)
WaitsForWork ==
  /\ \A f \in Frames : (f.pc \in {"forked", "help"} /\ Awaited(f) \notin finished) =>
       \E task \in Pending : task.kind = "right" /\ Awaited(f) = <<task.call, task.id>>
  /\ \A c \in Callers : count[c] # 0 => \E task \in Pending : task.call = c

(* Every call returns: although a thread that waits for a right part runs  *)
(* other tasks on top of its stack, which may wait for parts that others   *)
(* have begun in the same way, they never all wait for each other          *)
(* (ForkJoin, ForkJoin.h:104).                                             *)
Completes == \A c \in Callers : (phase[c] = "called") ~> (phase[c] = "returned")

=============================================================================

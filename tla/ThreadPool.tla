----------------------------- MODULE ThreadPool -----------------------------
(***************************************************************************)
(* Eigen's work-stealing pool (ThreadPool/NonBlockingThreadPool.h): worker *)
(* threads with a run queue each, an event count to sleep on, a word that  *)
(* counts the spinning threads and the tasks submitted without a           *)
(* notification, and blocked_, the count that decides termination.         *)
(*                                                                         *)
(* The event count and the queues are the atomic objects that EventCount   *)
(* and RunQueue are shown to implement (EventCountSpec, RunQueueSpec): one *)
(* call is one step, and so is one access to spinning_state_, blocked_,    *)
(* done_ and cancelled_ under sequential consistency.  A thread outside    *)
(* the pool, main, schedules tasks, may cancel, and destroys the pool.     *)
(*                                                                         *)
(* A queue is atomic as long as its owner alone works on its front.  The   *)
(* destructor of a cancelled pool breaks that rule (RunQueueFlush); from   *)
(* there on front_ says what is left of it.                                *)
(*                                                                         *)
(* A task schedules its Children and then runs until all that it Needs     *)
(* have started, as the tasks of test_parallelism do.                      *)
(***************************************************************************)
EXTENDS EventCountSpec, Sequences

CONSTANTS main,            \* the thread that owns the pool
          Tasks,           \* all tasks
          Scenarios        \* the pools and programs that are explored

VARIABLE scenario          \* the one of this behaviour: it never changes

\* What the constructor and SetStealPartitions are given ...
Workers == scenario.workers          \* worker w sleeps on its own waiter slot
Partition == scenario.partition      \* the workers each one is to steal from first
allow_spinning_ == scenario.allow_spinning
spin_count_ == scenario.spin_count   \* bound: a few for thousands
\* ... the constants of the implementation, small ...
kMinActiveThreadsToStartSpinning == scenario.kMinActive
kSize == scenario.kSize              \* bound: the capacity of a run queue
kMaxSpinningThreads == 1
\* ... and the program that uses the pool.
MainTasks == scenario.main           \* the tasks main schedules
Children == scenario.children        \* the tasks each task schedules
Needs == scenario.needs              \* the tasks that must have started before it ends

Threads == Workers \cup {main}
num_threads_ == Cardinality(Workers)

ASSUME ThreadPoolAssumption ==
  /\ main \notin Waiters
  /\ \A s \in Scenarios :
       /\ IsFiniteSet(s.workers) /\ s.workers # {} /\ s.workers \subseteq Waiters
       /\ s.partition \in [s.workers -> (SUBSET s.workers) \ {{}}]
       /\ s.allow_spinning \in BOOLEAN /\ s.spin_count \in Nat
       /\ s.kMinActive \in Nat /\ s.kSize \in Nat \ {0}
       /\ s.main \subseteq s.tasks /\ s.tasks \subseteq Tasks
       /\ s.children \in [Tasks -> SUBSET Tasks] /\ s.needs \in [Tasks -> SUBSET Tasks]
       \* main waits for all tasks before it destroys the pool; main may cancel it
       /\ s.patient \in BOOLEAN /\ s.cancels \in BOOLEAN

\* A task stands for one call of Schedule, made by main or by one of the tasks.
ASSUME OneCallPerTask ==
  \A s \in Scenarios : \A p, q \in Tasks :
    /\ s.children[p] \cap s.main = {}
    /\ p # q => s.children[p] \cap s.children[q] = {}

VARIABLES
  queue,      \* the run queue of each worker, front first
  front_,     \* whether the front of each queue is "owned", "shared" or "astray"
  spinning_,  \* spinning_state_: [num_spinning, num_no_notification]
  blocked_, done_, cancelled_,
  steal_partition, \* the workers each one steals from first
  pc,         \* where each thread is
  stack,      \* the tasks each thread is inside of, innermost first
  task,       \* MaybeGetTask's "t": a sequence of at most one task
  todo,       \* the queues a steal or an emptiness check has yet to visit
  spins,      \* spin iterations left
  unscheduled,\* the tasks main has yet to schedule
  started, ended

poolVars == <<spinning_, blocked_, done_, cancelled_, steal_partition>>
runVars  == <<stack, unscheduled, started, ended>>
vars == <<scenario, ecVars, queue, front_, poolVars, pc, runVars, task, todo, spins>>

Goto(t, l) == pc' = [pc EXCEPT ![t] = l]
Frame(k) == [task |-> k, kids |-> Children[k]]

Init ==
  /\ scenario \in Scenarios
  /\ InitEC
  /\ queue = [w \in Workers |-> <<>>]
  /\ front_ = [w \in Workers |-> "owned"]
  /\ spinning_ = [num_spinning |-> 0, num_no_notification |-> 0]
  /\ blocked_ = 0 /\ done_ = FALSE /\ cancelled_ = FALSE
  /\ steal_partition = [w \in Workers |-> Workers]
  /\ pc = [t \in Threads |-> IF t # main THEN "loop"
                            ELSE IF \E w \in Workers : Partition[w] # Workers THEN "partition"
                            ELSE "main"]
  /\ stack = [t \in Threads |-> <<>>]
  /\ task = [w \in Workers |-> <<>>]
  /\ todo = [t \in Threads |-> IF t = main THEN {w \in Workers : Partition[w] # Workers} ELSE {}]
  /\ spins = [w \in Workers |-> 0]
  /\ unscheduled = MainTasks
  /\ started = {} /\ ended = {}
-----------------------------------------------------------------------------
(***************************************************************************)
(* The queues.  The front of a queue is shared once Flush has popped from  *)
(* it, and astray when Flush and a push of the owner have overlapped, so   *)
(* that one of them stored a front the other had left behind.  What lies   *)
(* above that front or beyond an empty element cannot be reached until the *)
(* indices come to it again: a pop then finds any item or none, a push may *)
(* meet an element that is taken, and Empty() goes by indices that say     *)
(* nothing.                                                                *)
(***************************************************************************)
\* Where in queue[q] a pop finds the item that it takes.
FrontOf(q) == {i \in 1 .. Len(queue[q]) : i = 1 \/ front_[q] = "astray"}
BackOf(q) == {i \in 1 .. Len(queue[q]) : i = Len(queue[q]) \/ front_[q] = "astray"}

\* What Empty() may answer; a queue that seems empty has nothing for PopBack.
SeemsEmpty(q) == queue[q] = <<>> \/ front_[q] = "astray"
SeemsFilled(q) == queue[q] # <<>> \/ front_[q] = "astray"

\* The owner's PopFront also fails at the element that Flush has just claimed.
NoFront(q) == queue[q] = <<>> \/ front_[q] # "owned"

Without(s, i) == [j \in 1 .. Len(s) - 1 |-> s[IF j < i THEN j ELSE j + 1]]
BugPop(q, i) == queue' = [queue EXCEPT ![q] = Without(@, 1)]
Pop(q, i) == queue' = [queue EXCEPT ![q] = Without(@, i)]

\* A push may overlap with a pop of Flush: the last, or one that is under way.
Overlaps(q) ==
  \/ front_[q] = "shared"
  \/ pc[main] = "flush" /\ q \in todo[main] /\ queue[q] # <<>>

Push(t, q, k) ==
  /\ Len(queue[q]) < kSize
  /\ queue' = [queue EXCEPT ![q] = IF t = q THEN <<k>> \o @ ELSE Append(@, k)]
  /\ \/ UNCHANGED front_
     \/ Overlaps(q) /\ front_' = [front_ EXCEPT ![q] = "astray"]

\* PushFront and PushBack give the task back.
NoRoom(q) == Len(queue[q]) >= kSize \/ front_[q] # "owned"
-----------------------------------------------------------------------------
(***************************************************************************)
(* Running tasks, and Schedule, which tasks and main call.                 *)
(***************************************************************************)
\* ExecuteTask, called from the worker loop or in place by Schedule.
Enter(t, k) ==
  /\ stack' = [stack EXCEPT ![t] = <<Frame(k)>> \o @]
  /\ started' = started \cup {k}
  /\ Goto(t, "run")

\* The queues Schedule may push to: a worker its own front, others any back.
Choices(t) == IF t = main THEN Workers ELSE {t}

\* ScheduleWithHint: push; when the queue is full, execute in place.
Schedule(t, k, rest) ==
  \E q \in Choices(t) :
    \/ /\ Push(t, q, k)
       /\ Goto(t, "required")
       /\ stack' = rest /\ UNCHANGED started
    \/ /\ NoRoom(q)
       /\ stack' = [rest EXCEPT ![t] = <<Frame(k)>> \o @]
       /\ started' = started \cup {k}
       /\ Goto(t, "run")
       /\ UNCHANGED <<queue, front_>>

\* Where Schedule returns to.
Return(t) == Goto(t, IF stack[t] = <<>> THEN "main" ELSE "run")

\* A running task schedules a child.
ScheduleChild(t) ==
  /\ pc[t] = "run" /\ stack[t][1].kids # {}
  /\ \E k \in stack[t][1].kids :
       LET top == [task |-> stack[t][1].task, kids |-> stack[t][1].kids \ {k}]
       IN  Schedule(t, k, [stack EXCEPT ![t] = <<top>> \o Tail(@)])
  /\ UNCHANGED <<ecVars, poolVars, task, todo, spins, unscheduled, ended>>

ScheduleMain ==
  /\ pc[main] = "main" /\ ~done_
  /\ \E k \in unscheduled :
       /\ unscheduled' = unscheduled \ {k}
       /\ Schedule(main, k, stack)
  /\ UNCHANGED <<ecVars, poolVars, task, todo, spins, ended>>

\* IsNotifyParkedThreadRequired
BugIsNotifyRequired(t) ==
  /\ pc[t] = "required"
  /\ IF spinning_.num_spinning = 0
     THEN Goto(t, "notify") /\ UNCHANGED spinning_
     ELSE /\ spinning_' = [num_spinning |-> spinning_.num_spinning,
                           num_no_notification |-> spinning_.num_no_notification + 1]
          /\ Return(t)
  /\ UNCHANGED <<ecVars, queue, front_, blocked_, done_, cancelled_, steal_partition, runVars, task, todo, spins>>
IsNotifyRequired(t) ==
  /\ pc[t] = "required"
  /\ IF spinning_.num_no_notification = spinning_.num_spinning
     THEN Goto(t, "notify") /\ UNCHANGED spinning_
     ELSE /\ spinning_' = [num_spinning |-> spinning_.num_spinning,
                           num_no_notification |-> spinning_.num_no_notification + 1]
          /\ Return(t)
  /\ UNCHANGED <<ecVars, queue, front_, blocked_, done_, cancelled_, steal_partition, runVars, task, todo, spins>>

\* ec_.Notify(false), which wakes nobody when nobody waits.
NotifyOne ==
  \/ NotifyPreWaiter
  \/ \E w \in Workers : NotifySleeper(w)
  \/ signals = Cardinality(pre) /\ asleep = {} /\ UNCHANGED ecVars

ScheduleNotify(t) ==
  /\ pc[t] = "notify"
  /\ NotifyOne
  /\ Return(t)
  /\ UNCHANGED <<queue, front_, poolVars, runVars, task, todo, spins>>

\* The task ends, once what it waits for has started.
TaskEnd(t) ==
  /\ pc[t] = "run" /\ stack[t][1].kids = {}
  /\ Needs[stack[t][1].task] \subseteq started
  /\ ended' = ended \cup {stack[t][1].task}
  /\ stack' = [stack EXCEPT ![t] = Tail(@)]
  /\ Goto(t, IF Len(stack[t]) > 1 THEN "run" ELSE IF t = main THEN "main" ELSE "loop")
  /\ UNCHANGED <<ecVars, queue, front_, poolVars, task, todo, spins, unscheduled, started>>
-----------------------------------------------------------------------------
(***************************************************************************)
(* WorkerLoop and MaybeGetTask.                                            *)
(***************************************************************************)
WorkerLoop(w) ==
  /\ pc[w] = "loop"
  /\ Goto(w, IF cancelled_ THEN "exit" ELSE "popfront")
  /\ UNCHANGED <<ecVars, queue, front_, poolVars, runVars, task, todo, spins>>

\* Where a worker goes to steal from the queues vs.
StealFrom(w, l, vs) == Goto(w, l) /\ todo' = [todo EXCEPT ![w] = vs]

\* The first attempt: the worker's own front.  A partition that is the whole
\* pool makes LocalSteal return at once; a single worker spins on its front.
\* (The partition is loaded in the same step: it is set before main schedules.)
PopFront(w) ==
  /\ pc[w] = "popfront"
  /\ \/ /\ \E i \in FrontOf(w) : Pop(w, i) /\ Enter(w, queue[w][i])
        /\ UNCHANGED <<todo, spins>>
     \/ /\ NoFront(w)
        /\ IF num_threads_ = 1
           THEN /\ Goto(w, "solo") /\ UNCHANGED todo
                /\ spins' = [spins EXCEPT ![w] = IF allow_spinning_ THEN spin_count_ ELSE 0]
           ELSE /\ IF steal_partition[w] = Workers THEN StealFrom(w, "global", Workers)
                   ELSE StealFrom(w, "local", steal_partition[w])
                /\ UNCHANGED spins
        /\ UNCHANGED <<queue, stack, started>>
  /\ UNCHANGED <<ecVars, front_, poolVars, task, unscheduled, ended>>

SoloSpin(w) ==
  /\ pc[w] = "solo"
  /\ \/ /\ spins[w] = 0
        /\ Goto(w, "prewait") /\ UNCHANGED <<queue, stack, started, spins>>
     \/ /\ spins[w] # 0
        /\ \E i \in FrontOf(w) : Pop(w, i) /\ Enter(w, queue[w][i])
        /\ spins' = [spins EXCEPT ![w] = 0]
     \/ /\ spins[w] # 0 /\ NoFront(w)
        /\ spins' = [spins EXCEPT ![w] = @ - 1] /\ UNCHANGED <<pc, queue, stack, started>>
  /\ UNCHANGED <<ecVars, front_, poolVars, task, todo, unscheduled, ended>>

\* Steal: PopBack from one queue after the other, in any order the walk by a
\* coprime step can take; the first task found ends it.
StealHit(w) ==
  /\ pc[w] \in {"local", "global", "spin", "again"}
  /\ \E v \in todo[w] : \E i \in BackOf(v) :
       /\ Pop(v, i)
       /\ IF pc[w] = "spin"
          THEN /\ task' = [task EXCEPT ![w] = <<queue[v][i]>>]
               /\ Goto(w, "stopspin")
               /\ UNCHANGED <<stack, started>>
          ELSE Enter(w, queue[v][i]) /\ UNCHANGED task
  /\ todo' = [todo EXCEPT ![w] = {}]
  /\ spins' = [spins EXCEPT ![w] = 0]
  /\ UNCHANGED <<ecVars, front_, poolVars, unscheduled, ended>>

\* What follows when the last queue was empty too.
StealMiss(w) ==
  /\ pc[w] \in {"local", "global", "spin", "again"}
  /\ \E v \in todo[w] :
       /\ SeemsEmpty(v)
       /\ LET left == todo[w] \ {v}
              again == pc[w] = "spin" /\ spins[w] > 1
          IN  IF left # {} THEN StealFrom(w, pc[w], left) /\ UNCHANGED spins
              ELSE /\ \/ pc[w] = "local" /\ StealFrom(w, "global", Workers)
                      \/ /\ pc[w] = "global"
                         /\ StealFrom(w, IF allow_spinning_ THEN "active" ELSE "prewait", {})
                      \/ pc[w] = "spin" /\ again /\ StealFrom(w, "spin", Workers)
                      \/ pc[w] = "spin" /\ ~again /\ StealFrom(w, "stopspin", {})
                      \/ pc[w] = "again" /\ StealFrom(w, "prewait", {})
                   /\ spins' = [spins EXCEPT ![w] = IF again THEN @ - 1 ELSE 0]
  /\ UNCHANGED <<ecVars, queue, front_, poolVars, runVars, task>>

\* StartSpinning: too many active threads; too many spinning; or one more.
NumActive(w) ==
  /\ pc[w] = "active"
  /\ Goto(w, IF num_threads_ - blocked_ > kMinActiveThreadsToStartSpinning THEN "prewait" ELSE "startspin")
  /\ UNCHANGED <<ecVars, queue, front_, poolVars, runVars, task, todo, spins>>

StartSpinning(w) ==
  /\ pc[w] = "startspin"
  /\ IF spinning_.num_spinning - spinning_.num_no_notification >= kMaxSpinningThreads
     THEN Goto(w, "prewait") /\ UNCHANGED <<spinning_, todo, spins>>
     ELSE /\ spinning_' = [num_spinning |-> spinning_.num_spinning + 1,
                           num_no_notification |-> spinning_.num_no_notification]
          /\ IF spin_count_ = 0 THEN StealFrom(w, "stopspin", {})
             ELSE StealFrom(w, "spin", Workers)
          /\ spins' = [spins EXCEPT ![w] = spin_count_]
  /\ UNCHANGED <<ecVars, queue, front_, blocked_, done_, cancelled_, steal_partition, runVars, task>>

\* StopSpinning, and what MaybeGetTask does with its answer.
StopSpinning(w) ==
  /\ pc[w] = "stopspin"
  /\ LET nn == spinning_.num_no_notification
     IN  /\ spinning_' = [num_spinning |-> spinning_.num_spinning - 1,
                          num_no_notification |-> IF nn > 0 THEN nn - 1 ELSE 0]
         /\ IF task[w] # <<>>
            THEN Enter(w, task[w][1]) /\ UNCHANGED todo
            ELSE /\ IF nn > 0 THEN StealFrom(w, "again", Workers)
                    ELSE StealFrom(w, "prewait", {})
                 /\ UNCHANGED <<stack, started>>
  /\ task' = [task EXCEPT ![w] = <<>>]
  /\ UNCHANGED <<ecVars, queue, front_, blocked_, done_, cancelled_, steal_partition, spins, unscheduled, ended>>
-----------------------------------------------------------------------------
(***************************************************************************)
(* WaitForWork.                                                            *)
(***************************************************************************)
BugNoCheck(w) ==
  /\ pc[w] = "prewait"
  /\ Prewait(w)
  /\ StealFrom(w, "block", {})
  /\ UNCHANGED <<queue, front_, poolVars, runVars, task, spins>>
WaitPrewait(w) ==
  /\ pc[w] = "prewait"
  /\ Prewait(w)
  /\ StealFrom(w, "check", Workers)
  /\ UNCHANGED <<queue, front_, poolVars, runVars, task, spins>>

\* NonEmptyQueueIndex: Empty() of one queue after the other.  The queue that
\* is not empty stays in todo as the victim.
CheckQueue(w) ==
  /\ pc[w] \in {"check", "recheck"}
  /\ \E v \in todo[w] :
       \/ /\ SeemsFilled(v)
          /\ StealFrom(w, IF pc[w] = "check" THEN "cancelwait" ELSE "unblock", {v})
       \/ /\ SeemsEmpty(v)
          /\ IF todo[w] # {v} THEN StealFrom(w, pc[w], todo[w] \ {v})
             ELSE StealFrom(w, IF pc[w] = "check" THEN "block" ELSE "notifyall", {})
  /\ UNCHANGED <<ecVars, queue, front_, poolVars, runVars, task, spins>>

WaitCancel(w) ==
  /\ pc[w] = "cancelwait"
  /\ CancelWait(w)
  /\ Goto(w, "cancelled")
  /\ UNCHANGED <<queue, front_, poolVars, runVars, task, todo, spins>>

CheckCancelled(w) ==
  /\ pc[w] = "cancelled"
  /\ IF cancelled_ THEN StealFrom(w, "exit", {})
                   ELSE Goto(w, "victim") /\ UNCHANGED todo
  /\ UNCHANGED <<ecVars, queue, front_, poolVars, runVars, task, spins>>

\* The victim's back, which may be empty by now.
PopVictim(w) ==
  /\ pc[w] = "victim"
  /\ \E v \in todo[w] :
       \/ \E i \in BackOf(v) : Pop(v, i) /\ Enter(w, queue[v][i])
       \/ /\ SeemsEmpty(v)
          /\ Goto(w, "loop")
          /\ UNCHANGED <<queue, stack, started>>
  /\ todo' = [todo EXCEPT ![w] = {}]
  /\ UNCHANGED <<ecVars, front_, poolVars, task, spins, unscheduled, ended>>

BugBlock(w) ==
  /\ pc[w] = "block"
  /\ Goto(w, "done")
  /\ UNCHANGED <<ecVars, queue, front_, poolVars, runVars, task, todo, spins>>
Block(w) ==
  /\ pc[w] = "block"
  /\ blocked_' = blocked_ + 1
  /\ Goto(w, "done")
  /\ UNCHANGED <<ecVars, queue, front_, spinning_, done_, cancelled_, steal_partition, runVars, task, todo, spins>>

\* if (done_ && blocked_ == num_threads_)
CheckDone(w) ==
  /\ pc[w] = "done"
  /\ Goto(w, IF done_ THEN "all" ELSE "commit")
  /\ UNCHANGED <<ecVars, queue, front_, poolVars, runVars, task, todo, spins>>

CheckBlocked(w) ==
  /\ pc[w] = "all"
  /\ Goto(w, IF blocked_ = num_threads_ THEN "cancelall" ELSE "commit")
  /\ UNCHANGED <<ecVars, queue, front_, poolVars, runVars, task, todo, spins>>

BugCancelAll(w) ==
  /\ pc[w] = "cancelall"
  /\ CancelWait(w)
  /\ Goto(w, "notifyall")
  /\ UNCHANGED <<queue, front_, poolVars, runVars, task, todo, spins>>
CancelAll(w) ==
  /\ pc[w] = "cancelall"
  /\ CancelWait(w)
  /\ StealFrom(w, "recheck", Workers)
  /\ UNCHANGED <<queue, front_, poolVars, runVars, task, spins>>

\* The re-check found work: blocked_--, back to the loop.
Unblock(w) ==
  /\ pc[w] = "unblock"
  /\ blocked_' = blocked_ - 1
  /\ StealFrom(w, "loop", {})
  /\ UNCHANGED <<ecVars, queue, front_, spinning_, done_, cancelled_, steal_partition, runVars, task, spins>>

\* Stable termination: wake the others and leave, still counted as blocked.
Leave(w) ==
  /\ pc[w] = "notifyall"
  /\ NotifyAll
  /\ Goto(w, "exit.stable")
  /\ UNCHANGED <<queue, front_, poolVars, runVars, task, todo, spins>>

Commit(w) ==
  /\ pc[w] = "commit"
  /\ CommitReturns(w) \/ CommitSleeps(w)
  /\ Goto(w, "parked")
  /\ UNCHANGED <<queue, front_, poolVars, runVars, task, todo, spins>>

\* CommitWait returns: blocked_--.
Wake(w) ==
  /\ pc[w] = "parked" /\ w \notin asleep
  /\ blocked_' = blocked_ - 1
  /\ Goto(w, "loop")
  /\ UNCHANGED <<ecVars, queue, front_, spinning_, done_, cancelled_, steal_partition, runVars, task, todo, spins>>
-----------------------------------------------------------------------------
(***************************************************************************)
(* Cancel and the destructor, called by main.                              *)
(***************************************************************************)
Cancel ==
  /\ scenario.cancels /\ pc[main] = "main" /\ ~cancelled_
  /\ cancelled_' = TRUE
  /\ Goto(main, "cancel.done")
  /\ UNCHANGED <<ecVars, queue, front_, spinning_, blocked_, done_, steal_partition, runVars, task, todo, spins>>

CancelDone ==
  /\ pc[main] = "cancel.done"
  /\ done_' = TRUE
  /\ Goto(main, "cancel.notify")
  /\ UNCHANGED <<ecVars, queue, front_, spinning_, blocked_, cancelled_, steal_partition, runVars, task, todo, spins>>

CancelNotify ==
  /\ pc[main] = "cancel.notify"
  /\ NotifyAll
  /\ Goto(main, "main")
  /\ UNCHANGED <<queue, front_, poolVars, runVars, task, todo, spins>>

\* SetStealPartitions, while the workers are running, one store at a time.
SetStealPartitions ==
  /\ pc[main] = "partition"
  /\ \E w \in todo[main] :
       /\ steal_partition' = [steal_partition EXCEPT ![w] = Partition[w]]
       /\ todo' = [todo EXCEPT ![main] = @ \ {w}]
       /\ Goto(main, IF todo[main] = {w} THEN "main" ELSE "partition")
  /\ UNCHANGED <<ecVars, queue, front_, spinning_, blocked_, done_, cancelled_, runVars, task, spins>>

\* A patient main destroys the pool when its tasks are done.
Destroy ==
  /\ pc[main] = "main" /\ (unscheduled = {} \/ cancelled_)
  /\ scenario.patient => cancelled_ \/ ended = scenario.tasks
  /\ done_' = TRUE
  /\ StealFrom(main, IF cancelled_ THEN "flush" ELSE "destroy.notify", Workers)
  /\ UNCHANGED <<ecVars, queue, front_, spinning_, blocked_, cancelled_, steal_partition, runVars, task, spins>>

BugDestroyNotify ==
  /\ pc[main] = "destroy.notify"
  /\ StealFrom(main, "join", {})
  /\ UNCHANGED <<ecVars, queue, front_, poolVars, runVars, task, spins>>
DestroyNotify ==
  /\ pc[main] = "destroy.notify"
  /\ NotifyAll
  /\ StealFrom(main, "join", {})
  /\ UNCHANGED <<queue, front_, poolVars, runVars, task, spins>>

\* Flush pops the front of a queue until Empty() says that it is empty, then
\* the next queue.  In a queue that is astray it may pop nothing for ever.
Flush ==
  /\ pc[main] = "flush"
  /\ \E q \in todo[main] :
       \/ /\ \E i \in FrontOf(q) : Pop(q, i)
          /\ front_' = [front_ EXCEPT ![q] = IF @ = "astray" THEN @ ELSE "shared"]
          /\ UNCHANGED <<todo, pc>>
       \/ /\ SeemsEmpty(q)
          /\ todo' = [todo EXCEPT ![main] = @ \ {q}]
          /\ UNCHANGED <<queue, front_, pc>>
       \/ /\ front_[q] = "astray"
          /\ Goto(main, "flush.stuck")
          /\ UNCHANGED <<queue, front_, todo>>
  /\ UNCHANGED <<ecVars, poolVars, runVars, task, spins>>

FlushEnd ==
  /\ pc[main] = "flush" /\ todo[main] = {}
  /\ Goto(main, "join")
  /\ UNCHANGED <<ecVars, queue, front_, poolVars, runVars, task, todo, spins>>

\* The threads are joined, then the members destroyed.
Exited(w) == pc[w] \in {"exit", "exit.stable"}

Join ==
  /\ pc[main] = "join" /\ \A w \in Workers : Exited(w)
  /\ Goto(main, "destroyed")
  /\ UNCHANGED <<ecVars, queue, front_, poolVars, runVars, task, todo, spins>>

\* main is done, or spins in Flush.
Terminating == pc[main] \in {"destroyed", "flush.stuck"} /\ UNCHANGED vars
-----------------------------------------------------------------------------
TaskStep(t) ==
  /\ ScheduleChild(t) \/ IsNotifyRequired(t) \/ ScheduleNotify(t) \/ TaskEnd(t)
  /\ UNCHANGED scenario

WorkerStep(w) ==
  /\ \/ WorkerLoop(w) \/ PopFront(w) \/ SoloSpin(w) \/ StealHit(w) \/ StealMiss(w)
     \/ NumActive(w) \/ StartSpinning(w) \/ StopSpinning(w)
     \/ WaitPrewait(w) \/ CheckQueue(w) \/ WaitCancel(w) \/ CheckCancelled(w) \/ PopVictim(w)
     \/ Block(w) \/ CheckDone(w) \/ CheckBlocked(w) \/ CancelAll(w) \/ Unblock(w)
     \/ Leave(w) \/ Commit(w) \/ Wake(w)
  /\ UNCHANGED scenario

MainStep ==
  /\ \/ ScheduleMain \/ Destroy \/ DestroyNotify \/ Flush \/ FlushEnd \/ Join
     \/ CancelDone \/ CancelNotify \/ SetStealPartitions
  /\ UNCHANGED scenario

MainCancels == Cancel /\ UNCHANGED scenario

Next ==
  \/ \E t \in Threads : TaskStep(t)
  \/ \E w \in Workers : WorkerStep(w)
  \/ MainStep \/ MainCancels
  \/ Terminating

Spec == Init /\ [][Next]_vars

\* Every thread that can run is run; main finishes scheduling and destroys, but
\* need not cancel.
Fairness ==
  /\ \A w \in Waiters : WF_vars(w \in Workers /\ (WorkerStep(w) \/ TaskStep(w)))
  /\ WF_vars(TaskStep(main) \/ MainStep)

FairSpec == Spec /\ Fairness
-----------------------------------------------------------------------------
Labels == {"run", "required", "notify", "loop", "popfront", "solo", "local", "global",
           "spin", "again", "active", "startspin", "stopspin", "prewait", "check",
           "cancelwait", "cancelled", "victim", "block", "done", "all", "cancelall",
           "recheck", "unblock", "notifyall", "commit", "parked", "exit", "exit.stable",
           "partition", "main", "cancel.done", "cancel.notify", "flush", "flush.stuck",
           "destroy.notify", "join", "destroyed"}

\* Every variable has its type.
TypeOK ==
  /\ pre \subseteq Workers /\ asleep \subseteq Workers /\ signals \in Nat
  /\ queue \in [Workers -> Seq(Tasks)]
  /\ front_ \in [Workers -> {"owned", "shared", "astray"}]
  /\ spinning_ \in [num_spinning : Nat, num_no_notification : Nat]
  /\ blocked_ \in Nat /\ done_ \in BOOLEAN /\ cancelled_ \in BOOLEAN
  /\ steal_partition \in [Workers -> SUBSET Workers]
  /\ pc \in [Threads -> Labels]
  /\ stack \in [Threads -> Seq([task : Tasks, kids : SUBSET Tasks])]
  /\ task \in [Workers -> Seq(Tasks)]
  /\ todo \in [Threads -> SUBSET Workers]
  /\ spins \in [Workers -> Nat]
  /\ unscheduled \subseteq Tasks /\ started \subseteq Tasks /\ ended \subseteq started

At(ls) == {t \in Threads : pc[t] \in ls}

\* The counters of the pool are exact.  num_spinning counts the threads in the
\* spin loop and is never below num_no_notification, as both asserts of
\* SpinningState demand (NonBlockingThreadPool.h:307, 313); blocked_ counts the
\* threads between blocked_++ and blocked_--, and those that left for good.
CountersExact ==
  /\ spinning_.num_spinning = Cardinality(At({"spin", "stopspin"}))
  /\ spinning_.num_no_notification <= spinning_.num_spinning
  /\ blocked_ = Cardinality(At({"done", "all", "cancelall", "recheck", "unblock",
                                "notifyall", "commit", "parked", "exit.stable"}))

\* How often task k is in a queue or in a worker's hands.
Waiting(k) ==
  Cardinality({x \in Workers \X (1 .. kSize) :
                 x[2] <= Len(queue[x[1]]) /\ queue[x[1]][x[2]] = k})
  + Cardinality({w \in Workers : task[w] = <<k>>})

\* The tasks that Schedule was called for.
Submitted ==
  LET frames == UNION {{stack[t][i] : i \in 1 .. Len(stack[t])} : t \in Threads}
      due == UNION {f.kids : f \in frames}
  IN  (MainTasks \ unscheduled) \cup ((UNION {Children[p] : p \in started}) \ due)

\* The destructor of a cancelled pool empties the queues, or has.
Flushed == cancelled_ /\ pc[main] \in {"flush", "flush.stuck", "join", "destroyed"}

\* No task is lost, duplicated or run twice, whoever takes it from which end:
\* until it starts, a submitted task is at exactly one place (at most one, once
\* the destructor of a cancelled pool has flushed the queues).
Conserved ==
  \A k \in Tasks :
    IF k \in Submitted \ started
    THEN Waiting(k) = 1 \/ (Waiting(k) = 0 /\ Flushed)
    ELSE Waiting(k) = 0

Queued == UNION {{<<w, i>> : i \in 1 .. Len(queue[w])} : w \in Workers}
Scheduling == At({"required", "notify"})

\* The workers about to sleep, unless a signal turns them back.
Sinking == At({"block", "done", "all", "commit"})
           \cup {w \in At({"check"}) : \A v \in todo[w] : queue[v] = <<>>}

\* A queued task has somebody to take it: with nobody in the middle of Schedule
\* there is a worker that is not asleep and will look at the queues again, after
\* its task if it runs one.  What would break it is a notification withheld for
\* a spinner that does not look (NonBlockingThreadPool.h:181-187), or given
\* between the emptiness check and the sleep of the last worker.
NoStall ==
  Queued # {} /\ Scheduling = {} /\ ~cancelled_ =>
    signals > 0 \/ \E w \in Workers : w \notin asleep \cup Sinking /\ ~Exited(w)

\* "Test we never-ever fail to match available tasks with idle threads."
\* (test/threads_non_blocking_thread_pool.cpp:24): a thread sleeps, a task is
\* queued, and all the others are inside tasks.
NeverUnmatched ==
  ~ /\ Scheduling = {} /\ ~cancelled_
    /\ asleep # {} /\ Queued # {}
    /\ \A w \in Workers : w \in asleep \/ pc[w] = "run"

\* "Wake up the threads without work to let them exit on their own."
\* (NonBlockingThreadPool.h:204): a cancelled pool gets its threads out.
CancelReleases == cancelled_ ~> \A w \in Workers : Exited(w)

\* Every task that can run is run, and the pool comes down: no task sleeps in
\* a queue beside sleeping workers, nobody waits for ever in ec_, the
\* destructor's handshake through done_ and blocked_ ends.  Only a cancelled
\* pool may hang: with several workers (CancelReleases), or when a task has
\* submitted another while the destructor flushed the queue (FlushEnds).
MayHang == cancelled_ /\ (num_threads_ > 1 \/ \E q \in Workers : front_[q] = "astray")
ComesDown == <>(pc[main] = "destroyed" \/ MayHang)
-----------------------------------------------------------------------------
\* The pool implements what it promises its user.
Promise == INSTANCE ThreadPoolSpec WITH
             submitted <- Submitted,
             cancelled <- cancelled_,
             gone <- pc[main] = "destroyed"

PromiseSpec == Promise!SpecTP
=============================================================================

---------------------------- MODULE HThreadPool ----------------------------
(***************************************************************************)
(* libhv's HThreadPool (hthreadpool.h): a pool of threads that grows when a*)
(* task is committed and nobody seems idle, and shrinks when a thread waits*)
(* for max_idle_time.  status, cur_thread_num and idle_thread_num are      *)
(* atomics that are read without a lock; task_mutex guards the queue,      *)
(* thread_mutex the list of threads - but neither wait() nor the checks of *)
(* commit() nor stop() take them.                                          *)
(*                                                                         *)
(* One thread, the owner, calls start, pause, resume, wait and stop; others*)
(* commit tasks, which starts a stopped pool.  The owner starts and stops  *)
(* the pool when nobody is committing; the workers may be anywhere.        *)
(*                                                                         *)
(* A worker waits for a task with a timeout, so it may always wake: whether*)
(* it was notified, timed out or woke for no reason is not told apart, and *)
(* notify_one and notify_all are left out.  A thread that has left the loop*)
(* counts as finished, so that joining it does not wait.                   *)
(***************************************************************************)
EXTENDS Integers, Sequences, FiniteSets

CONSTANTS
  Owner,           \* the thread that owns the pool
  Committers,      \* the threads that commit tasks
  Threads,         \* bound: the numbers of the threads that exist at a time
  MinSizes,        \* the values of min_thread_num
  MaxSizes,        \* and of max_thread_num to choose from
  Tasks,           \* bound: the numbers of the tasks that are committed
  MaxCalls         \* bound: calls of wait() and stop()

Creators == Committers \cup {Owner}

ASSUME HAssumption ==
  /\ Owner \notin Committers /\ IsFiniteSet(Committers) /\ Committers # {}
  /\ Threads \subseteq Nat /\ IsFiniteSet(Threads) /\ Tasks \subseteq Nat \ {0}
  /\ MinSizes \subseteq Nat /\ MaxSizes \subseteq Nat \ {0} /\ MaxCalls \in Nat

Free == "free"
Held == "held"

VARIABLES
  min_thread_num, max_thread_num,
  status,           \* STOP, RUNNING or PAUSE
  cur_thread_num, idle_thread_num,
  tasks,            \* the queue
  task_mutex,       \* Free or Held by a worker
  thread_mutex,     \* Free or Held by a worker or a creator
  threads,          \* the list: threads that are in it, with their status there
  pc,               \* where each worker is; "none": there is no such thread
  running,          \* the task each worker holds, 0 if none
  cpc,              \* where each creator is
  next,             \* where it goes on when it has created its threads
  left,             \* how many threads it still creates
  new,              \* the thread it is adding
  seen,             \* wait(): the counter that was read first
  before,           \* auxiliary: the tasks committed before the last wait() was called
  churned,          \* auxiliary: threads came or went while the last turn of wait() read
  committed,        \* auxiliary: the tasks that were put in the queue
  calls,            \* auxiliary: how often wait() or stop() was called
  crashed           \* stop() followed an iterator that delThread() had erased

counters == <<cur_thread_num, idle_thread_num>>
locks == <<task_mutex, thread_mutex>>
workers == <<pc, running>>
creators == <<cpc, next, left, new>>
waiting == <<seen, before, churned>>
sizes == <<min_thread_num, max_thread_num>>
limits == <<sizes, calls, crashed>>
vars == <<status, counters, tasks, locks, threads, workers, creators, waiting, committed, limits>>

Init ==
  /\ min_thread_num \in MinSizes /\ max_thread_num \in MaxSizes /\ min_thread_num <= max_thread_num
  /\ status = "STOP" /\ cur_thread_num = 0 /\ idle_thread_num = 0
  /\ tasks = <<>> /\ task_mutex = Free /\ thread_mutex = Free
  /\ threads = [w \in Threads |-> "absent"]
  /\ pc = [w \in Threads |-> "none"] /\ running = [w \in Threads |-> 0]
  /\ cpc = [c \in Creators |-> "idle"] /\ next = [c \in Creators |-> "idle"]
  /\ left = [c \in Creators |-> 0] /\ new = [c \in Creators |-> 0]
  /\ seen = 0 /\ before = {} /\ churned = FALSE
  /\ committed = {} /\ calls = 0 /\ crashed = FALSE

\* The creators that are at certain places
Adding(places) == {c \in Creators : cpc[c] \in places}

Go(f, x, place) == [f EXCEPT ![x] = place]

\* wait() has found the queue empty and looks at the counters.
CounterPlaces == {"counters?", "all?", "idle?"}
WaitPlaces == {"empty?"} \cup CounterPlaces

----------------------------------------------------------------------------
(* start() and createThread(), by the owner or inside commit().            *)

\* Where a creator goes that has n threads to create.
Onward(c, n) == IF n = 0 THEN next[c] ELSE "create"

\* start() has seen that the pool is stopped.
SetRunning(c) ==
  /\ cpc[c] = "start"
  /\ status' = "RUNNING"
  /\ left' = Go(left, c, min_thread_num)
  /\ cpc' = Go(cpc, c, Onward(c, min_thread_num))
  /\ UNCHANGED <<counters, tasks, locks, threads, workers, next, new, waiting, committed, limits>>

\* createThread() compares with > instead of >=.
BugCreateThread(c) ==
  /\ cpc[c] = "create"
  /\ left' = Go(left, c, left[c] - 1)
  /\ \/ /\ cur_thread_num > max_thread_num
        /\ cpc' = Go(cpc, c, Onward(c, left'[c]))
        /\ UNCHANGED <<new, pc>>
     \/ /\ cur_thread_num <= max_thread_num
        /\ \E w \in Threads :
             /\ pc[w] = "none" /\ \A v \in Threads : pc[v] = "none" => w <= v
             /\ pc' = Go(pc, w, "loop") /\ new' = Go(new, c, w)
        /\ cpc' = Go(cpc, c, "add")
  /\ UNCHANGED <<status, counters, tasks, locks, threads, running, next, waiting, committed, limits>>

\* createThread(): if there is room, spawn the thread, which runs from now on.
CreateThread(c) ==
  /\ cpc[c] = "create"
  /\ left' = Go(left, c, left[c] - 1)
  /\ \/ /\ cur_thread_num >= max_thread_num
        /\ cpc' = Go(cpc, c, Onward(c, left'[c]))
        /\ UNCHANGED <<new, pc>>
     \/ /\ cur_thread_num < max_thread_num
        /\ \E w \in Threads :
             /\ pc[w] = "none" /\ \A v \in Threads : pc[v] = "none" => w <= v
             /\ pc' = Go(pc, w, "loop") /\ new' = Go(new, c, w)
        /\ cpc' = Go(cpc, c, "add")
  /\ UNCHANGED <<status, counters, tasks, locks, threads, running, next, waiting, committed,
                 limits>>

\* addThread()
AddThread(c) ==
  /\ cpc[c] = "add" /\ thread_mutex = Free
  /\ thread_mutex' = Held /\ cur_thread_num' = cur_thread_num + 1
  /\ cpc' = Go(cpc, c, "added")
  /\ UNCHANGED <<status, idle_thread_num, tasks, task_mutex, threads, workers, next, left, new,
                 waiting, committed, limits>>

ListThread(c) ==
  /\ cpc[c] = "added"
  /\ thread_mutex' = Free /\ idle_thread_num' = idle_thread_num + 1
  /\ threads' = Go(threads, new[c], "RUNNING")
  /\ cpc' = Go(cpc, c, Onward(c, left[c])) /\ new' = Go(new, c, 0)
  /\ churned' = (churned \/ cpc[Owner] = "idle?")
  /\ UNCHANGED <<status, cur_thread_num, tasks, task_mutex, workers, next, left, seen, before,
                 committed, limits>>

Create(c) == SetRunning(c) \/ CreateThread(c) \/ AddThread(c) \/ ListThread(c)

----------------------------------------------------------------------------
(* commit().                                                               *)

\* Create a thread first if nobody seems idle.  idle_thread_num is compared as an unsigned
\* number: -1 is more than any queue holds.
Need(c) ==
  IF idle_thread_num \in 0..Len(tasks)
    THEN /\ cpc' = Go(cpc, c, "create") /\ next' = Go(next, c, "push")
         /\ left' = Go(left, c, 1)
    ELSE cpc' = Go(cpc, c, "push") /\ UNCHANGED <<next, left>>

\* A stopped pool is started; nobody commits while the owner is starting or stopping it.
Commit(c) ==
  /\ cpc[c] = "idle" /\ cpc[Owner] \in {"idle", "waited"} \cup WaitPlaces
  /\ Cardinality(committed) + Cardinality({d \in Committers : cpc[d] # "idle"}) < Cardinality(Tasks)
  /\ IF status = "STOP"
       THEN /\ cpc' = Go(cpc, c, "start") /\ next' = Go(next, c, "need")
            /\ UNCHANGED left
       ELSE Need(c)
  /\ UNCHANGED <<status, counters, tasks, locks, threads, workers, new, waiting, committed, limits>>

Started(c) ==
  /\ cpc[c] = "need"
  /\ Need(c)
  /\ UNCHANGED <<status, counters, tasks, locks, threads, workers, new, waiting, committed, limits>>

Push(c) ==
  /\ cpc[c] = "push" /\ task_mutex = Free
  /\ \E t \in Tasks \ committed :
       /\ \A u \in Tasks \ committed : t <= u
       /\ tasks' = Append(tasks, t) /\ committed' = committed \cup {t}
  /\ cpc' = Go(cpc, c, "idle") /\ next' = Go(next, c, "idle")
  /\ UNCHANGED <<status, counters, locks, threads, workers, left, new, waiting, limits>>

----------------------------------------------------------------------------
(* The threads of the pool.                                                *)

\* A paused worker goes round until the pool is running again.
BugLoop(w) ==
  /\ pc[w] = "loop" /\ status = "RUNNING"
  /\ pc' = Go(pc, w, "lock")
  /\ UNCHANGED <<status, counters, tasks, locks, threads, running, creators, waiting, committed,
                 limits>>

\* The two outer loops: leave when stopped, go round while paused.
Loop(w) ==
  /\ pc[w] = "loop" /\ status # "PAUSE"
  /\ pc' = Go(pc, w, IF status = "STOP" THEN "ended" ELSE "lock")
  /\ UNCHANGED <<status, counters, tasks, locks, threads, running, creators, waiting,
                 committed, limits>>

Yield(w) == pc[w] = "loop" /\ status = "PAUSE" /\ UNCHANGED vars

\* wait_for() returns with task_mutex held
Leave(w) ==
  /\ pc[w] = "lock" /\ task_mutex = Free /\ status = "STOP"
  /\ pc' = Go(pc, w, "ended")
  /\ UNCHANGED <<status, counters, tasks, locks, threads, running, creators, waiting,
                 committed, limits>>

\* A thread gives up when there are min_thread_num of them.
BugTimeout(w) ==
  /\ pc[w] = "lock" /\ task_mutex = Free /\ status # "STOP" /\ tasks = <<>>
  /\ IF cur_thread_num >= min_thread_num
       THEN task_mutex' = Held /\ pc' = Go(pc, w, "delete")
       ELSE pc' = Go(pc, w, "loop") /\ UNCHANGED task_mutex
  /\ UNCHANGED <<status, counters, tasks, thread_mutex, threads, running, creators, waiting,
                 committed, limits>>

Timeout(w) ==
  /\ pc[w] = "lock" /\ task_mutex = Free /\ status # "STOP" /\ tasks = <<>>
  /\ IF cur_thread_num > min_thread_num
       THEN task_mutex' = Held /\ pc' = Go(pc, w, "delete")
       ELSE pc' = Go(pc, w, "loop") /\ UNCHANGED task_mutex
  /\ UNCHANGED <<status, counters, tasks, thread_mutex, threads, running, creators, waiting,
                 committed, limits>>

Take(w) ==
  /\ pc[w] = "lock" /\ task_mutex = Free /\ status # "STOP" /\ tasks # <<>>
  /\ task_mutex' = Held /\ idle_thread_num' = idle_thread_num - 1
  /\ pc' = Go(pc, w, "pop")
  /\ UNCHANGED <<status, cur_thread_num, tasks, thread_mutex, threads, running, creators,
                 waiting, committed, limits>>

Pop(w) ==
  /\ pc[w] = "pop"
  /\ running' = Go(running, w, Head(tasks)) /\ tasks' = Tail(tasks)
  /\ task_mutex' = Free /\ pc' = Go(pc, w, "run")
  /\ UNCHANGED <<status, counters, thread_mutex, threads, creators, waiting, committed,
                 limits>>

Run(w) ==
  /\ pc[w] = "run"
  /\ running' = Go(running, w, 0) /\ idle_thread_num' = idle_thread_num + 1
  /\ pc' = Go(pc, w, "loop")
  /\ UNCHANGED <<status, cur_thread_num, tasks, locks, threads, creators, waiting, committed, limits>>

\* delThread(), under both locks
DelThread(w) ==
  /\ pc[w] = "delete" /\ thread_mutex = Free
  /\ thread_mutex' = Held /\ cur_thread_num' = cur_thread_num - 1
  /\ churned' = (churned \/ cpc[Owner] \in CounterPlaces)
  /\ pc' = Go(pc, w, "deleted")
  /\ UNCHANGED <<status, idle_thread_num, tasks, task_mutex, threads, running, creators, seen,
                 before, committed, limits>>

\* delThread() forgets idle_thread_num.
BugScan(w) ==
  /\ pc[w] = "deleted"
  /\ threads' = Go(threads, w, IF threads[w] = "absent" THEN "absent" ELSE "STOP")
  /\ pc' = Go(pc, w, "retired")
  /\ task_mutex' = Free /\ thread_mutex' = Free
  /\ UNCHANGED <<status, counters, tasks, running, creators, waiting, committed, limits>>

\* Those that gave up at least a second ago are joined and erased, and the thread marks
\* itself - if it is in the list yet.  Erasing while stop() goes through the list may crash.
Scan(w) ==
  /\ pc[w] = "deleted"
  /\ idle_thread_num' = idle_thread_num - 1
  /\ \E old \in SUBSET {v \in Threads : threads[v] = "STOP"} :
       /\ threads' = [v \in Threads |->
                        IF v \in old THEN "absent"
                        ELSE IF v = w /\ threads[w] # "absent" THEN "STOP" ELSE threads[v]]
       /\ pc' = [v \in Threads |->
                   IF v = w THEN "retired" ELSE IF v \in old THEN "none" ELSE pc[v]]
       /\ \/ UNCHANGED crashed
          \/ old # {} /\ cpc[Owner] = "join" /\ crashed' = TRUE
  /\ task_mutex' = Free /\ thread_mutex' = Free
  /\ UNCHANGED <<status, cur_thread_num, tasks, running, creators, waiting, committed, sizes, calls>>

WorkerStep(w) ==
  \/ Loop(w) \/ Yield(w) \/ Leave(w) \/ Timeout(w) \/ Take(w) \/ Pop(w) \/ Run(w)
  \/ DelThread(w) \/ Scan(w)

----------------------------------------------------------------------------
(* The owner.                                                              *)

Idle == cpc[Owner] = "idle"

Start ==
  /\ Adding({"idle"}) = Creators /\ status = "STOP"
  /\ cpc' = Go(cpc, Owner, "start") /\ next' = Go(next, Owner, "idle")
  /\ UNCHANGED <<status, counters, tasks, locks, threads, workers, left, new, waiting, committed,
                 limits>>

Pause ==
  /\ Idle /\ status = "RUNNING"
  /\ status' = "PAUSE"
  /\ UNCHANGED <<counters, tasks, locks, threads, workers, creators, waiting, committed, limits>>

Resume ==
  /\ Idle /\ status = "PAUSE"
  /\ status' = "RUNNING"
  /\ UNCHANGED <<counters, tasks, locks, threads, workers, creators, waiting, committed, limits>>

\* wait(): three reads, one after the other, none under a lock
Wait ==
  /\ Idle /\ status # "STOP" /\ calls < MaxCalls
  /\ before' = committed /\ calls' = calls + 1
  /\ cpc' = Go(cpc, Owner, "empty?")
  /\ UNCHANGED <<status, counters, tasks, locks, threads, workers, next, left, new, seen, churned,
                 committed, sizes, crashed>>

\* wait() reads the counters before it looks at the queue, which it does not do again.
BugWaitEmpty ==
  /\ cpc[Owner] = "empty?"
  /\ churned' = (\E w \in Threads : pc[w] = "deleted")
  /\ cpc' = Go(cpc, Owner, "counters?")
  /\ UNCHANGED <<status, counters, tasks, locks, threads, workers, next, left, new, seen, before,
                 committed, limits>>

WaitEmpty ==
  /\ cpc[Owner] = "empty?" /\ tasks = <<>>
  /\ churned' = (\E w \in Threads : pc[w] = "deleted")
  /\ cpc' = Go(cpc, Owner, "counters?")
  /\ UNCHANGED <<status, counters, tasks, locks, threads, workers, next, left, new, seen, before,
                 committed, limits>>

\* idle_thread_num == cur_thread_num: nothing says which of the two is read first.
WaitFirst ==
  /\ cpc[Owner] = "counters?"
  /\ \/ seen' = idle_thread_num /\ cpc' = Go(cpc, Owner, "all?")
     \/ seen' = cur_thread_num /\ cpc' = Go(cpc, Owner, "idle?")
  /\ UNCHANGED <<status, counters, tasks, locks, threads, workers, next, left, new, before, churned,
                 committed, limits>>

WaitSecond ==
  /\ cpc[Owner] \in {"all?", "idle?"}
  /\ LET other == IF cpc[Owner] = "all?" THEN cur_thread_num ELSE idle_thread_num IN
       IF seen = other THEN cpc' = Go(cpc, Owner, "waited") /\ UNCHANGED churned
                       ELSE cpc' = Go(cpc, Owner, "empty?") /\ churned' = FALSE
  /\ seen' = 0
  /\ UNCHANGED <<status, counters, tasks, locks, threads, workers, next, left, new, before,
                 committed, limits>>

\* stop(): no lock is taken
Stop ==
  /\ Adding({"idle"}) = Creators /\ status # "STOP" /\ calls < MaxCalls
  /\ status' = "STOP" /\ calls' = calls + 1
  /\ cpc' = Go(cpc, Owner, "join")
  /\ UNCHANGED <<counters, tasks, locks, threads, workers, next, left, new, waiting, committed,
                 sizes, crashed>>

\* Every thread of the list is joined; tasks stay in the queue.
StopJoined ==
  /\ cpc[Owner] = "join"
  /\ LET listed == {w \in Threads : threads[w] # "absent"} IN
       /\ \A w \in listed : pc[w] \in {"ended", "retired"}
       /\ pc' = [w \in Threads |-> IF w \in listed THEN "none" ELSE pc[w]]
  /\ threads' = [w \in Threads |-> "absent"]
  /\ cur_thread_num' = 0 /\ idle_thread_num' = 0
  /\ cpc' = Go(cpc, Owner, "idle")
  /\ UNCHANGED <<status, tasks, locks, running, next, left, new, waiting, committed, limits>>

WaitReturns ==
  /\ cpc[Owner] = "waited"
  /\ cpc' = Go(cpc, Owner, "idle") /\ before' = {} /\ churned' = FALSE
  /\ UNCHANGED <<status, counters, tasks, locks, threads, workers, next, left, new, seen, committed,
                 limits>>

\* It goes round while there are tasks - for ever, if the pool is paused.
WaitTurn == cpc[Owner] = "empty?" /\ tasks # <<>> /\ UNCHANGED vars

WaitStep == WaitTurn \/ WaitEmpty \/ WaitFirst \/ WaitSecond \/ WaitReturns

OwnerStep == Start \/ Pause \/ Resume \/ Wait \/ WaitStep \/ Stop \/ StopJoined

----------------------------------------------------------------------------

\* A process that has crashed does nothing more.
Crashed == crashed /\ UNCHANGED vars

Next ==
  \/ /\ ~crashed
     /\ \/ \E w \in Threads : WorkerStep(w)
        \/ \E c \in Committers : Commit(c) \/ Started(c) \/ Push(c)
        \/ \E c \in Creators : Create(c)
        \/ OwnerStep
  \/ Crashed

\* Every thread of the process is scheduled, a worker's wait times out; nobody has to call
\* anything but goes on with what was called.
Fairness ==
  /\ \A w \in Threads : WF_vars(~crashed /\ WorkerStep(w))
  /\ \A c \in Committers : WF_vars(~crashed /\ (Started(c) \/ Push(c)))
  /\ \A c \in Creators : WF_vars(~crashed /\ Create(c))
  /\ WF_vars(~crashed /\ (WaitStep \/ StopJoined))

Spec == Init /\ [][Next]_vars /\ Fairness

----------------------------------------------------------------------------

Queued(t) == \E i \in 1..Len(tasks) : tasks[i] = t

(* cur_thread_num counts the threads in the list that have not given up,   *)
(* idle_thread_num those of them that are not busy with a task, but for the*)
(* threads that are half-way through addThread or delThread; and when the  *)
(* pool is stopped no thread is left (addThread and delThread,             *)
(* hthreadpool.h:185 and 199; stop, :81).                                  *)
Alive == {w \in Threads : pc[w] # "none"}
At(places) == {w \in Threads : pc[w] \in places}
CountersExact ==
  /\ cur_thread_num = Cardinality(Alive) - Cardinality(Adding({"add"}))
                      - Cardinality(At({"deleted", "retired"}))
  /\ idle_thread_num = Cardinality(Alive) - Cardinality(Adding({"add", "added"}))
                       - Cardinality(At({"retired"}))
                       - Cardinality(At({"pop", "run"}))
  /\ status = "STOP" /\ Adding({"idle"}) = Creators => Alive = {}

(* The unlocked check of max_thread_num lets the committers that check it  *)
(* at the same time exceed it, but by no more than one thread each         *)
(* (createThread, hthreadpool.h:150).                                      *)
ThreadBound ==
  cur_thread_num + Cardinality(Adding({"add"})) < max_thread_num + Cardinality(Committers)

(* When wait() has found the pool idle, every task committed before it was *)
(* called has been run, although it reads the queue and the two counters   *)
(* one after the other without a lock - unless the threads of the pool     *)
(* changed while it read the counters: one gave up, whose two decrements it*)
(* may see half done, or one was added to idle_thread_num after            *)
(* cur_thread_num, if that is read first.  Either lets it return while the *)
(* task still runs (wait, hthreadpool.h:112; addThread, :185; delThread,   *)
(* :199).                                                                  *)
WaitHonest ==
  cpc[Owner] = "waited" /\ ~churned => \A t \in before : ~Queued(t) /\ ~\E w \in Threads : running[w] = t

(* A task in the queue is taken in the end, unless the pool is stopped or  *)
(* paused (or crashes): the last min_thread_num threads never give up.  If *)
(* that is 0 a task may wait for the next commit: the last thread can give *)
(* up after commit() saw it idle (the worker's loop, hthreadpool.h:152).   *)
TasksRun ==
  \A t \in Tasks :
    (Queued(t) /\ min_thread_num > 0) ~> (~Queued(t) \/ status # "RUNNING" \/ crashed)

(* stop() returns, whatever the workers were doing, also in a pool that is *)
(* paused (stop, hthreadpool.h:81).                                        *)
StopReturns == (cpc[Owner] = "join") ~> (cpc[Owner] # "join" \/ crashed)

=============================================================================

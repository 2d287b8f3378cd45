# 3rdParty: TLA+ models and proofs

This directory models the concurrent core of the libraries collected in this
repository, checks the models with TLC and proves theorems about them with
TLAPS.  It has three parts: Eigen's thread pool with the loops on top of it
(`eigen-5.0.0/Eigen/src/ThreadPool`), the appenders of log4qt that have a protocol
(asynchronous and rolling), and libhv's `HThreadPool`.

`PROJECT.json` lists components, runs, mutants, the source lines each definition
stands for, findings, hazards and theorems.

## The system

The repository collects libraries that the owner's applications link: numerics
(Eigen, alglib, gram_savitzky_golay), logging (log4qt), networking (libhv,
QTelnet, QNtpClient), a database client (libMySql), plotting and window
decoration (QCustomPlot, QGoodWindow, QFontIcon), and binary runtimes (hdf5,
MATLAB).  They do not call each other; what has a protocol of its own is this.

| Component | State | Operations | Hard behaviour | Correct when |
|---|---|---|---|---|
| `EventCount` | one 64-bit word (waiter stack, epoch, waiter and signal counts), a link, epoch and state per waiter | `Prewait`, `CancelWait`, `CommitWait` (`Park`), `Notify` (`Unpark`) | lock-free stack with reuse (ABA), links read before the exchange, signal against sleep | counters exact, no wakeup lost, nobody off the stack and asleep |
| `RunQueue` | two rolling indices with modification counters, element states and items, a mutex for the back | `PushFront`, `PopFront` (owner), `PushBack`, `PopBack`, `PopBackHalf` (anybody), `Empty`, `Size`, `Flush` | the ends meet; indices read one after the other; wrap-around; a full queue | each item handed out once, a deque, `Empty` never wrong about a whole call |
| `ThreadPoolTempl` | a run queue and partition per worker, the event count, `spinning_state_`, `blocked_`, `done_`, `cancelled_` | `Schedule`, `MaybeGetTask`, `WorkerLoop`, `WaitForWork`, `StartSpinning`, `StopSpinning`, `SetStealPartitions`, `Cancel`, destructor | push against going to sleep; notification withheld for a spinner; exit handshake; cancellation | each task run once, none stalls, the pool comes down |
| `Barrier`, `Notification` | count and flag in one word, `notified_` under a mutex | `Notify`, `Wait` | last `Notify` against `Wait`; destruction on the waiter's stack | opens at the right time and may be destroyed then |
| `ThreadLocal` | records, a table of pointers, a counter, a map under a mutex | `local`, `ForEach`, destructor | racing for the last record, collisions, weak exchange | one element per thread for ever |
| `ForkJoinScheduler` | tasks on the stack of the worker that forked them | `ParallelFor`, `ForkJoin`, `RunParallelFor` | a thread that waits runs other tasks on top of its stack | ranges covered once, `done` once, terminates unless nested |
| `CoreThreadPoolDevice` | a barrier per call | `parallelFor`, `parallelForImpl` | recursive splitting against the count of the barrier | ranges covered once, nothing left behind |
| log4qt `RollingFileAppender` (with `FileAppender`, `WriterAppender`, `AppenderSkeleton`) | flags, file and backups on disk | `doAppend`, `rollOver`, `openFile`, `activateOptions`, `setMaxBackupIndex`, `close` | chains of renames that fail or crash half-way | backups in the order of time, no record lost |
| log4qt `AsyncAppender`, `Dispatcher` | flags under a guard, a thread, its dispatcher and queue, the list of appenders | `doAppend`, `activateOptions`, `close`, `addAppender`, `removeAllAppenders`; `customEvent` | closing while events are posted and handled, activating without the guard | no event to a deleted dispatcher, `close` returns |
| log4qt, the rest | logger hierarchy, levels, filter chain, layouts | logging macros, configurators | | not modelled |
| libhv `HThreadPool` | status and two counters read without a lock, a queue and a list with a mutex each | `start`, `stop`, `pause`, `resume`, `wait`, `commit`, `createThread`, `addThread`, `delThread` | idle threads that give up while a task comes; waiting without a lock | counters exact, each task run, `wait` tells the truth, `stop` returns |
| libhv `HObjectPool`, `EventLoop` | borrowed objects; loop and custom events | `Borrow`, `Return`; `runInLoop`, `postEvent`, `stop` | a wait between two locks; cross-thread stop | no wait misses a return |
| QTelnet | parser state, negotiated options, partial packets | `onTcpReadyRead`, `doTelnetInProtocol`, `transpose`, `resetProtocol` | bytes split anywhere | same result however the stream is split |
| QNtpClient | the socket of the pending request | `getDateTime`, `sendData`, `readData` | several or short datagrams, a new request before the answer | the time of the answer to the last request is reported |
| QMySqlDatabase | connection and result set | `connect`, `exec`, `fieldValues`, `disconnected` | ownership over failures and reconnection | each result set freed once |
| the rest | floating-point data, widgets, generated code | | | not modelled: no protocol, or nothing finite to explore |

Inside the Eigen pool, `ThreadPoolTempl` calls `EventCount` to put workers to
sleep and wake them, keeps one `RunQueue` per worker (the worker at the front,
every other thread at the back), and is called by `ForkJoinScheduler` and
`CoreThreadPoolDevice`, which use `Barrier` to wait.  `ThreadLocal` is used by
kernels that run in the pool.  All interaction is through shared memory.

In log4qt, loggers call `doAppend` of the asynchronous appender, which posts an
event to its `Dispatcher`; that object lives in a thread of its own and hands the
event to the attached appenders, here a rolling file.  That appender logs too, the
errors it meets and, at a low level, that it is about to roll over, close, rename or
open its file; such a line may come back to the asynchronous appender through the
logger hierarchy.

## Modules

```
EventCountSpec  <-- EventCount   <-- EventCountProofs      (TLAPS)
      ^              (implements)
      |
ThreadPool ------> ThreadPoolSpec                          (implements; MCThreadPool)
      .       \
      .        <-- ThreadPoolProofs                        (TLAPS)
      . atomic deques, as in
RunQueueSpec    <-- RunQueue     <-- RunQueueProofs        (implements; MCRunQueue; TLAPS)
                        ^
                        +-- RunQueueFlush                  (Flush against the owner)

Barrier         <-- BarrierProofs                          (TLAPS; MCBarrier)
      .
      . waits as in Barrier, takes and steals tasks as in ThreadPool
ParallelFor     <-- ParallelForProofs                      (TLAPS; MCParallelFor)
ThreadLocal     <-- ThreadLocalProofs                      (TLAPS; MCThreadLocal)

AsyncAppender -----------\
RollingFileAppender ------+-- Log4Qt  (composes both)
                                 ^
                                 +-- Log4QtProofs          (TLAPS)

HThreadPool     <-- HThreadPoolProofs                      (TLAPS)
```

The pool is modelled in two layers.  `EventCount` and `RunQueue` are the
lock-free algorithms, one step per access to shared memory; each is checked to
implement an atomic object (`AtomicSpec`, `DequeSpec`).  `ThreadPool` is built on
those atomic objects, so that one call of `ec_` or of a queue is one step of it.

`EventCount` - one action per access: `Prewait` and `CancelWait` are single steps,
because their exchange loops touch `state_` only; `CommitWait` is
`CommitLoad`, `CommitSetNext`, then `CommitConsume`, `CommitPush` or `CommitRetry`;
`Notify` is `NotifyLoad`, `NotifyGetNext`, `NotifyExchange`, `Detach` and the three
steps of `Unpark` per thread.  The new words (`Prewaited`, `Stacked`, `Popped`, ...)
are operators of their own.  Waiters run the loop of the stress test in
`test/threads_eventcount.cpp` (look, prewait, look again, cancel or commit);
notifiers push items or close.  The mutex and condition variable of a waiter are
the labels `park` and `parked`, with spurious wakeups.  `epoch` wraps at `EpochMod`.

`RunQueue` - the indices keep their layout: `Up` adds `1 + 2 * kSize` modulo
`Modulus` (unsigned 32 bits), `Down` leaves the counter bits alone.  The load of an
element's state and its exchange are one step; an item moves with the store that
releases its element, which is sound because nobody else may touch it
(`Exclusive`).  `SizeOrNotEmpty` is three loads with a retry.  A pop by the owner
that finds nothing changes nothing and has no action.  The owner is one thread;
threads at the back may also ask `Empty`.  `sawEmpty` and `moves` are history: that
the queue was empty at some moment of the `Empty` under way, and how often `front_`
has moved since that call loaded it.

`RunQueueFlush` - the destructor of a cancelled pool calls `Flush`, and so the owner's
`PopFront`, from its own thread.  `RunQueue` lets the owner read `front_` where it
needs it, since nobody else stores it; here both threads load it, keep what they
loaded (`Load`), and store what they made of that (`PushStore`, `PopStore`).

`ThreadPool` - `pc` follows `WorkerLoop`, `MaybeGetTask`, `Steal` and `WaitForWork`;
the order in which a steal visits the queues is any order (the code walks by a
random step coprime to their number, which gives every order for up to three
workers but not for more).  `main` is a thread outside the pool that sets the
partitions, schedules, may cancel, and destroys.  A task schedules its `Children`
and then waits until the tasks it `Needs` have started, as the tasks of
`test_parallelism` and `test_pool_partitions` do; a task that does not fit is run in
place, so `stack` holds nested tasks.  The pool and the program are one `scenario`,
chosen in `Init` and constant from then on: several questions share a run.
`spin_count_` is 1 or 2 instead of thousands, `kSize` 1 or 4 instead of 1024.
`front_` says of each queue whether its front is the owner's, shared with `Flush`, or
astray because the two have overlapped (finding 4); from then on a pop finds any item
or none, a push may fail, `Empty()` says anything, and `Flush` may never end.

`Barrier` - one `fetch_sub`, one `fetch_or`, and the sections under `mu_`;
`cv_.wait` may wake spuriously.

`ThreadLocal` - the walk over the table one slot at a time, the reservation, the
weak exchange, which may fail for no reason, and the map.  `hash` is any function
from threads to slots.  `Visited` is what `ForEach` and the destructor reach.

`ParallelFor` - both loops, sharing one pool.  A thread is a stack of frames:
`ForkJoin` puts the right half in the pool (`Fork`), works on the left (`RunLeft`)
and then runs whatever it gets (`MaybeGetTask`) on top of its own frame until
`right_done` is set (`Join`); `parallelForImpl` halves a rectangle once per level
(`Split`), by rows while it has more than one and then by columns.  The pool is a set of queued tasks here; a task that
meets a full queue runs in the thread that submits it, which may be the caller.
The real `MaybeGetTask` checks that the caller has a worker's index but not of which
pool (`NonBlockingThreadPool.h:161`): a worker of another pool must not wait here.
The cost model that picks the number of levels is floating point and an input.
Functions that call `ParallelFor` again, which `ForkJoin.h:79` warns of, are left out.

`RollingFileAppender` - slot 0 is the file, slot i its backup `i`; a file is the set
of records in it.  `rollOver` goes on one operation of the file system at a time
(`RemoveLast`, `ShiftOne`, `ShiftCurrent`, `OpenFile`), each of which may fail and
return early, with a crash possible between any two.  `rename` does not replace an
existing file.  The three parts of `close()` take the guard one after the other.

`AsyncAppender` - `doAppend` enters under `mObjectGuard` and posts; `closeInternal`
unlinks the dispatcher, tells the thread to quit, waits, and deletes both under the
guard, then the skeleton's part takes it again; `activateOptions` takes no guard.
The dispatcher reads `mAppenderGuard` and hands the event on; the attached appender may
log a line through `doAppend` of the same appender, at any point of its work and more
than once (`SinkLogs`, `SinkGoesOn`).  One thread configures: two calls of
`activateOptions()` or `close()` at a time are not covered.  `QThread` and the queue of posted events
are external and modelled from the calls made here.

`Log4Qt` - the rolling file is what the dispatcher calls.  The next-state relation
interleaves loggers, the dispatcher, and a thread that configures either appender;
the two modules' steps meet in `Deliver`, `DispatcherRolls`, `DispatcherLogs` and
`DispatcherReturns`.  `LineDue` says where in a roll-over there is a line to log.  What
the configuring thread logs during its own roll-over is posted as by any logger.

`HThreadPool` - one step per access to an atomic or per critical section that
matters: a worker's loop with its timed wait, `delThread` with its two decrements
apart, `commit` with its unlocked look at the counters, `createThread` and
`addThread`, `wait` with its three reads: the queue first, then the two counters in
either order, which C++ does not fix for the operands of `==`.  One owner starts, pauses, resumes, waits
and stops; it starts and stops when nobody commits.  `start()` with an argument,
which raises `min_thread_num`, is not modelled.

### Abstractions

* Memory is sequentially consistent.  The code's orders are acquire/release for
  most accesses with a `seq_cst` fence in `Notify` and relaxed loads in
  `SizeOrNotEmpty`; reorderings that these allow are outside the models.
* In `ThreadPool` a pop of `Flush` is a step of its own, but its overlap with a push of
  the owner is not left out: it makes the queue astray, for ever, which allows more than
  the code does (any item may be found or missed, where in the code an index decides).
  An overlap of two pops is harmless: one claims the element, the other fails and
  stores nothing.
* `CheckState` is modelled without its bound on the number of waiters
  (`EventCount.h:206`): `CountersExact` says that the count is a number of waiters, and
  the constructor asserts the bound of all of them.
* `Empty()` is exact and `PopBack` a single step in `ThreadPool`.  `RunQueue` says
  what that leaves out: `EmptyIsTrueInARound` (an empty answer was true at some moment
  of the call, unless the front came round meanwhile: finding 3), `NothingToPop` (a pop fails only on a queue with nothing queued),
  `DequeSpec`.
* Work is an item number or a model value; nothing depends on what it does.
* A `ThreadPool` is cancelled and destroyed by `main` only, once.
* In `Log4Qt` a crash ends the process wherever it is and another one starts with
  what is on disk.  Reading `mAsyncAppender` twice without a lock
  (`dispatcher.cpp`) is either the value read or a crash.
* In `HThreadPool` a timed wait may end at any moment, so notifications are not
  modelled; following an erased list element in `stop()` ends the process
  (`crashed`).

## What is checked

| Run | Module, instance | Shows |
|---|---|---|
| `ec` | `EventCount`, 2 waiters, 2 notifiers, 2 items, epoch of 4, fair; 0.4 M states | types; counters exact; nobody stranded; no lost wakeup; closing releases everybody; implements `EventCountSpec` |
| `rq` | `RunQueue`, owner and 2 threads at the back, 4 elements, 3 items queued, 5 in all; 2.1 M | exclusive elements, items conserved, pops right, `Empty` right while the front has not come round, implements `RunQueueSpec` |
| `rq_lap` | the owner fills and empties the queue against one thread at the back and one that asks `Empty`, the back always refilled | finding 3 |
| `rq_flush` | `RunQueueFlush`, one item queued, the owner pushes two and pops, another thread flushes; fair; 3 k | finding 4 |
| `tp` | `ThreadPool`, seven scenarios, fair; 1.3 M | counters exact; tasks conserved; a queued task has somebody to look for it; the pool comes down; implements `ThreadPoolSpec` |
| `tp_cancel_hang` | 2 workers, 1 task, cancelled | finding 1 |
| `tp_parallel` | 3 workers, 3 tasks that wait for each other | finding 2 |
| `barrier` | 3 that notify, 2 that wait, 1 that does both, fair | not early, nobody left behind, destroyable, opens |
| `tl` | `ThreadLocal`, 3 threads, 2 slots, every hash, 2 calls each, fair; 66 k | one element each, room left, all visited, calls return |
| `parallelfor` | `ParallelFor`, 3 workers with room for 1 task each, 2 callers, four pairs of loops, fair | each index once and nothing left, a forked part has its frame, nothing that is waited for is lost, no call hangs; 0.2 M |
| `log4qt` | `Log4Qt`, 2 loggers, 2 events, 2 backups, fair; 1 M | backups in order, no record lost, an open file stays open, no dangling dispatcher, `close` returns unless the dispatcher wants to log |
| `hthreadpool` | `HThreadPool`, minimum 0 to 2 and maximum 2 threads, 2 committers, 2 tasks, 2 calls of `wait` or `stop`, fair; 0.6 M | counters exact, bound on threads, `wait` honest, tasks run, `stop` returns |

The seven scenarios of `tp`: two tasks that wait for each other on two workers
(`Meet`), who may then be confined to their own partitions (`Apart`); a task that
submits two more, with spinning and the limit on active threads in reach
(`Active`); one worker with room for one task, cancelled or not (`Solo`); a
spinning pool that may be cancelled at any moment (`Cancelling`); one that spins
longer and may be destroyed at any moment, with tasks queued (`Impatient`); and
three workers with a task that submits another (`Three`).

Every property of a passing run has a mutant in `PROJECT.json`: a definition
changed the way a bug would change it (a dropped guard, a forgotten counter, an
index that forgets its modification counter), which TLC finds through that
property.

### Bounds, and why they are enough

* Two waiters are the least for a stack with a link, and two notifiers for one to
  overtake the other; that more waiters bring nothing new is what `EventCountProofs`
  says, where every safety property of the run is proved for any number.
  `EpochMod = 4` is above the pushes a thread can sleep through with two items; an
  epoch that stays (`BugNextEpoch`) strands a thread in this instance, so it does
  contain ABA.
* A queue of 4 that holds 3 is full after one push; five items let both ends push,
  fail, and pass each other, and the indices wrap their low bits.  Symmetric
  threads at the back also contend for the lock.  `Modulus = 512` keeps 6 counter
  bits, more than the number of steps of either index.  `rq_lap` needs the eight pops that
  bring the front round at this capacity, and so ten items and a queue of two; its steps
  are those of `RunQueue` that it needs (`LapNext`), which keeps it short.
* Two workers are the least that steal; three the least for one to sleep, one to
  run and one to be on its way to either.  Three tasks make a chain and a fork.
  The number of spin iterations matters as none, last, and not last.
* Three threads for two slots make collisions, the race for the last record and the
  spill into the map.
* Two loops at a time are the least that steal from each other; with room for one
  task per worker queues fill at once, so that both ways to submit occur.  The
  ranges are those where halving matters: one that the granularity does not divide,
  a rectangle split more often than it has rows, fewer indices than parts, none.
* Two backups are the least for which the loop of renames runs, and a limit of 0 or
  1 may be set as well; with `MaximumSize` 0 each record rolls the file over, so two
  events and the activations make more roll-overs than there are backups.  The run
  has `AppendFile` `FALSE`, the harder value (the file is rolled over, not appended
  to, on each start); the proofs cover both.
* Two committers are the least that pass the check of `max_thread_num` together; five
  thread numbers hold all that exist at a time.  Two calls make a `wait` before or after
  a `stop`; pausing and resuming are not bounded.  Minimum 0 is the pool that can
  shrink to nothing, 1 the default, 2 a pool that cannot shrink.

Symmetry is used in safety runs only, over threads that occur in no formula by
name.  Deadlock is checked in every run except those with a pool that may be
cancelled, which really may stop (findings 1 and 4; `ComesDown` says which do not), of
`RunQueueFlush`, where the owner need not call again, and of `HThreadPool`, which with `min_thread_num` 0 may have no thread and no caller left.

### Fairness

Weak fairness of each thread: the operating system runs a thread that can run.  A
waiter, a notifier that has begun, a worker and a task go on; `main` goes on to
destroy the pool but need not cancel it, notifiers need not push but close in the
end, and condition variables need not wake spuriously.  A task ends when the tasks
it waits for have started.  `ThreadLocal` also has strong fairness of a weak
exchange that could succeed, since a loop around `compare_exchange_weak` assumes
that it does not fail for ever.  Mutexes are not assumed to be fair.

In `ParallelFor` every thread and caller goes on.  In `Log4Qt` the dispatcher's thread
goes on, also inside a roll-over and where it logs, and so does a `close()` or `activateOptions()` that
was begun and a logger that holds the guard; nobody has to log or to configure.  In
`HThreadPool` workers, whose wait times out, and calls that were begun go on.

### Findings

1. `tp_cancel_hang`: a worker that looked at `cancelled_` before `Cancel()` set it
   may reach `Prewait` after `Cancel()` notified.  It finds no work, another worker
   has left the loop without being counted in `blocked_`, so the count never
   reaches `num_threads_`; the worker sleeps, the destructor of a cancelled pool
   notifies nobody, and joins it for ever.  `NonBlockingThreadPool.h:204` says that
   the notification lets threads without work exit on their own.
2. `tp_parallel`: with three workers a task can stay queued beside a sleeping worker
   while the others run tasks that wait for it.  A notification given to a worker
   about to wait is consumed by its `CancelWait`, though another task turned that
   worker back.  `test/threads_non_blocking_thread_pool.cpp:24` says that tasks are
   never failed to be matched with idle threads.  With tasks that do not wait for
   each other the queued task is still found later (`NoStall`, `ComesDown`), and two
   workers that do not spin always meet (`Meet`).
3. `rq_lap`: `Empty` may call a queue empty that held an item all the time.  It takes
   `front_` for unmoved when it loads the same word twice, but `PopFront` leaves the
   modification counter of `front_` as it is (`RunQueue.h:75`), so that `2 * kSize` pops
   with as many `PushBack`s between them bring back the same word, and `back_` is loaded
   on the way.  `RunQueue.h:187` says that it goes to great effort not to claim a
   non-empty queue empty.  At the code's capacity this takes 2048 pops within one call.
   `EmptyIsTrueInARound` is what does hold, and it is proved.
4. `rq_flush`: the destructor of a cancelled pool flushes the queues of workers that may
   be inside a task (`NonBlockingThreadPool.h:96-100`), with a `PopFront` that
   `RunQueue.h:19` reserves for the owner.  When that task schedules another, a push and
   a pop may both load the same `front_`, and one of their stores is lost.  The element
   below the front is then empty while the indices say that the queue is not, and
   `while (!Empty()) PopFront();` never ends.  One worker and one queued task are enough.

### What the properties had to leave out

These are behaviours of the code that the properties step around, each by a
condition in the property or in the model that its comment names.  The first are
findings 1 and 4; the second contradicts `asyncappender.h:40`, which calls every function
of the class thread-safe, and has no run of its own, since `CloseReturns` says exactly
when `close()` does not return; nothing said elsewhere in the repository contradicts the
others.

* Eigen: `ComesDown` exempts a cancelled pool with several workers (finding 1), and one
  whose task has pushed onto a queue that the destructor was flushing (finding 4):
  `MayHang`.  A cancelled pool of one worker whose tasks submit nothing meanwhile comes
  down.
* log4qt: `close()` of an asynchronous appender may wait for ever for a dispatcher
  that logs a line of the attached appender through the same one.  `close()` holds
  `mObjectGuard` while it waits for the dispatcher's thread, and that thread wants it in
  `doAppend` (`CloseReturns` exempts `dpc = "report"` while `close()` holds the guard, and
  nothing else).  An error is such a line at any level; with the logger `Log4Qt` at DEBUG
  (`logmanager.cpp:213`) so is every roll-over (`rollingfileappender.cpp:84`,
  `fileappender.cpp:143`, `206`, `226`), and no operation need fail.  Where such lines do
  come back, each event makes others, as the recursion guard
  stops only calls of the same thread.
* log4qt: between the two parts of `close()` the appender has no dispatcher but
  accepts events, which are lost; `activateOptions()` after `close()` makes a thread
  that nobody ends; `removeAllAppenders()` takes no lock.
* log4qt: with `maxBackupIndex` 0 the second roll-over finds `file.1` in the way of
  its rename, and, as after any failed operation, the appender stays without a file
  until it is activated again (`StillOpen` names both in `excuse`).
* libhv: with `min_thread_num` 0 the last thread may give up after `commit()` saw it
  idle, and the task waits for the next `commit()` (`TasksRun`); `wait()` may return
  early while a thread gives up, or, if it reads `cur_thread_num` before
  `idle_thread_num`, while one is added between the two reads (`WaitHonest` exempts both
  as `churned`), and spins for ever on a paused pool
  with tasks.  `stop()` walks the list without its mutex, so a thread that gives up
  meanwhile may crash it (`crashed`); tasks in the queue stay there, and their futures
  are never set.  `max_thread_num` may be exceeded by one less than there are
  committers (`ThreadBound`).  A thread that gives up before `addThread` has listed it
  stays `RUNNING` in the list until `stop()`.

## What is proved

For every value of the constants, from the assumptions stated in the modules:

`EventCountProofs` (`EventCountAssumption`: finitely many waiters, disjoint from
the notifiers, an empty-stack value that names no slot, an epoch of at least one
value; and, for the last three, `EpochAssumption`)
* `TypeCorrect`: `Spec => []TypeOK`, so the counters never underflow.
* `CountersCorrect`: `Spec => []CountersExact`: the waiter count is the number of
  threads between `Prewait` and `CancelWait` or `CommitWait`, and signals never
  exceed it, in the word and in every thread's copy.

  The invariant is `TypeOK /\ CountersExact /\ SlotsNamed`.  The two belong together:
  a count stays a natural number because a thread that takes one away is counted,
  and that is `CountersExact`; `SlotsNamed` says that a notifier that follows a link
  has one, without which the stack would not stay a stack of slots.  First come
  lemmas about each new word (it is a word, passes `CheckState`, has the count it
  should), then one step per action.
* `NobodyStranded` (`NoneStranded`): a sleeper is on the stack or held by exactly one
  notifier, and only sleepers are.  `EpochAssumption` says that one slot is pushed less
  often than the epoch has values: the code's 22 bits are an ABA counter, and a notifier
  that sleeps through 2^22 pushes of a slot could take an old top for the new one.

  The invariant `StackInv` adds that the stack and the chains notifiers have detached
  are lists that end (`StackLinked`), what a thread that pushes has put in its link
  (`LinkReady`), and the argument against ABA in three parts: the stamp beside an index
  is the one of that slot's last push (`Stamped`); what a notifier read of the top holds
  until that slot is pushed once more, which changes the stamp (`StillTheNext`); and a
  slot is pushed again only after a notification took effect, so its epoch stays below
  `EpochMod` (`Budget`).  A chain is followed by a recursive function; that a link
  outside a list does not matter to it is an induction over data, done here by taking
  the least position at which two walks differ (`LeastNatural`, from the library's
  well-founded induction).
* `NoWakeupLost` (`NoLostWakeup`): the invariant `WakeInv` counts what is under way while
  notifiers run.  As long as somebody sleeps, or will because no signal is there to turn
  it back, every item has a thread that comes to look (`Back`), a signal, or a
  notification that has not taken effect (`Armed`), and a closing has not taken effect.
* `ImplementsAtomic` (`AtomicSpec`): the detailed event count implements the atomic one
  `ThreadPool` is built on.  A waiter's step on `state_` and a notifier's exchange are
  steps of `EventCountSpec`, all others change nothing of it; `AsleepIsOnStack` and
  `StackInv` give the two sets the atomic steps speak of.

`ThreadPoolProofs` (`ThreadPoolAssumption`: a finite, non-empty set of workers that
does not contain `main`, partitions that are not empty, queues of a positive capacity)
* `TypeCorrect`, `CountersAreExact` (`CountersExact`), `NoneStalls` (`NoStall`): for any
  number of workers, any steal partitions, any queue size and any program that uses the
  pool, with or without spinning, cancelled and destroyed at any moment.

  `NoStall` is not inductive: it says nothing while somebody is inside `Schedule`, and
  the notification that comes then must find the right thread.  The invariant `PInv`
  adds where each thread may be (`Places`, `Inside`), that the event count agrees with
  that (`Known`: in `pre` exactly between `Prewait` and the end of the wait, asleep only
  in `CommitWait`), the order of the shutdown (`Closing`: nobody is past the test of
  `done_` before it is set, and `main` schedules nothing once it is), and that the front
  of a queue is its owner's alone until the destructor of a cancelled pool flushes
  (`Fronts`): only then can a queue go astray, and nothing is promised of a queued task
  once `cancelled_` is set.  `Lost` is a worker
  that sleeps, left, or found all the queues it has yet to check empty; `Looked` says
  that with a task queued one worker is not.  A notification is withheld only while
  `num_no_notification # num_spinning`, so by `CountersExact` some thread spins, and a
  spinner looks again (`SpinnerLooks`); one that finds nobody to wake has `pre` and
  `asleep` empty, and by `Known` and `Closing` every worker looks (`NobodyWaits`); and
  both emptiness checks start from all queues after `Prewait`, or after the signal was
  given up.
* `TasksConserved` (`Conserved`), `ImplementsPromise` (`PromiseSpec`), which also need
  `OneCallPerTask`: in the model a task is one call of `Schedule`, so it has one parent,
  `main` or another task.

  `Conserved` counts the places of a task and relates them to `Submitted`, which is
  computed from the stacks.  The invariant `TaskInv` adds that no queue is over its
  capacity (`Room`), that only a worker about to leave the spin loop holds a task
  (`Hands`), that who runs no task has an empty stack (`Idle`), and that the tasks on the
  stacks are those that started and did not end, each once and with children it has yet
  to schedule (`Framed`).  A queue that went astray may give any of its items and put a new
  one anywhere, and a flushed task is at no place any more.  `PutCounts` therefore says
  what an insertion or a removal at any position does to the counts, and `PoppedPut` and
  `PushedPut` that each pop and push is one; `FrameEnter`, `FrameLeave` and `FrameTop` what running, ending and
  scheduling do to the stacks and so to `Submitted`.

  That no task is left out when the pool is gone needs the end of the shutdown: `Drained`
  (a queue with a task has a worker that is not on its way out, or that re-checks it:
  what the second emptiness check after `blocked_ == num_threads_` is for) and `Over`
  (all have left a destroyed pool, so nobody does anything).  With all workers gone
  from a pool that was not cancelled, the queues are empty by `Drained`, the hands by
  `Hands`, the stacks by `Idle`; `Conserved` then leaves no submitted task that has not
  started, and `Framed` none that has not ended (`AllDone`).

`RunQueueProofs` (`RunQueueAssumption`: an owner that is none of the threads at the
back, a capacity of at least three, a `Modulus` the doubled capacity divides)
* `TypeCorrect`, `OneHolder` (`Exclusive`), `PopsFindWhatIsThere` (`NothingToPop`),
  `EmptyIsRight` (`EmptyIsTrueInARound`), `NothingLost` (`Conserved`), `ImplementsDeque`
  (`DequeSpec`): for any capacity, any number of threads at the back and any number of
  items.

  The invariant `RInv` describes the array by positions counted from `back_`
  (`Place`): `Due` says what state each of the `kSize` elements from `Lo` on must be in,
  given where the owner and the thread behind the lock are, and `Bounds` how far the two
  ends are apart - between a claim and its index, up to `kSize + 1`, as the comment in
  `CalculateSize` says.  An element can be claimed from both ends only if one position is
  due in two states.  The first two sections are arithmetic: both ways of moving an
  index keep its residue modulo `2 * kSize` (`UpSum`, `DownLow`, across the wrap at
  `Modulus`), and positions less than a lap apart are different elements (`Distinct`).
  A claim changes one element (`ChangeHere`, `ChangeUp`), an index step renames the
  positions (`FrontUp`, `BackDown`, ...).

  For `EmptyIsRight`, `Displaced` says where the front is relative to the word that was
  loaded: so many steps up, each of which adds one to the counter too, so many down,
  which do not, `moves` in all.  `ComesRound` concludes that the same word with fewer
  than `Round` moves means that the front did not move; `Round` is the lesser of the
  number of index values and of counter values, 2048 in the code.  The rest (`AskInv`)
  follows the back while the front stands still.

  For the last two, `ItemInv` says where the items are: a thread carries one exactly
  while it pushes (`Carrying`), an element has one exactly while it is ready or a pop
  holds it (`Holding`), and each item that was created is at one such place or was given
  to a caller once (`OnePlace`).  With `RInv` the queued items are those at the positions
  from `Low1` to `High`, so that the queue is a view of the array (`Contents`; `QueuedIs`
  shows by the least position at which they differ that the recursive definition says the
  same).  Each step changes that view in one of five ways (`QueueStep`): not at all, be
  it that the back moves and the positions are renumbered (`QueueShift`), or by one item
  at the front or the back, or, in `PopBackHalf`, by several at the back at once.

`BarrierProofs` (`BarrierAssumption`: finitely many threads, at least one waiter)
* `TypeCorrect`, `OpensLate` (`NotEarly`), `NoneLeftBehind` (`NobodyStranded`),
  `SafeToDestroy` (`Destroyable`): all safety properties of the barrier.
  The type invariant is proved here and no property of the run.

  None is inductive.  The invariant adds what `state_` counts (`CountExact`), that
  the notifier on its way to the mutex is alone and the last (`LastSignals`), and
  the two halves of the handshake: who waits will be signaled (`WaiterSeen`), and as
  long as the flag is set with notifications due, or a signal is on its way,
  somebody still waits (`SignalWanted`).  The last is why the barrier may be
  destroyed when all have returned.

`ParallelForProofs` (`PAssumption`: callers are no workers, finitely many workers,
queues of a positive capacity; `RequestsAssumption`: what may be called has integer
ranges, and a granularity that is not zero, since `round_down` divides by it)
* `PEachOnce` (`EachOnce`), `PParentWaits` (`ParentWaits`), `PWaitsForWork`
  (`WaitsForWork`): all safety properties of the two loops, for any number of workers
  and callers, any ranges (empty ones too), granularities and levels of splitting.

  Nothing of this is inductive in terms of who runs what, since tasks move between
  threads at will.  The invariant `IInv` is about the board: one place for each task in
  the pool and for each frame of each stack, counted from below, so that a place stays
  the same while the thread takes on more.  A part of a fork and join stands for a range
  of columns, of which it owns those it has not handed out yet (`OwnEnd`).
  - `Laid`: two parts of one loop lie apart, or one within what the other has handed
    out.  So no two own a cell, and a cell has been handed to the function exactly when
    nobody owns it any more (`Ran`), which is `EachOnce`.
  - `LeftOnTop`: if something of the left part of a frame is pending, the left part is
    on top of it; `RightPending`: if something of its right part is, the right part
    itself is.  Hence a frame on top of its stack whose right part is finished has
    nothing pending within it (`NothingWithin`), and may return.  For this a midpoint
    must not be used twice: `RightsDiffer`, and `Unused`, that nothing is finished yet
    which a frame may still fork.
  - `HasParent` and `Awaits` say that frames that wait and right parts go together, in
    either direction; `Rooted`, that every part lies within the root of its call, so that
    nothing is left when the root notifies the barrier.
  - `Sliced`, `Counted`: a slice of a `parallelFor` also stands for 2^level notifications.
    Different slices share neither cells nor notifications, and the barrier waits for as
    many as there are left.  The provers know nothing of powers; that 2^(l+1) is twice
    2^l follows from the number of subsets of a set (`PowerOfTwo`).

  The proof has three layers: what growing, moving, ending or starting a part does to a
  board (`GrownInv`, `MovedInv`, `EndedJoins`, `SplitInv`, `StartedInv`); which board
  change a change of the pool and of one stack is (`PushedBoard`, `PooledBoard`,
  `ReplacedBoard`, `PoppedBoard`); and then one lemma per action.  `Schedule` has two
  outcomes, and both put the task somewhere on the board, which is why the proof does not
  tell them apart (`ScheduledOn`).

`ThreadLocalProofs` (`ThreadLocalAssumption`: finitely many threads, a positive
capacity, a null pointer that is no record)
* `TypeCorrect`, `OneElement` (`OneEach`), `NeverOverrun` (`RoomLeft`),
  `ForEachVisitsAll` (`AllVisited`): all safety properties of the module.

  The invariant says for each thread how far its walk through the table has come
  (`Walked`: every slot on the path from its hash to where it stands was taken, and
  taken slots stay taken), that a thread looking for its element either has it ahead
  on that path or has none, that pointers in the table are distinct and name
  published records, and that a stale copy of an empty slot does no harm, since the
  exchange compares again.  `NeverOverrun` is then a pigeonhole: the slots behind a
  thread that holds a record hold distinct other records, so they cannot be all.

`Log4QtProofs`, for `RollingFileAppender` alone (`RollingAssumption`: a positive
bound on the backups)
* `RTypeCorrect`, `ROrdered`, `RNothingVanishes`, `RStillOpen`: for any limits, with
  the file appended to or not.

  `Ordered` alone is not inductive.  The invariant (`Contents`) adds that slots that do
  not exist are empty and that a new record is newer than all; `Progress` says that the
  slot above the one the loop is at is free, so that a rename never meets a backup the
  roll-over left itself, and that the file is not open meanwhile.

`Log4QtProofs`, for the composition (the assumptions of both appenders)
* `LTypeCorrect`, `LNeverDangling`, `LOrdered`, `LNothingVanishes`, `LStillOpen`: the
  composition, for any number of loggers and events.

  `Guarded` says which thread holds the guard at which place, `Threading` relates the
  thread, the dispatcher and where the configuring thread is, `Queueing` says that the
  queue is in order and newer than what the file has.  The dispatcher may stop at the
  guard to log a line in the middle of a delivery, so `Queueing` also says at which of
  its places the event at the head has been handed to the file (`Handed`).  With that, a
  step of the dispatcher is a step of `RollingFileAppender`, whose invariant carries
  over, or leaves the files alone.

`HThreadPoolProofs` (`HAssumption`: finitely many committers, at least one, and
threads)
* `HCountersExact` (`CountersExact`), `HThreadBound` (`ThreadBound`), `HWaitHonest`
  (`WaitHonest`): all safety properties of the module.

  The invariant `HInv` adds to the counters that the owner creates alone (`Alone`), that
  a stopped pool has nobody (`Stopped`), who is in the list and how it is marked
  (`Listed`, `Marked`).  Each step moves one thread from one set that is counted to
  another, and the lemmas of the second section say what that does to the counts.

  `WaitHonest` holds whichever of the two counters of `hthreadpool.h:112` is read first,
  since C++ leaves that open.  The proof needs to know what `wait()` has read when it
  reads on (`Waiting`).  With the queue empty, nothing committed before is queued again.
  With the idle count read first, it is below the thread count as long as one of those
  tasks runs, for every such thread is alive and not idle, and the thread count goes
  down only when a thread gives up.  With the thread count read first, idle and busy
  threads together are no more than what was read (`IdleOrBusy`): taking and ending a
  task move one thread between the two (`Balanced`), and otherwise only a thread added
  or one that gives up changes them.  `churned` records both of these events; they are
  the cases in which `wait()` does return early, and the only ones.

Only model-checked: liveness everywhere (`Released`, `ComesDown`, `Opens`, `Returns`,
`Completes`, `CloseReturns`, `TasksRun`, `StopReturns`), which is beyond TLAPS with its
`ENABLED`.  Every safety invariant that a passing run checks has its theorem.

## Plan

What is done is above.  What is left, in the order of what it adds:

1. `HObjectPool`: a return between the failed attempt of `Borrow` and its wait
   notifies nobody, so a borrower waits for its timeout beside an idle object.
2. log4qt's filter chain and logger hierarchy; QTelnet's parser, checked against a
   parse of the whole stream; QNtpClient; QMySqlDatabase.

## Not modelled

* Numerical libraries (alglib, Eigen outside its thread pool, the filter weights of
  gram_savitzky_golay) are most of the lines here: sequential computations over
  floating point, with no protocol and no finite state.  Widgets and painting
  (QCustomPlot, QGoodWindow), fonts, generated and binary code (hdf5, MATLAB) likewise.
* libhv's event loop is here as headers and a binary only.
* QTelnet, QNtpClient and QMySqlDatabase run in one thread; their hazards
  (`PROJECT.json`) are those of bytes or of two calls in sequence.  In
  `QMySqlDatabase.cpp:109` a result set is freed and the pointer kept, so that a query
  that fails, or a new connection, is followed by a second free.
* Of log4qt, filters, layouts, levels and configurators: sequential, but for
  `clearFilters` (`appenderskeleton.cpp:146`), which leaves the tail of the chain where
  the next `addFilter` follows it.

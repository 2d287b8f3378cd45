----------------------------- MODULE EventCount -----------------------------
(***************************************************************************)
(* Eigen's EventCount (Eigen/src/ThreadPool/EventCount.h): the lock-free   *)
(* condition variable of the thread pool, with the protocol its users      *)
(* follow.  Waiting threads (Waiters, one Waiter slot each) loop           *)
(*   pop; Prewait; re-check the predicate; CancelWait or CommitWait        *)
(* and notifying threads change the predicate, then call Notify.  The      *)
(* predicate is the counter queue of test/threads_eventcount.cpp and the   *)
(* closing flag with which the pool wakes everybody.                       *)
(*                                                                         *)
(* One step is one access to shared memory, under sequential consistency.  *)
(* Prewait and CancelWait are single steps: their compare-exchange loops   *)
(* touch nothing but state_, so only the successful exchange is visible.   *)
(* CommitWait and Notify also read and write the waiters' links between    *)
(* the load of state_ and the exchange: each access is a step there.       *)
(***************************************************************************)
EXTENDS Naturals, FiniteSets

CONSTANTS Waiters,     \* the waiting threads, and their slots of waiters_
          Notifiers,   \* the threads that change the predicate and notify
          kStackMask,  \* the empty waiter stack
          EpochMod,    \* 2^kEpochBits: the ABA counter wraps at this value
          MaxEvents    \* bound: how often the predicate is made true

ASSUME EventCountAssumption ==
  /\ IsFiniteSet(Waiters)
  /\ Waiters \cap Notifiers = {}
  /\ kStackMask \notin Waiters
  /\ EpochMod \in Nat \ {0}
  /\ MaxEvents \in Nat

\* The ABA counter does not wrap: a slot is pushed once, and once more for each
\* event that was notified.  The code has 22 bits for it; a notifier that sleeps
\* through 2^22 pushes of one slot, between its load and its exchange, takes an
\* old word for the new one there too.
ASSUME EpochAssumption == MaxEvents + 1 < EpochMod

Threads == Waiters \cup Notifiers

VARIABLES
  state_,    \* the packed word: waiter stack, epoch, waiters, signals
  next,      \* Waiter::next: the stack link (with its epoch) of each slot
  epoch,     \* Waiter::epoch
  wstate,    \* Waiter::state
  pc,        \* where each thread is
  state,     \* each thread's local copy of state_
  link,      \* Notify's local "next", read from the waiter it wants to pop
  target,    \* Unpark's "w"
  follow,    \* Unpark's "next"
  was,       \* Unpark's "state": what w->state was when it was signaled
  notifyAll, \* Notify's argument
  val_,      \* the predicate: items in the queue
  done,      \* the predicate: the closing flag
  pushed     \* items pushed so far (bounded by MaxEvents)

notifyVars == <<link, target, follow, was, notifyAll>>
waiterVars == <<next, epoch, wstate>>
userVars   == <<val_, done, pushed>>
vars == <<state_, waiterVars, pc, state, notifyVars, userVars>>

Slot == Waiters \cup {kStackMask}
Link == [stack : Slot, epoch : 0 .. EpochMod - 1]
Word == [stack : Slot, epoch : 0 .. EpochMod - 1, waiters : Nat, signals : Nat]

EmptyLink == [stack |-> kStackMask, epoch |-> 0]
EmptyWord == [stack |-> kStackMask, epoch |-> 0, waiters |-> 0, signals |-> 0]
-----------------------------------------------------------------------------
(***************************************************************************)
(* The new values of state_ that the operations compute.                   *)
(***************************************************************************)
\* CheckState: what the code asserts of every word it loads or computes.  Its bound
\* on the count (EventCount.h:206) is the one the constructor asserts of the number
\* of waiters, which CountersExact never lets the count exceed.
CheckState(s) == s.waiters >= s.signals
CheckStateWaiter(s) == CheckState(s) /\ s.waiters > 0

LinkOf(s) == [stack |-> s.stack, epoch |-> s.epoch]

\* The word s with other counters.
Counting(s, w, g) == [stack |-> s.stack, epoch |-> s.epoch, waiters |-> w, signals |-> g]

Prewaited(s) == Counting(s, s.waiters + 1, s.signals)

\* CommitWait, first branch: consume a signal and return.
Consumed(s) == Counting(s, s.waiters - 1, s.signals - 1)

\* CommitWait, second branch: leave the pre-wait count, join the stack.
Stacked(s, me) == Counting(me, s.waiters - 1, 0)

\* CancelWait takes the signal away only when every pre-waiter has one.
BugCancelled(s) == Counting(s, s.waiters - 1, s.signals)
BugAlwaysTakes(s) == Consumed(s)
Cancelled(s) == IF s.waiters = s.signals THEN Counting(s, s.waiters - 1, s.signals - 1)
                ELSE Counting(s, s.waiters - 1, s.signals)

\* Notify's early return: nobody to wake.
NoWaiters(s) == s.stack = kStackMask /\ s.waiters = s.signals

\* Notify(true): empty the stack, a signal for every pre-waiter.
BugReleasedAll(s) == Counting(EmptyLink, s.waiters, s.signals)
ReleasedAll(s) == Counting(EmptyLink, s.waiters, s.waiters)

\* Notify(false): a signal for one pre-waiter, or the top of the stack goes.
Signaled(s) == Counting(s, s.waiters, s.signals + 1)
Popped(s, l) == Counting(l, s.waiters, s.signals)

BugNextEpoch(e) == e
NextEpoch(e) == (e + 1) % EpochMod
-----------------------------------------------------------------------------
Init ==
  /\ state_ = EmptyWord
  /\ next = [w \in Waiters |-> EmptyLink]
  /\ epoch = [w \in Waiters |-> 0]
  /\ wstate = [w \in Waiters |-> "NotSignaled"]
  /\ pc = [t \in Threads |-> "idle"]
  /\ state = [t \in Threads |-> EmptyWord]
  /\ link = [n \in Notifiers |-> EmptyLink]
  /\ target = [n \in Notifiers |-> kStackMask]
  /\ follow = [n \in Notifiers |-> kStackMask]
  /\ was = [n \in Notifiers |-> "NotSignaled"]
  /\ notifyAll = [n \in Notifiers |-> FALSE]
  /\ val_ = 0 /\ done = FALSE /\ pushed = 0

Goto(t, l) == pc' = [pc EXCEPT ![t] = l]
-----------------------------------------------------------------------------
(***************************************************************************)
(* The waiting thread.                                                     *)
(***************************************************************************)
\* The consumer takes an item: the predicate held before it went to wait.
Pop(w) ==
  /\ pc[w] = "idle" /\ val_ > 0
  /\ val_' = val_ - 1
  /\ UNCHANGED <<state_, waiterVars, pc, state, notifyVars, done, pushed>>

\* Pop found the queue empty: leave when closed, else start waiting.
PopEmpty(w) ==
  /\ pc[w] = "idle" /\ val_ = 0
  /\ Goto(w, IF done THEN "exit" ELSE "prewait")
  /\ UNCHANGED <<state_, waiterVars, state, notifyVars, userVars>>

Prewait(w) ==
  /\ pc[w] = "prewait"
  /\ state_' = Prewaited(state_)
  /\ Goto(w, "recheck")
  /\ UNCHANGED <<waiterVars, state, notifyVars, userVars>>

\* The re-check of the predicate between Prewait and Cancel/CommitWait.
BugRecheck(w) ==
  /\ pc[w] = "recheck"
  /\ Goto(w, "commit")
  /\ UNCHANGED <<state_, waiterVars, state, notifyVars, userVars>>
Recheck(w) ==
  /\ pc[w] = "recheck"
  /\ Goto(w, IF val_ > 0 \/ done THEN "cancel" ELSE "commit")
  /\ UNCHANGED <<state_, waiterVars, state, notifyVars, userVars>>

CancelWait(w) ==
  /\ pc[w] = "cancel"
  /\ state_' = Cancelled(state_)
  /\ Goto(w, "idle")
  /\ UNCHANGED <<waiterVars, state, notifyVars, userVars>>

\* The branch CommitWait takes on the word s it holds.
CommitBranch(s) == IF s.signals > 0 THEN "cas" ELSE "setnext"

CommitLoad(w) ==
  /\ pc[w] = "commit"
  /\ wstate' = [wstate EXCEPT ![w] = "NotSignaled"]
  /\ state' = [state EXCEPT ![w] = state_]
  /\ Goto(w, CommitBranch(state_))
  /\ UNCHANGED <<state_, next, epoch, notifyVars, userVars>>

\* w->next.store(state & (kStackMask | kEpochMask))
CommitSetNext(w) ==
  /\ pc[w] = "setnext"
  /\ next' = [next EXCEPT ![w] = LinkOf(state[w])]
  /\ Goto(w, "cas")
  /\ UNCHANGED <<state_, epoch, wstate, state, notifyVars, userVars>>

CommitConsume(w) ==
  /\ pc[w] = "cas" /\ state_ = state[w] /\ state[w].signals > 0
  /\ state_' = Consumed(state[w])
  /\ state' = [state EXCEPT ![w] = EmptyWord]
  /\ Goto(w, "idle")
  /\ UNCHANGED <<waiterVars, notifyVars, userVars>>

CommitPush(w) ==
  /\ pc[w] = "cas" /\ state_ = state[w] /\ state[w].signals = 0
  /\ state_' = Stacked(state[w], [stack |-> w, epoch |-> epoch[w]])
  /\ epoch' = [epoch EXCEPT ![w] = NextEpoch(@)]
  /\ state' = [state EXCEPT ![w] = EmptyWord]
  /\ Goto(w, "park")
  /\ UNCHANGED <<next, wstate, notifyVars, userVars>>

\* The exchange fails and reloads state_.
CommitRetry(w) ==
  /\ pc[w] = "cas" /\ state_ # state[w]
  /\ state' = [state EXCEPT ![w] = state_]
  /\ Goto(w, CommitBranch(state_))
  /\ UNCHANGED <<state_, waiterVars, notifyVars, userVars>>

\* Park, under w->mu: return when signaled, else wait on w->cv.
ParkReturn(w) ==
  /\ pc[w] = "park" /\ wstate[w] = "Signaled"
  /\ Goto(w, "idle")
  /\ UNCHANGED <<state_, waiterVars, state, notifyVars, userVars>>

ParkWait(w) ==
  /\ pc[w] = "park" /\ wstate[w] # "Signaled"
  /\ wstate' = [wstate EXCEPT ![w] = "Waiting"]
  /\ Goto(w, "parked")
  /\ UNCHANGED <<state_, next, epoch, state, notifyVars, userVars>>

\* w->cv.wait may return without a notification.
SpuriousWake(w) ==
  /\ pc[w] = "parked"
  /\ Goto(w, "park")
  /\ UNCHANGED <<state_, waiterVars, state, notifyVars, userVars>>
-----------------------------------------------------------------------------
(***************************************************************************)
(* The notifying thread.                                                   *)
(***************************************************************************)
Push(n) ==
  /\ pc[n] = "idle" /\ ~done /\ pushed < MaxEvents
  /\ val_' = val_ + 1 /\ pushed' = pushed + 1
  /\ notifyAll' = [notifyAll EXCEPT ![n] = FALSE]
  /\ Goto(n, "notify")
  /\ UNCHANGED <<state_, waiterVars, state, link, target, follow, was, done>>

Close(n) ==
  /\ pc[n] = "idle" /\ ~done
  /\ done' = TRUE
  /\ notifyAll' = [notifyAll EXCEPT ![n] = TRUE]
  /\ Goto(n, "notify")
  /\ UNCHANGED <<state_, waiterVars, state, link, target, follow, was, val_,
                 pushed>>

\* The branch Notify takes on the word s it holds.
NotifyBranch(n, s) ==
  IF NoWaiters(s) THEN "idle"
  ELSE IF ~notifyAll[n] /\ s.signals >= s.waiters THEN "getnext"
  ELSE "exchange"

\* Both the first load and the reload of a failed exchange.
NotifyLoad(n) ==
  /\ \/ pc[n] = "notify"
     \/ pc[n] = "exchange" /\ state_ # state[n]
  /\ LET l == NotifyBranch(n, state_)
     IN  /\ Goto(n, l)
         /\ state' = [state EXCEPT ![n] = IF l = "idle" THEN EmptyWord ELSE state_]
         /\ link' = [link EXCEPT ![n] = EmptyLink]
  /\ UNCHANGED <<state_, waiterVars, target, follow, was, notifyAll, userVars>>

\* next = w->next.load(), w the top of the stack in the loaded word.
NotifyGetNext(n) ==
  /\ pc[n] = "getnext"
  /\ link' = [link EXCEPT ![n] = next[state[n].stack]]
  /\ Goto(n, "exchange")
  /\ UNCHANGED <<state_, waiterVars, state, target, follow, was, notifyAll,
                 userVars>>

\* The word Notify tries to install.
NotifyWord(n) ==
  LET s == state[n]
  IN  IF notifyAll[n] THEN ReleasedAll(s)
      ELSE IF s.signals < s.waiters THEN Signaled(s)
      ELSE Popped(s, link[n])

\* The exchange succeeds: a pre-waiter got the signal, or the stack was
\* empty, and Notify returns; or it took one waiter, or the whole stack.
NotifyExchange(n) ==
  /\ pc[n] = "exchange" /\ state_ = state[n]
  /\ state_' = NotifyWord(n)
  /\ LET s == state[n]
         toPreWaiter == ~notifyAll[n] /\ s.signals < s.waiters
         w == IF toPreWaiter THEN kStackMask ELSE s.stack
     IN  /\ target' = [target EXCEPT ![n] = w]
         /\ Goto(n, IF w = kStackMask THEN "idle"
                    ELSE IF notifyAll[n] THEN "unpark" ELSE "detach")
  /\ state' = [state EXCEPT ![n] = EmptyWord]
  /\ link' = [link EXCEPT ![n] = EmptyLink]
  /\ UNCHANGED <<waiterVars, follow, was, notifyAll, userVars>>

\* if (!notifyAll) w->next.store(kStackMask)
Detach(n) ==
  /\ pc[n] = "detach"
  /\ next' = [next EXCEPT ![target[n]] = EmptyLink]
  /\ Goto(n, "unpark")
  /\ UNCHANGED <<state_, epoch, wstate, state, notifyVars, userVars>>

\* Unpark: read the link before the waiter is released.
UnparkNext(n) ==
  /\ pc[n] = "unpark"
  /\ follow' = [follow EXCEPT ![n] = next[target[n]].stack]
  /\ Goto(n, "signal")
  /\ UNCHANGED <<state_, waiterVars, state, link, target, was, notifyAll, userVars>>

\* Unpark, under w->mu: mark the waiter signaled.
UnparkSignal(n) ==
  /\ pc[n] = "signal"
  /\ was' = [was EXCEPT ![n] = wstate[target[n]]]
  /\ wstate' = [wstate EXCEPT ![target[n]] = "Signaled"]
  /\ Goto(n, "wake")
  /\ UNCHANGED <<state_, next, epoch, state, link, target, follow, notifyAll, userVars>>

\* Unpark, mu released: notify_one if the waiter was waiting, then go on
\* with the next of the chain.
UnparkWake(n) ==
  /\ pc[n] = "wake"
  /\ LET w == target[n]
         wake == was[n] = "Waiting" /\ pc[w] = "parked"
         l == IF follow[n] = kStackMask THEN "idle" ELSE "unpark"
     IN  pc' = [pc EXCEPT ![n] = l, ![w] = IF wake THEN "park" ELSE @]
  /\ target' = [target EXCEPT ![n] = follow[n]]
  /\ follow' = [follow EXCEPT ![n] = kStackMask]
  /\ was' = [was EXCEPT ![n] = "NotSignaled"]
  /\ UNCHANGED <<state_, waiterVars, state, link, notifyAll, userVars>>
-----------------------------------------------------------------------------
Commit(w) ==
  CommitLoad(w) \/ CommitSetNext(w) \/ CommitConsume(w) \/ CommitPush(w) \/ CommitRetry(w)

Park(w) == ParkReturn(w) \/ ParkWait(w)

WaiterStep(w) ==
  Pop(w) \/ PopEmpty(w) \/ Prewait(w) \/ Recheck(w) \/ CancelWait(w) \/ Commit(w) \/ Park(w)

Notify(n) ==
  NotifyLoad(n) \/ NotifyGetNext(n) \/ NotifyExchange(n) \/ Detach(n)
    \/ UnparkNext(n) \/ UnparkSignal(n) \/ UnparkWake(n)

\* Everybody left: the threads are joined and the event count destroyed.
Finished ==
  /\ \A w \in Waiters : pc[w] = "exit"
  /\ done /\ \A n \in Notifiers : pc[n] = "idle"

Terminating == Finished /\ UNCHANGED vars

Next ==
  \/ \E w \in Waiters : WaiterStep(w) \/ SpuriousWake(w)
  \/ \E n \in Notifiers : Push(n) \/ Close(n) \/ Notify(n)
  \/ Terminating

Spec == Init /\ [][Next]_vars

\* The operating system runs every thread that can run; nobody is obliged to
\* push, and a condition variable is not obliged to wake spuriously.
Fairness ==
  /\ \A w \in Waiters : WF_vars(WaiterStep(w))
  /\ \A n \in Notifiers : WF_vars(Notify(n))
  /\ \A n \in Notifiers : WF_vars(Close(n))

FairSpec == Spec /\ Fairness
-----------------------------------------------------------------------------
WaiterPCs == {"idle", "prewait", "recheck", "cancel", "commit", "setnext", "cas",
              "park", "parked", "exit"}
NotifierPCs == {"idle", "notify", "getnext", "exchange", "detach", "unpark",
                "signal", "wake"}
WaiterStates == {"NotSignaled", "Waiting", "Signaled"}

\* Every variable has its type: the packed word decodes, links name slots,
\* threads are at a line of the code.
TypeOK ==
  /\ state_ \in Word
  /\ next \in [Waiters -> Link]
  /\ epoch \in [Waiters -> 0 .. EpochMod - 1]
  /\ wstate \in [Waiters -> WaiterStates]
  /\ pc \in [Threads -> WaiterPCs \cup NotifierPCs]
  /\ \A w \in Waiters : pc[w] \in WaiterPCs
  /\ \A n \in Notifiers : pc[n] \in NotifierPCs
  /\ state \in [Threads -> Word]
  /\ link \in [Notifiers -> Link]
  /\ target \in [Notifiers -> Slot]
  /\ follow \in [Notifiers -> Slot]
  /\ was \in [Notifiers -> WaiterStates]
  /\ notifyAll \in [Notifiers -> BOOLEAN]
  /\ val_ \in Nat /\ done \in BOOLEAN /\ pushed \in Nat

Prewaiting == {w \in Waiters : pc[w] \in {"recheck", "cancel", "commit", "setnext", "cas"}}

\* The asserts of CheckState (EventCount.h:201) hold of every word that is
\* installed or loaded, and the counters mean what they say: waiters counts
\* exactly the threads between Prewait and Cancel/CommitWait, and there are
\* never more pending signals than that, so that neither field of the packed
\* word borrows from its neighbour.
CountersExact ==
  /\ state_.waiters = Cardinality(Prewaiting)
  /\ CheckState(state_)
  /\ \A t \in Threads : CheckState(state[t])
  /\ \A w \in Waiters : pc[w] \in {"setnext", "cas"} => CheckStateWaiter(state[w])

\* The waiters on the stack that starts at slot s.
Chain(s) ==
  LET after[k \in 0 .. Cardinality(Waiters)] ==
        IF k = 0 THEN s
        ELSE IF after[k - 1] = kStackMask THEN kStackMask ELSE next[after[k - 1]].stack
  IN  {after[k] : k \in 0 .. Cardinality(Waiters)} \ {kStackMask}

\* Waiters that notifier n has taken off the stack and not yet signaled.
Taken(n) ==
  CASE pc[n] = "detach" -> {target[n]}
    [] pc[n] = "unpark" -> Chain(target[n])
    [] pc[n] = "signal" -> {target[n]} \cup Chain(follow[n])
    [] pc[n] = "wake"   -> Chain(follow[n])
    [] OTHER -> {}

Asleep == {w \in Waiters : pc[w] \in {"park", "parked"} /\ wstate[w] # "Signaled"}

\* A thread that committed to wait can always be found again: it is on the
\* stack in state_, or exactly one notifier holds it and is about to signal
\* it; and only such threads are on the stack.  A lost link, a reused epoch
\* (ABA) or a link read too late strands a sleeping thread for ever.
NoneStranded ==
  /\ Asleep = Chain(state_.stack) \cup UNION {Taken(n) : n \in Notifiers}
  /\ \A n \in Notifiers : Taken(n) \cap Chain(state_.stack) = {}
  /\ \A m, n \in Notifiers : m # n => Taken(m) \cap Taken(n) = {}

Notifying == {n \in Notifiers : pc[n] # "idle"}

Committing == {w \in Waiters : pc[w] \in {"commit", "setnext", "cas"}}

\* Threads that look at the predicate again before they can sleep: those that
\* are signaled, and all that are neither committing nor asleep.
WillLook == {w \in Waiters : pc[w] # "exit"} \ (Committing \cup Asleep)

\* No notification is lost (EventCount.h:42-51): with no Notify in progress, a
\* thread that sleeps, or will because no signal turns it back, means that
\* every queued item has a thread of its own that comes to take it, and that
\* nobody closed.
NoLostWakeup ==
  LET turnedBack == IF state_.signals < Cardinality(Committing)
                    THEN state_.signals ELSE Cardinality(Committing)
  IN  Notifying = {} /\ (Asleep # {} \/ turnedBack < Cardinality(Committing)) =>
        /\ val_ <= Cardinality(WillLook) + turnedBack
        /\ ~done

\* Once closed, Notify(true) gets every waiting thread out.
Released == done ~> Finished
-----------------------------------------------------------------------------
\* EventCount implements the atomic event count: the linearization points
\* are the successful exchanges.
Atomic == INSTANCE EventCountSpec WITH
            pre <- Prewaiting,
            signals <- state_.signals,
            asleep <- Chain(state_.stack)

AtomicSpec == Atomic!SpecEC
=============================================================================

------------------------------- MODULE Barrier -------------------------------
(***************************************************************************)
(* Eigen's Barrier (Eigen/src/ThreadPool/Barrier.h): Wait returns when     *)
(* Notify has been called count times.  The word state_ holds the count    *)
(* and, in its lowest bit, whether anybody waits; only the last Notify,    *)
(* and only when somebody waits, goes through the mutex.                   *)
(*                                                                         *)
(* Every notifier calls Notify once and every waiter Wait once.  A thread  *)
(* may do both, one after the other, as the pool's workers do with         *)
(* init_barrier_.  The section under mu_ is one step: its last access is   *)
(* the unlock, and cv_.wait releases mu_ as it falls asleep.               *)
(***************************************************************************)
EXTENDS Integers, FiniteSets

CONSTANTS Notifiers, Waiters

ASSUME BarrierAssumption ==
  IsFiniteSet(Notifiers) /\ IsFiniteSet(Waiters) /\ Waiters # {}

VARIABLES
  state_,     \* [count, waiter]: notifications due, somebody waits
  notified_,
  npc,        \* where each notifier is
  wpc         \* where each waiter is

vars == <<state_, notified_, npc, wpc>>

Init ==
  /\ state_ = [count |-> Cardinality(Notifiers), waiter |-> FALSE]
  /\ notified_ = FALSE
  /\ npc = [n \in Notifiers |-> "notify"]
  /\ wpc = [w \in Waiters |-> "wait"]

\* state_.fetch_sub(2): the last one goes on if somebody waits.
BugNotify(n) ==
  /\ npc[n] = "notify"
  /\ state_' = [count |-> state_.count - 1, waiter |-> state_.waiter]
  /\ npc' = [npc EXCEPT ![n] = IF state_.count = 1 THEN "signal" ELSE "done"]
  /\ UNCHANGED <<notified_, wpc>>
Notify(n) ==
  /\ npc[n] = "notify"
  /\ state_' = [count |-> state_.count - 1, waiter |-> state_.waiter]
  /\ npc' = [npc EXCEPT ![n] = IF state_.count = 1 /\ state_.waiter THEN "signal" ELSE "done"]
  /\ UNCHANGED <<notified_, wpc>>

\* Under mu_: notified_ = true; cv_.notify_all()
Signal(n) ==
  /\ npc[n] = "signal"
  /\ notified_' = TRUE
  /\ npc' = [npc EXCEPT ![n] = "done"]
  /\ wpc' = [w \in Waiters |-> IF wpc[w] = "asleep" THEN "lock" ELSE wpc[w]]
  /\ UNCHANGED state_

\* state_.fetch_or(1): return if nothing is due.
BugWait(w) ==
  /\ wpc[w] = "wait"
  /\ w \in Notifiers => npc[w] = "done"
  /\ wpc' = [wpc EXCEPT ![w] = IF state_.count = 0 THEN "returned" ELSE "lock"]
  /\ UNCHANGED <<state_, notified_, npc>>
Wait(w) ==
  /\ wpc[w] = "wait"
  /\ w \in Notifiers => npc[w] = "done"
  /\ state_' = [count |-> state_.count, waiter |-> TRUE]
  /\ wpc' = [wpc EXCEPT ![w] = IF state_.count = 0 THEN "returned" ELSE "lock"]
  /\ UNCHANGED <<notified_, npc>>

\* Under mu_: while (!notified_) cv_.wait(l)
Check(w) ==
  /\ wpc[w] = "lock"
  /\ wpc' = [wpc EXCEPT ![w] = IF notified_ THEN "returned" ELSE "asleep"]
  /\ UNCHANGED <<state_, notified_, npc>>

\* cv_.wait may return without a notification.
BugSpuriousWake(w) ==
  /\ wpc[w] = "asleep"
  /\ wpc' = [wpc EXCEPT ![w] = "returned"]
  /\ UNCHANGED <<state_, notified_, npc>>
SpuriousWake(w) ==
  /\ wpc[w] = "asleep"
  /\ wpc' = [wpc EXCEPT ![w] = "lock"]
  /\ UNCHANGED <<state_, notified_, npc>>

Finished == /\ \A n \in Notifiers : npc[n] = "done"
            /\ \A w \in Waiters : wpc[w] = "returned"

Terminating == Finished /\ UNCHANGED vars

Next ==
  \/ \E n \in Notifiers : Notify(n) \/ Signal(n)
  \/ \E w \in Waiters : Wait(w) \/ Check(w) \/ SpuriousWake(w)
  \/ Terminating

Spec == Init /\ [][Next]_vars

\* Threads that can run are run, and every notifier notifies in the end.  A
\* condition variable is not obliged to wake spuriously.
Fairness ==
  /\ \A n \in Notifiers : WF_vars(Notify(n) \/ Signal(n))
  /\ \A w \in Waiters : WF_vars(Wait(w) \/ Check(w))

FairSpec == Spec /\ Fairness
-----------------------------------------------------------------------------
\* Every variable has its type.
TypeOK ==
  /\ state_ \in [count : Nat, waiter : BOOLEAN]
  /\ notified_ \in BOOLEAN
  /\ npc \in [Notifiers -> {"notify", "signal", "done"}]
  /\ wpc \in [Waiters -> {"wait", "lock", "asleep", "returned"}]

\* Wait does not return before Notify was called count times
\* (Barrier.h:43-50), through neither of its two ways out.
NotEarly ==
  (\E w \in Waiters : wpc[w] = "returned") => \A n \in Notifiers : npc[n] # "notify"

\* The last Notify does not miss a thread that waits (Barrier.h:30, 44): when
\* every call of Notify has returned, nobody sleeps or is going to.
NobodyStranded ==
  (\A n \in Notifiers : npc[n] = "done") =>
    \A w \in Waiters : wpc[w] # "asleep" /\ (wpc[w] = "lock" => notified_)

\* When every Wait has returned the barrier may be destroyed, as ParallelFor
\* does with the one on its stack (ForkJoin.h:85-88): no Notify is on its way
\* to mu_, and the count is zero, as the destructor asserts (Barrier.h:26).
Destroyable ==
  (\A w \in Waiters : wpc[w] = "returned") =>
    /\ \A n \in Notifiers : npc[n] = "done"
    /\ state_.count = 0

\* Every Wait returns.
Opens == <>Finished
=============================================================================

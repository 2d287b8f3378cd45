--------------------------- MODULE EventCountSpec ---------------------------
(***************************************************************************)
(* What an event count promises (Eigen/src/ThreadPool/EventCount.h:16-51): *)
(* an atomic object that knows who is about to wait, how many of those     *)
(* have been notified already, and who is asleep.  EventCount implements   *)
(* it with a packed word, links and epochs; ThreadPool is built on it.     *)
(***************************************************************************)
EXTENDS Naturals, FiniteSets

CONSTANT Waiters      \* the threads that may wait

VARIABLES pre,        \* the threads between Prewait and Cancel/CommitWait
          signals,    \* how many of them have been notified
          asleep      \* the threads that committed and were not woken

ecVars == <<pre, signals, asleep>>

InitEC == pre = {} /\ signals = 0 /\ asleep = {}

Prewait(w) ==
  /\ w \notin pre \cup asleep
  /\ pre' = pre \cup {w}
  /\ UNCHANGED <<signals, asleep>>

\* A cancelled wait leaves the other threads their signals: it takes one
\* along only when there would be more signals than threads.
CancelWait(w) ==
  /\ w \in pre
  /\ pre' = pre \ {w}
  /\ signals' = IF signals = Cardinality(pre) THEN signals - 1 ELSE signals
  /\ UNCHANGED asleep

\* CommitWait returns at once when a signal is there to be consumed ...
CommitReturns(w) ==
  /\ w \in pre /\ signals > 0
  /\ pre' = pre \ {w}
  /\ signals' = signals - 1
  /\ UNCHANGED asleep

\* ... and sleeps otherwise.
CommitSleeps(w) ==
  /\ w \in pre /\ signals = 0
  /\ pre' = pre \ {w}
  /\ asleep' = asleep \cup {w}
  /\ UNCHANGED signals

\* Notify(false): a thread about to wait is preferred to a sleeping one.
NotifyPreWaiter ==
  /\ signals < Cardinality(pre)
  /\ signals' = signals + 1
  /\ UNCHANGED <<pre, asleep>>

NotifySleeper(w) ==
  /\ signals = Cardinality(pre) /\ w \in asleep
  /\ asleep' = asleep \ {w}
  /\ UNCHANGED <<pre, signals>>

\* Notify(true): nobody who waits or is about to is left out.
NotifyAll ==
  /\ signals' = Cardinality(pre)
  /\ asleep' = {}
  /\ UNCHANGED pre

NextEC ==
  \/ \E w \in Waiters :
       \/ Prewait(w) \/ CancelWait(w) \/ CommitReturns(w) \/ CommitSleeps(w)
       \/ NotifySleeper(w)
  \/ NotifyPreWaiter
  \/ NotifyAll

SpecEC == InitEC /\ [][NextEC]_ecVars
=============================================================================

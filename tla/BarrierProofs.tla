---------------------------- MODULE BarrierProofs ----------------------------
(***************************************************************************)
(* The barrier opens neither too early nor never, for any numbers of       *)
(* threads.  The inductive invariant adds to the properties what the word  *)
(* state_ counts, and the witness that keeps the barrier alive: as long as *)
(* notifications are due, or one is on its way to the mutex, the flag in   *)
(* state_ stands for a thread that waits for it.                           *)
(***************************************************************************)
EXTENDS Barrier, FiniteSetTheorems, TLAPS

Due == {n \in Notifiers : npc[n] = "notify"}
Signaling == {n \in Notifiers : npc[n] = "signal"}
Waiting == {w \in Waiters : wpc[w] \in {"lock", "asleep"}}

\* state_ counts the notifications that are due.
CountExact == state_.count = Cardinality(Due)

\* One notifier at most is on its way to mu_, and it was the last.
LastSignals ==
  /\ \A m, n \in Signaling : m = n
  /\ \A n \in Signaling : state_.count = 0 /\ ~notified_
  /\ notified_ => state_.count = 0

\* Who waits is waited for: the flag is set, and a signal will come or came.
WaiterSeen ==
  \A w \in Waiting : state_.waiter /\ (state_.count = 0 => Signaling # {} \/ notified_)

\* A signal that is on its way has somebody to go to, who keeps the barrier.
SignalWanted ==
  /\ state_.waiter /\ state_.count > 0 => Waiting # {}
  /\ Signaling # {} => Waiting # {}

ReturnedLate == \A w \in Waiters : wpc[w] = "returned" => state_.count = 0

SleepersWait == \A w \in Waiters : wpc[w] = "asleep" => ~notified_

IInv == /\ TypeOK /\ CountExact /\ LastSignals /\ WaiterSeen /\ SignalWanted
        /\ ReturnedLate /\ SleepersWait
-----------------------------------------------------------------------------
\* The notifications due are finitely many.
LEMMA DueFinite == IsFiniteSet(Due) /\ Cardinality(Due) \in Nat
  BY BarrierAssumption, FS_Subset, FS_CardinalityType DEF Due

\* While the count is above zero somebody is due, and the reverse.
LEMMA DueCounted ==
  ASSUME CountExact
  PROVE  state_.count = 0 <=> Due = {}
  BY DueFinite, FS_EmptySet DEF CountExact

\* Notify takes one notification off those due, and there was one to take.
LEMMA NotifyCounts ==
  ASSUME CountExact, NEW n \in Notifiers, npc[n] = "notify",
         \A m \in Notifiers \ {n} : npc'[m] = npc[m], npc'[n] # "notify"
  PROVE  /\ Cardinality(Due') = state_.count - 1
         /\ state_.count \in Nat \ {0}
<1>1. Due' = Due \ {n} /\ n \in Due
  BY DEF Due
<1>2. Cardinality(Due \ {n}) = Cardinality(Due) - 1 /\ Cardinality(Due) # 0
  BY <1>1, DueFinite, FS_RemoveElement, FS_EmptySet
<1> QED
  BY <1>1, <1>2, DueFinite DEF CountExact

\* The invariant holds of a new barrier.
LEMMA InitIInv == Init => IInv
<1> SUFFICES ASSUME Init PROVE IInv
  OBVIOUS
<1>1. Cardinality(Notifiers) \in Nat
  BY BarrierAssumption, FS_CardinalityType
<1>2. Due = Notifiers /\ Signaling = {} /\ Waiting = {}
  BY DEF Init, Due, Signaling, Waiting
<1>3. TypeOK
  BY <1>1 DEF Init, TypeOK
<1>4. CountExact /\ LastSignals /\ WaiterSeen /\ SignalWanted
  BY <1>1, <1>2 DEF Init, CountExact, LastSignals, WaiterSeen, SignalWanted
<1> QED
  BY <1>3, <1>4 DEF Init, IInv, ReturnedLate, SleepersWait
-----------------------------------------------------------------------------
\* Notify keeps the invariant: the last one signals if the flag is set, and by
\* SignalWanted the flag means that somebody waits.
LEMMA NotifyIInv ==
  ASSUME IInv, NEW n \in Notifiers, Notify(n)
  PROVE  IInv'
<1> USE DEF IInv
<1> DEFINE last == state_.count = 1 /\ state_.waiter
<1>1. /\ npc[n] = "notify"
      /\ npc' = [npc EXCEPT ![n] = IF last THEN "signal" ELSE "done"]
      /\ state_' = [count |-> state_.count - 1, waiter |-> state_.waiter]
      /\ UNCHANGED <<notified_, wpc>>
  BY DEF Notify
<1> HIDE DEF last
<1>2. /\ npc' \in [Notifiers -> {"notify", "signal", "done"}]
      /\ npc'[n] = IF last THEN "signal" ELSE "done"
      /\ \A m \in Notifiers \ {n} : npc'[m] = npc[m]
  BY <1>1 DEF TypeOK
<1>3. Cardinality(Due') = state_.count - 1 /\ state_.count \in Nat \ {0}
  BY <1>1, <1>2, NotifyCounts
<1>4. state_'.count = state_.count - 1 /\ state_'.waiter = state_.waiter
  BY <1>1
<1>5. TypeOK'
  BY <1>1, <1>2, <1>3 DEF TypeOK
<1>6. CountExact'
  BY <1>3, <1>4 DEF CountExact
<1>7. Signaling = {} /\ ~notified_
  BY <1>3 DEF LastSignals
<1>8. Signaling' = IF last THEN {n} ELSE {}
  BY <1>2, <1>7 DEF Signaling
<1>9. Waiting' = Waiting
  BY <1>1 DEF Waiting
<1>10. LastSignals'
  BY <1>1, <1>3, <1>4, <1>7, <1>8 DEF LastSignals, last
<1>11. WaiterSeen'
  BY <1>1, <1>3, <1>4, <1>8, <1>9 DEF WaiterSeen, last
<1>12. SignalWanted'
  BY <1>3, <1>4, <1>8, <1>9 DEF SignalWanted, last
<1>13. ReturnedLate' /\ SleepersWait'
  BY <1>1, <1>3 DEF ReturnedLate, SleepersWait
<1> QED
  BY <1>5, <1>6, <1>10, <1>11, <1>12, <1>13

\* The last notifier wakes everybody.
LEMMA SignalIInv ==
  ASSUME IInv, NEW n \in Notifiers, Signal(n)
  PROVE  IInv'
<1> USE DEF IInv
<1>1. /\ npc[n] = "signal" /\ notified_' = TRUE /\ state_' = state_
      /\ npc' = [npc EXCEPT ![n] = "done"]
      /\ wpc' = [w \in Waiters |-> IF wpc[w] = "asleep" THEN "lock" ELSE wpc[w]]
  BY DEF Signal
<1>2. /\ npc' \in [Notifiers -> {"notify", "signal", "done"}]
      /\ npc'[n] = "done" /\ \A m \in Notifiers \ {n} : npc'[m] = npc[m]
  BY <1>1 DEF TypeOK
<1>3. TypeOK'
  BY <1>1, <1>2 DEF TypeOK
<1>4. Due' = Due
  BY <1>1, <1>2 DEF Due
<1>5. Signaling' = {} /\ state_.count = 0
  BY <1>1, <1>2 DEF Signaling, LastSignals
<1>6. Waiting' = Waiting
  BY <1>1 DEF Waiting
<1>7. CountExact' /\ LastSignals'
  BY <1>1, <1>4, <1>5 DEF CountExact, LastSignals
<1>8. WaiterSeen' /\ SignalWanted'
  BY <1>1, <1>5, <1>6 DEF WaiterSeen, SignalWanted
<1>9. ReturnedLate' /\ SleepersWait'
  BY <1>1, <1>5 DEF ReturnedLate, SleepersWait
<1> QED
  BY <1>3, <1>7, <1>8, <1>9

\* Wait sets the flag and waits, or has nothing to wait for.
LEMMA WaitIInv ==
  ASSUME IInv, NEW w \in Waiters, Wait(w)
  PROVE  IInv'
<1> USE DEF IInv
<1>1. /\ wpc[w] = "wait" /\ UNCHANGED <<notified_, npc>>
      /\ state_' = [count |-> state_.count, waiter |-> TRUE]
      /\ wpc' = [wpc EXCEPT ![w] = IF state_.count = 0 THEN "returned" ELSE "lock"]
  BY DEF Wait
<1>2. /\ wpc'[w] = (IF state_.count = 0 THEN "returned" ELSE "lock")
      /\ \A v \in Waiters \ {w} : wpc'[v] = wpc[v]
  BY <1>1 DEF TypeOK
<1>3. TypeOK' /\ state_'.count = state_.count /\ state_'.waiter /\ state_.count \in Nat
  BY <1>1 DEF TypeOK
<1>4. Due' = Due /\ Signaling' = Signaling
  BY <1>1 DEF Due, Signaling
<1>5. Waiting' = IF state_.count = 0 THEN Waiting ELSE Waiting \cup {w}
  BY <1>1, <1>2 DEF Waiting
<1>6. CountExact' /\ LastSignals'
  BY <1>1, <1>3, <1>4 DEF CountExact, LastSignals
<1>7. WaiterSeen'
  BY <1>1, <1>3, <1>4, <1>5 DEF WaiterSeen
<1>8. SignalWanted'
  BY <1>3, <1>4, <1>5 DEF SignalWanted
<1>9. ReturnedLate' /\ SleepersWait'
  BY <1>1, <1>2, <1>3 DEF ReturnedLate, SleepersWait
<1> QED
  BY <1>3, <1>6, <1>7, <1>8, <1>9

\* A waiter at the mutex returns when notified_, which is late enough, or
\* sleeps; a spurious wakeup sends it back to the mutex.
LEMMA WaiterIInv ==
  ASSUME IInv, NEW w \in Waiters, Check(w) \/ SpuriousWake(w)
  PROVE  IInv'
<1> USE DEF IInv
<1>1. /\ wpc[w] \in {"lock", "asleep"} /\ UNCHANGED <<state_, notified_, npc>>
      /\ \/ wpc' = [wpc EXCEPT ![w] = "lock"]
         \/ notified_ /\ wpc' = [wpc EXCEPT ![w] = "returned"]
         \/ ~notified_ /\ wpc' = [wpc EXCEPT ![w] = "asleep"]
  BY DEF Check, SpuriousWake
<1>2. /\ \A v \in Waiters \ {w} : wpc'[v] = wpc[v]
      /\ wpc'[w] \in {"lock", "asleep"} \/ (notified_ /\ wpc'[w] = "returned")
      /\ wpc'[w] = "asleep" => ~notified_
  BY <1>1 DEF TypeOK
<1>3. TypeOK'
  BY <1>1 DEF TypeOK
<1>4. Due' = Due /\ Signaling' = Signaling
  BY <1>1 DEF Due, Signaling
<1>5. /\ Waiting' \subseteq Waiting
      /\ ~notified_ => Waiting' = Waiting
  BY <1>1, <1>2 DEF Waiting
<1>6. notified_ => state_.count = 0 /\ Signaling = {}
  BY DEF LastSignals
<1>7. CountExact' /\ LastSignals'
  BY <1>1, <1>4 DEF CountExact, LastSignals
<1>8. WaiterSeen'
  BY <1>1, <1>4, <1>5 DEF WaiterSeen
<1>9. SignalWanted'
  BY <1>1, <1>4, <1>5, <1>6 DEF SignalWanted
<1>10. ReturnedLate' /\ SleepersWait'
  BY <1>1, <1>2, <1>6 DEF ReturnedLate, SleepersWait
<1> QED
  BY <1>3, <1>7, <1>8, <1>9, <1>10

\* Every step keeps the invariant.
LEMMA NextIInv == IInv /\ [Next]_vars => IInv'
<1> SUFFICES ASSUME IInv, [Next]_vars PROVE IInv'
  OBVIOUS
<1>1. ASSUME NEW n \in Notifiers, Notify(n) \/ Signal(n) PROVE IInv'
  BY <1>1, NotifyIInv, SignalIInv
<1>2. ASSUME NEW w \in Waiters, Wait(w) \/ Check(w) \/ SpuriousWake(w) PROVE IInv'
  BY <1>2, WaitIInv, WaiterIInv
<1>3. ASSUME UNCHANGED vars PROVE IInv'
  BY <1>3 DEF vars, IInv, TypeOK, CountExact, LastSignals, WaiterSeen, SignalWanted,
              ReturnedLate, SleepersWait, Due, Signaling, Waiting
<1> QED
  BY <1>1, <1>2, <1>3 DEF Next, Terminating

\* The invariant holds throughout.
LEMMA Invariance == Spec => []IInv
  BY InitIInv, NextIInv, PTL DEF Spec
-----------------------------------------------------------------------------
\* Every variable keeps its type, and state_ does not underflow.
THEOREM TypeCorrect == Spec => []TypeOK
<1>1. IInv => TypeOK
  BY DEF IInv
<1> QED
  BY <1>1, Invariance, PTL

\* Wait never returns before the last Notify was called.
THEOREM OpensLate == Spec => []NotEarly
<1>1. IInv => NotEarly
  BY DueCounted DEF IInv, NotEarly, ReturnedLate, Due
<1> QED
  BY <1>1, Invariance, PTL

\* When all calls of Notify have returned no waiter is left asleep.
THEOREM NoneLeftBehind == Spec => []NobodyStranded
<1>1. IInv => NobodyStranded
  <2> SUFFICES ASSUME IInv, \A n \in Notifiers : npc[n] = "done",
                      NEW w \in Waiters, w \in Waiting
               PROVE  wpc[w] # "asleep" /\ notified_
    BY DEF NobodyStranded, Waiting
  <2>1. Due = {} /\ Signaling = {}
    BY DEF Due, Signaling
  <2>2. state_.count = 0
    BY <2>1, DueCounted DEF IInv
  <2> QED
    BY <2>1, <2>2 DEF IInv, WaiterSeen, SleepersWait
<1> QED
  BY <1>1, Invariance, PTL

\* When all calls of Wait have returned nobody touches the barrier any more.
THEOREM SafeToDestroy == Spec => []Destroyable
<1>1. IInv => Destroyable
  <2> SUFFICES ASSUME IInv, \A w \in Waiters : wpc[w] = "returned"
               PROVE  (\A n \in Notifiers : npc[n] = "done") /\ state_.count = 0
    BY DEF Destroyable
  <2>1. Waiting = {}
    BY DEF Waiting
  <2>2. state_.count = 0
    BY BarrierAssumption DEF IInv, ReturnedLate
  <2>3. Due = {} /\ Signaling = {}
    BY <2>1, <2>2, DueCounted DEF IInv, SignalWanted
  <2> QED
    BY <2>2, <2>3 DEF IInv, TypeOK, Due, Signaling
<1> QED
  BY <1>1, Invariance, PTL
=============================================================================

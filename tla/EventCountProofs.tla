-------------------------- MODULE EventCountProofs --------------------------
(***************************************************************************)
(* Theorems of EventCount, for any number of threads and any epoch width:  *)
(*   TypeCorrect, CountersCorrect   the packed word means what it says;    *)
(*   NobodyStranded                 a sleeper can always be found again;   *)
(*   NoWakeupLost                   no notification is lost;               *)
(*   ImplementsAtomic               the atomic event count is implemented. *)
(* The last three need an inductive invariant about the stack of waiters   *)
(* (StackInv): the links of a stack are a finite list, which is proved     *)
(* about by least counterexample, for a chain is followed by a recursive   *)
(* function.                                                               *)
(***************************************************************************)
EXTENDS EventCount, FiniteSetTheorems, WellFoundedInduction, TLAPS

\* Where a notifier dereferences a slot index, it is not the empty stack.
SlotsNamed ==
  \A n \in Notifiers :
    /\ pc[n] = "getnext" => state[n].stack \in Waiters
    /\ pc[n] \in {"detach", "unpark", "signal", "wake"} => target[n] \in Waiters

IInv == TypeOK /\ CountersExact /\ SlotsNamed

PrewaitPCs == {"recheck", "cancel", "commit", "setnext", "cas"}

(***************************************************************************)
(* The words the operations compute are words and pass CheckState.         *)
(***************************************************************************)
WordParts(s) == /\ s.stack \in Slot /\ s.epoch \in 0 .. EpochMod - 1
                /\ s.waiters \in Nat /\ s.signals \in Nat

\* A word is a record of its four fields.
LEMMA PartsOfWord == ASSUME NEW s \in Word PROVE WordParts(s)
  BY DEF WordParts, Word

\* Changing the counters of a word yields a word, whose check is on them alone.
LEMMA CountingWord ==
  ASSUME NEW s, s.stack \in Slot, s.epoch \in 0 .. EpochMod - 1,
         NEW w \in Nat, NEW g \in Nat, g <= w
  PROVE  /\ Counting(s, w, g) \in Word
         /\ CheckState(Counting(s, w, g))
         /\ Counting(s, w, g).waiters = w
  BY DEF Counting, Word, CheckState

\* The word of a new event count passes CheckState.
LEMMA EmptyWordOK ==
  EmptyWord \in Word /\ CheckState(EmptyWord) /\ EmptyLink \in Link
  BY EventCountAssumption DEF EmptyWord, EmptyLink, Link, Word, Slot, CheckState

\* Prewait: one pre-waiter more.
LEMMA PrewaitedWord ==
  ASSUME NEW s \in Word, CheckState(s)
  PROVE  /\ Prewaited(s) \in Word /\ CheckState(Prewaited(s))
         /\ Prewaited(s).waiters = s.waiters + 1
<1>1. WordParts(s)
  BY PartsOfWord
<1>2. s.waiters + 1 \in Nat /\ s.signals <= s.waiters + 1
  BY <1>1 DEF CheckState, WordParts
<1> QED
  BY <1>1, <1>2, CountingWord, Zenon DEF Prewaited, WordParts

\* The three ways of leaving pre-wait: one pre-waiter less.
LEMMA ConsumedWord ==
  ASSUME NEW s \in Word, CheckStateWaiter(s), s.signals > 0
  PROVE  /\ Consumed(s) \in Word /\ CheckState(Consumed(s))
         /\ Consumed(s).waiters = s.waiters - 1
<1>1. WordParts(s)
  BY PartsOfWord
<1>2. s.waiters - 1 \in Nat /\ s.signals - 1 \in Nat /\ s.signals - 1 <= s.waiters - 1
  BY <1>1 DEF CheckState, CheckStateWaiter, WordParts
<1> QED
  BY <1>1, <1>2, CountingWord DEF Consumed, WordParts

\* Joining the stack: one pre-waiter less, no signal was there to take.
LEMMA StackedWord ==
  ASSUME NEW s \in Word, CheckStateWaiter(s), NEW l \in Link
  PROVE  /\ Stacked(s, l) \in Word /\ CheckState(Stacked(s, l))
         /\ Stacked(s, l).waiters = s.waiters - 1
<1>1. l.stack \in Slot /\ l.epoch \in 0 .. EpochMod - 1
  BY DEF Link
<1>2. s.waiters - 1 \in Nat /\ 0 \in Nat /\ 0 <= s.waiters - 1
  BY PartsOfWord DEF CheckStateWaiter, WordParts
<1> QED
  BY <1>1, <1>2, CountingWord DEF Stacked

\* CancelWait: one pre-waiter less, and a signal less if all had one.
LEMMA CancelledWord ==
  ASSUME NEW s \in Word, CheckStateWaiter(s)
  PROVE  /\ Cancelled(s) \in Word /\ CheckState(Cancelled(s))
         /\ Cancelled(s).waiters = s.waiters - 1
<1>1. WordParts(s)
  BY PartsOfWord
<1>2. CASE s.waiters = s.signals
  <2>1. s.waiters - 1 \in Nat /\ s.signals - 1 \in Nat /\ s.signals - 1 <= s.waiters - 1
    BY <1>1, <1>2 DEF CheckStateWaiter, WordParts
  <2> QED
    BY <1>1, <1>2, <2>1, CountingWord DEF Cancelled, WordParts
<1>3. CASE s.waiters # s.signals
  <2>1. s.waiters - 1 \in Nat /\ s.signals <= s.waiters - 1
    BY <1>1, <1>3 DEF CheckState, CheckStateWaiter, WordParts
  <2> QED
    BY <1>1, <1>3, <2>1, CountingWord DEF Cancelled, WordParts
<1> QED
  BY <1>2, <1>3

\* The three words Notify installs leave the number of pre-waiters alone.
LEMMA NotifiedWord ==
  ASSUME NEW s \in Word, CheckState(s), NEW l \in Link
  PROVE  /\ ReleasedAll(s) \in Word /\ CheckState(ReleasedAll(s))
         /\ ReleasedAll(s).waiters = s.waiters
         /\ Popped(s, l) \in Word /\ CheckState(Popped(s, l))
         /\ Popped(s, l).waiters = s.waiters
         /\ s.signals < s.waiters =>
              /\ Signaled(s) \in Word /\ CheckState(Signaled(s))
              /\ Signaled(s).waiters = s.waiters
<1>1. WordParts(s) /\ s.signals <= s.waiters /\ s.waiters <= s.waiters
  BY PartsOfWord DEF CheckState, WordParts
<1>2. l.stack \in Slot /\ l.epoch \in 0 .. EpochMod - 1
  BY DEF Link
<1>3. EmptyLink.stack \in Slot /\ EmptyLink.epoch \in 0 .. EpochMod - 1
  BY EmptyWordOK DEF Link
<1>4. ReleasedAll(s) \in Word /\ CheckState(ReleasedAll(s)) /\ ReleasedAll(s).waiters = s.waiters
  BY <1>1, <1>3, CountingWord DEF ReleasedAll, WordParts
<1>5. Popped(s, l) \in Word /\ CheckState(Popped(s, l)) /\ Popped(s, l).waiters = s.waiters
  BY <1>1, <1>2, CountingWord DEF Popped, WordParts
<1>6. ASSUME s.signals < s.waiters
      PROVE  Signaled(s) \in Word /\ CheckState(Signaled(s)) /\ Signaled(s).waiters = s.waiters
  <2>1. s.signals + 1 \in Nat /\ s.signals + 1 <= s.waiters
    BY <1>1, <1>6 DEF WordParts
  <2> QED
    BY <1>1, <2>1, CountingWord DEF Signaled, WordParts
<1> QED
  BY <1>4, <1>5, <1>6
-----------------------------------------------------------------------------
\* The pre-waiting threads are finitely many.
LEMMA PrewaitingFinite == IsFiniteSet(Prewaiting)
  BY EventCountAssumption, FS_Subset DEF Prewaiting

\* No step but Prewait, Cancel- and CommitWait moves a thread in or out.
LEMMA PrewaitingSame ==
  ASSUME \A w \in Waiters : pc'[w] \in PrewaitPCs <=> pc[w] \in PrewaitPCs
  PROVE  Prewaiting' = Prewaiting
  BY DEF Prewaiting, PrewaitPCs

\* Prewait adds one to the number of pre-waiting threads.
LEMMA PrewaitingGrows ==
  ASSUME NEW w \in Waiters,
         pc[w] \notin PrewaitPCs, pc'[w] \in PrewaitPCs,
         \A v \in Waiters \ {w} : pc'[v] = pc[v]
  PROVE  Cardinality(Prewaiting') = Cardinality(Prewaiting) + 1
<1>1. Prewaiting' = Prewaiting \cup {w} /\ w \notin Prewaiting
  BY DEF Prewaiting, PrewaitPCs
<1> QED
  BY <1>1, PrewaitingFinite, FS_AddElement

\* CancelWait and CommitWait take one away, and there was one to take.
LEMMA PrewaitingShrinks ==
  ASSUME NEW w \in Waiters,
         pc[w] \in PrewaitPCs, pc'[w] \notin PrewaitPCs,
         \A v \in Waiters \ {w} : pc'[v] = pc[v]
  PROVE  /\ Cardinality(Prewaiting') = Cardinality(Prewaiting) - 1
         /\ Cardinality(Prewaiting) \in Nat \ {0}
<1>1. Prewaiting' = Prewaiting \ {w} /\ w \in Prewaiting
  BY DEF Prewaiting, PrewaitPCs
<1>2. Cardinality(Prewaiting) \in Nat /\ Cardinality(Prewaiting) # 0
  BY <1>1, PrewaitingFinite, FS_CardinalityType, FS_EmptySet
<1> QED
  BY <1>1, <1>2, PrewaitingFinite, FS_RemoveElement

\* The invariant holds of a new event count.
LEMMA InitIInv == Init => IInv
<1> SUFFICES ASSUME Init PROVE IInv
  OBVIOUS
<1>1. TypeOK
  <2>1. 0 \in 0 .. EpochMod - 1 /\ kStackMask \in Slot
    BY EventCountAssumption DEF Slot
  <2>2. EmptyWord \in Word /\ EmptyLink \in Link
    BY EmptyWordOK
  <2> QED
    BY <2>1, <2>2 DEF Init, TypeOK, Threads, WaiterPCs, NotifierPCs, WaiterStates
<1>2. Prewaiting = {}
  BY DEF Init, Prewaiting, Threads
<1>3. CountersExact
  BY <1>2, FS_EmptySet, EmptyWordOK DEF Init, CountersExact, EmptyWord, Threads
<1>4. SlotsNamed
  BY DEF Init, SlotsNamed, Threads
<1> QED
  BY <1>1, <1>3, <1>4 DEF IInv

\* The epoch of a waiter stays within its bits.
LEMMA NextEpochOK == \A e \in 0 .. EpochMod - 1 : NextEpoch(e) \in 0 .. EpochMod - 1
  BY EventCountAssumption DEF NextEpoch

\* A pre-waiting thread makes the counter positive.
LEMMA SomePrewaiting ==
  ASSUME IInv, NEW w \in Waiters, pc[w] \in PrewaitPCs
  PROVE  CheckStateWaiter(state_)
<1>1. Cardinality(Prewaiting) \in Nat /\ Cardinality(Prewaiting) # 0
  BY PrewaitingFinite, FS_CardinalityType, FS_EmptySet DEF Prewaiting, PrewaitPCs
<1> QED
  BY <1>1 DEF IInv, CountersExact, CheckStateWaiter

\* The steps of a waiting thread that change state_.
LEMMA WordSteps ==
  ASSUME IInv, NEW w \in Waiters,
         Prewait(w) \/ CancelWait(w) \/ CommitConsume(w) \/ CommitPush(w)
  PROVE  IInv'
<1> USE DEF IInv
<1>1. /\ w \in Threads /\ TypeOK /\ state_ \in Word /\ CheckState(state_)
      /\ \A n \in Notifiers : n \in Threads /\ n # w
      /\ \A v \in Waiters : v \in Threads
  BY EventCountAssumption DEF Threads, TypeOK, CountersExact
<1>2. pc[w] \in PrewaitPCs => CheckStateWaiter(state_)
  BY SomePrewaiting
<1>3. CASE Prewait(w)
  <2>1. pc[w] = "prewait" /\ pc' = [pc EXCEPT ![w] = "recheck"]
    BY <1>3 DEF Prewait, Goto
  <2>2. Cardinality(Prewaiting') = Cardinality(Prewaiting) + 1
    BY <1>1, <2>1, PrewaitingGrows DEF TypeOK, PrewaitPCs
  <2>3. state_' \in Word /\ CheckState(state_') /\ state_'.waiters = state_.waiters + 1
    BY <1>1, <1>2, <1>3, PrewaitedWord DEF Prewait, PrewaitPCs
  <2>4. TypeOK'
    BY <1>1, <1>3, <2>1, <2>3, EmptyWordOK
    DEF Prewait, TypeOK, WaiterPCs, NotifierPCs, waiterVars, notifyVars, userVars
  <2>5. CountersExact'
    BY <1>1, <1>3, <2>1, <2>2, <2>3, EmptyWordOK DEF Prewait, CountersExact, TypeOK
  <2>6. SlotsNamed'
    BY <1>1, <1>3, <2>1 DEF Prewait, SlotsNamed, TypeOK, notifyVars
  <2> QED
    BY <2>4, <2>5, <2>6
<1>4. CASE CancelWait(w)
  <2>1. pc[w] = "cancel" /\ pc' = [pc EXCEPT ![w] = "idle"]
    BY <1>4 DEF CancelWait, Goto
  <2>2. Cardinality(Prewaiting') = Cardinality(Prewaiting) - 1
    BY <1>1, <2>1, PrewaitingShrinks DEF TypeOK, PrewaitPCs
  <2>3. state_' \in Word /\ CheckState(state_') /\ state_'.waiters = state_.waiters - 1
    BY <1>1, <1>2, <1>4, CancelledWord DEF CancelWait, PrewaitPCs
  <2>4. TypeOK'
    BY <1>1, <1>4, <2>1, <2>3, EmptyWordOK
    DEF CancelWait, TypeOK, WaiterPCs, NotifierPCs, waiterVars, notifyVars, userVars
  <2>5. CountersExact'
    BY <1>1, <1>4, <2>1, <2>2, <2>3, EmptyWordOK DEF CancelWait, CountersExact, TypeOK
  <2>6. SlotsNamed'
    BY <1>1, <1>4, <2>1 DEF CancelWait, SlotsNamed, TypeOK, notifyVars
  <2> QED
    BY <2>4, <2>5, <2>6
<1>5. CASE CommitConsume(w)
  <2>1. pc[w] = "cas" /\ pc' = [pc EXCEPT ![w] = "idle"]
    BY <1>5 DEF CommitConsume, Goto
  <2>2. Cardinality(Prewaiting') = Cardinality(Prewaiting) - 1
    BY <1>1, <2>1, PrewaitingShrinks DEF TypeOK, PrewaitPCs
  <2>3. state_' \in Word /\ CheckState(state_') /\ state_'.waiters = state_.waiters - 1
    BY <1>1, <1>2, <1>5, ConsumedWord DEF CommitConsume, PrewaitPCs
  <2>4. TypeOK'
    BY <1>1, <1>5, <2>1, <2>3, EmptyWordOK
    DEF CommitConsume, TypeOK, WaiterPCs, NotifierPCs, waiterVars, notifyVars, userVars
  <2>5. CountersExact'
    BY <1>1, <1>5, <2>1, <2>2, <2>3, EmptyWordOK DEF CommitConsume, CountersExact, TypeOK
  <2>6. SlotsNamed'
    BY <1>1, <1>5, <2>1 DEF CommitConsume, SlotsNamed, TypeOK, notifyVars
  <2> QED
    BY <2>4, <2>5, <2>6
<1>6. CASE CommitPush(w)
  <2>1. pc[w] = "cas" /\ pc' = [pc EXCEPT ![w] = "park"]
    BY <1>6 DEF CommitPush, Goto
  <2>2. Cardinality(Prewaiting') = Cardinality(Prewaiting) - 1
    BY <1>1, <2>1, PrewaitingShrinks DEF TypeOK, PrewaitPCs
  <2>3. state_' \in Word /\ CheckState(state_') /\ state_'.waiters = state_.waiters - 1
    BY <1>1, <1>2, <1>6, StackedWord DEF CommitPush, PrewaitPCs, Link, Slot, TypeOK
  <2>4. TypeOK'
    BY <1>1, <1>6, <2>1, <2>3, EmptyWordOK, NextEpochOK
    DEF CommitPush, TypeOK, WaiterPCs, NotifierPCs, waiterVars, notifyVars, userVars
  <2>5. CountersExact'
    BY <1>1, <1>6, <2>1, <2>2, <2>3, EmptyWordOK DEF CommitPush, CountersExact, TypeOK
  <2>6. SlotsNamed'
    BY <1>1, <1>6, <2>1 DEF CommitPush, SlotsNamed, TypeOK, notifyVars
  <2> QED
    BY <2>4, <2>5, <2>6
<1> QED
  BY <1>3, <1>4, <1>5, <1>6

\* The other steps of a waiting thread: it moves, state_ stays.
LEMMA WaiterSteps ==
  ASSUME IInv, NEW w \in Waiters, WaiterStep(w) \/ SpuriousWake(w)
  PROVE  IInv'
<1> USE DEF IInv
<1>1. /\ w \in Threads /\ TypeOK /\ CountersExact /\ SlotsNamed
      /\ state_ \in Word /\ CheckState(state_)
      /\ \A n \in Notifiers : n \in Threads /\ n # w
      /\ \A v \in Waiters : v \in Threads
  BY EventCountAssumption DEF Threads, TypeOK, CountersExact
<1>2. pc[w] \in PrewaitPCs => CheckStateWaiter(state_)
  BY SomePrewaiting
<1>3. CASE Pop(w)
  <2>1. TypeOK'
    BY <1>1, <1>3 DEF Pop, TypeOK, waiterVars, notifyVars
  <2>2. CountersExact'
    BY <1>1, <1>3 DEF Pop, CountersExact, Prewaiting
  <2>3. SlotsNamed'
    BY <1>1, <1>3 DEF Pop, SlotsNamed, notifyVars
  <2> QED
    BY <2>1, <2>2, <2>3
<1>4. CASE PopEmpty(w) \/ Recheck(w) \/ CommitSetNext(w) \/ ParkReturn(w) \/ ParkWait(w)
             \/ SpuriousWake(w)
  <2>1. PICK l \in WaiterPCs : pc' = [pc EXCEPT ![w] = l] /\ (l \in PrewaitPCs <=> pc[w] \in PrewaitPCs)
                               /\ (l \in {"setnext", "cas"} => pc[w] \in {"setnext", "cas"})
    BY <1>1, <1>4 DEF PopEmpty, Recheck, CommitSetNext, ParkReturn, ParkWait, SpuriousWake, Goto,
                      WaiterPCs, PrewaitPCs
  <2>2. Prewaiting' = Prewaiting
    BY <1>1, <2>1, PrewaitingSame DEF TypeOK
  <2>3. state_' = state_ /\ state' = state /\ target' = target
    BY <1>4 DEF PopEmpty, Recheck, CommitSetNext, ParkReturn, ParkWait, SpuriousWake, notifyVars
  <2>4. next' \in [Waiters -> Link] /\ wstate' \in [Waiters -> WaiterStates] /\ epoch' = epoch
    <3>1. LinkOf(state[w]) \in Link
      BY <1>1 DEF LinkOf, Link, Word, TypeOK
    <3> QED
      BY <1>1, <1>4, <3>1
      DEF PopEmpty, Recheck, CommitSetNext, ParkReturn, ParkWait, SpuriousWake, waiterVars, TypeOK,
          WaiterStates
  <2>5. UNCHANGED <<notifyVars, userVars>>
    BY <1>4 DEF PopEmpty, Recheck, CommitSetNext, ParkReturn, ParkWait, SpuriousWake
  <2>6. TypeOK'
    BY <1>1, <2>1, <2>3, <2>4, <2>5 DEF TypeOK, notifyVars, userVars
  <2>7. CountersExact'
    BY <1>1, <2>1, <2>2, <2>3 DEF CountersExact, TypeOK
  <2>8. SlotsNamed'
    BY <1>1, <2>1, <2>3 DEF SlotsNamed, TypeOK
  <2> QED
    BY <2>6, <2>7, <2>8
<1>5. CASE CommitLoad(w) \/ CommitRetry(w)
  <2>1. PICK l \in {"setnext", "cas"} : pc' = [pc EXCEPT ![w] = l]
    BY <1>5 DEF CommitLoad, CommitRetry, CommitBranch, Goto
  <2>2. pc[w] \in PrewaitPCs
    BY <1>5 DEF CommitLoad, CommitRetry, PrewaitPCs
  <2>3. Prewaiting' = Prewaiting
    BY <1>1, <2>1, <2>2, PrewaitingSame DEF TypeOK, PrewaitPCs
  <2>4. state_' = state_ /\ state' = [state EXCEPT ![w] = state_] /\ UNCHANGED <<notifyVars, userVars>>
    BY <1>5 DEF CommitLoad, CommitRetry
  <2>5. next' = next /\ epoch' = epoch /\ wstate' \in [Waiters -> WaiterStates]
    BY <1>1, <1>5 DEF CommitLoad, CommitRetry, waiterVars, TypeOK, WaiterStates
  <2>6. TypeOK'
    BY <1>1, <2>1, <2>4, <2>5 DEF TypeOK, notifyVars, userVars, WaiterPCs
  <2>7. CountersExact'
    BY <1>1, <1>2, <2>1, <2>2, <2>3, <2>4 DEF CountersExact, TypeOK
  <2>8. SlotsNamed'
    BY <1>1, <2>1, <2>4 DEF SlotsNamed, TypeOK, notifyVars
  <2> QED
    BY <2>6, <2>7, <2>8
<1>6. CASE Prewait(w) \/ CancelWait(w) \/ CommitConsume(w) \/ CommitPush(w)
  BY <1>6, WordSteps
<1> QED
  BY <1>3, <1>4, <1>5, <1>6 DEF WaiterStep, Commit, Park

\* The steps of a notifying thread: the pre-waiters stay as they are.
LEMMA NotifierSteps ==
  ASSUME IInv, NEW n \in Notifiers, Push(n) \/ Close(n) \/ Notify(n)
  PROVE  IInv'
<1> USE DEF IInv
<1>1. /\ n \in Threads /\ TypeOK /\ CountersExact /\ SlotsNamed
      /\ state_ \in Word /\ CheckState(state_)
      /\ state[n] \in Word /\ CheckState(state[n])
      /\ \A w \in Waiters : w \in Threads /\ n # w
      /\ \A m \in Notifiers : m \in Threads /\ m \notin Waiters
  BY EventCountAssumption DEF Threads, TypeOK, CountersExact
<1>2. CASE Push(n) \/ Close(n)
  <2>1. pc' = [pc EXCEPT ![n] = "notify"] /\ UNCHANGED <<state_, waiterVars, state, target>>
    BY <1>2 DEF Push, Close, Goto
  <2>2. TypeOK'
    <3>1. val_' \in Nat /\ pushed' \in Nat /\ UNCHANGED <<link, follow, was>>
      BY <1>1, <1>2 DEF Push, Close, TypeOK
    <3>3. done' \in BOOLEAN
      BY <1>1, <1>2, Zenon DEF Push, Close, TypeOK
    <3>2. notifyAll' \in [Notifiers -> BOOLEAN]
      <4>1. PICK b \in BOOLEAN : notifyAll' = [notifyAll EXCEPT ![n] = b]
        BY <1>2, Zenon DEF Push, Close
      <4>2. notifyAll \in [Notifiers -> BOOLEAN]
        BY <1>1 DEF TypeOK
      <4> QED
        BY <4>1, <4>2
    <3> QED
      BY <1>1, <2>1, <3>1, <3>2, <3>3 DEF TypeOK, waiterVars, NotifierPCs
  <2>3. Prewaiting' = Prewaiting
    BY <1>1, <2>1, PrewaitingSame DEF TypeOK
  <2>4. CountersExact'
    BY <1>1, <2>1, <2>3 DEF CountersExact, TypeOK
  <2>5. SlotsNamed'
    BY <1>1, <2>1 DEF SlotsNamed, TypeOK
  <2> QED
    BY <2>2, <2>4, <2>5
<1>3. CASE NotifyLoad(n)
  <2> DEFINE l == NotifyBranch(n, state_)
  <2>1. /\ pc' = [pc EXCEPT ![n] = l] /\ state_' = state_ /\ target' = target
        /\ state' = [state EXCEPT ![n] = IF l = "idle" THEN EmptyWord ELSE state_]
        /\ link' = [link EXCEPT ![n] = EmptyLink]
    BY <1>3 DEF NotifyLoad, Goto
  <2>2. l \in {"idle", "getnext", "exchange"} /\ (l = "getnext" => state_.stack \in Waiters)
    BY <1>1, PartsOfWord DEF NotifyBranch, NoWaiters, WordParts, CheckState, Slot
  <2> HIDE DEF l
  <2>3. TypeOK'
    BY <1>1, <1>3, <2>1, <2>2, EmptyWordOK DEF NotifyLoad, TypeOK, waiterVars, userVars, NotifierPCs
  <2>4. Prewaiting' = Prewaiting
    BY <1>1, <2>1, PrewaitingSame DEF TypeOK
  <2>5. CountersExact'
    BY <1>1, <2>1, <2>4, EmptyWordOK DEF CountersExact, TypeOK
  <2>6. SlotsNamed'
    BY <1>1, <2>1, <2>2 DEF SlotsNamed, TypeOK
  <2> QED
    BY <2>3, <2>5, <2>6
<1>4. CASE NotifyGetNext(n)
  <2>1. /\ pc' = [pc EXCEPT ![n] = "exchange"] /\ pc[n] = "getnext"
        /\ UNCHANGED <<state_, state, target>>
        /\ link' = [link EXCEPT ![n] = next[state[n].stack]]
    BY <1>4 DEF NotifyGetNext, Goto
  <2>2. TypeOK'
    BY <1>1, <1>4, <2>1 DEF NotifyGetNext, SlotsNamed, TypeOK, waiterVars, userVars, NotifierPCs
  <2>3. Prewaiting' = Prewaiting
    BY <1>1, <2>1, PrewaitingSame DEF TypeOK
  <2>4. CountersExact'
    BY <1>1, <2>1, <2>3 DEF CountersExact, TypeOK
  <2>5. SlotsNamed'
    BY <1>1, <2>1 DEF SlotsNamed, TypeOK
  <2> QED
    BY <2>2, <2>4, <2>5
<1>5. CASE NotifyExchange(n)
  <2> DEFINE w == IF ~notifyAll[n] /\ state[n].signals < state[n].waiters THEN kStackMask ELSE state[n].stack
             l == IF w = kStackMask THEN "idle" ELSE IF notifyAll[n] THEN "unpark" ELSE "detach"
  <2>1. /\ pc' = [pc EXCEPT ![n] = l] /\ pc[n] = "exchange" /\ state_ = state[n]
        /\ state_' = NotifyWord(n)
        /\ target' = [target EXCEPT ![n] = w]
        /\ state' = [state EXCEPT ![n] = EmptyWord]
        /\ link' = [link EXCEPT ![n] = EmptyLink]
    BY <1>5 DEF NotifyExchange, Goto
  <2>2. w \in Slot /\ l \in {"idle", "unpark", "detach"} /\ (l # "idle" => w \in Waiters)
    BY <1>1, PartsOfWord DEF WordParts, Slot
  <2> HIDE DEF l, w
  <2>3. state_' \in Word /\ CheckState(state_') /\ state_'.waiters = state_.waiters
    BY <1>1, <2>1, NotifiedWord DEF NotifyWord, TypeOK
  <2>4. TypeOK'
    BY <1>1, <1>5, <2>1, <2>2, <2>3, EmptyWordOK
    DEF NotifyExchange, TypeOK, waiterVars, userVars, NotifierPCs
  <2>5. Prewaiting' = Prewaiting
    BY <1>1, <2>1, PrewaitingSame DEF TypeOK
  <2>6. CountersExact'
    BY <1>1, <2>1, <2>3, <2>5, EmptyWordOK DEF CountersExact, TypeOK
  <2>7. SlotsNamed'
    BY <1>1, <2>1, <2>2 DEF SlotsNamed, TypeOK
  <2> QED
    BY <2>4, <2>6, <2>7
<1>6. CASE Detach(n) \/ UnparkNext(n) \/ UnparkSignal(n)
  <2>1. PICK l \in {"unpark", "signal", "wake"} :
          /\ pc' = [pc EXCEPT ![n] = l] /\ target[n] \in Waiters
          /\ UNCHANGED <<state_, epoch, state, link, target, notifyAll, userVars>>
    BY <1>1, <1>6 DEF Detach, UnparkNext, UnparkSignal, Goto, SlotsNamed, waiterVars, notifyVars
  <2>2. /\ next' \in [Waiters -> Link] /\ follow' \in [Notifiers -> Slot]
        /\ was' \in [Notifiers -> WaiterStates] /\ wstate' \in [Waiters -> WaiterStates]
    <3>1. CASE Detach(n)
      BY <1>1, <2>1, <3>1, EmptyWordOK DEF Detach, notifyVars, TypeOK
    <3>2. CASE UnparkNext(n)
      BY <1>1, <2>1, <3>2 DEF UnparkNext, waiterVars, TypeOK, Link
    <3>3. CASE UnparkSignal(n)
      BY <1>1, <2>1, <3>3 DEF UnparkSignal, TypeOK, WaiterStates
    <3> QED
      BY <1>6, <3>1, <3>2, <3>3
  <2>3. TypeOK'
    BY <1>1, <2>1, <2>2 DEF TypeOK, userVars, NotifierPCs
  <2>4. Prewaiting' = Prewaiting
    BY <1>1, <2>1, PrewaitingSame DEF TypeOK
  <2>5. CountersExact'
    BY <1>1, <2>1, <2>4 DEF CountersExact, TypeOK
  <2>6. SlotsNamed'
    BY <1>1, <2>1 DEF SlotsNamed, TypeOK
  <2> QED
    BY <2>3, <2>5, <2>6
<1>7. CASE UnparkWake(n)
  <2> DEFINE w == target[n]
             l == IF follow[n] = kStackMask THEN "idle" ELSE "unpark"
             k == IF was[n] = "Waiting" /\ pc[w] = "parked" THEN "park" ELSE pc[w]
  <2>1. w \in Waiters /\ follow[n] \in Slot /\ (l = "unpark" => follow[n] \in Waiters)
    BY <1>1, <1>7 DEF UnparkWake, SlotsNamed, TypeOK, Slot
  <2>2. pc' = [pc EXCEPT ![n] = l, ![w] = k]
    BY <1>7, Zenon DEF UnparkWake
  <2>3. /\ pc'[n] = l /\ pc'[w] = k /\ \A t \in Threads \ {n, w} : pc'[t] = pc[t]
        /\ pc' \in [Threads -> WaiterPCs \cup NotifierPCs]
    BY <1>1, <2>1, <2>2 DEF TypeOK, WaiterPCs, NotifierPCs
  <2>4. l \in NotifierPCs /\ k \in WaiterPCs /\ (k \in PrewaitPCs <=> pc[w] \in PrewaitPCs)
        /\ (k \in {"setnext", "cas"} <=> pc[w] \in {"setnext", "cas"})
    BY <1>1, <2>1 DEF TypeOK, WaiterPCs, NotifierPCs, PrewaitPCs
  <2>5. /\ UNCHANGED <<state_, waiterVars, state, link, notifyAll, userVars>>
        /\ target' = [target EXCEPT ![n] = follow[n]]
        /\ follow' = [follow EXCEPT ![n] = kStackMask]
        /\ was' = [was EXCEPT ![n] = "NotSignaled"]
    BY <1>7 DEF UnparkWake
  <2>6. l = "idle" \/ l = "unpark"
    OBVIOUS
  <2> HIDE DEF l, k, w
  <2>7. TypeOK'
    BY <1>1, <2>1, <2>3, <2>4, <2>5 DEF TypeOK, waiterVars, userVars, Slot, WaiterStates
  <2>8. Prewaiting' = Prewaiting
    BY <1>1, <2>1, <2>3, <2>4, PrewaitingSame
  <2>9. CountersExact'
    BY <1>1, <2>1, <2>3, <2>4, <2>5, <2>8 DEF CountersExact
  <2>10. SlotsNamed'
    BY <1>1, <2>1, <2>3, <2>5, <2>6 DEF SlotsNamed, TypeOK
  <2> QED
    BY <2>7, <2>9, <2>10
<1> QED
  BY <1>2, <1>3, <1>4, <1>5, <1>6, <1>7 DEF Notify

\* Every step keeps the invariant.
LEMMA NextIInv == IInv /\ [Next]_vars => IInv'
<1> SUFFICES ASSUME IInv, [Next]_vars PROVE IInv'
  OBVIOUS
<1>1. CASE UNCHANGED vars
  BY <1>1 DEF IInv, TypeOK, CountersExact, SlotsNamed, Prewaiting, vars, waiterVars, notifyVars, userVars
<1> QED
  BY <1>1, WaiterSteps, NotifierSteps DEF Next, Terminating

\* The invariant holds throughout.
LEMMA Invariance == Spec => []IInv
  BY InitIInv, NextIInv, PTL DEF Spec

\* The packed word, the links and every thread's locals keep their types.
THEOREM TypeCorrect == Spec => []TypeOK
<1>1. IInv => TypeOK
  BY DEF IInv
<1> QED
  BY <1>1, Invariance, PTL

\* CheckState's asserts never fire and the pre-wait counter counts the
\* threads that are between Prewait and Cancel/CommitWait.
THEOREM CountersCorrect == Spec => []CountersExact
<1>1. IInv => CountersExact
  BY DEF IInv
<1> QED
  BY <1>1, Invariance, PTL
-----------------------------------------------------------------------------
(***************************************************************************)
(* The stack of waiters: a finite list of slots, tied by their links.      *)
(***************************************************************************)
\* The least number principle, on which what follows of lists rests.
LEMMA LeastNatural ==
  ASSUME NEW S, S \subseteq Nat, S # {}
  PROVE  \E m \in S : \A k \in S : m <= k
<1> DEFINE R == OpToRel(<, Nat)
<1>1. IsWellFoundedOn(R, Nat)
  BY NatLessThanWellFounded, Zenon
<1>2. R = {ss \in Nat \X Nat : ss[1] < ss[2]}
  BY Zenon DEF OpToRel
<1> HIDE DEF R
<1>3. PICK m \in S : \A k \in S : ~(<<k, m>> \in R)
  BY <1>1, WFMin, Zenon
<1>4. \A k \in S : ~(k < m)
  <2> TAKE k \in S
  <2>1. k \in Nat /\ m \in Nat
    OBVIOUS
  <2> QED
    BY <1>2, <1>3, <2>1
<1> QED
  BY <1>4

\* q lists a stack of n waiters in the links nx, the bottom first, s on top.
Lists(nx, s, n, q) ==
  /\ q \in [1 .. n -> Waiters]
  /\ \A i, j \in 1 .. n : q[i] = q[j] => i = j
  /\ s = IF n = 0 THEN kStackMask ELSE q[n]
  /\ \A i \in 1 .. n : nx[q[i]].stack = IF i = 1 THEN kStackMask ELSE q[i - 1]

\* The links that start at s end at the empty stack.
Linked(nx, s) == \E n \in Nat : \E q \in [1 .. n -> Waiters] : Lists(nx, s, n, q)

\* One step along the links.
Follow(nx, x) == IF x = kStackMask THEN kStackMask ELSE nx[x].stack

\* Chain, with the links it follows as a parameter.
ChainOf(nx, s) ==
  LET after[k \in 0 .. Cardinality(Waiters)] ==
        IF k = 0 THEN s
        ELSE IF after[k - 1] = kStackMask THEN kStackMask ELSE nx[after[k - 1]].stack
  IN  {after[k] : k \in 0 .. Cardinality(Waiters)} \ {kStackMask}

\* Chain is ChainOf at the links as they are.
LEMMA ChainIsChainOf == \A s : Chain(s) = ChainOf(next, s)
  BY Zenon DEF Chain, ChainOf

\* h walks along the links from s.
Walk(nx, s, N, h) == h = [k \in 0 .. N |-> IF k = 0 THEN s ELSE Follow(nx, h[k - 1])]

\* There is one walk: at the least place where two differ, they follow the
\* same link.
LEMMA WalkUnique ==
  ASSUME NEW nx, NEW s, NEW N \in Nat, NEW f, Walk(nx, s, N, f), NEW g, Walk(nx, s, N, g)
  PROVE  f = g
<1> USE DEF Walk
<1>1. \A k \in 0 .. N : f[k] = g[k]
  <2> DEFINE D == {k \in 0 .. N : f[k] # g[k]}
  <2>1. SUFFICES ASSUME D # {} PROVE FALSE
    OBVIOUS
  <2>a. D \subseteq Nat
    OBVIOUS
  <2> HIDE DEF D
  <2>2. PICK m \in D : \A k \in D : m <= k
    BY <2>1, <2>a, LeastNatural
  <2> USE DEF D
  <2>3. CASE m = 0
    BY <2>3
  <2>4. CASE m # 0
    <3>1. m - 1 \in 0 .. N /\ m - 1 \notin D
      BY <2>2, <2>4
    <3> QED
      BY <3>1, <2>4
  <2> QED
    BY <2>3, <2>4
<1> QED
  BY <1>1

\* The chain of a listed stack is what is listed.
LEMMA ChainListed ==
  ASSUME NEW nx, NEW s, NEW n \in Nat, NEW q, Lists(nx, s, n, q)
  PROVE  ChainOf(nx, s) = {q[i] : i \in 1 .. n}
<1> DEFINE N == Cardinality(Waiters)
<1>1. N \in Nat /\ n <= N
  <2>1. IsFiniteSet(Waiters) /\ N \in Nat
    BY EventCountAssumption, FS_CardinalityType
  <2>2. n = Cardinality(1 .. n) /\ IsFiniteSet(1 .. n)
    BY FS_Interval
  <2>3. CASE n > N
    <3>1. q \in [1 .. n -> Waiters] /\ IsFiniteSet(Waiters) /\ IsFiniteSet(1 .. n) /\ Cardinality(Waiters) < Cardinality(1 .. n)
      BY <2>1, <2>2, <2>3 DEF Lists
    <3>2. \E x, y \in 1 .. n : x # y /\ q[x] = q[y]
      BY <3>1, FS_PigeonHole
    <3> QED
      BY <3>2 DEF Lists
  <2> QED
    BY <2>1, <2>3
<1> HIDE DEF N
<1> DEFINE f == [k \in 0 .. N |-> IF k < n THEN q[n - k] ELSE kStackMask]
<1>2. Walk(nx, s, N, f)
  <2>1. \A k \in 0 .. N : f[k] = IF k = 0 THEN s ELSE Follow(nx, f[k - 1])
    <3> TAKE k \in 0 .. N
    <3>1. CASE k = 0
      BY <3>1 DEF Lists
    <3>2. CASE k # 0 /\ k - 1 < n
      <4>1. n - (k - 1) \in 1 .. n /\ f[k - 1] = q[n - (k - 1)] /\ f[k - 1] # kStackMask
        BY <1>1, <3>2, EventCountAssumption DEF Lists
      <4>2. nx[f[k - 1]].stack = IF n - (k - 1) = 1 THEN kStackMask ELSE q[n - (k - 1) - 1]
        BY <4>1 DEF Lists
      <4>3. f[k] = IF k < n THEN q[n - k] ELSE kStackMask
        OBVIOUS
      <4> QED
        BY <1>1, <3>2, <4>1, <4>2, <4>3 DEF Follow
    <3>3. CASE k # 0 /\ ~(k - 1 < n)
      <4>1. f[k - 1] = kStackMask /\ f[k] = kStackMask
        BY <1>1, <3>3
      <4> QED
        BY <3>3, <4>1 DEF Follow
    <3> QED
      BY <1>1, <3>1, <3>2, <3>3
  <2> QED
    BY <2>1 DEF Walk
<1>3. \A h : Walk(nx, s, N, h) => h = f
  <2> HIDE DEF f
  <2> TAKE h
  <2> QED
    BY <1>1, <1>2, WalkUnique
<1>4. ChainOf(nx, s) = {f[k] : k \in 0 .. N} \ {kStackMask}
  <2> DEFINE after == CHOOSE h : h = [k \in 0 .. N |-> IF k = 0 THEN s
                        ELSE IF h[k - 1] = kStackMask THEN kStackMask ELSE nx[h[k - 1]].stack]
  <2>1. ChainOf(nx, s) = {after[k] : k \in 0 .. N} \ {kStackMask}
    BY Zenon DEF ChainOf, N
  <2>2. \A h : Walk(nx, s, N, h) <=> h = [k \in 0 .. N |-> IF k = 0 THEN s
                        ELSE IF h[k - 1] = kStackMask THEN kStackMask ELSE nx[h[k - 1]].stack]
    BY Zenon DEF Walk, Follow
  <2>3. after = f
    BY <1>2, <1>3, <2>2
  <2> HIDE DEF f, after
  <2> QED
    BY <2>1, <2>3
<1>5. \A i \in 1 .. n : q[i] = f[n - i] /\ n - i \in 0 .. N /\ q[i] # kStackMask
  BY <1>1, EventCountAssumption DEF Lists
<1>6. \A k \in 0 .. N : k < n => f[k] = q[n - k] /\ n - k \in 1 .. n
  BY <1>1
<1> QED
  <2>1. \A x : x \in ChainOf(nx, s) => x \in {q[i] : i \in 1 .. n}
    BY <1>4, <1>6
  <2>2. \A x : x \in {q[i] : i \in 1 .. n} => x \in ChainOf(nx, s)
    BY <1>4, <1>5
  <2> QED
    BY <2>1, <2>2

\* The empty stack.
LEMMA ChainOfNone == \A nx : Linked(nx, kStackMask) /\ ChainOf(nx, kStackMask) = {}
<1> SUFFICES ASSUME NEW nx PROVE Linked(nx, kStackMask) /\ ChainOf(nx, kStackMask) = {}
  OBVIOUS
<1> DEFINE q == [i \in 1 .. 0 |-> kStackMask]
<1>1. Lists(nx, kStackMask, 0, q) /\ q \in [1 .. 0 -> Waiters]
  BY DEF Lists
<1>2. Linked(nx, kStackMask)
  BY <1>1 DEF Linked
<1>3. {q[i] : i \in 1 .. 0} = {}
  OBVIOUS
<1> HIDE DEF q
<1> QED
  BY <1>1, <1>2, <1>3, ChainListed

\* Those on a stack are waiters, the top among them.
LEMMA ChainOfSlots ==
  ASSUME NEW nx, NEW s, Linked(nx, s)
  PROVE  /\ ChainOf(nx, s) \subseteq Waiters
         /\ s \in ChainOf(nx, s) \cup {kStackMask} /\ s \in Slot
<1>0. PICK n \in Nat : \E q \in [1 .. n -> Waiters] : Lists(nx, s, n, q)
  BY DEF Linked
<1>1. PICK q \in [1 .. n -> Waiters] : Lists(nx, s, n, q)
  BY <1>0
<1>2. ChainOf(nx, s) = {q[i] : i \in 1 .. n}
  BY <1>1, ChainListed
<1> QED
  BY <1>1, <1>2 DEF Lists, Slot

\* The links of those on a stack make the stack.
LEMMA ChainOfFrame ==
  ASSUME NEW nx, NEW ny, NEW s, Linked(nx, s),
         \A w \in ChainOf(nx, s) : ny[w].stack = nx[w].stack
  PROVE  Linked(ny, s) /\ ChainOf(ny, s) = ChainOf(nx, s)
<1>0. PICK n \in Nat : \E q \in [1 .. n -> Waiters] : Lists(nx, s, n, q)
  BY DEF Linked
<1>1. PICK q \in [1 .. n -> Waiters] : Lists(nx, s, n, q)
  BY <1>0
<1>2. ChainOf(nx, s) = {q[i] : i \in 1 .. n}
  BY <1>1, ChainListed
<1>3. Lists(ny, s, n, q)
  BY <1>1, <1>2 DEF Lists
<1> QED
  BY <1>1, <1>2, <1>3, ChainListed DEF Linked

\* A waiter that links to the top of a stack makes a stack with it.
LEMMA ChainOfPush ==
  ASSUME NEW nx, NEW s, Linked(nx, s),
         NEW w \in Waiters, w \notin ChainOf(nx, s), nx[w].stack = s
  PROVE  Linked(nx, w) /\ ChainOf(nx, w) = ChainOf(nx, s) \cup {w}
<1>0. PICK n \in Nat : \E q \in [1 .. n -> Waiters] : Lists(nx, s, n, q)
  BY DEF Linked
<1>1. PICK q \in [1 .. n -> Waiters] : Lists(nx, s, n, q)
  BY <1>0
<1>2. ChainOf(nx, s) = {q[i] : i \in 1 .. n}
  BY <1>1, ChainListed
<1> DEFINE p == [i \in 1 .. n + 1 |-> IF i = n + 1 THEN w ELSE q[i]]
<1>3. Lists(nx, w, n + 1, p) /\ p \in [1 .. n + 1 -> Waiters] /\ n + 1 \in Nat
  <2>1. p \in [1 .. n + 1 -> Waiters]
    BY <1>1
  <2>2. \A i, j \in 1 .. n + 1 : p[i] = p[j] => i = j
    BY <1>1, <1>2 DEF Lists
  <2>3. w = p[n + 1] /\ n + 1 # 0
    OBVIOUS
  <2>4. \A i \in 1 .. n + 1 : nx[p[i]].stack = IF i = 1 THEN kStackMask ELSE p[i - 1]
    <3> TAKE i \in 1 .. n + 1
    <3>1. CASE i = n + 1
      BY <1>1, <3>1 DEF Lists
    <3>2. CASE i \in 1 .. n
      BY <1>1, <3>2 DEF Lists
    <3> QED
      BY <3>1, <3>2
  <2> QED
    BY <2>1, <2>2, <2>3, <2>4 DEF Lists
<1>4. {p[i] : i \in 1 .. n + 1} = {q[i] : i \in 1 .. n} \cup {w}
  <2>1. \A i \in 1 .. n : p[i] = q[i]
    OBVIOUS
  <2>2. p[n + 1] = w /\ 1 .. n + 1 = (1 .. n) \cup {n + 1}
    OBVIOUS
  <2> HIDE DEF p
  <2> QED
    BY <2>1, <2>2
<1> HIDE DEF p
<1>5. Linked(nx, w)
  BY <1>3 DEF Linked
<1>6. ChainOf(nx, w) = {p[i] : i \in 1 .. n + 1}
  BY <1>3, ChainListed
<1> QED
  BY <1>2, <1>4, <1>5, <1>6

\* Without its top a stack is a stack.
LEMMA ChainOfPop ==
  ASSUME NEW nx, NEW w \in Waiters, Linked(nx, w)
  PROVE  /\ Linked(nx, nx[w].stack)
         /\ w \notin ChainOf(nx, nx[w].stack)
         /\ ChainOf(nx, w) = ChainOf(nx, nx[w].stack) \cup {w}
<1>0. PICK n \in Nat : \E q \in [1 .. n -> Waiters] : Lists(nx, w, n, q)
  BY DEF Linked
<1>1. PICK q \in [1 .. n -> Waiters] : Lists(nx, w, n, q)
  BY <1>0
<1>2. n # 0 /\ w = q[n] /\ n \in 1 .. n
  BY <1>1, EventCountAssumption DEF Lists
<1> DEFINE s == nx[w].stack
           p == [i \in 1 .. n - 1 |-> q[i]]
<1>3. Lists(nx, s, n - 1, p) /\ p \in [1 .. n - 1 -> Waiters] /\ n - 1 \in Nat
  <2>1. s = IF n = 1 THEN kStackMask ELSE q[n - 1]
    BY <1>1, <1>2 DEF Lists
  <2> QED
    BY <1>1, <1>2, <2>1 DEF Lists
<1>4. /\ \A i \in 1 .. n - 1 : p[i] = q[i] /\ i # n
      /\ 1 .. n = (1 .. n - 1) \cup {n}
  BY <1>2
<1> HIDE DEF s, p
<1>5. w \notin {p[i] : i \in 1 .. n - 1} /\ {q[i] : i \in 1 .. n} = {p[i] : i \in 1 .. n - 1} \cup {w}
  BY <1>1, <1>2, <1>4 DEF Lists
<1>6. Linked(nx, s)
  BY <1>3 DEF Linked
<1>7. ChainOf(nx, s) = {p[i] : i \in 1 .. n - 1}
  BY <1>3, ChainListed
<1>8. ChainOf(nx, w) = {q[i] : i \in 1 .. n}
  BY <1>1, ChainListed
<1> QED
  BY <1>5, <1>6, <1>7, <1>8 DEF s

\* The next of a waiter on a stack is on it, or it is the bottom.
LEMMA ChainOfClosed ==
  ASSUME NEW nx, NEW s, Linked(nx, s), NEW w \in ChainOf(nx, s)
  PROVE  nx[w].stack \in ChainOf(nx, s) \cup {kStackMask}
<1>0. PICK n \in Nat : \E q \in [1 .. n -> Waiters] : Lists(nx, s, n, q)
  BY DEF Linked
<1>1. PICK q \in [1 .. n -> Waiters] : Lists(nx, s, n, q)
  BY <1>0
<1>2. ChainOf(nx, s) = {q[i] : i \in 1 .. n}
  BY <1>1, ChainListed
<1>3. PICK i \in 1 .. n : w = q[i]
  BY <1>2
<1>4. nx[w].stack = IF i = 1 THEN kStackMask ELSE q[i - 1]
  BY <1>1, <1>3 DEF Lists
<1>5. i # 1 => i - 1 \in 1 .. n
  OBVIOUS
<1> QED
  BY <1>2, <1>4, <1>5
\* What a notifier at p with the locals t and f has taken off the stack.
TakenOf(nx, p, t, f) ==
  CASE p = "detach" -> {t}
    [] p = "unpark" -> ChainOf(nx, t)
    [] p = "signal" -> {t} \cup ChainOf(nx, f)
    [] p = "wake"   -> ChainOf(nx, f)
    [] OTHER -> {}

\* Its chain ends at the empty stack.
HeldOK(nx, p, t, f) ==
  /\ p = "unpark" => Linked(nx, t)
  /\ p \in {"signal", "wake"} => Linked(nx, f)
  /\ p = "signal" => t \notin ChainOf(nx, f)

OnStack == ChainOf(next, state_.stack)
Holds(n) == TakenOf(next, pc[n], target[n], follow[n])

\* NoneStranded, over ChainOf.
Found ==
  /\ Asleep = OnStack \cup UNION {Holds(n) : n \in Notifiers}
  /\ \A n \in Notifiers : Holds(n) \cap OnStack = {}
  /\ \A m, n \in Notifiers : m # n => Holds(m) \cap Holds(n) = {}

\* The stack in state_ and the chains the notifiers hold end where they should.
StackLinked ==
  /\ Linked(next, state_.stack)
  /\ \A n \in Notifiers : HeldOK(next, pc[n], target[n], follow[n])

\* A committing waiter is about to be stacked on what it saw at the top.
LinkReady ==
  \A w \in Waiters :
    /\ pc[w] \in {"setnext", "cas"} => wstate[w] = "NotSignaled"
    /\ pc[w] = "cas" /\ state[w].signals = 0 => next[w] = LinkOf(state[w])

\* The stamp beside a stack index is that of the slot's last push.
Stamped ==
  /\ state_.stack \in Waiters => state_.epoch + 1 = epoch[state_.stack]
  /\ \A u \in OnStack :
       next[u].stack \in Waiters => next[u].epoch + 1 = epoch[next[u].stack]

\* Notify(false) that found a signal for every pre-waiter.
Popping(n) == ~notifyAll[n] /\ state[n].signals >= state[n].waiters

\* What a notifier has read of the top it wants to pop holds until that slot
\* is pushed once more, which changes its stamp.
StillTheNext ==
  \A n \in Notifiers :
    /\ pc[n] \in {"getnext", "exchange"} /\ state[n].stack \in Waiters =>
         state[n].epoch + 1 <= epoch[state[n].stack]
    /\ pc[n] = "exchange" /\ Popping(n) =>
         /\ state[n].stack \in Waiters
         /\ state[n].stack \in OnStack
              /\ state[n].epoch + 1 = epoch[state[n].stack] => link[n] = next[state[n].stack]

\* The notifications of one that have not taken effect.
Armed == {n \in Notifiers : pc[n] \in {"notify", "getnext", "exchange"} /\ ~notifyAll[n]}

\* A slot that is on the stack, or will not be pushed any more.
Settled(w) == w \in OnStack \/ (done /\ w \notin Committing)

\* A slot is pushed again only after a notification, so its epoch does not wrap.
Budget ==
  /\ IsFiniteSet(Armed) /\ pushed <= MaxEvents
  /\ \A n \in Notifiers : pc[n] # "idle" /\ notifyAll[n] => done
  /\ \A w \in Waiters :
       epoch[w] + Cardinality(Armed) <= pushed + (IF Settled(w) THEN 1 ELSE 0)

StackInv == Found /\ StackLinked /\ LinkReady /\ Stamped /\ StillTheNext /\ Budget

\* Links of waiters elsewhere do not matter to a notifier.
LEMMA TakenFrame ==
  ASSUME NEW nx, NEW ny, NEW p, NEW t, NEW f, HeldOK(nx, p, t, f),
         \A w \in TakenOf(nx, p, t, f) : ny[w].stack = nx[w].stack
  PROVE  HeldOK(ny, p, t, f) /\ TakenOf(ny, p, t, f) = TakenOf(nx, p, t, f)
<1>1. CASE p = "unpark"
  <2>1. Linked(ny, t) /\ ChainOf(ny, t) = ChainOf(nx, t)
    BY <1>1, ChainOfFrame DEF HeldOK, TakenOf
  <2> QED
    BY <1>1, <2>1 DEF HeldOK, TakenOf
<1>2. CASE p \in {"signal", "wake"}
  <2>1. Linked(ny, f) /\ ChainOf(ny, f) = ChainOf(nx, f)
    BY <1>2, ChainOfFrame DEF HeldOK, TakenOf
  <2> QED
    BY <1>2, <2>1 DEF HeldOK, TakenOf
<1>3. CASE p \notin {"unpark", "signal", "wake"}
  BY <1>3 DEF HeldOK, TakenOf
<1> QED
  BY <1>1, <1>2, <1>3

\* The steps that leave the links, the stack, the epochs and the notifiers alone.
LEMMA StackQuiet ==
  ASSUME StackInv, LinkReady',
         next' = next, epoch' = epoch, Asleep' = Asleep,
         state_'.stack = state_.stack, state_'.epoch = state_.epoch,
         \A n \in Notifiers : pc'[n] = pc[n] /\ state'[n] = state[n],
         UNCHANGED <<link, target, follow, notifyAll, pushed, done>>,
         done => Committing' \subseteq Committing,
         TypeOK
  PROVE  StackInv'
<1> USE DEF StackInv
<1>1. OnStack' = OnStack /\ \A n \in Notifiers : Holds(n)' = Holds(n)
  BY DEF OnStack, Holds
<1>2. Found'
  BY <1>1 DEF Found
<1>3. StackLinked'
  BY DEF StackLinked
<1>4. Stamped'
  BY <1>1 DEF Stamped
<1>5. StillTheNext'
  BY <1>1 DEF StillTheNext, Popping
<1>6. Budget'
  <2>1. Armed' = Armed
    BY DEF Armed
  <2>2. \A w \in Waiters : Settled(w) => Settled(w)'
    BY <1>1, Zenon DEF Settled
  <2>3. Cardinality(Armed) \in Nat
    BY FS_CardinalityType DEF Budget
  <2> QED
    BY <2>1, <2>2, <2>3 DEF Budget, TypeOK
<1> QED
  BY <1>2, <1>3, <1>4, <1>5, <1>6

\* The steps of a waiting thread that are not about its link.
LEMMA StackWaiter ==
  ASSUME IInv, StackInv, NEW w \in Waiters,
         \/ Pop(w) \/ PopEmpty(w) \/ Prewait(w) \/ Recheck(w) \/ CancelWait(w)
         \/ CommitLoad(w) \/ CommitRetry(w) \/ CommitConsume(w)
         \/ Park(w) \/ SpuriousWake(w)
  PROVE  StackInv' /\ OnStack' = OnStack
<1> USE DEF StackInv
<1>1. /\ w \in Threads /\ TypeOK /\ LinkReady /\ pc \in [Threads -> WaiterPCs \cup NotifierPCs]
      /\ state \in [Threads -> Word] /\ wstate \in [Waiters -> WaiterStates]
      /\ \A n \in Notifiers : n \in Threads /\ n # w
      /\ \A v \in Waiters : v \in Threads
  BY EventCountAssumption DEF Threads, TypeOK, IInv
<1>2. UNCHANGED <<next, epoch, notifyVars, pushed, done>>
  BY DEF Pop, PopEmpty, Prewait, Recheck, CancelWait, CommitLoad, CommitRetry, CommitConsume,
         Park, ParkReturn, ParkWait, SpuriousWake, waiterVars, notifyVars, userVars
<1>3. /\ \A v \in Threads \ {w} : pc'[v] = pc[v] /\ state'[v] = state[v]
      /\ \A v \in Waiters \ {w} : wstate'[v] = wstate[v]
  BY <1>1 DEF Pop, PopEmpty, Prewait, Recheck, CancelWait, CommitLoad, CommitRetry, CommitConsume,
         Park, ParkReturn, ParkWait, SpuriousWake, waiterVars, notifyVars, userVars, Goto
<1>4. state_'.stack = state_.stack /\ state_'.epoch = state_.epoch
  BY DEF Pop, PopEmpty, Prewait, Recheck, CancelWait, CommitLoad, CommitRetry, CommitConsume,
         Park, ParkReturn, ParkWait, SpuriousWake, Prewaited, Cancelled, Consumed, Counting
<1>5. /\ \/ pc[w] \in {"park", "parked"} /\ wstate[w] # "Signaled"
            /\ pc'[w] \in {"park", "parked"} /\ wstate'[w] # "Signaled"
         \/ pc[w] \notin {"park", "parked"} /\ pc'[w] \notin {"park", "parked"}
         \/ wstate[w] = "Signaled" /\ wstate'[w] = wstate[w]
      /\ pc'[w] \in {"commit", "setnext", "cas"} =>
           pc[w] \in {"commit", "setnext", "cas"} \/ ~done
      /\ pc'[w] \in {"setnext", "cas"} =>
           /\ wstate'[w] = "NotSignaled"
           /\ pc'[w] = "cas" => state'[w].signals > 0
  <2>1. CASE Pop(w)
    BY <1>1, <2>1 DEF Pop, waiterVars
  <2>2. CASE PopEmpty(w) \/ Prewait(w) \/ Recheck(w) \/ CancelWait(w) \/ CommitConsume(w)
    BY <1>1, <2>2 DEF PopEmpty, Prewait, Recheck, CancelWait, CommitConsume, waiterVars, Goto
  <2>3. CASE CommitLoad(w) \/ CommitRetry(w)
    <3>1. pc'[w] = CommitBranch(state_) /\ state'[w] = state_ /\ pc[w] \in {"commit", "cas"}
      BY <1>1, <2>3 DEF CommitLoad, CommitRetry, Goto
    <3>2. wstate'[w] = "NotSignaled"
      BY <1>1, <2>3 DEF CommitLoad, CommitRetry, waiterVars, LinkReady
    <3>3. CommitBranch(state_) \in {"setnext", "cas"} /\ (CommitBranch(state_) = "cas" => state_.signals > 0)
      BY DEF CommitBranch
    <3> QED
      BY <3>1, <3>2, <3>3
  <2>4. CASE Park(w) \/ SpuriousWake(w)
    BY <1>1, <2>4 DEF Park, ParkReturn, ParkWait, SpuriousWake, waiterVars, Goto
  <2> QED
    BY <2>1, <2>2, <2>3, <2>4
<1>6. Asleep' = Asleep
  BY <1>1, <1>3, <1>5 DEF Asleep
<1>7. done => Committing' \subseteq Committing
  BY <1>1, <1>3, <1>5 DEF Committing
<1>8. LinkReady'
  <2> SUFFICES ASSUME NEW v \in Waiters
               PROVE  /\ pc'[v] \in {"setnext", "cas"} => wstate'[v] = "NotSignaled"
                      /\ pc'[v] = "cas" /\ state'[v].signals = 0 => next'[v] = LinkOf(state'[v])
    BY DEF LinkReady
  <2>1. CASE v = w
    BY <1>5, <2>1
  <2>2. CASE v # w
    BY <1>1, <1>2, <1>3, <2>2 DEF LinkReady
  <2> QED
    BY <2>1, <2>2
<1> QED
  BY <1>1, <1>2, <1>3, <1>4, <1>6, <1>7, <1>8, StackQuiet DEF notifyVars, OnStack

\* A thread that is on no stack may set its link.
LEMMA StackSetNext ==
  ASSUME IInv, StackInv, NEW w \in Waiters, CommitSetNext(w)
  PROVE  StackInv' /\ OnStack' = OnStack
<1> USE DEF StackInv
<1>1. /\ w \in Threads /\ TypeOK /\ pc \in [Threads -> WaiterPCs \cup NotifierPCs]
      /\ state \in [Threads -> Word] /\ next \in [Waiters -> Link]
      /\ \A n \in Notifiers : n \in Threads /\ n # w
      /\ \A v \in Waiters : v \in Threads
  BY EventCountAssumption DEF Threads, TypeOK, IInv
<1>2. /\ pc[w] = "setnext" /\ pc' = [pc EXCEPT ![w] = "cas"]
      /\ next' = [next EXCEPT ![w] = LinkOf(state[w])]
      /\ UNCHANGED <<state_, epoch, wstate, state, notifyVars, userVars>>
  BY DEF CommitSetNext, Goto
<1>3. w \notin OnStack /\ \A n \in Notifiers : w \notin Holds(n)
  <2>1. w \notin Asleep
    BY <1>2 DEF Asleep
  <2> QED
    BY <2>1 DEF Found
<1>4. Linked(next', state_.stack) /\ OnStack' = OnStack
  <2>1. Linked(next, state_.stack) /\ \A v \in OnStack : v \in Waiters
    BY ChainOfSlots DEF StackLinked, OnStack
  <2>2. \A v \in OnStack : next'[v].stack = next[v].stack
    BY <1>1, <1>2, <1>3, <2>1
  <2>3. Linked(next', state_.stack) /\ ChainOf(next', state_.stack) = ChainOf(next, state_.stack)
    <3> HIDE DEF StackInv
    <3> QED
      BY <2>1, <2>2, ChainOfFrame DEF OnStack
  <2> QED
    BY <1>2, <2>3 DEF OnStack
<1>5. ASSUME NEW n \in Notifiers
      PROVE  HeldOK(next', pc'[n], target'[n], follow'[n]) /\ Holds(n)' = Holds(n)
  <2>1. HeldOK(next, pc[n], target[n], follow[n])
    BY DEF StackLinked
  <2>2. \A v : v # w => next'[v] = next[v] \/ v \notin Waiters
    BY <1>1, <1>2
  <2>3. \A v \in Holds(n) : v \in Waiters
    BY DEF Found, Asleep
  <2>4. \A v \in TakenOf(next, pc[n], target[n], follow[n]) : next'[v].stack = next[v].stack
    BY <1>3, <2>2, <2>3 DEF Holds
  <2>5. pc'[n] = pc[n] /\ target'[n] = target[n] /\ follow'[n] = follow[n]
    BY <1>1, <1>2 DEF notifyVars
  <2> QED
    BY <2>1, <2>4, <2>5, TakenFrame DEF Holds
<1>6. Asleep' = Asleep /\ Committing' = Committing
  BY <1>1, <1>2 DEF Asleep, Committing
<1>7. Found'
  BY <1>4, <1>5, <1>6 DEF Found
<1>8. StackLinked'
  BY <1>2, <1>4, <1>5 DEF StackLinked
<1>9. LinkReady'
  <2> SUFFICES ASSUME NEW v \in Waiters
               PROVE  /\ pc'[v] \in {"setnext", "cas"} => wstate'[v] = "NotSignaled"
                      /\ pc'[v] = "cas" /\ state'[v].signals = 0 => next'[v] = LinkOf(state'[v])
    BY DEF LinkReady
  <2>1. CASE v = w
    BY <1>1, <1>2, <2>1 DEF LinkReady
  <2>2. CASE v # w
    BY <1>1, <1>2, <2>2 DEF LinkReady
  <2> QED
    BY <2>1, <2>2
<1>10. \A v \in OnStack : v \in Waiters /\ next'[v] = next[v]
  BY <1>1, <1>2, <1>3, ChainOfSlots DEF StackLinked, OnStack
<1>11. Stamped'
  BY <1>2, <1>4, <1>10 DEF Stamped
<1>12. StillTheNext'
  BY <1>1, <1>2, <1>4, <1>10 DEF StillTheNext, Popping, notifyVars
<1>13. Budget'
  <2>1. Armed' = Armed
    BY <1>1, <1>2 DEF Armed, notifyVars
  <2>2. \A v \in Waiters : Settled(v)' <=> Settled(v)
    BY <1>2, <1>4, <1>6 DEF Settled, userVars
  <2> QED
    BY <1>1, <1>2, <2>1, <2>2 DEF Budget, userVars, notifyVars
<1> QED
  BY <1>4, <1>7, <1>8, <1>9, <1>11, <1>12, <1>13

\* CommitWait joins the stack: what the thread linked to is still the top, and
\* its stamp is new.
LEMMA StackPush ==
  ASSUME IInv, StackInv, NEW w \in Waiters, CommitPush(w)
  PROVE  /\ StackInv'
         /\ w \notin OnStack /\ OnStack' = OnStack \cup {w}
<1> USE DEF StackInv
<1>1. /\ w \in Threads /\ TypeOK /\ pc \in [Threads -> WaiterPCs \cup NotifierPCs]
      /\ state \in [Threads -> Word] /\ epoch \in [Waiters -> 0 .. EpochMod - 1]
      /\ \A n \in Notifiers : n \in Threads /\ n # w
      /\ \A v \in Waiters : v \in Threads
  BY EventCountAssumption DEF Threads, TypeOK, IInv
<1>2. /\ pc[w] = "cas" /\ pc' = [pc EXCEPT ![w] = "park"]
      /\ state_ = state[w] /\ state[w].signals = 0
      /\ state_'.stack = w /\ state_'.epoch = epoch[w]
      /\ epoch' = [epoch EXCEPT ![w] = NextEpoch(epoch[w])]
      /\ state' = [state EXCEPT ![w] = EmptyWord]
      /\ UNCHANGED <<next, wstate, notifyVars, userVars>>
  BY <1>1 DEF CommitPush, Goto, Stacked, Counting
<1>3. w \notin OnStack /\ \A n \in Notifiers : w \notin Holds(n)
  <2>1. w \notin Asleep
    BY <1>2 DEF Asleep
  <2> QED
    BY <2>1 DEF Found
<1>4. next[w] = LinkOf(state_) /\ wstate[w] = "NotSignaled"
  BY <1>2 DEF LinkReady
<1>5. Linked(next, w) /\ OnStack' = OnStack \cup {w}
  <2>1. Linked(next, state_.stack) /\ next[w].stack = state_.stack
    BY <1>4 DEF StackLinked, LinkOf
  <2> QED
    BY <1>2, <1>3, <2>1, ChainOfPush DEF OnStack
<1>6. epoch'[w] = epoch[w] + 1 /\ \A v \in Waiters \ {w} : epoch'[v] = epoch[v]
  <2>1. pushed <= MaxEvents /\ Cardinality(Armed) \in Nat /\ pushed \in Nat /\ ~Settled(w)
    BY <1>1, <1>2, <1>3, FS_CardinalityType DEF Budget, TypeOK, Settled, Committing
  <2>2. epoch[w] + Cardinality(Armed) <= pushed /\ epoch[w] \in Nat
    BY <1>1, <2>1, EventCountAssumption DEF Budget
  <2>3. epoch[w] + 1 < EpochMod
    BY <2>1, <2>2, EpochAssumption, EventCountAssumption
  <2> QED
    BY <1>1, <1>2, <2>2, <2>3, EventCountAssumption DEF NextEpoch
<1>7. \A n \in Notifiers : pc'[n] = pc[n] /\ state'[n] = state[n] /\ Holds(n)' = Holds(n)
  BY <1>1, <1>2 DEF Holds, notifyVars
<1>8. Asleep' = Asleep \cup {w}
  BY <1>1, <1>2, <1>4 DEF Asleep
<1>9. Found'
  BY <1>3, <1>5, <1>7, <1>8 DEF Found
<1>10. StackLinked'
  BY <1>2, <1>5, <1>7 DEF StackLinked, notifyVars
<1>11. LinkReady'
  <2> SUFFICES ASSUME NEW v \in Waiters
               PROVE  /\ pc'[v] \in {"setnext", "cas"} => wstate'[v] = "NotSignaled"
                      /\ pc'[v] = "cas" /\ state'[v].signals = 0 => next'[v] = LinkOf(state'[v])
    BY DEF LinkReady
  <2>1. CASE v = w
    BY <1>1, <1>2, <2>1
  <2>2. CASE v # w
    BY <1>1, <1>2, <2>2 DEF LinkReady
  <2> QED
    BY <2>1, <2>2
<1>12. Stamped'
  <2>1. state_'.stack \in Waiters => state_'.epoch + 1 = epoch'[state_'.stack]
    BY <1>2, <1>6
  <2>2. ASSUME NEW u \in OnStack', next'[u].stack \in Waiters
        PROVE  next'[u].epoch + 1 = epoch'[next'[u].stack]
    <3>1. CASE u = w
      <4>1. next[w].stack = state_.stack /\ next[w].epoch = state_.epoch
        BY <1>4 DEF LinkOf
      <4>2. state_.stack # w
        BY <1>3, ChainOfSlots, EventCountAssumption DEF StackLinked, OnStack
      <4> QED
        BY <1>2, <1>6, <2>2, <3>1, <4>1, <4>2 DEF Stamped
    <3>2. CASE u \in OnStack
      <4>1. next[u].stack \in OnStack
        <5>1. \A x \in OnStack : x \in Waiters
          BY ChainOfSlots DEF StackLinked, OnStack
        <5>2. Linked(next, state_.stack)
          BY DEF StackLinked
        <5> QED
          BY <1>2, <2>2, <3>2, <5>2, ChainOfClosed, EventCountAssumption DEF OnStack
      <4> QED
        BY <1>2, <1>3, <1>6, <2>2, <3>2, <4>1 DEF Stamped
    <3> QED
      BY <1>5, <3>1, <3>2
  <2> QED
    BY <2>1, <2>2 DEF Stamped
<1>13. StillTheNext'
  <2> SUFFICES ASSUME NEW n \in Notifiers
        PROVE  /\ pc'[n] \in {"getnext", "exchange"} /\ state'[n].stack \in Waiters =>
                    state'[n].epoch + 1 <= epoch'[state'[n].stack]
               /\ pc'[n] = "exchange" /\ Popping(n)' =>
                    /\ state'[n].stack \in Waiters
                    /\ state'[n].stack \in OnStack'
                         /\ state'[n].epoch + 1 = epoch'[state'[n].stack] => link'[n] = next'[state'[n].stack]
    BY DEF StillTheNext
  <2>1. /\ pc'[n] = pc[n] /\ state'[n] = state[n] /\ link'[n] = link[n] /\ (Popping(n)' <=> Popping(n))
        /\ state[n].epoch \in Nat /\ next' = next
    BY <1>1, <1>2, <1>7, PartsOfWord, EventCountAssumption DEF Popping, notifyVars, WordParts
  <2>2. CASE state[n].stack = w
    BY <1>1, <1>6, <2>1, <2>2, EventCountAssumption DEF StillTheNext
  <2>3. CASE state[n].stack # w
    BY <1>5, <1>6, <2>1, <2>3 DEF StillTheNext
  <2> QED
    BY <2>2, <2>3
<1>14. Budget'
  <2>1. Armed' = Armed
    BY <1>2, <1>7 DEF Armed, notifyVars
  <2>2. ~Settled(w) /\ Settled(w)' /\ \A v \in Waiters \ {w} : Settled(v) => Settled(v)'
    BY <1>1, <1>2, <1>3, <1>5 DEF Settled, Committing, userVars
  <2>3. Cardinality(Armed) \in Nat /\ pushed \in Nat
    BY <1>1, FS_CardinalityType DEF Budget, TypeOK
  <2> QED
    BY <1>1, <1>2, <1>6, <1>7, <2>1, <2>2, <2>3 DEF Budget, userVars, notifyVars
<1> QED
  BY <1>3, <1>5, <1>9, <1>10, <1>11, <1>12, <1>13, <1>14

\* What holds of the stack and of other notifiers when one notifier moves while it holds no chain.
LEMMA StackNotifierMoves ==
  ASSUME IInv, StackInv, NEW n \in Notifiers,
         pc[n] \in {"idle", "notify", "getnext", "exchange"},
         pc'[n] \in {"idle", "notify", "getnext", "exchange"},
         \A t \in Threads \ {n} : pc'[t] = pc[t] /\ state'[t] = state[t],
         \A m \in Notifiers \ {n} : link'[m] = link[m] /\ notifyAll'[m] = notifyAll[m],
         state_'.stack = state_.stack, state_'.epoch = state_.epoch,
         UNCHANGED <<waiterVars, follow>>,
         \A m \in Notifiers \ {n} : target'[m] = target[m]
  PROVE  /\ OnStack' = OnStack /\ Committing' = Committing
         /\ Found' /\ StackLinked' /\ LinkReady' /\ Stamped'
<1> USE DEF StackInv
<1>1. /\ \A m \in Notifiers : m \in Threads /\ m \notin Waiters
      /\ \A w \in Waiters : w \in Threads /\ w # n
  BY EventCountAssumption DEF Threads
<1>2. OnStack' = OnStack /\ Asleep' = Asleep /\ Committing' = Committing
  BY <1>1 DEF OnStack, Asleep, Committing, waiterVars
<1>3. \A m \in Notifiers : Holds(m)' = Holds(m)
  <2> TAKE m \in Notifiers
  <2>1. CASE m = n
    <3>1. Holds(n) = {} /\ Holds(n)' = {}
      BY DEF Holds, TakenOf
    <3> QED
      BY <2>1, <3>1
  <2>2. CASE m # n
    BY <1>1, <2>2 DEF Holds, waiterVars
  <2> QED
    BY <2>1, <2>2
<1>4. Found'
  BY <1>2, <1>3 DEF Found
<1>5. StackLinked'
  <2>1. \A m \in Notifiers : HeldOK(next', pc'[m], target'[m], follow'[m])
    <3> TAKE m \in Notifiers
    <3>1. CASE m = n
      BY <3>1 DEF HeldOK
    <3>2. CASE m # n
      BY <1>1, <3>2 DEF StackLinked, waiterVars
    <3> QED
      BY <3>1, <3>2
  <2> QED
    BY <2>1 DEF StackLinked, waiterVars
<1>6. LinkReady'
  BY <1>1 DEF LinkReady, waiterVars
<1>7. Stamped'
  BY <1>2 DEF Stamped, waiterVars
<1> QED
  BY <1>2, <1>4, <1>5, <1>6, <1>7

\* A new event or the closing: a notification more, which nothing has answered yet.
LEMMA StackEvent ==
  ASSUME IInv, StackInv, NEW n \in Notifiers, Push(n) \/ Close(n)
  PROVE  StackInv' /\ OnStack' = OnStack
<1> USE DEF StackInv
<1>1. /\ n \in Threads /\ TypeOK /\ pc \in [Threads -> WaiterPCs \cup NotifierPCs]
      /\ notifyAll \in [Notifiers -> BOOLEAN]
      /\ \A m \in Notifiers : m \in Threads
  BY DEF Threads, TypeOK, IInv
<1>2. /\ pc[n] = "idle" /\ pc' = [pc EXCEPT ![n] = "notify"]
      /\ UNCHANGED <<state_, waiterVars, state, link, target, follow>>
  BY DEF Push, Close, Goto
<1>3. \A m \in Notifiers \ {n} : notifyAll'[m] = notifyAll[m]
  BY <1>1 DEF Push, Close
<1>4. /\ OnStack' = OnStack /\ Committing' = Committing
      /\ Found' /\ StackLinked' /\ LinkReady' /\ Stamped'
  BY <1>1, <1>2, <1>3, StackNotifierMoves
<1>5. StillTheNext'
  BY <1>1, <1>2, <1>3, <1>4 DEF StillTheNext, Popping, waiterVars
<1>6. Budget'
  <2>1. CASE Push(n)
    <3>1. ~done /\ done' = done /\ pushed' = pushed + 1 /\ pushed < MaxEvents /\ notifyAll'[n] = FALSE
      BY <1>1, <2>1 DEF Push
    <3>2. Armed' = Armed \cup {n} /\ n \notin Armed
      BY <1>1, <1>2, <1>3, <3>1 DEF Armed
    <3>3. IsFiniteSet(Armed') /\ Cardinality(Armed') = Cardinality(Armed) + 1 /\ Cardinality(Armed) \in Nat
      BY <3>2, FS_AddElement, FS_CardinalityType DEF Budget
    <3>4. \A w \in Waiters : Settled(w)' <=> Settled(w)
      BY <1>4, <3>1 DEF Settled
    <3>5. pushed' <= MaxEvents /\ pushed \in Nat
      BY <1>1, <3>1, EventCountAssumption DEF TypeOK
    <3>6. \A m \in Notifiers : pc'[m] # "idle" /\ notifyAll'[m] => done'
      BY <1>1, <1>2, <1>3, <3>1 DEF Budget
    <3>7. \A w \in Waiters : epoch'[w] + Cardinality(Armed') <= pushed' + (IF Settled(w)' THEN 1 ELSE 0)
      BY <1>1, <1>2, <3>1, <3>3, <3>4, <3>5 DEF Budget, waiterVars, TypeOK
    <3> QED
      BY <3>3, <3>5, <3>6, <3>7 DEF Budget
  <2>2. CASE Close(n)
    <3>1. done' = TRUE /\ pushed' = pushed /\ notifyAll'[n] = TRUE
      BY <1>1, <2>2 DEF Close
    <3>2. Armed' = Armed
      BY <1>1, <1>2, <1>3, <3>1 DEF Armed
    <3>3. \A w \in Waiters : Settled(w) => Settled(w)'
      BY <1>4, <3>1, Zenon DEF Settled
    <3>4. \A m \in Notifiers : pc'[m] # "idle" /\ notifyAll'[m] => done'
      BY <3>1
    <3>5. pushed \in Nat /\ Cardinality(Armed) \in Nat
      BY <1>1, FS_CardinalityType DEF TypeOK, Budget
    <3>6. \A w \in Waiters : epoch'[w] + Cardinality(Armed') <= pushed' + (IF Settled(w)' THEN 1 ELSE 0)
      BY <1>1, <1>2, <3>1, <3>2, <3>3, <3>5 DEF Budget, waiterVars, TypeOK
    <3> QED
      BY <3>1, <3>2, <3>4, <3>6 DEF Budget
  <2> QED
    BY <2>1, <2>2
<1> QED
  BY <1>4, <1>5, <1>6

\* The loads of Notify: what was read belongs to the top that was read.
LEMMA StackLoads ==
  ASSUME IInv, StackInv, NEW n \in Notifiers, NotifyLoad(n) \/ NotifyGetNext(n)
  PROVE  StackInv' /\ OnStack' = OnStack
<1> USE DEF StackInv
<1>1. /\ n \in Threads /\ TypeOK /\ pc \in [Threads -> WaiterPCs \cup NotifierPCs]
      /\ state \in [Threads -> Word] /\ state_ \in Word /\ link \in [Notifiers -> Link]
      /\ SlotsNamed /\ CheckState(state_)
      /\ \A m \in Notifiers : m \in Threads
  BY DEF Threads, TypeOK, IInv, CountersExact
<1>2. /\ UNCHANGED <<state_, waiterVars, target, follow, notifyAll, userVars>>
      /\ \A t \in Threads \ {n} : pc'[t] = pc[t] /\ state'[t] = state[t]
      /\ \A m \in Notifiers \ {n} : link'[m] = link[m]
  BY <1>1 DEF NotifyLoad, NotifyGetNext, Goto
<1>3. CASE NotifyLoad(n)
  <2> DEFINE l == NotifyBranch(n, state_)
  <2>1. /\ pc[n] \in {"notify", "exchange"} /\ pc'[n] = l
        /\ l # "idle" => state'[n] = state_
    BY <1>1, <1>3 DEF NotifyLoad, Goto
  <2>2. /\ l \in {"idle", "getnext", "exchange"}
        /\ l = "exchange" => notifyAll[n] \/ ~(state_.signals >= state_.waiters)
    BY DEF NotifyBranch
  <2> HIDE DEF l
  <2>3. /\ OnStack' = OnStack /\ Committing' = Committing
        /\ Found' /\ StackLinked' /\ LinkReady' /\ Stamped'
    BY <1>1, <1>2, <2>1, <2>2, StackNotifierMoves
  <2>4. StillTheNext'
    <3> SUFFICES ASSUME NEW m \in Notifiers
          PROVE  /\ pc'[m] \in {"getnext", "exchange"} /\ state'[m].stack \in Waiters =>
                      state'[m].epoch + 1 <= epoch'[state'[m].stack]
                 /\ pc'[m] = "exchange" /\ Popping(m)' =>
                      /\ state'[m].stack \in Waiters
                      /\ state'[m].stack \in OnStack'
                           /\ state'[m].epoch + 1 = epoch'[state'[m].stack] => link'[m] = next'[state'[m].stack]
      BY DEF StillTheNext
    <3>1. CASE m = n
      <4>1. pc'[n] # "idle" /\ state_.stack \in Waiters => state_.epoch + 1 <= epoch[state_.stack]
        <5>1. epoch \in [Waiters -> 0 .. EpochMod - 1] /\ state_.epoch \in Nat
          BY <1>1, EventCountAssumption, PartsOfWord DEF TypeOK, WordParts
        <5> QED
          BY <5>1, EventCountAssumption DEF Stamped
      <4>2. pc'[n] = "exchange" => ~Popping(n)'
        BY <1>2, <2>1, <2>2 DEF Popping
      <4> QED
        BY <1>2, <2>1, <2>2, <3>1, <4>1, <4>2 DEF waiterVars
    <3>2. CASE m # n
      BY <1>1, <1>2, <2>3, <3>2 DEF StillTheNext, Popping, waiterVars
    <3> QED
      BY <3>1, <3>2
  <2>5. Budget'
    <3>1. Armed' \subseteq Armed
      BY <1>1, <1>2, <2>1 DEF Armed
    <3>2. IsFiniteSet(Armed') /\ Cardinality(Armed') <= Cardinality(Armed)
          /\ Cardinality(Armed) \in Nat /\ Cardinality(Armed') \in Nat
      BY <3>1, FS_Subset, FS_CardinalityType DEF Budget
    <3>3. \A w \in Waiters : Settled(w)' <=> Settled(w)
      BY <1>2, <2>3 DEF Settled, userVars
    <3>4. \A m \in Notifiers : pc'[m] # "idle" /\ notifyAll'[m] => done'
      BY <1>1, <1>2, <2>1 DEF Budget, userVars
    <3>5. pushed \in Nat /\ epoch \in [Waiters -> 0 .. EpochMod - 1] /\ \A w \in Waiters : epoch[w] \in Nat
      BY <1>1, EventCountAssumption DEF TypeOK
    <3>6. \A w \in Waiters : epoch'[w] + Cardinality(Armed') <= pushed' + (IF Settled(w)' THEN 1 ELSE 0)
      BY <1>2, <3>2, <3>3, <3>5 DEF Budget, waiterVars, userVars
    <3> QED
      BY <1>2, <3>2, <3>4, <3>6 DEF Budget, userVars
  <2> QED
    BY <2>3, <2>4, <2>5
<1>4. CASE NotifyGetNext(n)
  <2>1. /\ pc[n] = "getnext" /\ pc'[n] = "exchange" /\ state'[n] = state[n]
        /\ link'[n] = next[state[n].stack] /\ state[n].stack \in Waiters
    BY <1>1, <1>4 DEF NotifyGetNext, Goto, SlotsNamed
  <2>2. /\ OnStack' = OnStack /\ Committing' = Committing
        /\ Found' /\ StackLinked' /\ LinkReady' /\ Stamped'
    BY <1>1, <1>2, <2>1, StackNotifierMoves
  <2>3. StillTheNext'
    BY <1>1, <1>2, <2>1, <2>2 DEF StillTheNext, Popping, waiterVars
  <2>4. Budget'
    <3>1. Armed' = Armed
      BY <1>1, <1>2, <2>1 DEF Armed
    <3>2. \A w \in Waiters : Settled(w)' <=> Settled(w)
      BY <1>2, <2>2 DEF Settled, userVars
    <3> QED
      BY <1>1, <1>2, <2>1, <3>1, <3>2 DEF Budget, waiterVars, userVars
  <2> QED
    BY <2>2, <2>3, <2>4
<1> QED
  BY <1>3, <1>4

\* The exchange of Notify: a signal for a pre-waiter, the whole stack, or its top.
LEMMA ExchangeCases ==
  ASSUME IInv, StackInv, NEW n \in Notifiers, NotifyExchange(n)
  PROVE  /\ pc[n] = "exchange" /\ state_ = state[n]
         /\ \/ /\ ~notifyAll[n] /\ state_.signals < state_.waiters
               /\ state_' = Signaled(state_) /\ pc'[n] = "idle"
            \/ /\ notifyAll[n] /\ state_' = ReleasedAll(state_)
               /\ state_.stack = kStackMask /\ pc'[n] = "idle"
            \/ /\ notifyAll[n] /\ state_' = ReleasedAll(state_)
               /\ state_.stack \in Waiters /\ pc'[n] = "unpark" /\ target'[n] = state_.stack
            \/ /\ ~notifyAll[n] /\ state_.signals = state_.waiters
               /\ state_.stack \in Waiters /\ state_.stack \in OnStack
               /\ state_' = Popped(state_, next[state_.stack])
               /\ pc'[n] = "detach" /\ target'[n] = state_.stack
<1> USE DEF StackInv
<1>1. /\ n \in Threads /\ n \in Notifiers /\ TypeOK /\ CheckState(state_) /\ WordParts(state_)
      /\ pc \in [Threads -> WaiterPCs \cup NotifierPCs] /\ target \in [Notifiers -> Slot]
  BY PartsOfWord DEF Threads, TypeOK, IInv, CountersExact
<1> DEFINE w == IF ~notifyAll[n] /\ state_.signals < state_.waiters THEN kStackMask ELSE state_.stack
<1>2. /\ pc[n] = "exchange" /\ state_ = state[n] /\ state_' = NotifyWord(n)
      /\ target'[n] = w
      /\ pc'[n] = IF w = kStackMask THEN "idle" ELSE IF notifyAll[n] THEN "unpark" ELSE "detach"
  BY <1>1 DEF NotifyExchange, Goto
<1>3. CASE ~notifyAll[n] /\ state_.signals < state_.waiters
  BY <1>2, <1>3 DEF NotifyWord
<1>4. CASE notifyAll[n]
  BY <1>1, <1>2, <1>4, EventCountAssumption DEF NotifyWord, WordParts, Slot
<1>5. CASE ~notifyAll[n] /\ ~(state_.signals < state_.waiters)
  <2>1. state_.signals = state_.waiters /\ Popping(n)
    BY <1>1, <1>2, <1>5 DEF CheckState, WordParts, Popping
  <2>2. state_.stack \in Waiters
    BY <1>2, <2>1 DEF StillTheNext
  <2>3. state_.stack \in OnStack
    BY <2>2, ChainOfSlots, EventCountAssumption DEF StackLinked, OnStack
  <2>4. link[n] = next[state_.stack]
    BY <1>2, <2>1, <2>2, <2>3 DEF StillTheNext, Stamped
  <2>5. w = state_.stack /\ w # kStackMask
    BY <1>5, <2>2, EventCountAssumption
  <2> QED
    BY <1>2, <1>5, <2>1, <2>2, <2>3, <2>4, <2>5 DEF NotifyWord
<1> QED
  BY <1>2, <1>3, <1>4, <1>5

\* What every exchange does to the notifier and leaves alone.
LEMMA ExchangeFrame ==
  ASSUME IInv, NEW n \in Notifiers, NotifyExchange(n)
  PROVE  /\ UNCHANGED <<waiterVars, follow, was, notifyAll, userVars>>
         /\ \A t \in Threads \ {n} : pc'[t] = pc[t] /\ state'[t] = state[t]
         /\ \A m \in Notifiers \ {n} : link'[m] = link[m] /\ target'[m] = target[m]
BY DEF NotifyExchange, Goto, IInv, TypeOK

\* Budget survives an exchange: the notification took effect, and who left the
\* stack was taken by it, or is not pushed again.
LEMMA ExchangeBudget ==
  ASSUME IInv, StackInv, NEW n \in Notifiers, NotifyExchange(n),
         pc[n] = "exchange", pc'[n] \notin {"notify", "getnext", "exchange"},
         ~notifyAll[n] \/ (\A w \in OnStack : pc[w] \notin {"commit", "setnext", "cas"})
  PROVE  Budget'
<1> USE DEF StackInv
<1>1. /\ n \in Threads /\ TypeOK /\ pc \in [Threads -> WaiterPCs \cup NotifierPCs]
      /\ \A m \in Notifiers : m \in Threads
      /\ \A w \in Waiters : w \in Threads /\ w # n
      /\ pushed \in Nat /\ \A w \in Waiters : epoch[w] \in Nat
  BY EventCountAssumption DEF Threads, TypeOK, IInv
<1>2. /\ UNCHANGED <<waiterVars, notifyAll, userVars>>
      /\ \A t \in Threads \ {n} : pc'[t] = pc[t]
  BY ExchangeFrame
<1>3. Committing' = Committing
  BY <1>1, <1>2 DEF Committing
<1>4. \A m \in Notifiers : pc'[m] # "idle" /\ notifyAll'[m] => done'
  BY <1>1, <1>2 DEF Budget, userVars
<1>5. CASE ~notifyAll[n]
  <2>1. Armed' = Armed \ {n} /\ n \in Armed
    BY <1>1, <1>2, <1>5 DEF Armed
  <2>2. IsFiniteSet(Armed') /\ Cardinality(Armed') = Cardinality(Armed) - 1 /\ Cardinality(Armed) \in Nat
    BY <2>1, FS_RemoveElement, FS_CardinalityType DEF Budget
  <2>3. \A w \in Waiters : epoch'[w] + Cardinality(Armed') <= pushed' + (IF Settled(w)' THEN 1 ELSE 0)
    BY <1>1, <1>2, <2>2 DEF Budget, waiterVars, userVars
  <2> QED
    BY <1>2, <1>4, <2>2, <2>3 DEF Budget, userVars
<1>6. CASE notifyAll[n]
  <2>1. Armed' = Armed
    BY <1>1, <1>2, <1>6 DEF Armed
  <2>2. done
    BY <1>6 DEF Budget
  <2>3. \A w \in Waiters : Settled(w) => Settled(w)'
    BY <1>2, <1>3, <1>6, <2>2 DEF Settled, Committing, userVars
  <2>4. \A w \in Waiters : epoch'[w] + Cardinality(Armed') <= pushed' + (IF Settled(w)' THEN 1 ELSE 0)
    <3>1. Cardinality(Armed) \in Nat
      BY FS_CardinalityType DEF Budget
    <3> QED
      BY <1>1, <1>2, <2>1, <2>3, <3>1 DEF Budget, waiterVars, userVars
  <2> QED
    BY <1>2, <1>4, <2>1, <2>4 DEF Budget, userVars
<1> QED
  BY <1>5, <1>6

\* StillTheNext survives an exchange, for the stack only shrinks.
LEMMA ExchangeStillTheNext ==
  ASSUME IInv, StackInv, NEW n \in Notifiers, NotifyExchange(n),
         pc'[n] \notin {"getnext", "exchange"}, OnStack' \subseteq OnStack
  PROVE  StillTheNext'
<1> USE DEF StackInv
<1>1. /\ UNCHANGED <<waiterVars, notifyAll>>
      /\ \A m \in Notifiers \ {n} : pc'[m] = pc[m] /\ state'[m] = state[m] /\ link'[m] = link[m]
  BY ExchangeFrame DEF Threads
<1> SUFFICES ASSUME NEW m \in Notifiers
      PROVE  /\ pc'[m] \in {"getnext", "exchange"} /\ state'[m].stack \in Waiters =>
                  state'[m].epoch + 1 <= epoch'[state'[m].stack]
             /\ pc'[m] = "exchange" /\ Popping(m)' =>
                  /\ state'[m].stack \in Waiters
                  /\ state'[m].stack \in OnStack'
                       /\ state'[m].epoch + 1 = epoch'[state'[m].stack] => link'[m] = next'[state'[m].stack]
  BY DEF StillTheNext
<1>2. CASE m = n
  BY <1>2
<1>3. CASE m # n
  BY <1>1, <1>3 DEF StillTheNext, Popping, waiterVars
<1> QED
  BY <1>2, <1>3

\* The exchange of Notify and what it does to the stack, branch by branch.
LEMMA StackExchange ==
  ASSUME IInv, StackInv, NEW n \in Notifiers, NotifyExchange(n)
  PROVE  /\ StackInv'
         /\ \/ /\ ~notifyAll[n] /\ state_.signals < state_.waiters
               /\ state_' = Signaled(state_) /\ OnStack' = OnStack
            \/ notifyAll[n] /\ state_' = ReleasedAll(state_) /\ OnStack' = {}
            \/ /\ ~notifyAll[n] /\ state_.signals = state_.waiters
               /\ \E l \in Link : state_' = Popped(state_, l)
               /\ \E w \in OnStack : OnStack' = OnStack \ {w}
<1> USE DEF StackInv
<1>1. /\ n \in Threads /\ TypeOK /\ pc \in [Threads -> WaiterPCs \cup NotifierPCs]
      /\ \A m \in Notifiers : m \in Threads /\ m \notin Waiters
      /\ \A w \in Waiters : w \in Threads /\ w # n
  BY EventCountAssumption DEF Threads, TypeOK, IInv
<1>2. /\ UNCHANGED <<waiterVars, follow, was, notifyAll, userVars>>
      /\ \A t \in Threads \ {n} : pc'[t] = pc[t] /\ state'[t] = state[t]
      /\ \A m \in Notifiers \ {n} : link'[m] = link[m] /\ target'[m] = target[m]
  BY ExchangeFrame
<1>3. pc[n] = "exchange" /\ state_ = state[n]
  BY ExchangeCases
<1>4. \A w \in OnStack : w \in Asleep /\ pc[w] \notin {"commit", "setnext", "cas"}
  BY DEF Found, Asleep
<1>5. Asleep' = Asleep /\ LinkReady'
  <2>1. Asleep' = Asleep
    BY <1>1, <1>2 DEF Asleep, waiterVars
  <2>2. LinkReady'
    BY <1>1, <1>2 DEF LinkReady, waiterVars
  <2> QED
    BY <2>1, <2>2
<1>6. Holds(n) = {}
  BY <1>3 DEF Holds, TakenOf
<1>7. \A m \in Notifiers \ {n} : Holds(m)' = Holds(m) /\ HeldOK(next', pc'[m], target'[m], follow'[m])
  BY <1>1, <1>2 DEF Holds, StackLinked, waiterVars
<1>8. CASE /\ ~notifyAll[n] /\ state_.signals < state_.waiters
           /\ state_' = Signaled(state_) /\ pc'[n] = "idle"
  <2>1. state_'.stack = state_.stack /\ state_'.epoch = state_.epoch
    BY <1>8 DEF Signaled, Counting
  <2>2. /\ OnStack' = OnStack
        /\ Found' /\ StackLinked' /\ LinkReady' /\ Stamped'
    BY <1>2, <1>3, <1>8, <2>1, StackNotifierMoves
  <2>3. StillTheNext'
    BY <1>8, <2>2, ExchangeStillTheNext
  <2>4. Budget'
    BY <1>3, <1>8, ExchangeBudget
  <2> QED
    BY <1>8, <2>2, <2>3, <2>4
<1>9. CASE /\ notifyAll[n] /\ state_' = ReleasedAll(state_)
           /\ \/ state_.stack = kStackMask /\ pc'[n] = "idle"
              \/ state_.stack \in Waiters /\ pc'[n] = "unpark" /\ target'[n] = state_.stack
  <2>1. state_'.stack = kStackMask
    BY <1>9 DEF ReleasedAll, Counting, EmptyLink
  <2>2. OnStack' = {} /\ Linked(next', state_'.stack)
    BY <2>1, ChainOfNone DEF OnStack
  <2>3. Holds(n)' = OnStack /\ HeldOK(next', pc'[n], target'[n], follow'[n])
    <3>1. CASE state_.stack = kStackMask /\ pc'[n] = "idle"
      BY <3>1, ChainOfNone DEF Holds, TakenOf, HeldOK, OnStack
    <3>2. CASE state_.stack \in Waiters /\ pc'[n] = "unpark" /\ target'[n] = state_.stack
      BY <1>2, <3>2 DEF Holds, TakenOf, HeldOK, OnStack, StackLinked, waiterVars
    <3> QED
      BY <1>9, <3>1, <3>2
  <2>4. Found'
    BY <1>5, <1>6, <1>7, <2>2, <2>3 DEF Found
  <2>5. StackLinked'
    BY <1>7, <2>2, <2>3 DEF StackLinked
  <2>6. Stamped'
    BY <2>1, <2>2, EventCountAssumption DEF Stamped
  <2>7. StillTheNext'
    BY <1>9, <2>2, ExchangeStillTheNext
  <2>8. Budget'
    BY <1>3, <1>4, <1>9, ExchangeBudget
  <2> QED
    BY <1>5, <1>9, <2>2, <2>4, <2>5, <2>6, <2>7, <2>8
<1>10. CASE /\ ~notifyAll[n] /\ state_.signals = state_.waiters
            /\ state_.stack \in Waiters /\ state_.stack \in OnStack
            /\ state_' = Popped(state_, next[state_.stack])
            /\ pc'[n] = "detach" /\ target'[n] = state_.stack
  <2> DEFINE w == state_.stack
  <2>1. state_'.stack = next[w].stack /\ state_'.epoch = next[w].epoch
    BY <1>10 DEF Popped, Counting
  <2>2. /\ Linked(next, next[w].stack) /\ w \notin ChainOf(next, next[w].stack)
        /\ OnStack = ChainOf(next, next[w].stack) \cup {w}
    BY <1>10, ChainOfPop DEF StackLinked, OnStack
  <2>3. OnStack' = OnStack \ {w} /\ Linked(next', state_'.stack)
    BY <1>2, <2>1, <2>2 DEF OnStack, waiterVars
  <2>4. Holds(n)' = {w} /\ HeldOK(next', pc'[n], target'[n], follow'[n])
    BY <1>10 DEF Holds, TakenOf, HeldOK
  <2>5. Found'
    <3>1. \A m \in Notifiers \ {n} : w \notin Holds(m)
      BY <1>10 DEF Found
    <3>2. UNION {Holds(m)' : m \in Notifiers} = (UNION {Holds(m) : m \in Notifiers}) \cup {w}
      BY <1>6, <1>7, <2>4
    <3>3. Asleep' = OnStack' \cup UNION {Holds(m)' : m \in Notifiers}
      BY <1>5, <1>10, <2>3, <3>2 DEF Found
    <3>4. \A m \in Notifiers : Holds(m)' \cap OnStack' = {}
      BY <1>7, <2>3, <2>4 DEF Found
    <3>5. \A m, k \in Notifiers : m # k => Holds(m)' \cap Holds(k)' = {}
      BY <1>7, <2>4, <3>1 DEF Found
    <3> QED
      BY <3>3, <3>4, <3>5 DEF Found
  <2>6. StackLinked'
    BY <1>7, <2>3, <2>4 DEF StackLinked
  <2>7. Stamped'
    <3>1. next' = next /\ epoch' = epoch
      BY <1>2 DEF waiterVars
    <3> QED
      BY <1>10, <2>1, <2>3, <3>1 DEF Stamped
  <2>8. StillTheNext'
    BY <1>10, <2>3, ExchangeStillTheNext
  <2>9. Budget'
    BY <1>3, <1>10, ExchangeBudget
  <2>10. next[w] \in Link
    BY <1>1, <1>10 DEF TypeOK
  <2> QED
    BY <1>5, <1>10, <2>3, <2>5, <2>6, <2>7, <2>8, <2>9, <2>10
<1> QED
  BY <1>8, <1>9, <1>10, ExchangeCases

\* The steps of Notify after its exchange: they touch the waiters this notifier
\* holds and no other, and let go of one only when it is signaled.
LEMMA StackUnpark ==
  ASSUME IInv, StackInv, NEW n \in Notifiers,
         pc[n] \in {"detach", "unpark", "signal", "wake"},
         pc'[n] \in {"idle", "unpark", "signal", "wake"},
         UNCHANGED <<state_, epoch, state, link, notifyAll, userVars>>,
         \A m \in Notifiers \ {n} : pc'[m] = pc[m] /\ target'[m] = target[m] /\ follow'[m] = follow[m],
         \A w \in Waiters : pc'[w] = pc[w] \/ (pc[w] = "parked" /\ pc'[w] = "park"),
         \A w \in Waiters \ Holds(n) : next'[w] = next[w] /\ wstate'[w] = wstate[w],
         HeldOK(next', pc'[n], target'[n], follow'[n]),
         Holds(n)' \subseteq Holds(n), Asleep' = Asleep \ (Holds(n) \ Holds(n)')
  PROVE  StackInv' /\ OnStack' = OnStack
<1> USE DEF StackInv
<1>1. /\ TypeOK /\ Holds(n) \subseteq Waiters /\ OnStack \subseteq Waiters
      /\ \A w \in OnStack : w \notin Holds(n)
  BY DEF IInv, Found, Asleep
<1>2. Linked(next', state_'.stack) /\ OnStack' = OnStack
  <2>1. \A w \in ChainOf(next, state_.stack) : next'[w].stack = next[w].stack
    BY <1>1 DEF OnStack
  <2>2. Linked(next, state_.stack)
    BY DEF StackLinked
  <2> QED
    BY <2>1, <2>2, ChainOfFrame DEF OnStack
<1>3. \A m \in Notifiers \ {n} : HeldOK(next', pc'[m], target'[m], follow'[m]) /\ Holds(m)' = Holds(m)
  <2> TAKE m \in Notifiers \ {n}
  <2>1. HeldOK(next, pc[m], target[m], follow[m])
    BY DEF StackLinked
  <2>2. \A w \in Holds(m) : w \in Waiters /\ w \notin Holds(n)
    BY DEF Found, Asleep
  <2>3. \A w \in TakenOf(next, pc[m], target[m], follow[m]) : next'[w].stack = next[w].stack
    BY <2>2 DEF Holds
  <2> QED
    BY <2>1, <2>3, TakenFrame DEF Holds
<1>4. Committing' = Committing
  BY DEF Committing
<1>5. Found'
  <2>1. Asleep' = OnStack' \cup UNION {Holds(m)' : m \in Notifiers}
    <3>1. \A w : w \in Asleep' => w \in OnStack' \cup UNION {Holds(m)' : m \in Notifiers}
      <4> SUFFICES ASSUME NEW w \in Asleep' PROVE w \in OnStack' \cup UNION {Holds(m)' : m \in Notifiers}
        OBVIOUS
      <4>1. w \in Asleep /\ ~(w \in Holds(n) /\ w \notin Holds(n)')
        OBVIOUS
      <4>2. CASE w \in OnStack
        BY <1>2, <4>2
      <4>3. CASE w \notin OnStack
        <5>1. PICK m \in Notifiers : w \in Holds(m)
          BY <4>1, <4>3 DEF Found
        <5>2. w \in Holds(m)'
          BY <1>3, <4>1, <5>1
        <5> QED
          BY <5>2
      <4> QED
        BY <4>2, <4>3
    <3>2. ASSUME NEW w \in OnStack' PROVE w \in Asleep'
      BY <1>1, <1>2, <3>2 DEF Found
    <3>3. ASSUME NEW m \in Notifiers, NEW w \in Holds(m)' PROVE w \in Asleep'
      <4>1. w \in Holds(m) /\ w \in Asleep
        BY <1>3, <3>3 DEF Found
      <4>2. ~(w \in Holds(n) /\ w \notin Holds(n)')
        <5>1. CASE m = n
          BY <3>3, <5>1
        <5>2. CASE m # n
          BY <4>1, <5>2 DEF Found
        <5> QED
          BY <5>1, <5>2
      <4> QED
        BY <4>1, <4>2
    <3> QED
      BY <3>1, <3>2, <3>3
  <2>2. \A m \in Notifiers : Holds(m)' \cap OnStack' = {}
    BY <1>2, <1>3 DEF Found
  <2>3. \A m, k \in Notifiers : m # k => Holds(m)' \cap Holds(k)' = {}
    BY <1>3 DEF Found
  <2> QED
    BY <2>1, <2>2, <2>3 DEF Found
<1>6. StackLinked'
  BY <1>2, <1>3 DEF StackLinked
<1>7. LinkReady'
  <2>1. \A w \in Holds(n) : pc[w] \in {"park", "parked"}
    BY DEF Found, Asleep
  <2> QED
    BY <2>1 DEF LinkReady
<1>8. Stamped'
  BY <1>1, <1>2 DEF Stamped
<1>9. StillTheNext'
  BY <1>1, <1>2 DEF StillTheNext, Popping
<1>10. Budget'
  <2>1. Armed' = Armed
    BY DEF Armed
  <2>2. \A w \in Waiters : Settled(w)' <=> Settled(w)
    BY <1>2, <1>4 DEF Settled, userVars
  <2>3. \A m \in Notifiers : pc'[m] # "idle" /\ notifyAll'[m] => done'
    BY DEF Budget, userVars
  <2> QED
    BY <2>1, <2>2, <2>3 DEF Budget, userVars
<1> QED
  BY <1>2, <1>5, <1>6, <1>7, <1>8, <1>9, <1>10

\* Notify(false) cuts the waiter it popped off the rest of the stack.
LEMMA StackDetach ==
  ASSUME IInv, StackInv, NEW n \in Notifiers, Detach(n)
  PROVE  StackInv' /\ OnStack' = OnStack
<1>1. /\ TypeOK /\ SlotsNamed /\ n \in Threads
      /\ \A m \in Notifiers : m \in Threads /\ m \notin Waiters
      /\ \A w \in Waiters : w \in Threads /\ w # n
      /\ pc \in [Threads -> WaiterPCs \cup NotifierPCs] /\ next \in [Waiters -> Link]
  BY EventCountAssumption DEF IInv, Threads, TypeOK
<1>2. /\ pc[n] = "detach" /\ pc' = [pc EXCEPT ![n] = "unpark"] /\ target[n] \in Waiters
      /\ next' = [next EXCEPT ![target[n]] = EmptyLink]
      /\ UNCHANGED <<state_, epoch, wstate, state, notifyVars, userVars>>
  BY <1>1 DEF Detach, Goto, SlotsNamed
<1> DEFINE w == target[n]
<1>3. Holds(n) = {w}
  BY <1>2 DEF Holds, TakenOf
<1>4. Linked(next', w) /\ ChainOf(next', w) = {w}
  <2>1. next'[w].stack = kStackMask
    BY <1>1, <1>2 DEF EmptyLink
  <2>2. Linked(next', kStackMask) /\ ChainOf(next', kStackMask) = {}
    BY ChainOfNone
  <2>3. w \in Waiters /\ w \notin ChainOf(next', kStackMask)
    BY <1>2, <2>2
  <2> HIDE DEF w
  <2>4. Linked(next', w) /\ ChainOf(next', w) = ChainOf(next', kStackMask) \cup {w}
    BY <2>1, <2>2, <2>3, ChainOfPush
  <2> QED
    BY <2>2, <2>4
<1>5. pc'[n] = "unpark" /\ target' = target /\ follow' = follow
  BY <1>1, <1>2 DEF notifyVars
<1>6. Holds(n)' = Holds(n) /\ HeldOK(next', pc'[n], target'[n], follow'[n])
  BY <1>3, <1>4, <1>5 DEF Holds, TakenOf, HeldOK
<1>7. Asleep' = Asleep
  BY <1>1, <1>2 DEF Asleep
<1>8. \A v \in Waiters \ Holds(n) : next'[v] = next[v]
  BY <1>1, <1>2, <1>3
<1> QED
  BY <1>1, <1>2, <1>5, <1>6, <1>7, <1>8, StackUnpark DEF notifyVars

\* Unpark reads the link: what it holds is the waiter and those that follow it.
LEMMA StackUnparkNext ==
  ASSUME IInv, StackInv, NEW n \in Notifiers, UnparkNext(n)
  PROVE  StackInv' /\ OnStack' = OnStack
<1>1. /\ TypeOK /\ SlotsNamed /\ n \in Threads
      /\ \A m \in Notifiers : m \in Threads /\ m \notin Waiters
      /\ \A w \in Waiters : w \in Threads /\ w # n
      /\ pc \in [Threads -> WaiterPCs \cup NotifierPCs] /\ follow \in [Notifiers -> Slot]
  BY EventCountAssumption DEF IInv, Threads, TypeOK
<1>2. /\ pc[n] = "unpark" /\ pc' = [pc EXCEPT ![n] = "signal"] /\ target[n] \in Waiters
      /\ follow' = [follow EXCEPT ![n] = next[target[n]].stack]
      /\ UNCHANGED <<state_, waiterVars, state, link, target, was, notifyAll, userVars>>
  BY <1>1 DEF UnparkNext, Goto, SlotsNamed
<1> DEFINE w == target[n]
           s == next[w].stack
<1>3. Linked(next, w) /\ Holds(n) = ChainOf(next, w)
  BY <1>2 DEF StackInv, StackLinked, HeldOK, Holds, TakenOf
<1>4. Linked(next, s) /\ w \notin ChainOf(next, s) /\ ChainOf(next, w) = ChainOf(next, s) \cup {w}
  BY <1>2, <1>3, ChainOfPop
<1>5. pc'[n] = "signal" /\ target' = target /\ follow'[n] = s /\ next' = next
  BY <1>1, <1>2 DEF waiterVars
<1>6. Holds(n)' = Holds(n) /\ HeldOK(next', pc'[n], target'[n], follow'[n])
  BY <1>3, <1>4, <1>5 DEF Holds, TakenOf, HeldOK
<1>7. Asleep' = Asleep
  BY <1>1, <1>2 DEF Asleep, waiterVars
<1> QED
  BY <1>1, <1>2, <1>5, <1>6, <1>7, StackUnpark DEF waiterVars

\* Unpark marks the waiter signaled and holds it no longer.
LEMMA StackUnparkSignal ==
  ASSUME IInv, StackInv, NEW n \in Notifiers, UnparkSignal(n)
  PROVE  StackInv' /\ OnStack' = OnStack
<1>1. /\ TypeOK /\ SlotsNamed /\ n \in Threads
      /\ \A m \in Notifiers : m \in Threads /\ m \notin Waiters
      /\ \A w \in Waiters : w \in Threads /\ w # n
      /\ pc \in [Threads -> WaiterPCs \cup NotifierPCs] /\ wstate \in [Waiters -> WaiterStates]
  BY EventCountAssumption DEF IInv, Threads, TypeOK
<1>2. /\ pc[n] = "signal" /\ pc' = [pc EXCEPT ![n] = "wake"] /\ target[n] \in Waiters
      /\ wstate' = [wstate EXCEPT ![target[n]] = "Signaled"]
      /\ UNCHANGED <<state_, next, epoch, state, link, target, follow, notifyAll, userVars>>
  BY <1>1 DEF UnparkSignal, Goto, SlotsNamed
<1> DEFINE w == target[n]
<1>3. /\ Holds(n) = ChainOf(next, follow[n]) \cup {w} /\ w \notin ChainOf(next, follow[n])
      /\ Linked(next, follow[n])
  BY <1>2 DEF StackInv, StackLinked, HeldOK, Holds, TakenOf
<1>4. Holds(n)' = Holds(n) \ {w} /\ HeldOK(next', pc'[n], target'[n], follow'[n]) /\ w \in Holds(n)
  BY <1>1, <1>2, <1>3 DEF Holds, TakenOf, HeldOK
<1>5. Asleep' = Asleep \ {w}
  BY <1>1, <1>2 DEF Asleep
<1>6. \A v \in Waiters \ Holds(n) : wstate'[v] = wstate[v]
  BY <1>1, <1>2, <1>4
<1> QED
  BY <1>1, <1>2, <1>4, <1>5, <1>6, StackUnpark

\* Unpark wakes the waiter it signaled and goes on with the one that follows.
LEMMA StackUnparkWake ==
  ASSUME IInv, StackInv, NEW n \in Notifiers, UnparkWake(n)
  PROVE  StackInv' /\ OnStack' = OnStack
<1>1. /\ TypeOK /\ SlotsNamed /\ n \in Threads
      /\ \A m \in Notifiers : m \in Threads /\ m \notin Waiters
      /\ \A w \in Waiters : w \in Threads /\ w # n
      /\ pc \in [Threads -> WaiterPCs \cup NotifierPCs]
      /\ target \in [Notifiers -> Slot] /\ follow \in [Notifiers -> Slot]
  BY EventCountAssumption DEF IInv, Threads, TypeOK
<1> DEFINE w == target[n]
           l == IF follow[n] = kStackMask THEN "idle" ELSE "unpark"
<1>2. /\ pc[n] = "wake" /\ pc'[n] = l
      /\ \A m \in Notifiers \ {n} : pc'[m] = pc[m]
      /\ \A v \in Waiters : pc'[v] = pc[v] \/ (pc[v] = "parked" /\ pc'[v] = "park")
      /\ target' = [target EXCEPT ![n] = follow[n]]
      /\ UNCHANGED <<state_, waiterVars, state, link, notifyAll, userVars>>
      /\ \A m \in Notifiers \ {n} : follow'[m] = follow[m]
  BY <1>1 DEF UnparkWake, SlotsNamed
<1>3. Holds(n) = ChainOf(next, follow[n]) /\ Linked(next, follow[n])
  BY <1>2 DEF StackInv, StackLinked, HeldOK, Holds, TakenOf
<1>4. target'[n] = follow[n] /\ next' = next
  BY <1>1, <1>2 DEF waiterVars
<1>5. Holds(n)' = Holds(n) /\ HeldOK(next', pc'[n], target'[n], follow'[n])
  <2>1. CASE follow[n] = kStackMask
    BY <1>2, <1>3, <2>1, ChainOfNone DEF Holds, TakenOf, HeldOK
  <2>2. CASE follow[n] # kStackMask
    BY <1>2, <1>3, <1>4, <2>2 DEF Holds, TakenOf, HeldOK
  <2> QED
    BY <2>1, <2>2
<1>6. Asleep' = Asleep
  BY <1>1, <1>2 DEF Asleep, waiterVars
<1>7. \A m \in Notifiers \ {n} : target'[m] = target[m]
  BY <1>1, <1>2
<1> QED
  BY <1>1, <1>2, <1>5, <1>6, <1>7, StackUnpark DEF waiterVars

\* A new event count: nobody sleeps, nothing is linked.
LEMMA InitStackInv == Init => StackInv
<1> SUFFICES ASSUME Init PROVE StackInv
  OBVIOUS
<1>1. \A t \in Threads : pc[t] = "idle"
  BY DEF Init
<1>2. \A w \in Waiters : w \in Threads /\ pc[w] = "idle"
  BY <1>1 DEF Threads
<1>3. \A n \in Notifiers : n \in Threads /\ pc[n] = "idle"
  BY <1>1 DEF Threads
<1>4. OnStack = {} /\ Linked(next, state_.stack) /\ state_.stack = kStackMask
  BY ChainOfNone DEF Init, OnStack, EmptyWord
<1>5. Asleep = {} /\ Armed = {} /\ \A n \in Notifiers : Holds(n) = {}
  BY <1>2, <1>3 DEF Asleep, Armed, Holds, TakenOf
<1>6. Found
  BY <1>4, <1>5 DEF Found
<1>7. StackLinked
  BY <1>3, <1>4 DEF StackLinked, HeldOK
<1>8. LinkReady /\ StillTheNext
  BY <1>2, <1>3 DEF LinkReady, StillTheNext
<1>9. Stamped
  BY <1>4, EventCountAssumption DEF Stamped
<1>10. Budget
  <2>1. IsFiniteSet(Armed) /\ Cardinality(Armed) = 0
    BY <1>5, FS_EmptySet
  <2>2. pushed = 0 /\ \A w \in Waiters : epoch[w] = 0
    BY DEF Init
  <2> QED
    BY <1>3, <2>1, <2>2, EventCountAssumption DEF Budget
<1> QED
  BY <1>6, <1>7, <1>8, <1>9, <1>10 DEF StackInv

\* Every step keeps the stack.
LEMMA NextStackInv == IInv /\ StackInv /\ [Next]_vars => StackInv'
<1> SUFFICES ASSUME IInv, StackInv, [Next]_vars PROVE StackInv'
  OBVIOUS
<1>1. CASE UNCHANGED vars
  <2>1. LinkReady' /\ TypeOK /\ Asleep' = Asleep /\ Committing' = Committing
    BY <1>1 DEF StackInv, LinkReady, IInv, Asleep, Committing, vars, waiterVars
  <2> QED
    BY <1>1, <2>1, StackQuiet DEF vars, waiterVars, notifyVars, userVars
<1>2. ASSUME NEW w \in Waiters, WaiterStep(w) \/ SpuriousWake(w) PROVE StackInv'
  BY <1>2, StackWaiter, StackSetNext, StackPush DEF WaiterStep, Commit
<1>3. ASSUME NEW n \in Notifiers, Push(n) \/ Close(n) \/ Notify(n) PROVE StackInv'
  BY <1>3, StackEvent, StackLoads, StackExchange, StackDetach, StackUnparkNext,
     StackUnparkSignal, StackUnparkWake DEF Notify
<1> QED
  BY <1>1, <1>2, <1>3 DEF Next, Terminating

\* The stack is sound throughout.
LEMMA StackInvariance == Spec => [](IInv /\ StackInv)
<1>1. Init => IInv /\ StackInv
  BY InitIInv, InitStackInv
<1>2. (IInv /\ StackInv) /\ [Next]_vars => (IInv /\ StackInv)'
  BY NextIInv, NextStackInv
<1> QED
  BY <1>1, <1>2, PTL DEF Spec

\* Nobody is stranded: a thread that sleeps is on the stack, or one notifier
\* holds it and is about to signal it.
THEOREM NobodyStranded == Spec => []NoneStranded
<1>1. StackInv => NoneStranded
  <2> SUFFICES ASSUME Found PROVE NoneStranded
    BY DEF StackInv
  <2>1. Chain(state_.stack) = OnStack
    BY ChainIsChainOf DEF OnStack
  <2>2. \A n \in Notifiers : Taken(n) = Holds(n)
    BY ChainIsChainOf DEF Taken, Holds, TakenOf
  <2> QED
    BY <2>1, <2>2 DEF Found, NoneStranded
<1> QED
  BY <1>1, StackInvariance, PTL

-----------------------------------------------------------------------------
(***************************************************************************)
(* No notification is lost.                                                *)
(***************************************************************************)
\* The waiters that go on: those outside the event count's two lists that are
\* about to look at the predicate, or will when they leave Park.
Back == {w \in Waiters : \/ pc[w] = "idle"
                         \/ pc[w] \in {"park", "parked"} /\ w \notin OnStack}

\* Somebody waits, or is about to, whom no signal turns back.
Unanswered == OnStack # {} \/ state_.signals < Cardinality(Committing)

\* Then every item has a thread that comes for it, a signal, or a notification
\* that has not taken effect; and a closing has not taken effect either.
WakeInv ==
  Unanswered =>
    /\ val_ <= Cardinality(Back) + state_.signals + Cardinality(Armed)
    /\ done => \E n \in Notifiers : notifyAll[n] /\ pc[n] \in {"notify", "exchange"}

\* The sets that are counted are finite.
LEMMA Counts ==
  ASSUME IInv, StackInv
  PROVE  /\ IsFiniteSet(Back) /\ IsFiniteSet(Committing) /\ IsFiniteSet(Armed)
         /\ Cardinality(Back) \in Nat /\ Cardinality(Committing) \in Nat
         /\ Cardinality(Armed) \in Nat
         /\ state_.signals \in Nat /\ state_.waiters \in Nat /\ val_ \in Nat
         /\ state_.waiters = Cardinality(Prewaiting) /\ state_.signals <= state_.waiters
         /\ IsFiniteSet(Prewaiting) /\ Committing \subseteq Prewaiting
         /\ Cardinality(Committing) <= Cardinality(Prewaiting)
<1>1. /\ IsFiniteSet(Back) /\ IsFiniteSet(Committing) /\ IsFiniteSet(Armed)
      /\ IsFiniteSet(Prewaiting) /\ Committing \subseteq Prewaiting
  BY EventCountAssumption, FS_Subset, PrewaitingFinite
     DEF Back, Committing, StackInv, Budget, Prewaiting
<1>2. Cardinality(Committing) <= Cardinality(Prewaiting)
  BY <1>1, FS_Subset
<1>3. state_ \in Word /\ WordParts(state_) /\ val_ \in Nat /\ CheckState(state_)
      /\ state_.waiters = Cardinality(Prewaiting)
  BY PartsOfWord DEF IInv, TypeOK, CountersExact
<1> QED
  BY <1>1, <1>2, <1>3, FS_CardinalityType DEF WordParts, CheckState

\* The steps that change none of the counts, or only take an item.
LEMMA WakeQuiet ==
  ASSUME IInv, StackInv, WakeInv,
         OnStack' = OnStack, Back' = Back, Committing' = Committing, Armed' = Armed,
         state_'.signals = state_.signals, val_' \in Nat, val_' <= val_, done' = done,
         \A n \in Notifiers : /\ notifyAll'[n] = notifyAll[n]
                              /\ pc'[n] = pc[n] \/ pc[n] \notin {"notify", "exchange"}
  PROVE  WakeInv'
<1>1. Unanswered' <=> Unanswered
  BY DEF Unanswered
<1>2. val_ \in Nat /\ Cardinality(Back) \in Nat /\ Cardinality(Armed) \in Nat /\ state_.signals \in Nat
  BY Counts
<1> QED
  BY <1>1, <1>2 DEF WakeInv

\* The steps of a waiting thread that leave the list and the signals alone.
LEMMA WakeWaiter ==
  ASSUME IInv, StackInv, WakeInv, NEW w \in Waiters,
         \/ Pop(w) \/ PopEmpty(w) \/ Prewait(w) \/ Recheck(w)
         \/ CommitLoad(w) \/ CommitRetry(w) \/ CommitSetNext(w)
         \/ Park(w) \/ SpuriousWake(w)
  PROVE  WakeInv'
<1>1. /\ w \in Threads /\ TypeOK /\ pc \in [Threads -> WaiterPCs \cup NotifierPCs]
      /\ \A n \in Notifiers : n \in Threads /\ n # w
      /\ \A v \in Waiters : v \in Threads
      /\ val_ \in Nat
  BY EventCountAssumption DEF Threads, TypeOK, IInv
<1>2. OnStack' = OnStack
  BY StackWaiter, StackSetNext
<1>3. /\ \A v \in Threads \ {w} : pc'[v] = pc[v]
      /\ UNCHANGED <<notifyAll, done>> /\ state_'.signals = state_.signals
      /\ val_' \in Nat /\ val_' <= val_
  BY <1>1 DEF Pop, PopEmpty, Prewait, Recheck, CommitLoad, CommitRetry, CommitSetNext,
         Park, ParkReturn, ParkWait, SpuriousWake, notifyVars, userVars, Goto, Prewaited, Counting
<1>4. Armed' = Armed
  BY <1>1, <1>3 DEF Armed
<1>5. CASE \/ pc'[w] = pc[w]
           \/ pc[w] = "prewait" /\ pc'[w] = "recheck"
           \/ pc[w] = "recheck" /\ pc'[w] = "cancel"
           \/ pc[w] \in {"commit", "setnext", "cas"} /\ pc'[w] \in {"setnext", "cas"}
           \/ pc[w] \in {"park", "parked"} /\ pc'[w] \in {"park", "parked"}
           \/ pc[w] = "park" /\ wstate[w] = "Signaled" /\ pc'[w] = "idle"
  <2>1. wstate[w] = "Signaled" => w \notin OnStack
    BY DEF StackInv, Found, Asleep
  <2>2. Back' = Back
    <3>1. w \in Back' <=> w \in Back
      BY <1>2, <1>5, <2>1 DEF Back
    <3>2. \A v \in Waiters \ {w} : v \in Back' <=> v \in Back
      BY <1>1, <1>2, <1>3 DEF Back
    <3>3. Back \subseteq Waiters /\ Back' \subseteq Waiters
      BY DEF Back
    <3> QED
      BY <3>1, <3>2, <3>3
  <2>3. Committing' = Committing
    BY <1>1, <1>3, <1>5 DEF Committing
  <2> QED
    BY <1>1, <1>2, <1>3, <1>4, <2>2, <2>3, WakeQuiet
<1>6. CASE PopEmpty(w)
  <2>1. val_' = 0 /\ pc[w] = "idle" /\ pc'[w] \in {"exit", "prewait"}
    BY <1>1, <1>6 DEF PopEmpty, Goto, userVars
  <2>2. Committing' = Committing
    BY <1>1, <1>3, <2>1 DEF Committing
  <2>3. Unanswered' <=> Unanswered
    BY <1>2, <1>3, <2>2 DEF Unanswered
  <2>4. Cardinality(Back') \in Nat /\ Cardinality(Armed) \in Nat /\ state_.signals \in Nat
    <3>1. IsFiniteSet(Back')
      BY EventCountAssumption, FS_Subset DEF Back
    <3> QED
      BY <3>1, Counts, FS_CardinalityType
  <2> QED
    BY <1>1, <1>3, <1>4, <2>1, <2>3, <2>4 DEF WakeInv
<1>7. CASE Recheck(w) /\ pc'[w] = "commit"
  <2>1. val_' = 0 /\ ~done'
    BY <1>1, <1>7 DEF Recheck, Goto, userVars
  <2>2. Cardinality(Back') \in Nat /\ Cardinality(Armed) \in Nat /\ state_.signals \in Nat
    <3>1. IsFiniteSet(Back')
      BY EventCountAssumption, FS_Subset DEF Back
    <3> QED
      BY <3>1, Counts, FS_CardinalityType
  <2> QED
    BY <1>3, <1>4, <2>1, <2>2 DEF WakeInv
<1> QED
  <2>1. CASE Pop(w) \/ Prewait(w)
    BY <1>1, <1>5, <2>1 DEF Pop, Prewait, Goto
  <2>2. CASE Recheck(w)
    BY <1>1, <1>5, <1>7, <2>2 DEF Recheck, Goto
  <2>3. CASE CommitLoad(w) \/ CommitRetry(w) \/ CommitSetNext(w)
    BY <1>1, <1>5, <2>3 DEF CommitLoad, CommitRetry, CommitSetNext, Goto, CommitBranch
  <2>4. CASE Park(w) \/ SpuriousWake(w)
    BY <1>1, <1>5, <2>4 DEF Park, ParkReturn, ParkWait, SpuriousWake, Goto
  <2> QED
    BY <1>6, <2>1, <2>2, <2>3, <2>4

\* CancelWait: the thread goes back, and takes a signal only when the others
\* that wait have one each.
LEMMA WakeCancel ==
  ASSUME IInv, StackInv, WakeInv, NEW w \in Waiters, CancelWait(w)
  PROVE  WakeInv'
<1>1. /\ w \in Threads /\ TypeOK /\ pc \in [Threads -> WaiterPCs \cup NotifierPCs]
      /\ \A n \in Notifiers : n \in Threads /\ n # w
      /\ \A v \in Waiters : v \in Threads
  BY EventCountAssumption DEF Threads, TypeOK, IInv
<1>2. OnStack' = OnStack
  BY StackWaiter
<1>3. /\ pc[w] = "cancel" /\ pc' = [pc EXCEPT ![w] = "idle"]
      /\ state_'.signals = IF state_.waiters = state_.signals THEN state_.signals - 1 ELSE state_.signals
      /\ UNCHANGED <<notifyAll, val_, done>>
  BY DEF CancelWait, Goto, Cancelled, Counting, notifyVars, userVars
<1>4. Armed' = Armed /\ Committing' = Committing
  BY <1>1, <1>3 DEF Armed, Committing
<1>5. Cardinality(Back') = Cardinality(Back) + 1
  <2>1. Back' = Back \cup {w} /\ w \notin Back
    BY <1>1, <1>2, <1>3 DEF Back
  <2> QED
    BY <2>1, Counts, FS_AddElement
<1>6. CASE state_.waiters = state_.signals
  <2>1. Cardinality(Committing) + 1 <= Cardinality(Prewaiting)
    <3>1. w \in Prewaiting /\ w \notin Committing
      BY <1>3 DEF Prewaiting, Committing
    <3>2. Cardinality(Committing \cup {w}) = Cardinality(Committing) + 1 /\ Committing \cup {w} \subseteq Prewaiting
      BY <3>1, Counts, FS_AddElement
    <3> QED
      BY <3>2, Counts, FS_Subset
  <2>2. ~(state_'.signals < Cardinality(Committing'))
    BY <1>3, <1>4, <1>6, <2>1, Counts
  <2>3. Unanswered' => Unanswered
    BY <1>2, <2>2 DEF Unanswered
  <2> QED
    BY <1>1, <1>3, <1>4, <1>5, <1>6, <2>3, Counts DEF WakeInv
<1>7. CASE state_.waiters # state_.signals
  <2>1. Unanswered' => Unanswered
    BY <1>2, <1>3, <1>4, <1>7 DEF Unanswered
  <2> QED
    BY <1>1, <1>3, <1>4, <1>5, <1>7, <2>1, Counts DEF WakeInv
<1> QED
  BY <1>6, <1>7

\* CommitWait: the thread takes a signal and goes back.
LEMMA WakeConsume ==
  ASSUME IInv, StackInv, WakeInv, NEW w \in Waiters, CommitConsume(w)
  PROVE  WakeInv'
<1>1. /\ w \in Threads /\ TypeOK /\ pc \in [Threads -> WaiterPCs \cup NotifierPCs]
      /\ \A n \in Notifiers : n \in Threads /\ n # w
      /\ \A v \in Waiters : v \in Threads
  BY EventCountAssumption DEF Threads, TypeOK, IInv
<1>2. OnStack' = OnStack
  BY StackWaiter
<1>3. /\ pc[w] = "cas" /\ pc' = [pc EXCEPT ![w] = "idle"]
      /\ state_'.signals = state_.signals - 1 /\ state_.signals > 0
      /\ UNCHANGED <<notifyAll, val_, done>>
  BY DEF CommitConsume, Goto, Consumed, Counting, notifyVars, userVars
<1>4. Armed' = Armed
  BY <1>1, <1>3 DEF Armed
<1>5. Cardinality(Back') = Cardinality(Back) + 1
  <2>1. Back' = Back \cup {w} /\ w \notin Back
    BY <1>1, <1>2, <1>3 DEF Back
  <2> QED
    BY <2>1, Counts, FS_AddElement
<1>6. Cardinality(Committing') = Cardinality(Committing) - 1
  <2>1. Committing' = Committing \ {w} /\ w \in Committing
    BY <1>1, <1>3 DEF Committing
  <2> QED
    BY <2>1, Counts, FS_RemoveElement
<1>7. Unanswered' => Unanswered
  BY <1>2, <1>3, <1>6, Counts DEF Unanswered
<1> QED
  BY <1>1, <1>3, <1>4, <1>5, <1>7, Counts DEF WakeInv

\* CommitWait: the thread joins the stack, for there was no signal.
LEMMA WakePush ==
  ASSUME IInv, StackInv, WakeInv, NEW w \in Waiters, CommitPush(w)
  PROVE  WakeInv'
<1>1. /\ w \in Threads /\ TypeOK /\ pc \in [Threads -> WaiterPCs \cup NotifierPCs]
      /\ \A n \in Notifiers : n \in Threads /\ n # w
      /\ \A v \in Waiters : v \in Threads
  BY EventCountAssumption DEF Threads, TypeOK, IInv
<1>2. OnStack' = OnStack \cup {w}
  BY StackPush
<1>3. /\ pc[w] = "cas" /\ pc' = [pc EXCEPT ![w] = "park"]
      /\ state_'.signals = 0 /\ state_.signals = 0
      /\ UNCHANGED <<notifyAll, val_, done>>
  BY DEF CommitPush, Goto, Stacked, Counting, notifyVars, userVars
<1>4. Armed' = Armed /\ Back' = Back
  BY <1>1, <1>2, <1>3 DEF Armed, Back
<1>5. Unanswered
  <2>1. w \in Committing
    BY <1>3 DEF Committing
  <2>2. Cardinality(Committing) # 0
    BY <2>1, Counts, FS_EmptySet
  <2> QED
    BY <1>3, <2>2, Counts DEF Unanswered
<1> QED
  BY <1>1, <1>3, <1>4, <1>5 DEF WakeInv

\* A new item comes with a notification, and so does the closing.
LEMMA WakeEvent ==
  ASSUME IInv, StackInv, WakeInv, NEW n \in Notifiers, Push(n) \/ Close(n)
  PROVE  WakeInv'
<1>1. /\ n \in Threads /\ TypeOK /\ pc \in [Threads -> WaiterPCs \cup NotifierPCs]
      /\ notifyAll \in [Notifiers -> BOOLEAN]
      /\ \A m \in Notifiers : m \in Threads /\ m \notin Waiters
      /\ \A w \in Waiters : w \in Threads /\ w # n
  BY EventCountAssumption DEF Threads, TypeOK, IInv
<1>2. OnStack' = OnStack
  BY StackEvent
<1>3. /\ pc[n] = "idle" /\ pc' = [pc EXCEPT ![n] = "notify"] /\ UNCHANGED state_
  BY DEF Push, Close, Goto
<1>4. Back' = Back /\ Committing' = Committing
  BY <1>1, <1>2, <1>3 DEF Back, Committing
<1>5. Unanswered' => Unanswered
  BY <1>2, <1>3, <1>4 DEF Unanswered
<1>6. CASE Push(n)
  <2>1. ~done /\ done' = done /\ val_' = val_ + 1 /\ notifyAll' = [notifyAll EXCEPT ![n] = FALSE]
    BY <1>6 DEF Push
  <2>2. Armed' = Armed \cup {n} /\ n \notin Armed
    BY <1>1, <1>3, <2>1 DEF Armed
  <2>3. Cardinality(Armed') = Cardinality(Armed) + 1
    BY <2>2, Counts, FS_AddElement
  <2> QED
    BY <1>3, <1>4, <1>5, <2>1, <2>3, Counts DEF WakeInv
<1>7. CASE Close(n)
  <2>1. done' /\ val_' = val_ /\ notifyAll' = [notifyAll EXCEPT ![n] = TRUE]
    BY <1>7 DEF Close
  <2>2. Armed' = Armed
    BY <1>1, <1>3, <2>1 DEF Armed
  <2>3. notifyAll'[n] /\ pc'[n] = "notify"
    BY <1>1, <1>3, <2>1
  <2> QED
    BY <1>3, <1>4, <1>5, <2>1, <2>2, <2>3 DEF WakeInv
<1> QED
  BY <1>6, <1>7

\* Notify returns early only when nobody waits whom no signal turns back.
LEMMA WakeLoads ==
  ASSUME IInv, StackInv, WakeInv, NEW n \in Notifiers, NotifyLoad(n) \/ NotifyGetNext(n)
  PROVE  WakeInv'
<1>1. /\ n \in Threads /\ TypeOK /\ pc \in [Threads -> WaiterPCs \cup NotifierPCs]
      /\ \A m \in Notifiers : m \in Threads /\ m \notin Waiters
      /\ \A w \in Waiters : w \in Threads /\ w # n
  BY EventCountAssumption DEF Threads, TypeOK, IInv
<1>2. OnStack' = OnStack
  BY StackLoads
<1>3. /\ UNCHANGED <<state_, notifyAll, val_, done>>
      /\ \A t \in Threads \ {n} : pc'[t] = pc[t]
  BY <1>1 DEF NotifyLoad, NotifyGetNext, Goto, userVars
<1>4. Back' = Back /\ Committing' = Committing
  BY <1>1, <1>2, <1>3 DEF Back, Committing
<1>5. Unanswered' <=> Unanswered
  BY <1>2, <1>3, <1>4 DEF Unanswered
<1>6. CASE NotifyLoad(n) /\ pc'[n] = "idle"
  <2>1. NotifyBranch(n, state_) = "idle"
    BY <1>1, <1>6 DEF NotifyLoad, Goto
  <2>2. state_.stack = kStackMask /\ state_.waiters = state_.signals
    BY <2>1 DEF NotifyBranch, NoWaiters
  <2>3. ~Unanswered
    BY <2>2, ChainOfNone, Counts DEF Unanswered, OnStack
  <2> QED
    BY <1>5, <2>3 DEF WakeInv
<1>7. CASE NotifyGetNext(n) \/ (NotifyLoad(n) /\ pc'[n] # "idle")
  <2>1. /\ pc[n] \in {"notify", "getnext", "exchange"} /\ pc'[n] \in {"getnext", "exchange"}
        /\ pc'[n] = "getnext" => ~notifyAll[n]
    BY <1>1, <1>7 DEF NotifyLoad, NotifyGetNext, Goto, NotifyBranch
  <2>2. Armed' = Armed
    BY <1>1, <1>3, <2>1 DEF Armed
  <2>3. \A m \in Notifiers : notifyAll[m] /\ pc[m] \in {"notify", "exchange"} =>
          notifyAll'[m] /\ pc'[m] \in {"notify", "exchange"}
    BY <1>1, <1>3, <2>1
  <2> QED
    BY <1>3, <1>4, <1>5, <2>2, <2>3 DEF WakeInv
<1> QED
  BY <1>6, <1>7

\* A notification takes effect: a signal more, a sleeper less, or nobody waits.
LEMMA WakeExchange ==
  ASSUME IInv, StackInv, WakeInv, NEW n \in Notifiers, NotifyExchange(n)
  PROVE  WakeInv'
<1>1. /\ n \in Threads /\ TypeOK /\ pc \in [Threads -> WaiterPCs \cup NotifierPCs]
      /\ \A m \in Notifiers : m \in Threads /\ m \notin Waiters
      /\ \A w \in Waiters : w \in Threads /\ w # n
  BY EventCountAssumption DEF Threads, TypeOK, IInv
<1>2. /\ UNCHANGED <<notifyAll, val_, done>> /\ pc[n] = "exchange"
      /\ \A t \in Threads \ {n} : pc'[t] = pc[t]
  BY ExchangeFrame, ExchangeCases DEF userVars
<1>3. pc'[n] \notin {"notify", "getnext", "exchange"}
  BY ExchangeCases
<1>4. Committing' = Committing
  BY <1>1, <1>2 DEF Committing
<1>5. ~notifyAll[n] => Cardinality(Armed') = Cardinality(Armed) - 1
  <2> SUFFICES ASSUME ~notifyAll[n] PROVE Cardinality(Armed') = Cardinality(Armed) - 1
    OBVIOUS
  <2>1. Armed' = Armed \ {n} /\ n \in Armed
    BY <1>1, <1>2, <1>3 DEF Armed
  <2> QED
    BY <2>1, Counts, FS_RemoveElement
<1>6. ~notifyAll[n] /\ done /\ Unanswered =>
        \E m \in Notifiers : notifyAll'[m] /\ pc'[m] \in {"notify", "exchange"}
  BY <1>1, <1>2 DEF WakeInv
<1>7. CASE /\ ~notifyAll[n] /\ state_.signals < state_.waiters
           /\ state_' = Signaled(state_) /\ OnStack' = OnStack
  <2>1. state_'.signals = state_.signals + 1
    BY <1>7 DEF Signaled, Counting
  <2>2. Back' = Back
    BY <1>1, <1>2, <1>7 DEF Back
  <2>3. Unanswered' => Unanswered
    BY <1>4, <1>7, <2>1, Counts DEF Unanswered
  <2> QED
    BY <1>2, <1>5, <1>6, <1>7, <2>1, <2>2, <2>3, Counts DEF WakeInv
<1>8. CASE notifyAll[n] /\ state_' = ReleasedAll(state_) /\ OnStack' = {}
  <2>1. state_'.signals = state_.waiters
    BY <1>8 DEF ReleasedAll, Counting
  <2>2. ~Unanswered'
    BY <1>4, <1>8, <2>1, Counts DEF Unanswered
  <2> QED
    BY <2>2 DEF WakeInv
<1>9. CASE /\ ~notifyAll[n] /\ state_.signals = state_.waiters
           /\ \E l \in Link : state_' = Popped(state_, l)
           /\ \E w \in OnStack : OnStack' = OnStack \ {w}
  <2>1. state_'.signals = state_.signals
    BY <1>9 DEF Popped, Counting
  <2>2. PICK w \in OnStack : OnStack' = OnStack \ {w}
    BY <1>9
  <2>3. w \in Waiters /\ pc[w] \in {"park", "parked"}
    BY DEF StackInv, Found, Asleep
  <2>4. Back' = Back \cup {w} /\ w \notin Back
    BY <1>1, <1>2, <2>2, <2>3 DEF Back
  <2>5. Cardinality(Back') = Cardinality(Back) + 1
    BY <2>4, Counts, FS_AddElement
  <2>6. Unanswered
    BY DEF Unanswered
  <2> QED
    BY <1>2, <1>5, <1>6, <1>9, <2>1, <2>5, <2>6, Counts DEF WakeInv
<1> QED
  BY <1>7, <1>8, <1>9, StackExchange

\* What Notify does after its exchange.
LEMMA WakeUnpark ==
  ASSUME IInv, StackInv, WakeInv, NEW n \in Notifiers,
         Detach(n) \/ UnparkNext(n) \/ UnparkSignal(n) \/ UnparkWake(n)
  PROVE  WakeInv'
<1>1. /\ n \in Threads /\ TypeOK /\ pc \in [Threads -> WaiterPCs \cup NotifierPCs] /\ SlotsNamed
      /\ \A m \in Notifiers : m \in Threads /\ m \notin Waiters
      /\ \A w \in Waiters : w \in Threads /\ w # n
      /\ val_ \in Nat
  BY EventCountAssumption DEF Threads, TypeOK, IInv
<1>2. OnStack' = OnStack
  BY StackDetach, StackUnparkNext, StackUnparkSignal, StackUnparkWake
<1>3. /\ pc[n] \in {"detach", "unpark", "signal", "wake"}
      /\ UNCHANGED <<state_, notifyAll, val_, done>>
  BY DEF Detach, UnparkNext, UnparkSignal, UnparkWake, notifyVars, userVars
<1>4. /\ pc'[n] \in {"idle", "unpark", "signal", "wake"}
      /\ \A m \in Notifiers \ {n} : pc'[m] = pc[m]
      /\ \A w \in Waiters : pc'[w] = pc[w] \/ (pc[w] = "parked" /\ pc'[w] = "park")
  <2>1. CASE Detach(n) \/ UnparkNext(n) \/ UnparkSignal(n)
    BY <1>1, <2>1 DEF Detach, UnparkNext, UnparkSignal, Goto
  <2>2. CASE UnparkWake(n)
    BY <1>1, <2>2 DEF UnparkWake, SlotsNamed
  <2> QED
    BY <2>1, <2>2
<1>5. Back' = Back /\ Committing' = Committing /\ Armed' = Armed
  BY <1>1, <1>2, <1>3, <1>4 DEF Back, Committing, Armed
<1> QED
  BY <1>1, <1>2, <1>3, <1>4, <1>5, WakeQuiet

\* Every step keeps the count.
LEMMA NextWakeInv == IInv /\ StackInv /\ WakeInv /\ [Next]_vars => WakeInv'
<1> SUFFICES ASSUME IInv, StackInv, WakeInv, [Next]_vars PROVE WakeInv'
  OBVIOUS
<1>1. CASE UNCHANGED vars
  <2>1. OnStack' = OnStack /\ Back' = Back /\ Committing' = Committing /\ Armed' = Armed
    BY <1>1 DEF OnStack, Back, Committing, Armed, vars, waiterVars, notifyVars, userVars
  <2>2. val_ \in Nat
    BY DEF IInv, TypeOK
  <2> QED
    BY <1>1, <2>1, <2>2, WakeQuiet DEF vars, notifyVars, userVars
<1>2. ASSUME NEW w \in Waiters, WaiterStep(w) \/ SpuriousWake(w) PROVE WakeInv'
  BY <1>2, WakeWaiter, WakeCancel, WakeConsume, WakePush DEF WaiterStep, Commit
<1>3. ASSUME NEW n \in Notifiers, Push(n) \/ Close(n) \/ Notify(n) PROVE WakeInv'
  BY <1>3, WakeEvent, WakeLoads, WakeExchange, WakeUnpark DEF Notify
<1> QED
  BY <1>1, <1>2, <1>3 DEF Next, Terminating

\* When no Notify is in progress, the count says what NoLostWakeup says.
LEMMA WakeInvNoLostWakeup == IInv /\ StackInv /\ WakeInv => NoLostWakeup
<1> SUFFICES ASSUME IInv, StackInv, WakeInv, Notifying = {},
                    \/ Asleep # {}
                    \/ (IF state_.signals < Cardinality(Committing) THEN state_.signals
                        ELSE Cardinality(Committing)) < Cardinality(Committing)
             PROVE  /\ val_ <= Cardinality(WillLook)
                               + (IF state_.signals < Cardinality(Committing) THEN state_.signals
                                  ELSE Cardinality(Committing))
                    /\ ~done
  BY DEF NoLostWakeup
<1>1. \A n \in Notifiers : pc[n] = "idle"
  BY DEF Notifying
<1>2. Asleep = OnStack /\ Armed = {}
  BY <1>1 DEF StackInv, Found, Holds, TakenOf, Armed
<1>3. Unanswered
  BY <1>2, Counts DEF Unanswered
<1>4. ~done /\ val_ <= Cardinality(Back) + state_.signals
  <2>1. Cardinality(Armed) = 0
    BY <1>2, FS_EmptySet
  <2> QED
    BY <1>1, <1>3, <2>1, Counts DEF WakeInv
<1> DEFINE Others == Prewaiting \ Committing
<1>5. /\ Back \cup Others \subseteq WillLook /\ Back \cap Others = {}
      /\ IsFiniteSet(WillLook) /\ IsFiniteSet(Others)
  <2>1. Back \cup Others \subseteq WillLook
    BY <1>2 DEF Back, Prewaiting, WillLook, Committing, Asleep
  <2>2. Back \cap Others = {}
    BY DEF Back, Prewaiting
  <2>3. IsFiniteSet(WillLook) /\ IsFiniteSet(Others)
    BY EventCountAssumption, FS_Subset DEF WillLook, Prewaiting
  <2> QED
    BY <2>1, <2>2, <2>3
<1>6. Cardinality(Back) + Cardinality(Others) <= Cardinality(WillLook)
  <2>1. IsFiniteSet(Back \cup Others) /\ Cardinality(Back \cup Others) = Cardinality(Back) + Cardinality(Others)
    <3> HIDE DEF Others
    <3>1. Cardinality(Back \cup Others) = Cardinality(Back) + Cardinality(Others) - Cardinality(Back \cap Others)
          /\ IsFiniteSet(Back \cup Others)
      BY <1>5, Counts, FS_Union
    <3>2. Cardinality(Back \cap Others) = 0
      BY <1>5, FS_EmptySet
    <3>3. Cardinality(Back) \in Nat /\ Cardinality(Others) \in Nat
      BY <1>5, Counts, FS_CardinalityType
    <3> QED
      BY <3>1, <3>2, <3>3
  <2> HIDE DEF Others
  <2> QED
    BY <1>5, <2>1, FS_Subset
<1>7. Cardinality(Others) = Cardinality(Prewaiting) - Cardinality(Committing)
  <2>1. Cardinality(Others) = Cardinality(Prewaiting) - Cardinality(Prewaiting \cap Committing)
    BY Counts, FS_Difference
  <2>2. Prewaiting \cap Committing = Committing
    BY Counts
  <2> QED
    BY <2>1, <2>2
<1>8. Cardinality(Others) \in Nat /\ Cardinality(WillLook) \in Nat
  BY <1>5, FS_CardinalityType
<1> HIDE DEF Others
<1> QED
  BY <1>4, <1>6, <1>7, <1>8, Counts

\* No notification is lost: with no Notify in progress, nobody sleeps while an
\* item has no thread that comes for it, or after the closing.
THEOREM NoWakeupLost == Spec => []NoLostWakeup
<1>1. Init => WakeInv
  <2> SUFFICES ASSUME Init PROVE WakeInv
    OBVIOUS
  <2>1. IInv /\ StackInv
    BY InitIInv, InitStackInv
  <2>2. val_ = 0 /\ ~done
    BY DEF Init
  <2> QED
    BY <2>1, <2>2, Counts DEF WakeInv
<1>2. (IInv /\ StackInv /\ WakeInv) /\ [Next]_vars => (IInv /\ StackInv /\ WakeInv)'
  BY NextIInv, NextStackInv, NextWakeInv
<1>3. Init => IInv /\ StackInv /\ WakeInv
  BY <1>1, InitIInv, InitStackInv
<1> QED
  BY <1>2, <1>3, WakeInvNoLostWakeup, PTL DEF Spec
-----------------------------------------------------------------------------
(***************************************************************************)
(* The event count implements the atomic one.                              *)
(***************************************************************************)
\* The abstract variable asleep is the stack.
LEMMA AsleepIsOnStack == Chain(state_.stack) = OnStack /\ Chain(state_.stack)' = OnStack'
<1>1. Chain(state_.stack) = OnStack
  BY Zenon DEF Chain, ChainOf, OnStack
<1>2. Chain(state_.stack)' = OnStack'
  BY Zenon DEF Chain, ChainOf, OnStack
<1> QED
  BY <1>1, <1>2

\* The atomic event count counts alike.
LEMMA SameCardinality == \A S : Atomic!Cardinality(S) = Cardinality(S)
  BY Zenon DEF Atomic!Cardinality, Atomic!IsFiniteSet, Cardinality, IsFiniteSet

\* The steps between the linearization points do nothing to the atomic object.
LEMMA AtomicStutters ==
  ASSUME Prewaiting' = Prewaiting, state_'.signals = state_.signals, OnStack' = OnStack
  PROVE  UNCHANGED Atomic!ecVars
BY AsleepIsOnStack DEF Atomic!ecVars

\* Prewait, CancelWait and the two ends of CommitWait.
LEMMA AtomicWaits ==
  ASSUME IInv, StackInv, NEW w \in Waiters,
         Prewait(w) \/ CancelWait(w) \/ CommitConsume(w) \/ CommitPush(w)
  PROVE  Atomic!NextEC
<1>1. /\ w \in Threads /\ TypeOK /\ pc \in [Threads -> WaiterPCs \cup NotifierPCs]
      /\ \A v \in Waiters : v \in Threads
      /\ state_.waiters = Cardinality(Prewaiting) /\ state_.signals \in Nat /\ state_.waiters \in Nat
  BY Counts DEF Threads, TypeOK, IInv
<1>2. CASE Prewait(w)
  <2>1. pc[w] = "prewait" /\ pc' = [pc EXCEPT ![w] = "recheck"] /\ state_'.signals = state_.signals
    BY <1>2 DEF Prewait, Goto, Prewaited, Counting
  <2>2. OnStack' = OnStack
    BY <1>2, StackWaiter
  <2>3. w \notin Prewaiting /\ Prewaiting' = Prewaiting \cup {w} /\ w \notin OnStack
    BY <1>1, <2>1 DEF Prewaiting, StackInv, Found, Asleep
  <2>4. Atomic!Prewait(w)
    BY <2>1, <2>2, <2>3, AsleepIsOnStack DEF Atomic!Prewait
  <2> QED
    BY <2>4 DEF Atomic!NextEC
<1>3. CASE CancelWait(w)
  <2>1. /\ pc[w] = "cancel" /\ pc' = [pc EXCEPT ![w] = "idle"]
        /\ state_'.signals = IF state_.waiters = state_.signals THEN state_.signals - 1 ELSE state_.signals
    BY <1>3 DEF CancelWait, Goto, Cancelled, Counting
  <2>2. OnStack' = OnStack
    BY <1>3, StackWaiter
  <2>3. w \in Prewaiting /\ Prewaiting' = Prewaiting \ {w}
    BY <1>1, <2>1 DEF Prewaiting
  <2>4. Atomic!CancelWait(w)
    BY <1>1, <2>1, <2>2, <2>3, AsleepIsOnStack, SameCardinality DEF Atomic!CancelWait
  <2> QED
    BY <2>4 DEF Atomic!NextEC
<1>4. CASE CommitConsume(w)
  <2>1. /\ pc[w] = "cas" /\ pc' = [pc EXCEPT ![w] = "idle"]
        /\ state_.signals > 0 /\ state_'.signals = state_.signals - 1
    BY <1>4 DEF CommitConsume, Goto, Consumed, Counting
  <2>2. OnStack' = OnStack
    BY <1>4, StackWaiter
  <2>3. w \in Prewaiting /\ Prewaiting' = Prewaiting \ {w}
    BY <1>1, <2>1 DEF Prewaiting
  <2>4. Atomic!CommitReturns(w)
    BY <2>1, <2>2, <2>3, AsleepIsOnStack, SameCardinality DEF Atomic!CommitReturns
  <2> QED
    BY <2>4 DEF Atomic!NextEC
<1>5. CASE CommitPush(w)
  <2>1. /\ pc[w] = "cas" /\ pc' = [pc EXCEPT ![w] = "park"]
        /\ state_.signals = 0 /\ state_'.signals = 0
    BY <1>5 DEF CommitPush, Goto, Stacked, Counting
  <2>2. OnStack' = OnStack \cup {w}
    BY <1>5, StackPush
  <2>3. w \in Prewaiting /\ Prewaiting' = Prewaiting \ {w}
    BY <1>1, <2>1 DEF Prewaiting
  <2>4. Atomic!CommitSleeps(w)
    BY <2>1, <2>2, <2>3, AsleepIsOnStack, SameCardinality DEF Atomic!CommitSleeps
  <2> QED
    BY <2>4 DEF Atomic!NextEC
<1> QED
  BY <1>2, <1>3, <1>4, <1>5

\* The exchange of Notify.
LEMMA AtomicNotifies ==
  ASSUME IInv, StackInv, NEW n \in Notifiers, NotifyExchange(n)
  PROVE  Atomic!NextEC
<1>1. Prewaiting' = Prewaiting
  <2>1. \A w \in Waiters : w \in Threads \ {n}
    BY EventCountAssumption DEF Threads
  <2> QED
    BY <2>1, ExchangeFrame DEF Prewaiting
<1>2. state_.waiters = Cardinality(Prewaiting)
  BY Counts
<1>3. CASE /\ ~notifyAll[n] /\ state_.signals < state_.waiters
           /\ state_' = Signaled(state_) /\ OnStack' = OnStack
  <2>1. state_'.signals = state_.signals + 1
    BY <1>3 DEF Signaled, Counting
  <2>2. Atomic!NotifyPreWaiter
    BY <1>1, <1>2, <1>3, <2>1, AsleepIsOnStack, SameCardinality DEF Atomic!NotifyPreWaiter
  <2> QED
    BY <2>2 DEF Atomic!NextEC
<1>4. CASE notifyAll[n] /\ state_' = ReleasedAll(state_) /\ OnStack' = {}
  <2>1. state_'.signals = state_.waiters
    BY <1>4 DEF ReleasedAll, Counting
  <2>2. Atomic!NotifyAll
    BY <1>1, <1>2, <1>4, <2>1, AsleepIsOnStack, SameCardinality DEF Atomic!NotifyAll
  <2> QED
    BY <2>2 DEF Atomic!NextEC
<1>5. CASE /\ ~notifyAll[n] /\ state_.signals = state_.waiters
           /\ \E l \in Link : state_' = Popped(state_, l)
           /\ \E w \in OnStack : OnStack' = OnStack \ {w}
  <2>1. state_'.signals = state_.signals
    BY <1>5 DEF Popped, Counting
  <2>2. PICK w \in OnStack : OnStack' = OnStack \ {w}
    BY <1>5
  <2>3. w \in Waiters
    BY DEF StackInv, Found, Asleep
  <2>4. Atomic!NotifySleeper(w)
    BY <1>1, <1>2, <1>5, <2>1, <2>2, AsleepIsOnStack, SameCardinality DEF Atomic!NotifySleeper
  <2> QED
    BY <2>3, <2>4 DEF Atomic!NextEC
<1> QED
  BY <1>3, <1>4, <1>5, StackExchange

\* Every step is a step of the atomic event count, or none.
LEMMA AtomicStep == IInv /\ StackInv /\ [Next]_vars => [Atomic!NextEC]_(Atomic!ecVars)
<1> SUFFICES ASSUME IInv, StackInv, [Next]_vars PROVE Atomic!NextEC \/ UNCHANGED Atomic!ecVars
  OBVIOUS
<1>0. /\ TypeOK /\ SlotsNamed /\ pc \in [Threads -> WaiterPCs \cup NotifierPCs]
      /\ \A n \in Notifiers : n \in Threads /\ n \notin Waiters
      /\ \A w \in Waiters : w \in Threads
  BY EventCountAssumption DEF IInv, TypeOK, Threads
<1>1. CASE UNCHANGED vars
  BY <1>1, AtomicStutters DEF OnStack, Prewaiting, vars, waiterVars
<1>2. ASSUME NEW w \in Waiters, WaiterStep(w) \/ SpuriousWake(w)
      PROVE  Atomic!NextEC \/ UNCHANGED Atomic!ecVars
  <2>1. CASE Prewait(w) \/ CancelWait(w) \/ CommitConsume(w) \/ CommitPush(w)
    BY <2>1, AtomicWaits
  <2>2. CASE \/ Pop(w) \/ PopEmpty(w) \/ Recheck(w)
             \/ CommitLoad(w) \/ CommitRetry(w) \/ CommitSetNext(w)
             \/ Park(w) \/ SpuriousWake(w)
    <3>1. OnStack' = OnStack
      BY <2>2, StackWaiter, StackSetNext
    <3>2. /\ pc'[w] \in PrewaitPCs <=> pc[w] \in PrewaitPCs
          /\ \A v \in Waiters \ {w} : pc'[v] = pc[v]
          /\ state_' = state_
      BY <1>0, <2>2 DEF Pop, PopEmpty, Recheck, CommitLoad, CommitRetry, CommitSetNext, CommitBranch,
         Park, ParkReturn, ParkWait, SpuriousWake, Goto, PrewaitPCs
    <3>3. Prewaiting' = Prewaiting
      BY <3>2, PrewaitingSame
    <3> QED
      BY <3>1, <3>2, <3>3, AtomicStutters
  <2> QED
    BY <1>2, <2>1, <2>2 DEF WaiterStep, Commit
<1>3. ASSUME NEW n \in Notifiers, Push(n) \/ Close(n) \/ Notify(n)
      PROVE  Atomic!NextEC \/ UNCHANGED Atomic!ecVars
  <2>1. CASE NotifyExchange(n)
    BY <2>1, AtomicNotifies
  <2>2. CASE \/ Push(n) \/ Close(n) \/ NotifyLoad(n) \/ NotifyGetNext(n)
             \/ Detach(n) \/ UnparkNext(n) \/ UnparkSignal(n) \/ UnparkWake(n)
    <3>1. OnStack' = OnStack
      BY <2>2, StackEvent, StackLoads, StackDetach, StackUnparkNext, StackUnparkSignal, StackUnparkWake
    <3>2. state_' = state_
      BY <2>2 DEF Push, Close, NotifyLoad, NotifyGetNext, Detach, UnparkNext, UnparkSignal, UnparkWake
    <3>3. \A w \in Waiters : pc'[w] = pc[w] \/ (pc[w] = "parked" /\ pc'[w] = "park")
      <4>1. CASE UnparkWake(n)
        BY <1>0, <4>1 DEF UnparkWake, SlotsNamed
      <4>2. CASE ~UnparkWake(n)
        BY <1>0, <2>2, <4>2 DEF Push, Close, NotifyLoad, NotifyGetNext, Detach, UnparkNext, UnparkSignal, Goto
      <4> QED
        BY <4>1, <4>2
    <3>4. Prewaiting' = Prewaiting
      BY <3>3, PrewaitingSame DEF PrewaitPCs
    <3> QED
      BY <3>1, <3>2, <3>4, AtomicStutters
  <2> QED
    BY <1>3, <2>1, <2>2 DEF Notify
<1> QED
  BY <1>1, <1>2, <1>3 DEF Next, Terminating

\* The packed word with its links and epochs implements the atomic event count.
THEOREM ImplementsAtomic == Spec => AtomicSpec
<1>1. Init => Atomic!InitEC
  <2> SUFFICES ASSUME Init PROVE Atomic!InitEC
    OBVIOUS
  <2>1. state_.stack = kStackMask /\ state_.signals = 0
    BY DEF Init, EmptyWord
  <2>2. OnStack = {}
    BY <2>1, ChainOfNone DEF OnStack
  <2>3. Prewaiting = {}
    BY DEF Init, Prewaiting, Threads
  <2> QED
    BY <2>1, <2>2, <2>3, AsleepIsOnStack DEF Atomic!InitEC
<1> QED
  BY <1>1, AtomicStep, StackInvariance, PTL DEF Spec, AtomicSpec, Atomic!SpecEC
=============================================================================

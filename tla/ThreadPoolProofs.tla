-------------------------- MODULE ThreadPoolProofs --------------------------
(***************************************************************************)
(* The counters of Eigen's thread pool are exact, a queued task always has *)
(* a worker that will look for it, no task is lost or run twice, and a     *)
(* pool that is destroyed has run all of them: for any number of workers   *)
(* and tasks and any program that uses the pool.                           *)
(***************************************************************************)
EXTENDS ThreadPool, FiniteSetTheorems, TLAPS

-----------------------------------------------------------------------------
(* The inductive invariant.                                                *)

Frames == [task : Tasks, kids : SUBSET Tasks]

Types == TypeOK /\ scenario \in Scenarios /\ signals <= Cardinality(pre)

\* Places of main only, of workers only, and of both
OfMain == {"partition", "main", "cancel.done", "cancel.notify", "flush", "flush.stuck",
           "destroy.notify", "join", "destroyed"}
OfBoth == {"run", "required", "notify"}

Places ==
  /\ pc[main] \in OfMain \cup OfBoth
  /\ \A w \in Workers : pc[w] \notin OfMain

\* Who runs or schedules is inside of a task - or is main - and tasks on a stack have started.
Inside ==
  /\ \A t \in Threads : pc[t] = "run" => stack[t] # <<>>
  /\ \A w \in Workers : pc[w] \in OfBoth => stack[w] # <<>>
  /\ \A t \in Threads : \A i \in 1 .. Len(stack[t]) : stack[t][i].task \in started

\* What the event count knows of a worker agrees with where it is.
PreWaiting == {"check", "cancelwait", "block", "done", "all", "cancelall", "commit"}
Known ==
  \A w \in Workers : /\ w \in pre <=> pc[w] \in PreWaiting
                     /\ w \in asleep => pc[w] = "parked"

\* Nothing is scheduled from outside once the pool is being destroyed, and workers leave a pool
\* that is not cancelled only then.
Closing ==
  /\ done_ /\ ~cancelled_ => pc[main] \in {"destroy.notify", "join", "destroyed"}
  /\ pc[main] \in {"flush", "cancel.done", "cancel.notify"} => cancelled_
  /\ \A w \in Workers :
       /\ pc[w] \in {"all", "cancelall", "recheck", "unblock", "notifyall", "exit.stable"} => done_
       /\ pc[w] = "exit" => cancelled_

\* The front of a queue is its owner's alone until the destructor of a cancelled pool flushes it.
Fronts ==
  /\ front_ \in [Workers -> {"owned", "shared", "astray"}]
  /\ \A q \in Workers : front_[q] # "owned" => Flushed

\* A worker that sleeps, has left, or will do so without looking at another queue with a task
Lost(w) ==
  \/ w \in asleep
  \/ pc[w] \in {"block", "done", "all", "commit", "notifyall", "exit", "exit.stable"}
  \/ pc[w] \in {"check", "recheck"} /\ \A v \in todo[w] : queue[v] = <<>>

Looked ==
  \/ cancelled_
  \/ \A v \in Workers : queue[v] = <<>>
  \/ \E t \in Threads : pc[t] \in {"required", "notify"}
  \/ signals > 0
  \/ \E w \in Workers : ~Lost(w)

PInv == Types /\ Places /\ Inside /\ Known /\ Closing /\ Fronts /\ CountersExact /\ Looked

-----------------------------------------------------------------------------
(* What a scenario is, and counting.                                       *)

LEMMA Pool ==
  ASSUME scenario \in Scenarios
  PROVE  /\ IsFiniteSet(Workers) /\ Workers # {} /\ Workers \subseteq Waiters /\ main \notin Workers
         /\ IsFiniteSet(Threads) /\ main \in Threads /\ Workers \subseteq Threads
         /\ \A t \in Threads : t # main => t \in Workers
         /\ \A w \in Workers : Partition[w] \subseteq Workers
         /\ MainTasks \subseteq Tasks /\ \A k \in Tasks : Children[k] \subseteq Tasks
         /\ spin_count_ \in Nat /\ kSize \in Nat /\ kSize > 0
<1>1. /\ IsFiniteSet(Workers) /\ Workers # {} /\ Workers \subseteq Waiters
      /\ Partition \in [Workers -> (SUBSET Workers) \ {{}}]
      /\ MainTasks \subseteq Tasks /\ Children \in [Tasks -> SUBSET Tasks]
      /\ spin_count_ \in Nat /\ kSize \in Nat \ {0}
  BY ThreadPoolAssumption DEF Workers, Partition, MainTasks, Children, spin_count_, kSize
<1>2. main \notin Workers BY <1>1, ThreadPoolAssumption
<1>3. IsFiniteSet(Threads) BY <1>1, FS_AddElement DEF Threads
<1> QED BY <1>1, <1>2, <1>3 DEF Threads

LEMMA Constant ==
  ASSUME UNCHANGED scenario
  PROVE  Workers' = Workers /\ Threads' = Threads
BY DEF Workers, Threads

\* A set that gains or loses a single point
LEMMA CountMove ==
  ASSUME NEW A, NEW B, NEW c, IsFiniteSet(A), A \ {c} = B \ {c}
  PROVE  /\ Cardinality(A) \in Nat /\ Cardinality(B) \in Nat
         /\ Cardinality(B) = Cardinality(A) + (IF c \in B THEN 1 ELSE 0) - (IF c \in A THEN 1 ELSE 0)
<1>1. IsFiniteSet(A \ {c}) /\ Cardinality(A \ {c}) \in Nat BY FS_Subset, FS_CardinalityType
<1>2. Cardinality((A \ {c}) \cup {c}) = Cardinality(A \ {c}) + 1 BY <1>1, FS_AddElement
<1>3. Cardinality(A) = IF c \in A THEN Cardinality(A \ {c}) + 1 ELSE Cardinality(A \ {c})
  <2>1. CASE c \in A
    <3>1. (A \ {c}) \cup {c} = A BY <2>1
    <3> QED BY <2>1, <3>1, <1>2
  <2>2. CASE c \notin A
    <3>1. A \ {c} = A BY <2>2
    <3> QED BY <2>2, <3>1
  <2> QED BY <2>1, <2>2
<1>4. Cardinality(B) = IF c \in B THEN Cardinality(A \ {c}) + 1 ELSE Cardinality(A \ {c})
  <2>1. CASE c \in B
    <3>1. (A \ {c}) \cup {c} = B BY <2>1
    <3> QED BY <2>1, <3>1, <1>2
  <2>2. CASE c \notin B
    <3>1. A \ {c} = B BY <2>2
    <3> QED BY <2>2, <3>1
  <2> QED BY <2>1, <2>2
<1> QED BY <1>1, <1>3, <1>4

\* A thread that goes from one place to another, and the threads at some places
LEMMA Moves ==
  ASSUME scenario \in Scenarios, UNCHANGED scenario, pc \in [Threads -> Labels],
         NEW t \in Threads, NEW l \in Labels, Goto(t, l)
  PROVE  /\ pc' \in [Threads' -> Labels] /\ pc'[t] = l
         /\ \A s \in Threads : s # t => pc'[s] = pc[s]
         /\ \A P : /\ Cardinality(At(P)) \in Nat
                   /\ Cardinality(At(P)') = Cardinality(At(P))
                        + (IF l \in P THEN 1 ELSE 0) - (IF pc[t] \in P THEN 1 ELSE 0)
<1>1. /\ pc' \in [Threads' -> Labels] /\ pc'[t] = l
      /\ \A s \in Threads : s # t => pc'[s] = pc[s]
  BY Constant DEF Goto
<1>2. ASSUME NEW P
      PROVE  /\ Cardinality(At(P)) \in Nat
             /\ Cardinality(At(P)') = Cardinality(At(P))
                  + (IF l \in P THEN 1 ELSE 0) - (IF pc[t] \in P THEN 1 ELSE 0)
  <2>1. IsFiniteSet(At(P)) /\ At(P) \ {t} = At(P)' \ {t}
    BY <1>1, Pool, Constant, FS_Subset DEF At
  <2>2. (t \in At(P) <=> pc[t] \in P) /\ (t \in At(P)' <=> l \in P) BY <1>1, Constant DEF At
  <2> QED BY <2>1, <2>2, CountMove
<1> QED BY <1>1, <1>2

\* Nobody moves.
LEMMA Stays ==
  ASSUME scenario \in Scenarios, UNCHANGED <<scenario, pc>>
  PROVE  \A P : At(P)' = At(P) /\ Cardinality(At(P)) \in Nat
<1>1. ASSUME NEW P PROVE At(P)' = At(P) /\ Cardinality(At(P)) \in Nat
  BY Pool, Constant, FS_Subset, FS_CardinalityType DEF At
<1> QED BY <1>1

-----------------------------------------------------------------------------
(* The types.                                                              *)

ECTypes ==
  /\ pre \subseteq Workers /\ asleep \subseteq Workers
  /\ signals \in Nat /\ signals <= Cardinality(pre)

\* The event count keeps its types, whatever is called.
LEMMA ECKept ==
  ASSUME scenario \in Scenarios, UNCHANGED scenario, ECTypes, NEW w \in Workers,
         \/ Prewait(w) \/ CancelWait(w) \/ CommitReturns(w) \/ CommitSleeps(w)
         \/ NotifyOne \/ NotifyAll \/ UNCHANGED ecVars
  PROVE  ECTypes' /\ Cardinality(pre) \in Nat
<1>1. IsFiniteSet(pre) /\ Cardinality(pre) \in Nat /\ Workers' = Workers
  BY Pool, Constant, FS_Subset, FS_CardinalityType DEF ECTypes
<1>2. CASE Prewait(w)
  <2>1. Cardinality(pre \cup {w}) = Cardinality(pre) + 1 BY <1>1, <1>2, FS_AddElement DEF Prewait
  <2> QED BY <1>1, <1>2, <2>1 DEF Prewait, ECTypes
<1>3. CASE CancelWait(w) \/ CommitReturns(w) \/ CommitSleeps(w)
  <2>1. w \in pre BY <1>3 DEF CancelWait, CommitReturns, CommitSleeps
  <2>2. /\ Cardinality(pre \ {w}) = Cardinality(pre) - 1
        /\ Cardinality(pre \ {w}) \in Nat
    BY <1>1, <2>1, FS_RemoveElement, FS_CardinalityType
  <2> QED BY <1>1, <1>3, <2>2 DEF CancelWait, CommitReturns, CommitSleeps, ECTypes
<1>4. CASE NotifyOne \/ NotifyAll \/ UNCHANGED ecVars
  BY <1>1, <1>4 DEF NotifyOne, NotifyPreWaiter, NotifySleeper, NotifyAll, ecVars, ECTypes
<1> QED BY <1>2, <1>3, <1>4

RestTypes ==
  /\ queue \in [Workers -> Seq(Tasks)]
  /\ done_ \in BOOLEAN /\ cancelled_ \in BOOLEAN
  /\ steal_partition \in [Workers -> SUBSET Workers]
  /\ pc \in [Threads -> Labels]
  /\ stack \in [Threads -> Seq(Frames)]
  /\ task \in [Workers -> Seq(Tasks)]
  /\ todo \in [Threads -> SUBSET Workers]
  /\ spins \in [Workers -> Nat]
  /\ unscheduled \subseteq Tasks /\ started \subseteq Tasks /\ ended \subseteq started

\* What a task does on top of the stack of a thread
LEMMA EnterTypes ==
  ASSUME scenario \in Scenarios, UNCHANGED scenario, RestTypes, Inside,
         NEW t \in Threads, NEW k \in Tasks, NEW st \in [Threads -> Seq(Frames)],
         \A s \in Threads : \A i \in 1 .. Len(st[s]) : st[s][i].task \in started,
         stack' = [st EXCEPT ![t] = <<Frame(k)>> \o @],
         started' = started \cup {k}
  PROVE  /\ stack' \in [Threads -> Seq(Frames)] /\ started' \subseteq Tasks
         /\ stack'[t] # <<>> /\ \A s \in Threads : s # t => stack'[s] = st[s]
         /\ \A s \in Threads : \A i \in 1 .. Len(stack'[s]) : stack'[s][i].task \in started'
<1>1. Frame(k) \in Frames BY Pool DEF Frame, Frames
<1>2. <<Frame(k)>> \o st[t] \in Seq(Frames) BY <1>1
<1>3. /\ Len(<<Frame(k)>> \o st[t]) = Len(st[t]) + 1
      /\ (<<Frame(k)>> \o st[t])[1] = Frame(k)
      /\ \A i \in 2 .. Len(st[t]) + 1 : (<<Frame(k)>> \o st[t])[i] = st[t][i - 1]
  BY <1>1
<1>4. /\ stack' \in [Threads -> Seq(Frames)] /\ stack'[t] = <<Frame(k)>> \o st[t]
      /\ \A s \in Threads : s # t => stack'[s] = st[s]
  BY <1>2
<1>5. Frame(k).task = k BY DEF Frame
<1>6. ASSUME NEW i \in 1 .. Len(stack'[t]) PROVE stack'[t][i].task \in started'
  <2>1. CASE i = 1 BY <2>1, <1>3, <1>4, <1>5
  <2>2. CASE i # 1
    <3>1. i \in 2 .. Len(st[t]) + 1 /\ i - 1 \in 1 .. Len(st[t]) BY <2>2, <1>3, <1>4
    <3> QED BY <3>1, <1>3, <1>4
  <2> QED BY <2>1, <2>2
<1>7. stack'[t] # <<>> BY <1>3, <1>4
<1> QED BY <1>4, <1>6, <1>7 DEF RestTypes

\* A queue without its i-th task
LEMMA WithoutOne ==
  ASSUME NEW s \in Seq(Tasks), NEW i \in 1 .. Len(s)
  PROVE  /\ s[i] \in Tasks
         /\ Without(s, i) \in Seq(Tasks) /\ Len(Without(s, i)) = Len(s) - 1
         /\ \A j \in 1 .. Len(s) - 1 : Without(s, i)[j] = s[IF j < i THEN j ELSE j + 1]
<1> DEFINE n == Len(s) - 1
           f == [j \in 1 .. n |-> s[IF j < i THEN j ELSE j + 1]]
<1>1. Len(s) \in Nat /\ n \in Nat /\ \A j \in 1 .. Len(s) : s[j] \in Tasks OBVIOUS
<1>2. \A j \in 1 .. n : (IF j < i THEN j ELSE j + 1) \in 1 .. Len(s) BY <1>1
<1>3. f \in [1 .. n -> Tasks] BY <1>1, <1>2
<1>4. \A m \in Nat : \A g \in [1 .. m -> Tasks] : g \in Seq(Tasks) /\ Len(g) = m OBVIOUS
<1>5. f \in Seq(Tasks) /\ Len(f) = n
  <2> HIDE DEF f, n
  <2> QED BY <1>1, <1>3, <1>4
<1>6. Without(s, i) = f BY DEF Without
<1> QED BY <1>1, <1>5, <1>6

LEMMA Popped ==
  ASSUME RestTypes, NEW v \in Workers, NEW i \in 1 .. Len(queue[v]), Pop(v, i)
  PROVE  queue[v][i] \in Tasks /\ queue' \in [Workers -> Seq(Tasks)]
<1>1. queue[v] \in Seq(Tasks) BY DEF RestTypes
<1>2. queue[v][i] \in Tasks /\ Without(queue[v], i) \in Seq(Tasks) BY <1>1, WithoutOne
<1> QED BY <1>2 DEF RestTypes, Pop

LEMMA Reached ==
  ASSUME NEW v
  PROVE  FrontOf(v) \subseteq 1 .. Len(queue[v]) /\ BackOf(v) \subseteq 1 .. Len(queue[v])
BY DEF FrontOf, BackOf

\* What a worker does with its own front
LEMMA PopsFront ==
  ASSUME RestTypes, NEW w \in Threads, PopFront(w) \/ SoloSpin(w)
  PROVE  \/ \E i \in FrontOf(w) : Pop(w, i) /\ Enter(w, queue[w][i])
         \/ /\ UNCHANGED <<queue, stack, started>>
            /\ \E l \in {"solo", "global", "local", "prewait"} : Goto(w, l)
<1>1. CASE PopFront(w) BY <1>1 DEF PopFront, StealFrom
<1>2. CASE SoloSpin(w)
  <2>1. pc[w] = "solo" /\ UNCHANGED pc => Goto(w, "solo") BY DEF Goto, RestTypes
  <2> QED BY <1>2, <2>1 DEF SoloSpin
<1> QED BY <1>1, <1>2

\* A step of a worker that runs no task, and one that takes none either
QuietPlaces == Labels \ (OfMain \cup OfBoth)
Silent(w) ==
  /\ \E l \in QuietPlaces : Goto(w, l)
  /\ todo' = todo \/ \E vs \in SUBSET Workers : todo' = [todo EXCEPT ![w] = vs]
  /\ spins' = spins \/ \E n \in Nat : spins' = [spins EXCEPT ![w] = n]
  /\ UNCHANGED <<scenario, stack, unscheduled, started, ended, done_, cancelled_, steal_partition>>
Quiet(w) == Silent(w) /\ UNCHANGED <<queue, task>>

Looks(w) == WorkerLoop(w) \/ StealMiss(w) \/ NumActive(w) \/ StartSpinning(w)
Waits(w) ==
  \/ WaitPrewait(w) \/ CheckQueue(w) \/ WaitCancel(w) \/ CheckCancelled(w) \/ Block(w)
  \/ CheckDone(w) \/ CheckBlocked(w) \/ CancelAll(w) \/ Unblock(w) \/ Leave(w) \/ Commit(w)
  \/ Wake(w)

LEMMA QuietSteps ==
  ASSUME scenario \in Scenarios, UNCHANGED scenario, RestTypes, NEW w \in Workers,
         Looks(w) \/ Waits(w)
  PROVE  Quiet(w)
<1>0. /\ todo[w] \subseteq Workers /\ {} \subseteq Workers /\ spins[w] \in Nat
      /\ spin_count_ \in Nat
      /\ QuietPlaces = {"loop", "popfront", "solo", "local", "global",
           "spin", "again", "active", "startspin", "stopspin", "prewait", "check",
           "cancelwait", "cancelled", "victim", "block", "done", "all", "cancelall",
           "recheck", "unblock", "notifyall", "commit", "parked", "exit", "exit.stable"}
  BY Pool DEF RestTypes, QuietPlaces, Labels, OfMain, OfBoth
<1>1. CASE WorkerLoop(w) BY <1>0, <1>1 DEF WorkerLoop, Quiet, Silent, poolVars, runVars, Goto
<1>2. CASE StealMiss(w)
  <2>1. PICK v \in todo[w] :
            \/ StealFrom(w, pc[w], todo[w] \ {v})
            \/ StealFrom(w, "global", Workers)
            \/ StealFrom(w, "active", {})
            \/ StealFrom(w, "spin", Workers)
            \/ StealFrom(w, "stopspin", {})
            \/ StealFrom(w, "prewait", {})
    BY <1>2 DEF StealMiss
  <2>2. spins' = spins \/ \E n \in Nat : spins' = [spins EXCEPT ![w] = n]
    <3>1. \/ spins' = spins
          \/ spins' = [spins EXCEPT ![w] = 0]
          \/ spins[w] > 1 /\ spins' = [spins EXCEPT ![w] = spins[w] - 1]
      BY <1>2 DEF StealMiss
    <3> QED BY <1>0, <3>1
  <2>3. /\ pc[w] \in {"local", "global", "spin", "again"}
        /\ UNCHANGED <<queue, poolVars, runVars, task>>
    BY <1>2 DEF StealMiss
  <2>4. todo[w] \ {v} \in SUBSET Workers BY <1>0
  <2> QED BY <1>0, <2>1, <2>2, <2>3, <2>4 DEF Quiet, Silent, StealFrom, poolVars, runVars
<1>3. CASE NumActive(w) BY <1>0, <1>3 DEF NumActive, Quiet, Silent, poolVars, runVars, Goto
<1>4. CASE StartSpinning(w) BY <1>0, <1>4 DEF StartSpinning, StealFrom, Quiet, Silent, runVars, Goto
<1>5. CASE WaitPrewait(w) \/ WaitCancel(w)
  BY <1>0, <1>5 DEF WaitPrewait, WaitCancel, StealFrom, Quiet, Silent, poolVars, runVars
<1>6. CASE CheckQueue(w)
  <2>1. PICK v \in todo[w], l \in {"cancelwait", "unblock", "check", "recheck", "block", "notifyall"} :
          StealFrom(w, l, {v}) \/ StealFrom(w, l, todo[w] \ {v}) \/ StealFrom(w, l, {})
    BY <1>6 DEF CheckQueue
  <2>2. {v} \in SUBSET Workers /\ todo[w] \ {v} \in SUBSET Workers BY <1>0
  <2>3. UNCHANGED <<queue, poolVars, runVars, task, spins>> BY <1>6 DEF CheckQueue
  <2> QED BY <1>0, <2>1, <2>2, <2>3 DEF Quiet, Silent, StealFrom, poolVars, runVars
<1>7. CASE CheckCancelled(w) BY <1>0, <1>7 DEF CheckCancelled, StealFrom, Quiet, Silent, poolVars, runVars
<1>8. CASE Block(w) \/ CheckDone(w) \/ CheckBlocked(w)
  BY <1>0, <1>8 DEF Block, CheckDone, CheckBlocked, Quiet, Silent, poolVars, runVars, Goto
<1>9. CASE CancelAll(w) \/ Unblock(w) \/ Leave(w)
  <2>1. CASE CancelAll(w) BY <1>0, <2>1 DEF CancelAll, StealFrom, Quiet, Silent, poolVars, runVars
  <2>2. CASE Unblock(w) BY <1>0, <2>2 DEF Unblock, StealFrom, Quiet, Silent, runVars
  <2>3. CASE Leave(w) BY <1>0, <2>3 DEF Leave, Quiet, Silent, poolVars, runVars
  <2> QED BY <1>9, <2>1, <2>2, <2>3
<1>10. CASE Commit(w) \/ Wake(w) BY <1>0, <1>10 DEF Commit, Wake, Quiet, Silent, poolVars, runVars
<1> QED BY <1>1, <1>2, <1>3, <1>4, <1>5, <1>6, <1>7, <1>8, <1>9, <1>10 DEF Looks, Waits

LEMMA SilentKept ==
  ASSUME scenario \in Scenarios, RestTypes, Inside, Places, NEW w \in Workers, Silent(w),
         queue' \in [Workers -> Seq(Tasks)], task' \in [Workers -> Seq(Tasks)]
  PROVE  RestTypes' /\ Inside' /\ Places'
<1>1. PICK l \in QuietPlaces : Goto(w, l) BY DEF Silent
<1>2. l \in Labels /\ l \notin OfMain /\ l \notin OfBoth BY DEF QuietPlaces
<1>3. /\ pc' \in [Threads -> Labels] /\ pc'[w] = l
      /\ \A s \in Threads : s # w => pc'[s] = pc[s]
  BY <1>1, <1>2, Pool DEF Goto, RestTypes
<1>4. Workers' = Workers /\ Threads' = Threads BY Constant DEF Silent
<1>5. todo' \in [Threads -> SUBSET Workers] /\ spins' \in [Workers -> Nat]
  <2>1. /\ todo \in [Threads -> SUBSET Workers] /\ spins \in [Workers -> Nat]
        /\ w \in Threads
    BY Pool DEF RestTypes
  <2>2. spins' \in [Workers -> Nat] BY <2>1 DEF Silent
  <2>3. todo' \in [Threads -> SUBSET Workers]
    <3>1. todo' = todo \/ \E vs \in SUBSET Workers : todo' = [todo EXCEPT ![w] = vs]
      BY DEF Silent
    <3>2. ASSUME NEW vs \in SUBSET Workers, todo' = [todo EXCEPT ![w] = vs]
          PROVE  todo' \in [Threads -> SUBSET Workers]
      BY <2>1, <3>2
    <3> QED BY <2>1, <3>1, <3>2
  <2> QED BY <2>2, <2>3
<1>6. UNCHANGED <<stack, unscheduled, started, ended, done_, cancelled_, steal_partition>>
  BY DEF Silent
<1>7. RestTypes' BY <1>3, <1>4, <1>5, <1>6 DEF RestTypes
<1>8. Inside' BY <1>2, <1>3, <1>4, <1>6, Pool DEF Inside, OfBoth
<1>9. Places' BY <1>2, <1>3, <1>4, Pool DEF Places
<1> QED BY <1>7, <1>8, <1>9

\* A step with which a thread runs a task on top of a stack
LEMMA EnteredKept ==
  ASSUME scenario \in Scenarios, RestTypes, Inside, Places,
         NEW t \in Threads, NEW k \in Tasks, NEW st \in [Threads -> Seq(Frames)],
         \A s \in Threads : s # t => st[s] = stack[s],
         \A i \in 1 .. Len(st[t]) : st[t][i].task \in started,
         stack' = [st EXCEPT ![t] = <<Frame(k)>> \o @],
         started' = started \cup {k}, Goto(t, "run"),
         queue' \in [Workers -> Seq(Tasks)], task' \in [Workers -> Seq(Tasks)],
         todo' \in [Threads -> SUBSET Workers], spins' \in [Workers -> Nat],
         unscheduled' \subseteq Tasks,
         UNCHANGED <<scenario, ended, done_, cancelled_, steal_partition>>
  PROVE  RestTypes' /\ Inside' /\ Places'
<1>1. Workers' = Workers /\ Threads' = Threads BY Constant
<1>2. \A s \in Threads : \A i \in 1 .. Len(st[s]) : st[s][i].task \in started BY DEF Inside
<1>3. /\ stack' \in [Threads -> Seq(Frames)] /\ started' \subseteq Tasks
      /\ stack'[t] # <<>> /\ \A s \in Threads : s # t => stack'[s] = stack[s]
      /\ \A s \in Threads : \A i \in 1 .. Len(stack'[s]) : stack'[s][i].task \in started'
  BY <1>2, EnterTypes
<1>4. /\ pc' \in [Threads -> Labels] /\ pc'[t] = "run"
      /\ \A s \in Threads : s # t => pc'[s] = pc[s]
  BY DEF Goto, RestTypes, Labels
<1>5. RestTypes' BY <1>1, <1>3, <1>4 DEF RestTypes
<1>6. Inside' BY <1>1, <1>3, <1>4, Pool DEF Inside
<1>7. Places' BY <1>1, <1>4, Pool DEF Places, OfMain, OfBoth
<1> QED BY <1>5, <1>6, <1>7

Takes(w) == PopFront(w) \/ SoloSpin(w) \/ StealHit(w) \/ StopSpinning(w) \/ PopVictim(w)

LEMMA TakesKept ==
  ASSUME scenario \in Scenarios, UNCHANGED scenario, RestTypes, Inside, Places,
         NEW w \in Workers, Takes(w)
  PROVE  RestTypes' /\ Inside' /\ Places'
<1>0. /\ {"solo", "global", "local", "prewait", "again", "stopspin", "loop"} \subseteq QuietPlaces
      /\ w \in Threads /\ \A v \in Workers : queue[v] \in Seq(Tasks)
      /\ spins[w] \in Nat /\ spin_count_ \in Nat
      /\ steal_partition[w] \in SUBSET Workers /\ {} \in SUBSET Workers
  BY Pool DEF RestTypes, QuietPlaces, Labels, OfMain, OfBoth
<1>1. ASSUME NEW k \in Tasks, Enter(w, k),
             queue' \in [Workers -> Seq(Tasks)], task' \in [Workers -> Seq(Tasks)],
             todo' \in [Threads -> SUBSET Workers], spins' \in [Workers -> Nat],
             UNCHANGED <<unscheduled, ended, done_, cancelled_, steal_partition>>
      PROVE  RestTypes' /\ Inside' /\ Places'
  <2>1. /\ stack \in [Threads -> Seq(Frames)] /\ unscheduled' \subseteq Tasks
        /\ \A i \in 1 .. Len(stack[w]) : stack[w][i].task \in started
    BY <1>0, <1>1 DEF RestTypes, Inside
  <2> QED BY <1>0, <1>1, <2>1, EnteredKept DEF Enter
<1>2. ASSUME NEW v \in Workers, NEW i \in FrontOf(v) \cup BackOf(v), Pop(v, i)
      PROVE  queue[v][i] \in Tasks /\ queue' \in [Workers -> Seq(Tasks)]
  BY <1>2, Reached, Popped
<1>3. ASSUME PopFront(w) \/ SoloSpin(w), NEW i \in FrontOf(w), Pop(w, i), Enter(w, queue[w][i]),
             spins' \in [Workers -> Nat]
      PROVE  RestTypes' /\ Inside' /\ Places'
  <2>1. UNCHANGED <<todo, task, unscheduled, ended, done_, cancelled_, steal_partition>>
    <3>1. CASE PopFront(w)
      <4>1. Goto(w, "run") /\ pc \in [Threads -> Labels] BY <1>3 DEF Enter, RestTypes
      <4>2. ~(Goto(w, "solo") \/ Goto(w, "global") \/ Goto(w, "local")) BY <1>0, <4>1 DEF Goto
      <4> QED BY <3>1, <4>2 DEF PopFront, StealFrom, poolVars
    <3>2. CASE SoloSpin(w) BY <3>2 DEF SoloSpin, poolVars
    <3> QED BY <1>3, <3>1, <3>2
  <2>2. queue[w][i] \in Tasks /\ queue' \in [Workers -> Seq(Tasks)] BY <1>2, <1>3
  <2>3. task' \in [Workers -> Seq(Tasks)] /\ todo' \in [Threads -> SUBSET Workers]
    BY <2>1 DEF RestTypes
  <2> QED BY <1>1, <1>3, <2>1, <2>2, <2>3
<1>4. CASE PopFront(w)
  <2>1. \/ (\E i \in FrontOf(w) : Pop(w, i) /\ Enter(w, queue[w][i])) /\ UNCHANGED spins
        \/ Silent(w) /\ UNCHANGED <<queue, task>>
    BY <1>0, <1>4 DEF PopFront, Silent, StealFrom, poolVars
  <2>2. CASE (\E i \in FrontOf(w) : Pop(w, i) /\ Enter(w, queue[w][i])) /\ UNCHANGED spins
    BY <1>3, <1>4, <2>2 DEF RestTypes
  <2>3. CASE Silent(w) /\ UNCHANGED <<queue, task>> BY <2>3, SilentKept DEF RestTypes
  <2> QED BY <2>1, <2>2, <2>3
<1>5. CASE SoloSpin(w)
  <2>1. spins' = spins \/ \E n \in Nat : spins' = [spins EXCEPT ![w] = n]
    <3>1. \/ spins' = spins \/ spins' = [spins EXCEPT ![w] = 0]
          \/ spins[w] # 0 /\ spins' = [spins EXCEPT ![w] = spins[w] - 1]
      BY <1>5 DEF SoloSpin
    <3> QED BY <1>0, <3>1
  <2>2. spins' \in [Workers -> Nat] BY <2>1 DEF RestTypes
  <2>3. CASE \E i \in FrontOf(w) : Pop(w, i) /\ Enter(w, queue[w][i]) BY <1>3, <1>5, <2>2, <2>3
  <2>4. CASE /\ UNCHANGED <<queue, stack, started>>
             /\ \E l \in {"solo", "global", "local", "prewait"} : Goto(w, l)
    <3>1. Silent(w) /\ UNCHANGED task BY <1>0, <1>5, <2>1, <2>4 DEF SoloSpin, Silent, poolVars
    <3> QED BY <2>4, <3>1, SilentKept DEF RestTypes
  <2> QED BY <1>0, <1>5, <2>3, <2>4, PopsFront
<1>6. CASE StealHit(w)
  <2>0. PICK v \in todo[w] : \E i \in BackOf(v) :
          /\ Pop(v, i)
          /\ IF pc[w] = "spin"
             THEN /\ task' = [task EXCEPT ![w] = <<queue[v][i]>>]
                  /\ Goto(w, "stopspin")
                  /\ UNCHANGED <<stack, started>>
             ELSE Enter(w, queue[v][i]) /\ UNCHANGED task
    BY <1>6 DEF StealHit
  <2>1. PICK i \in BackOf(v) :
          /\ Pop(v, i)
          /\ IF pc[w] = "spin"
             THEN /\ task' = [task EXCEPT ![w] = <<queue[v][i]>>]
                  /\ Goto(w, "stopspin")
                  /\ UNCHANGED <<stack, started>>
             ELSE Enter(w, queue[v][i]) /\ UNCHANGED task
    BY <2>0
  <2>2. v \in Workers BY <1>0 DEF RestTypes
  <2>3. /\ todo' = [todo EXCEPT ![w] = {}] /\ spins' = [spins EXCEPT ![w] = 0]
        /\ UNCHANGED <<unscheduled, ended, done_, cancelled_, steal_partition>>
    BY <1>6 DEF StealHit, poolVars
  <2>4. queue[v][i] \in Tasks /\ queue' \in [Workers -> Seq(Tasks)] BY <1>2, <2>1, <2>2
  <2>5. CASE pc[w] # "spin" BY <1>0, <1>1, <2>1, <2>3, <2>4, <2>5 DEF RestTypes
  <2>6. CASE pc[w] = "spin"
    <3>1. Silent(w) BY <1>0, <2>1, <2>3, <2>6 DEF Silent
    <3>2. task' \in [Workers -> Seq(Tasks)]
      <4>1. PICK k \in Tasks : k = queue[v][i] BY <2>4
      <4>2. task' = [task EXCEPT ![w] = <<k>>] BY <2>1, <2>6, <4>1
      <4>3. task \in [Workers -> Seq(Tasks)] /\ <<k>> \in Seq(Tasks) BY DEF RestTypes
      <4> QED BY ONLY <4>2, <4>3
    <3> QED BY <2>4, <3>1, <3>2, SilentKept
  <2> QED BY <2>5, <2>6
<1>7. CASE StopSpinning(w)
  <2>1. /\ task' = [task EXCEPT ![w] = <<>>]
        /\ UNCHANGED <<queue, done_, cancelled_, steal_partition, spins, unscheduled, ended>>
    BY <1>7 DEF StopSpinning
  <2>2. task' \in [Workers -> Seq(Tasks)] /\ task[w] \in Seq(Tasks) BY <2>1 DEF RestTypes
  <2>3. CASE task[w] # <<>>
    <3>1. Enter(w, task[w][1]) /\ UNCHANGED todo BY <1>7, <2>3 DEF StopSpinning
    <3>2. task[w][1] \in Tasks BY <2>2, <2>3
    <3> QED BY <1>1, <2>1, <2>2, <3>1, <3>2 DEF RestTypes
  <2>4. CASE task[w] = <<>>
    <3>1. (StealFrom(w, "again", Workers) \/ StealFrom(w, "prewait", {})) /\ UNCHANGED <<stack, started>>
      BY <1>7, <2>4 DEF StopSpinning
    <3>2. Silent(w) BY <1>0, <2>1, <3>1 DEF Silent, StealFrom
    <3> QED BY <2>1, <2>2, <3>2, SilentKept DEF RestTypes
  <2> QED BY <2>3, <2>4
<1>8. CASE PopVictim(w)
  <2>1. PICK v \in todo[w] :
          \/ \E i \in BackOf(v) : Pop(v, i) /\ Enter(w, queue[v][i])
          \/ Goto(w, "loop") /\ UNCHANGED <<queue, stack, started>>
    BY <1>8 DEF PopVictim
  <2>2. v \in Workers BY <1>0 DEF RestTypes
  <2>3. /\ todo' = [todo EXCEPT ![w] = {}]
        /\ UNCHANGED <<task, spins, unscheduled, ended, done_, cancelled_, steal_partition>>
    BY <1>8 DEF PopVictim, poolVars
  <2>4. CASE \E i \in BackOf(v) : Pop(v, i) /\ Enter(w, queue[v][i])
    BY <1>0, <1>1, <1>2, <2>2, <2>3, <2>4 DEF RestTypes
  <2>5. CASE Goto(w, "loop") /\ UNCHANGED <<queue, stack, started>>
    <3>1. Silent(w) BY <1>0, <2>3, <2>5 DEF Silent
    <3> QED BY <2>3, <2>5, <3>1, SilentKept DEF RestTypes
  <2> QED BY <2>1, <2>4, <2>5
<1> QED BY <1>4, <1>5, <1>6, <1>7, <1>8 DEF Takes

\* A step of a thread that leaves the tasks it is inside of alone
LEMMA WalksKept ==
  ASSUME scenario \in Scenarios, RestTypes, Inside, Places,
         NEW t \in Threads, NEW l \in Labels, Goto(t, l),
         l = "run" => stack[t] # <<>>,
         t \in Workers => l \notin OfMain /\ (l \in OfBoth => stack[t] # <<>>),
         t = main => l \in OfMain \cup OfBoth,
         queue' \in [Workers -> Seq(Tasks)], todo' \in [Threads -> SUBSET Workers],
         done_' \in BOOLEAN, cancelled_' \in BOOLEAN,
         steal_partition' \in [Workers -> SUBSET Workers],
         UNCHANGED <<scenario, stack, started, ended, task, spins, unscheduled>>
  PROVE  RestTypes' /\ Inside' /\ Places'
<1>1. Workers' = Workers /\ Threads' = Threads BY Constant
<1>2. /\ pc' \in [Threads -> Labels] /\ pc'[t] = l
      /\ \A s \in Threads : s # t => pc'[s] = pc[s]
  BY DEF Goto, RestTypes
<1>3. RestTypes' BY <1>1, <1>2 DEF RestTypes
<1>4. Inside' BY <1>1, <1>2, Pool DEF Inside
<1>5. Places' BY <1>1, <1>2, Pool DEF Places
<1> QED BY <1>3, <1>4, <1>5

LEMMA ScheduleKept ==
  ASSUME scenario \in Scenarios, RestTypes, Inside, Places,
         NEW t \in Threads, NEW k \in Tasks, NEW st \in [Threads -> Seq(Frames)],
         \A s \in Threads : s # t => st[s] = stack[s],
         \A i \in 1 .. Len(st[t]) : st[t][i].task \in started,
         t \in Workers => st[t] # <<>>,
         Schedule(t, k, st), unscheduled' \subseteq Tasks,
         UNCHANGED <<scenario, poolVars, task, todo, spins, ended>>
  PROVE  RestTypes' /\ Inside' /\ Places'
<1>1. Workers' = Workers /\ Threads' = Threads BY Constant
<1>2. PICK q \in Choices(t) :
        \/ /\ Push(t, q, k)
           /\ Goto(t, "required")
           /\ stack' = st /\ UNCHANGED started
        \/ /\ stack' = [st EXCEPT ![t] = <<Frame(k)>> \o @]
           /\ started' = started \cup {k}
           /\ Goto(t, "run")
           /\ UNCHANGED queue
  BY DEF Schedule
<1>3. UNCHANGED <<done_, cancelled_, steal_partition>> BY DEF poolVars
<1>4. CASE UNCHANGED queue /\ Goto(t, "run") /\ started' = started \cup {k}
           /\ stack' = [st EXCEPT ![t] = <<Frame(k)>> \o @]
  <2>1. /\ queue' \in [Workers -> Seq(Tasks)] /\ task' \in [Workers -> Seq(Tasks)]
        /\ todo' \in [Threads -> SUBSET Workers] /\ spins' \in [Workers -> Nat]
    BY <1>4 DEF RestTypes
  <2> QED BY <1>3, <1>4, <2>1, EnteredKept
<1>5. CASE Push(t, q, k) /\ Goto(t, "required") /\ stack' = st /\ UNCHANGED started
  <2>1. q \in Workers BY Pool DEF Choices
  <2>2. queue[q] \in Seq(Tasks) /\ <<k>> \in Seq(Tasks) BY <2>1 DEF RestTypes
  <2>3. queue' \in [Workers -> Seq(Tasks)]
    <3>1. <<k>> \o queue[q] \in Seq(Tasks) /\ Append(queue[q], k) \in Seq(Tasks) BY <2>2
    <3> QED BY <1>5, <3>1 DEF Push, RestTypes
  <2>4. /\ pc' \in [Threads -> Labels] /\ pc'[t] = "required"
        /\ \A s \in Threads : s # t => pc'[s] = pc[s]
    BY <1>5 DEF Goto, RestTypes, Labels
  <2>5. RestTypes' BY <1>1, <1>3, <1>5, <2>3, <2>4 DEF RestTypes
  <2>6. Inside' BY <1>1, <1>5, <2>4, Pool DEF Inside
  <2>7. Places' BY <1>1, <2>4, Pool DEF Places, OfMain, OfBoth
  <2> QED BY <2>5, <2>6, <2>7
<1> QED BY <1>2, <1>4, <1>5

LEMMA TasksKept ==
  ASSUME scenario \in Scenarios, RestTypes, Inside, Places, NEW t \in Threads, TaskStep(t)
  PROVE  RestTypes' /\ Inside' /\ Places'
<1>0. UNCHANGED scenario /\ stack[t] \in Seq(Frames) /\ t \in Workers \cup {main}
  BY DEF TaskStep, RestTypes, Threads
<1>1. CASE ScheduleChild(t)
  <2>1. stack[t] # <<>> BY <1>1 DEF ScheduleChild, Inside
  <2>2. PICK k \in stack[t][1].kids :
          Schedule(t, k, [stack EXCEPT ![t] =
            <<[task |-> stack[t][1].task, kids |-> stack[t][1].kids \ {k}]>> \o Tail(@)])
    BY <1>1 DEF ScheduleChild
  <2> DEFINE top == [task |-> stack[t][1].task, kids |-> stack[t][1].kids \ {k}]
             rest == <<top>> \o Tail(stack[t])
             st == [stack EXCEPT ![t] = rest]
  <2>3. stack[t][1] \in Frames BY <1>0, <2>1
  <2>4. top \in Frames /\ k \in Tasks /\ top.task = stack[t][1].task BY <2>3 DEF Frames
  <2>5. /\ Tail(stack[t]) \in Seq(Frames) /\ Len(Tail(stack[t])) = Len(stack[t]) - 1
        /\ \A i \in 1 .. Len(Tail(stack[t])) : Tail(stack[t])[i] = stack[t][i + 1]
    BY <1>0, <2>1
  <2>6. /\ rest \in Seq(Frames) /\ Len(rest) = Len(stack[t]) /\ rest[1] = top
        /\ \A i \in 2 .. Len(rest) : rest[i] = Tail(stack[t])[i - 1]
    <3> HIDE DEF top
    <3> QED BY <2>4, <2>5
  <2>7. ASSUME NEW i \in 1 .. Len(rest) PROVE rest[i].task \in started
    <3>1. stack[t][i].task \in started /\ i \in 1 .. Len(stack[t]) BY <2>6 DEF Inside
    <3>2. CASE i = 1 BY <2>4, <2>6, <3>1, <3>2
    <3>3. CASE i # 1
      <4>1. i \in 2 .. Len(rest) /\ i - 1 \in 1 .. Len(Tail(stack[t])) BY <2>5, <2>6, <3>3
      <4>2. rest[i] = stack[t][i] BY <2>5, <2>6, <4>1
      <4> QED BY <3>1, <4>2
    <3> QED BY <3>2, <3>3
  <2>8. /\ st \in [Threads -> Seq(Frames)] /\ st[t] = rest /\ rest # <<>>
        /\ \A s \in Threads : s # t => st[s] = stack[s]
    <3> HIDE DEF rest
    <3>1. rest # <<>> BY <1>0, <2>1, <2>6
    <3> QED BY <2>6, <3>1 DEF RestTypes
  <2>9. UNCHANGED <<poolVars, task, todo, spins, ended, unscheduled>> /\ Schedule(t, k, st)
    BY <1>1, <2>2 DEF ScheduleChild
  <2>10. unscheduled' \subseteq Tasks BY <2>9 DEF RestTypes
  <2> HIDE DEF st, rest
  <2> QED BY <1>0, <2>4, <2>7, <2>8, <2>9, <2>10, ScheduleKept
<1>2. ASSUME Return(t), pc[t] \in OfBoth, UNCHANGED <<queue, done_, cancelled_, steal_partition,
               runVars, task, todo, spins>>
      PROVE  RestTypes' /\ Inside' /\ Places'
  <2>1. Goto(t, IF stack[t] = <<>> THEN "main" ELSE "run") BY <1>2 DEF Return
  <2>2. t \in Workers => stack[t] # <<>> BY <1>2 DEF Inside
  <2>3. t = main => t \notin Workers BY Pool
  <2> QED BY <1>0, <1>2, <2>1, <2>2, <2>3, WalksKept DEF RestTypes, runVars, Labels, OfMain, OfBoth
<1>3. CASE IsNotifyRequired(t)
  <2>1. /\ Goto(t, "notify") \/ Return(t)
        /\ pc[t] = "required"
        /\ UNCHANGED <<queue, done_, cancelled_, steal_partition, runVars, task, todo, spins>>
    BY <1>3 DEF IsNotifyRequired
  <2>2. t \in Workers => stack[t] # <<>> BY <2>1 DEF Inside, OfBoth
  <2>3. CASE Goto(t, "notify")
    BY <1>0, <2>1, <2>2, <2>3, WalksKept DEF RestTypes, runVars, Labels, OfMain, OfBoth
  <2> QED BY <1>2, <2>1, <2>3 DEF OfBoth
<1>4. CASE ScheduleNotify(t) BY <1>2, <1>4 DEF ScheduleNotify, OfBoth, poolVars
<1>5. CASE TaskEnd(t)
  <2>1. stack[t] # <<>> BY <1>5 DEF TaskEnd, Inside
  <2>2. /\ ended' = ended \cup {stack[t][1].task}
        /\ stack' = [stack EXCEPT ![t] = Tail(@)]
        /\ Goto(t, IF Len(stack[t]) > 1 THEN "run" ELSE IF t = main THEN "main" ELSE "loop")
        /\ UNCHANGED <<queue, done_, cancelled_, steal_partition, task, todo, spins, unscheduled, started>>
    BY <1>5 DEF TaskEnd, poolVars
  <2>3. stack[t][1].task \in started /\ Len(stack[t]) >= 1 BY <1>0, <2>1 DEF Inside
  <2>4. /\ Tail(stack[t]) \in Seq(Frames) /\ Len(Tail(stack[t])) = Len(stack[t]) - 1
        /\ \A i \in 1 .. Len(Tail(stack[t])) : Tail(stack[t])[i] = stack[t][i + 1]
    BY <1>0, <2>1
  <2>5. ASSUME Len(stack[t]) > 1 PROVE Tail(stack[t]) # <<>>
    <3>1. Len(Tail(stack[t])) > 0 BY <1>0, <2>4, <2>5
    <3>2. Len(<<>>) = 0 OBVIOUS
    <3> QED BY <3>1, <3>2
  <2>6. /\ stack' \in [Threads -> Seq(Frames)] /\ stack'[t] = Tail(stack[t])
        /\ \A s \in Threads : s # t => stack'[s] = stack[s]
    BY <2>2, <2>4 DEF RestTypes
  <2>7. \A i \in 1 .. Len(stack'[t]) : stack'[t][i].task \in started
    BY <2>4, <2>6 DEF Inside
  <2>8. /\ pc' \in [Threads -> Labels]
        /\ pc'[t] = IF Len(stack[t]) > 1 THEN "run" ELSE IF t = main THEN "main" ELSE "loop"
        /\ \A s \in Threads : s # t => pc'[s] = pc[s]
    BY <2>2 DEF Goto, RestTypes, Labels
  <2>9. Workers' = Workers /\ Threads' = Threads BY <1>0, Constant
  <2>10. RestTypes' BY <2>2, <2>3, <2>6, <2>8, <2>9 DEF RestTypes
  <2>11. Inside' BY <2>2, <2>5, <2>6, <2>7, <2>8, <2>9, Pool DEF Inside, OfBoth
  <2>12. Places' BY <2>8, <2>9, Pool DEF Places, OfMain, OfBoth
  <2> QED BY <2>10, <2>11, <2>12
<1> QED BY <1>1, <1>3, <1>4, <1>5 DEF TaskStep

\* main goes on to flush, or is stuck there.
LEMMA FlushGoes ==
  ASSUME pc \in [Threads -> Labels], main \in Threads, Flush
  PROVE  \E l \in {"flush", "flush.stuck"} : Goto(main, l)
<1>1. UNCHANGED pc => Goto(main, "flush") BY DEF Flush, Goto
<1> QED BY <1>1 DEF Flush

LEMMA MainKept ==
  ASSUME scenario \in Scenarios, RestTypes, Inside, Places, MainStep \/ MainCancels
  PROVE  RestTypes' /\ Inside' /\ Places'
<1>0. /\ UNCHANGED scenario /\ main \in Threads /\ main \notin Workers
      /\ Workers \in SUBSET Workers /\ {} \in SUBSET Workers /\ todo[main] \subseteq Workers
      /\ OfMain \subseteq Labels
  BY Pool DEF MainStep, MainCancels, RestTypes, OfMain, Labels
<1>1. CASE ScheduleMain
  <2>1. PICK k \in unscheduled : unscheduled' = unscheduled \ {k} /\ Schedule(main, k, stack)
    BY <1>1 DEF ScheduleMain
  <2>2. UNCHANGED <<poolVars, task, todo, spins, ended>> BY <1>1 DEF ScheduleMain
  <2>3. k \in Tasks /\ unscheduled' \subseteq Tasks /\ stack \in [Threads -> Seq(Frames)]
    BY <2>1 DEF RestTypes
  <2>4. \A i \in 1 .. Len(stack[main]) : stack[main][i].task \in started BY <1>0 DEF Inside
  <2> QED BY <1>0, <2>1, <2>2, <2>3, <2>4, ScheduleKept
<1>2. ASSUME NEW l \in OfMain, Goto(main, l),
             queue' \in [Workers -> Seq(Tasks)], todo' \in [Threads -> SUBSET Workers],
             done_' \in BOOLEAN, cancelled_' \in BOOLEAN,
             steal_partition' \in [Workers -> SUBSET Workers],
             UNCHANGED <<stack, started, ended, task, spins, unscheduled>>
      PROVE  RestTypes' /\ Inside' /\ Places'
  BY <1>0, <1>2, WalksKept DEF OfMain
<1>3. CASE Destroy \/ DestroyNotify
  BY <1>0, <1>2, <1>3 DEF Destroy, DestroyNotify, StealFrom, RestTypes, poolVars, runVars, OfMain
<1>4. CASE Flush
  <2>1. PICK l \in {"flush", "flush.stuck"} : Goto(main, l) BY <1>0, <1>4, FlushGoes DEF RestTypes
  <2>2. PICK q \in todo[main] :
          /\ (\E i \in FrontOf(q) : Pop(q, i)) \/ UNCHANGED queue
          /\ todo' = todo \/ todo' = [todo EXCEPT ![main] = @ \ {q}]
    BY <1>4 DEF Flush
  <2>3. q \in Workers BY <1>0
  <2>4. queue' \in [Workers -> Seq(Tasks)] BY <2>2, <2>3, Reached, Popped DEF RestTypes
  <2>5. todo' \in [Threads -> SUBSET Workers]
    <3>1. todo \in [Threads -> SUBSET Workers] /\ todo[main] \ {q} \in SUBSET Workers
      BY <1>0 DEF RestTypes
    <3> QED BY ONLY <2>2, <3>1
  <2> QED BY <1>2, <1>4, <2>1, <2>4, <2>5 DEF Flush, RestTypes, poolVars, runVars, OfMain
<1>5. CASE FlushEnd \/ Join
  BY <1>2, <1>5 DEF FlushEnd, Join, RestTypes, poolVars, runVars, OfMain
<1>6. CASE CancelDone \/ CancelNotify \/ MainCancels
  BY <1>2, <1>6 DEF CancelDone, CancelNotify, MainCancels, Cancel, RestTypes, poolVars, runVars, OfMain
<1>7. CASE SetStealPartitions
  <2>1. PICK w \in todo[main] :
          /\ steal_partition' = [steal_partition EXCEPT ![w] = Partition[w]]
          /\ todo' = [todo EXCEPT ![main] = @ \ {w}]
          /\ Goto(main, "main") \/ Goto(main, "partition")
    BY <1>7 DEF SetStealPartitions
  <2>2. w \in Workers /\ Partition[w] \subseteq Workers BY <1>0, Pool
  <2>3. /\ steal_partition' \in [Workers -> SUBSET Workers]
        /\ todo' \in [Threads -> SUBSET Workers]
    BY <1>0, <2>1, <2>2 DEF RestTypes
  <2> QED BY <1>2, <1>7, <2>1, <2>3 DEF SetStealPartitions, RestTypes, runVars, OfMain
<1> QED BY <1>1, <1>3, <1>4, <1>5, <1>6, <1>7 DEF MainStep

-----------------------------------------------------------------------------
(* The counters.                                                           *)

Spinners == {"spin", "stopspin"}
Blocked == {"done", "all", "cancelall", "recheck", "unblock", "notifyall", "commit", "parked",
            "exit.stable"}

CounterTypes ==
  /\ spinning_ \in [num_spinning : Nat, num_no_notification : Nat]
  /\ blocked_ \in Nat

Counters == CounterTypes /\ CountersExact

\* The counters of a pool where a thread moved
LEMMA CountersMoved ==
  ASSUME scenario \in Scenarios, UNCHANGED scenario, pc \in [Threads -> Labels], Counters,
         NEW t \in Threads, NEW l \in Labels, Goto(t, l),
         spinning_' \in [num_spinning : Int, num_no_notification : Nat], blocked_' \in Int,
         spinning_'.num_spinning = spinning_.num_spinning
           + (IF l \in Spinners THEN 1 ELSE 0) - (IF pc[t] \in Spinners THEN 1 ELSE 0),
         spinning_'.num_no_notification <= spinning_'.num_spinning,
         blocked_' = blocked_ + (IF l \in Blocked THEN 1 ELSE 0) - (IF pc[t] \in Blocked THEN 1 ELSE 0)
  PROVE  Counters'
<1>1. \A P : /\ Cardinality(At(P)) \in Nat
             /\ Cardinality(At(P)') = Cardinality(At(P))
                  + (IF l \in P THEN 1 ELSE 0) - (IF pc[t] \in P THEN 1 ELSE 0)
  BY Moves
<1>2. pc' \in [Threads' -> Labels] BY Moves
<1>3. spinning_'.num_spinning = Cardinality(At(Spinners)')
  BY <1>1 DEF Counters, CountersExact, Spinners
<1>4. blocked_' = Cardinality(At(Blocked)')
  BY <1>1 DEF Counters, CountersExact, Blocked
<1>5. IsFiniteSet(Threads') BY Pool, Constant
<1>6. Cardinality(At(Spinners)') \in Nat /\ Cardinality(At(Blocked)') \in Nat
  BY <1>5, FS_Subset, FS_CardinalityType DEF At
<1>7. CounterTypes' BY <1>3, <1>4, <1>6 DEF CounterTypes
<1>8. CountersExact' BY <1>3, <1>4 DEF CountersExact, Spinners, Blocked
<1> QED BY <1>7, <1>8 DEF Counters

LEMMA CountersSame ==
  ASSUME scenario \in Scenarios, pc \in [Threads -> Labels], Counters,
         NEW t \in Threads, NEW l \in Labels, Goto(t, l),
         l \in Spinners <=> pc[t] \in Spinners, l \in Blocked <=> pc[t] \in Blocked,
         UNCHANGED <<scenario, spinning_, blocked_>>
  PROVE  Counters'
<1>1. /\ spinning_ \in [num_spinning : Int, num_no_notification : Nat] /\ blocked_ \in Int
      /\ spinning_.num_no_notification <= spinning_.num_spinning
      /\ spinning_.num_spinning \in Nat
  BY DEF Counters, CounterTypes, CountersExact
<1> QED BY <1>1, CountersMoved

LEMMA TasksCounted ==
  ASSUME scenario \in Scenarios, pc \in [Threads -> Labels], Counters,
         NEW t \in Threads, TaskStep(t)
  PROVE  Counters'
<1>1. ASSUME pc[t] \in OfBoth, NEW l \in OfBoth \cup {"main", "loop"}, Goto(t, l),
             UNCHANGED <<scenario, spinning_, blocked_>>
      PROVE  Counters'
  BY <1>1, CountersSame DEF OfBoth, Spinners, Blocked, Labels
<1>2. UNCHANGED scenario BY DEF TaskStep
<1>3. CASE ScheduleChild(t)
  <2>1. /\ pc[t] = "run" /\ UNCHANGED <<spinning_, blocked_>>
        /\ Goto(t, "required") \/ Goto(t, "run")
    BY <1>3 DEF ScheduleChild, Schedule, poolVars
  <2> QED BY <1>1, <1>2, <2>1 DEF OfBoth
<1>4. CASE IsNotifyRequired(t)
  <2>1. pc[t] = "required" /\ UNCHANGED blocked_ BY <1>4 DEF IsNotifyRequired
  <2>2. CASE spinning_.num_no_notification = spinning_.num_spinning
    <3>1. Goto(t, "notify") /\ UNCHANGED spinning_ BY <1>4, <2>2 DEF IsNotifyRequired
    <3> QED BY <1>1, <1>2, <2>1, <3>1 DEF OfBoth
  <2>3. CASE spinning_.num_no_notification # spinning_.num_spinning
    <3>1. /\ spinning_' = [num_spinning |-> spinning_.num_spinning,
                           num_no_notification |-> spinning_.num_no_notification + 1]
          /\ Goto(t, IF stack[t] = <<>> THEN "main" ELSE "run")
      BY <1>4, <2>3 DEF IsNotifyRequired, Return
    <3>2. /\ spinning_.num_spinning \in Nat /\ spinning_.num_no_notification \in Nat
          /\ spinning_.num_no_notification <= spinning_.num_spinning /\ blocked_ \in Nat
      BY DEF Counters, CounterTypes, CountersExact
    <3>3. PICK l \in {"main", "run"} : Goto(t, l) BY <3>1
    <3>4. /\ l \in Labels /\ l \notin Spinners /\ l \notin Blocked
          /\ pc[t] \notin Spinners /\ pc[t] \notin Blocked
      BY <2>1, <3>3 DEF Labels, Spinners, Blocked
    <3>5. /\ spinning_' \in [num_spinning : Int, num_no_notification : Nat] /\ blocked_' \in Int
          /\ spinning_'.num_spinning = spinning_.num_spinning
          /\ spinning_'.num_no_notification <= spinning_'.num_spinning
          /\ blocked_' = blocked_
      BY <2>1, <2>3, <3>1, <3>2
    <3> QED BY <1>2, <3>2, <3>3, <3>4, <3>5, CountersMoved
  <2> QED BY <2>2, <2>3
<1>5. CASE ScheduleNotify(t)
  <2>1. /\ pc[t] = "notify" /\ UNCHANGED <<spinning_, blocked_>>
        /\ Goto(t, IF stack[t] = <<>> THEN "main" ELSE "run")
    BY <1>5 DEF ScheduleNotify, poolVars, Return
  <2>2. Goto(t, "main") \/ Goto(t, "run") BY <2>1
  <2> QED BY <1>1, <1>2, <2>1, <2>2 DEF OfBoth
<1>6. CASE TaskEnd(t)
  <2>1. /\ pc[t] = "run" /\ UNCHANGED <<spinning_, blocked_>>
        /\ Goto(t, IF Len(stack[t]) > 1 THEN "run" ELSE IF t = main THEN "main" ELSE "loop")
    BY <1>6 DEF TaskEnd, poolVars
  <2>2. Goto(t, "main") \/ Goto(t, "run") \/ Goto(t, "loop") BY <2>1
  <2> QED BY <1>1, <1>2, <2>1, <2>2 DEF OfBoth
<1> QED BY <1>3, <1>4, <1>5, <1>6 DEF TaskStep

LEMMA MainCounted ==
  ASSUME scenario \in Scenarios, pc \in [Threads -> Labels], Counters, Places,
         MainStep \/ MainCancels
  PROVE  Counters'
<1>1. PICK l \in OfMain \cup OfBoth : Goto(main, l)
  <2>1. CASE ScheduleMain
    <3>1. Goto(main, "required") \/ Goto(main, "run") BY <2>1 DEF ScheduleMain, Schedule
    <3> QED BY <3>1 DEF OfBoth
  <2>2. CASE Destroy \/ DestroyNotify \/ FlushEnd \/ Join
    BY <2>2 DEF Destroy, DestroyNotify, FlushEnd, Join, StealFrom, OfMain
  <2>3. CASE Flush BY <2>3, Pool, FlushGoes DEF OfMain
  <2>4. CASE CancelDone \/ CancelNotify \/ MainCancels
    BY <2>4 DEF CancelDone, CancelNotify, MainCancels, Cancel, OfMain
  <2>5. CASE SetStealPartitions
    <3>1. Goto(main, "main") \/ Goto(main, "partition") BY <2>5 DEF SetStealPartitions
    <3> QED BY <3>1 DEF OfMain
  <2> QED BY <2>1, <2>2, <2>3, <2>4, <2>5 DEF MainStep
<1>2. UNCHANGED <<scenario, spinning_, blocked_>>
  BY DEF MainStep, MainCancels, ScheduleMain, Destroy, DestroyNotify, FlushEnd, Join, Flush,
         CancelDone, CancelNotify, Cancel, SetStealPartitions, poolVars
<1>3. /\ l \in Labels /\ l \notin Spinners /\ l \notin Blocked
      /\ pc[main] \notin Spinners /\ pc[main] \notin Blocked
  BY <1>1 DEF Places, OfMain, OfBoth, Labels, Spinners, Blocked
<1> QED BY <1>1, <1>2, <1>3, CountersSame, Pool

LEMMA WorkersCounted ==
  ASSUME scenario \in Scenarios, RestTypes, Counters, NEW w \in Workers, WorkerStep(w)
  PROVE  Counters'
<1>0. /\ UNCHANGED scenario /\ w \in Threads /\ pc \in [Threads -> Labels]
      /\ spinning_.num_spinning \in Nat /\ spinning_.num_no_notification \in Nat
      /\ spinning_.num_no_notification <= spinning_.num_spinning /\ blocked_ \in Nat
      /\ spinning_ \in [num_spinning : Int, num_no_notification : Nat]
  BY Pool DEF WorkerStep, RestTypes, Counters, CounterTypes, CountersExact
<1>1. ASSUME NEW l \in Labels, Goto(w, l), UNCHANGED <<spinning_, blocked_>>,
             l \in Spinners <=> pc[w] \in Spinners, l \in Blocked <=> pc[w] \in Blocked
      PROVE  Counters'
  BY <1>0, <1>1, CountersSame
<1>2. CASE WorkerLoop(w) \/ PopFront(w) \/ SoloSpin(w)
  <2>1. PICK l \in {"exit", "popfront", "run", "solo", "global", "local", "prewait"} : Goto(w, l)
    <3>1. CASE WorkerLoop(w) BY <3>1 DEF WorkerLoop
    <3>2. CASE PopFront(w) \/ SoloSpin(w) BY <1>0, <3>2, PopsFront DEF Enter
    <3> QED BY <1>2, <3>1, <3>2
  <2>2. pc[w] \in {"loop", "popfront", "solo"} /\ UNCHANGED <<spinning_, blocked_>>
    BY <1>2 DEF WorkerLoop, PopFront, SoloSpin, poolVars
  <2> QED BY <1>1, <2>1, <2>2 DEF Labels, Spinners, Blocked
<1>3. CASE StealHit(w)
  <2>1. /\ pc[w] \in {"local", "global", "spin", "again"} /\ UNCHANGED <<spinning_, blocked_>>
        /\ IF pc[w] = "spin" THEN Goto(w, "stopspin") ELSE Goto(w, "run")
    BY <1>3 DEF StealHit, Enter, poolVars
  <2>2. CASE pc[w] = "spin" BY <1>1, <2>1, <2>2 DEF Labels, Spinners, Blocked
  <2>3. CASE pc[w] # "spin" BY <1>1, <2>1, <2>3 DEF Labels, Spinners, Blocked
  <2> QED BY <2>2, <2>3
<1>4. CASE StealMiss(w)
  <2>1. pc[w] \in {"local", "global", "spin", "again"} /\ UNCHANGED <<spinning_, blocked_>>
    BY <1>4 DEF StealMiss, poolVars
  <2>2. \/ Goto(w, pc[w])
        \/ pc[w] = "spin" /\ Goto(w, "stopspin")
        \/ pc[w] # "spin" /\ \E l \in {"global", "active", "prewait"} : Goto(w, l)
    BY <1>4 DEF StealMiss, StealFrom
  <2> QED BY <1>1, <2>1, <2>2 DEF Labels, Spinners, Blocked
<1>5. CASE NumActive(w)
  <2>1. /\ pc[w] = "active" /\ UNCHANGED <<spinning_, blocked_>>
        /\ Goto(w, "prewait") \/ Goto(w, "startspin")
    BY <1>5 DEF NumActive, poolVars
  <2> QED BY <1>1, <2>1 DEF Labels, Spinners, Blocked
<1>6. CASE StartSpinning(w)
  <2>1. pc[w] = "startspin" /\ UNCHANGED blocked_ BY <1>6 DEF StartSpinning
  <2>2. \/ Goto(w, "prewait") /\ UNCHANGED spinning_
        \/ /\ Goto(w, "stopspin") \/ Goto(w, "spin")
           /\ spinning_' = [num_spinning |-> spinning_.num_spinning + 1,
                            num_no_notification |-> spinning_.num_no_notification]
    BY <1>6 DEF StartSpinning, StealFrom
  <2>3. CASE Goto(w, "prewait") /\ UNCHANGED spinning_
    BY <1>1, <2>1, <2>3 DEF Labels, Spinners, Blocked
  <2>4. ASSUME NEW l \in {"spin", "stopspin"}, Goto(w, l),
               spinning_' = [num_spinning |-> spinning_.num_spinning + 1,
                             num_no_notification |-> spinning_.num_no_notification]
        PROVE  Counters'
    <3>1. /\ l \in Labels /\ l \in Spinners /\ l \notin Blocked
          /\ pc[w] \notin Spinners /\ pc[w] \notin Blocked
      BY <2>1 DEF Labels, Spinners, Blocked
    <3> QED BY <1>0, <2>1, <2>4, <3>1, CountersMoved
  <2> QED BY <2>2, <2>3, <2>4
<1>7. CASE StopSpinning(w)
  <2> DEFINE nn == spinning_.num_no_notification
  <2>1. /\ pc[w] = "stopspin" /\ UNCHANGED blocked_
        /\ spinning_' = [num_spinning |-> spinning_.num_spinning - 1,
                         num_no_notification |-> IF nn > 0 THEN nn - 1 ELSE 0]
    BY <1>7 DEF StopSpinning
  <2>2. PICK l \in {"run", "again", "prewait"} : Goto(w, l)
    BY <1>7 DEF StopSpinning, StealFrom, Enter
  <2>3. /\ l \in Labels /\ l \notin Spinners /\ l \notin Blocked
        /\ pc[w] \in Spinners /\ pc[w] \notin Blocked
    BY <2>1 DEF Labels, Spinners, Blocked
  <2>4. spinning_.num_spinning >= 1
    <3>1. w \in At(Spinners) BY <1>0, <2>3 DEF At
    <3>2. IsFiniteSet(At(Spinners)) BY Pool, FS_Subset DEF At
    <3>3. Cardinality(At(Spinners)) # 0 BY <3>1, <3>2, FS_EmptySet
    <3>4. spinning_.num_spinning = Cardinality(At(Spinners))
      BY DEF Counters, CountersExact, Spinners
    <3> QED BY <1>0, <3>3, <3>4
  <2>5. /\ spinning_' \in [num_spinning : Int, num_no_notification : Nat]
        /\ spinning_'.num_spinning = spinning_.num_spinning - 1
        /\ spinning_'.num_no_notification <= spinning_'.num_spinning
    BY <1>0, <2>1, <2>4
  <2> QED BY <1>0, <2>1, <2>2, <2>3, <2>5, CountersMoved
<1>8. CASE WaitPrewait(w) \/ CheckQueue(w) \/ WaitCancel(w) \/ CheckCancelled(w) \/ PopVictim(w)
  <2>1. UNCHANGED <<spinning_, blocked_>>
    BY <1>8 DEF WaitPrewait, CheckQueue, WaitCancel, CheckCancelled, PopVictim, poolVars
  <2>2. CASE WaitPrewait(w) \/ WaitCancel(w) \/ CheckCancelled(w) \/ PopVictim(w)
    <3>1. /\ pc[w] \in {"prewait", "cancelwait", "cancelled", "victim"}
          /\ \E l \in {"check", "cancelled", "exit", "victim", "run", "loop"} : Goto(w, l)
      BY <2>2 DEF WaitPrewait, WaitCancel, CheckCancelled, PopVictim, StealFrom, Enter
    <3> QED BY <1>1, <2>1, <3>1 DEF Labels, Spinners, Blocked
  <2>3. CASE CheckQueue(w)
    <3>1. \/ /\ pc[w] = "check"
             /\ \E l \in {"cancelwait", "check", "block"} : Goto(w, l)
          \/ /\ pc[w] = "recheck"
             /\ \E l \in {"unblock", "recheck", "notifyall"} : Goto(w, l)
      BY <2>3 DEF CheckQueue, StealFrom
    <3> QED BY <1>1, <2>1, <3>1 DEF Labels, Spinners, Blocked
  <2> QED BY <1>8, <2>2, <2>3
<1>9. CASE Block(w)
  <2>1. pc[w] = "block" /\ blocked_' = blocked_ + 1 /\ Goto(w, "done") /\ UNCHANGED spinning_
    BY <1>9 DEF Block
  <2>2. /\ "done" \in Labels /\ "done" \notin Spinners /\ "done" \in Blocked
        /\ pc[w] \notin Spinners /\ pc[w] \notin Blocked
    BY <2>1 DEF Labels, Spinners, Blocked
  <2> QED BY <1>0, <2>1, <2>2, CountersMoved
<1>10. CASE CheckDone(w) \/ CheckBlocked(w) \/ CancelAll(w) \/ Leave(w) \/ Commit(w)
  <2>1. /\ pc[w] \in {"done", "all", "cancelall", "notifyall", "commit"}
        /\ \E l \in {"all", "commit", "cancelall", "recheck", "exit.stable", "parked"} : Goto(w, l)
        /\ UNCHANGED <<spinning_, blocked_>>
    BY <1>10 DEF CheckDone, CheckBlocked, CancelAll, Leave, Commit, StealFrom, poolVars
  <2> QED BY <1>1, <2>1 DEF Labels, Spinners, Blocked
<1>11. CASE Unblock(w) \/ Wake(w)
  <2>1. /\ pc[w] \in {"unblock", "parked"} /\ blocked_' = blocked_ - 1 /\ Goto(w, "loop")
        /\ UNCHANGED spinning_
    BY <1>11 DEF Unblock, Wake, StealFrom
  <2>2. /\ "loop" \in Labels /\ "loop" \notin Spinners /\ "loop" \notin Blocked
        /\ pc[w] \notin Spinners /\ pc[w] \in Blocked
    BY <2>1 DEF Labels, Spinners, Blocked
  <2> QED BY <1>0, <2>1, <2>2, CountersMoved
<1> QED BY <1>2, <1>3, <1>4, <1>5, <1>6, <1>7, <1>8, <1>9, <1>10, <1>11 DEF WorkerStep

-----------------------------------------------------------------------------
(* The event count and the places.                                         *)

\* Whoever moves, the event count still knows where the workers are.
LEMMA KnownMoved ==
  ASSUME scenario \in Scenarios, UNCHANGED scenario, pc \in [Threads -> Labels], Known,
         NEW t \in Threads, NEW l \in Labels, Goto(t, l),
         pre' \ {t} = pre \ {t}, asleep' \ {t} \subseteq asleep \ {t},
         t \in Workers => (t \in pre' <=> l \in PreWaiting) /\ (t \in asleep' => l = "parked")
  PROVE  Known'
<1>1. /\ Workers' = Workers /\ Workers \subseteq Threads /\ pc'[t] = l
      /\ \A s \in Threads : s # t => pc'[s] = pc[s]
  BY Pool, Constant, Moves
<1>2. ASSUME NEW w \in Workers
      PROVE  (w \in pre' <=> pc'[w] \in PreWaiting) /\ (w \in asleep' => pc'[w] = "parked")
  <2>1. CASE w = t BY <1>1, <2>1
  <2>2. CASE w # t
    <3>1. (w \in pre' <=> w \in pre) /\ (w \in asleep' => w \in asleep) BY <2>2
    <3> QED BY <1>1, <2>2, <3>1 DEF Known
  <2> QED BY <2>1, <2>2
<1> QED BY <1>1, <1>2 DEF Known

Past == {"all", "cancelall", "recheck", "unblock", "notifyall", "exit.stable"}

\* A thread that moves while nobody destroys or cancels the pool
LEMMA ClosingMoved ==
  ASSUME scenario \in Scenarios, pc \in [Threads -> Labels], Closing, Places,
         NEW t \in Threads, NEW l \in Labels, Goto(t, l),
         UNCHANGED <<scenario, done_, cancelled_>>,
         t \in Workers => (l \in Past => done_) /\ (l = "exit" => cancelled_),
         t = main => l \in OfBoth \cup {"main", "partition"} /\ pc[main] \in OfBoth \cup {"main", "partition"}
  PROVE  Closing'
<1>1. /\ Workers' = Workers /\ Workers \subseteq Threads /\ main \in Threads /\ main \notin Workers
      /\ pc'[t] = l /\ \A s \in Threads : s # t => pc'[s] = pc[s]
  BY Pool, Constant, Moves
<1>2. ASSUME NEW w \in Workers
      PROVE  (pc'[w] \in Past => done_) /\ (pc'[w] = "exit" => cancelled_)
  BY <1>1 DEF Closing, Past
<1>3. /\ done_ /\ ~cancelled_ => pc'[main] \in {"destroy.notify", "join", "destroyed"}
      /\ pc'[main] \in {"flush", "cancel.done", "cancel.notify"} => cancelled_
  <2>1. CASE t = main BY <1>1, <2>1 DEF Closing, OfBoth
  <2>2. CASE t # main BY <1>1, <2>2 DEF Closing
  <2> QED BY <2>1, <2>2
<1> QED BY <1>1, <1>2, <1>3 DEF Closing, Past

\* What a step of a task does to the places, the event count and the pool
LEMMA TaskPlaces ==
  ASSUME scenario \in Scenarios, RestTypes, Inside, Places, NEW t \in Threads, TaskStep(t)
  PROVE  /\ pc[t] \in OfBoth
         /\ \E l \in OfBoth \cup {"main", "loop"} :
              Goto(t, l) /\ (t \in Workers => l # "main") /\ (t = main => l # "loop")
         /\ \/ UNCHANGED ecVars
            \/ NotifyOne
         /\ UNCHANGED <<scenario, done_, cancelled_, todo>>
<1>1. UNCHANGED scenario /\ main \notin Workers /\ (t # main => t \in Workers)
  BY Pool DEF TaskStep
<1>2. CASE ScheduleChild(t)
  <2>1. /\ pc[t] = "run" /\ UNCHANGED <<ecVars, done_, cancelled_, todo>>
        /\ Goto(t, "required") \/ Goto(t, "run")
    BY <1>2 DEF ScheduleChild, Schedule, poolVars
  <2> QED BY <1>1, <2>1 DEF OfBoth
<1>3. ASSUME Return(t), pc[t] \in OfBoth
      PROVE  \E l \in OfBoth \cup {"main", "loop"} :
               Goto(t, l) /\ (t \in Workers => l # "main") /\ (t = main => l # "loop")
  <2>1. t \in Workers => stack[t] # <<>> BY <1>3 DEF Inside
  <2> QED BY <1>3, <2>1 DEF Return, OfBoth
<1>4. CASE IsNotifyRequired(t)
  <2>1. /\ pc[t] = "required" /\ UNCHANGED <<ecVars, done_, cancelled_, todo>>
        /\ Goto(t, "notify") \/ Return(t)
    BY <1>4 DEF IsNotifyRequired
  <2> QED BY <1>1, <1>3, <2>1 DEF OfBoth
<1>5. CASE ScheduleNotify(t) BY <1>1, <1>3, <1>5 DEF ScheduleNotify, OfBoth, poolVars
<1>6. CASE TaskEnd(t)
  <2>1. /\ pc[t] = "run" /\ UNCHANGED <<ecVars, done_, cancelled_, todo>>
        /\ Goto(t, IF Len(stack[t]) > 1 THEN "run" ELSE IF t = main THEN "main" ELSE "loop")
    BY <1>6 DEF TaskEnd, poolVars
  <2> QED BY <1>1, <2>1 DEF OfBoth
<1> QED BY <1>2, <1>4, <1>5, <1>6 DEF TaskStep

LEMMA NotifyOnePlaces ==
  ASSUME NotifyOne
  PROVE  pre' = pre /\ asleep' \subseteq asleep
BY DEF NotifyOne, NotifyPreWaiter, NotifySleeper, ecVars

LEMMA TasksKnown ==
  ASSUME scenario \in Scenarios, ECTypes, RestTypes, Inside, Places, Known, Closing,
         NEW t \in Threads, TaskStep(t)
  PROVE  ECTypes' /\ Known' /\ Closing'
<1>1. PICK l \in OfBoth \cup {"main", "loop"} :
         Goto(t, l) /\ (t \in Workers => l # "main") /\ (t = main => l # "loop")
  BY TaskPlaces
<1>2. /\ pc[t] \in OfBoth /\ (UNCHANGED ecVars \/ NotifyOne)
      /\ UNCHANGED <<scenario, done_, cancelled_>> /\ pc \in [Threads -> Labels]
      /\ l \in Labels
  BY TaskPlaces, <1>1 DEF RestTypes, OfBoth, Labels
<1>3. ECTypes' BY <1>2, ECKept, Pool
<1>4. pre' = pre /\ asleep' \subseteq asleep BY <1>2, NotifyOnePlaces DEF ecVars
<1>5. t \in Workers => t \notin pre /\ t \notin asleep /\ l \notin PreWaiting
  BY <1>1, <1>2 DEF Known, OfBoth, PreWaiting
<1>6. Known' BY <1>1, <1>2, <1>4, <1>5, KnownMoved
<1>7. l \notin Past /\ l # "exit" BY DEF OfBoth, Past
<1>8. t = main => l \in OfBoth \cup {"main", "partition"} /\ pc[main] \in OfBoth \cup {"main", "partition"}
  BY <1>1, <1>2
<1>9. Closing' BY <1>1, <1>2, <1>7, <1>8, ClosingMoved
<1> QED BY <1>3, <1>6, <1>9

\* A step of a worker that leaves the event count alone
LEMMA WorkerMoved ==
  ASSUME scenario \in Scenarios, ECTypes, RestTypes, Places, Known, Closing,
         NEW w \in Workers, NEW l \in Labels, Goto(w, l),
         UNCHANGED <<scenario, ecVars, done_, cancelled_>>,
         l \in PreWaiting <=> pc[w] \in PreWaiting, w \notin asleep,
         l \in Past => done_, l = "exit" => cancelled_
  PROVE  ECTypes' /\ Known' /\ Closing'
<1>1. w \in Threads /\ w # main /\ pc \in [Threads -> Labels] BY Pool DEF RestTypes
<1>2. pre' = pre /\ asleep' = asleep /\ UNCHANGED ecVars BY DEF ecVars
<1>3. ECTypes' BY <1>2, ECKept
<1>4. w \in pre' <=> l \in PreWaiting BY <1>2 DEF Known
<1>5. Known' BY <1>1, <1>2, <1>4, KnownMoved
<1>6. Closing' BY <1>1, ClosingMoved
<1> QED BY <1>3, <1>5, <1>6

\* A worker that is not parked is not asleep.
LEMMA Awake ==
  ASSUME Known, NEW w \in Workers, pc[w] # "parked"
  PROVE  w \notin asleep
BY DEF Known

LEMMA WorkersKnown ==
  ASSUME scenario \in Scenarios, ECTypes, RestTypes, Places, Known, Closing,
         NEW w \in Workers, WorkerStep(w)
  PROVE  ECTypes' /\ Known' /\ Closing'
<1>0. UNCHANGED scenario BY DEF WorkerStep
<1>1. CASE WorkerLoop(w)
  <2>1. /\ pc[w] = "loop" /\ Goto(w, IF cancelled_ THEN "exit" ELSE "popfront")
        /\ UNCHANGED <<ecVars, done_, cancelled_>>
    BY <1>1 DEF WorkerLoop, poolVars
  <2>2. CASE cancelled_
    <3>1. Goto(w, "exit") BY <2>1, <2>2
    <3> QED BY <1>0, <2>1, <2>2, <3>1, Awake, WorkerMoved DEF Labels, PreWaiting, Past
  <2>3. CASE ~cancelled_
    <3>1. Goto(w, "popfront") BY <2>1, <2>3
    <3> QED BY <1>0, <2>1, <3>1, Awake, WorkerMoved DEF Labels, PreWaiting, Past
  <2> QED BY <2>2, <2>3
<1>2. ASSUME NEW l \in {"run", "solo", "global", "local", "prewait", "active", "startspin", "spin",
                        "again", "stopspin", "loop", "victim"},
             Goto(w, l), UNCHANGED <<ecVars, done_, cancelled_>>,
             pc[w] \in {"popfront", "solo", "local", "global", "spin", "again", "active",
                        "startspin", "stopspin", "cancelled", "victim"}
      PROVE  ECTypes' /\ Known' /\ Closing'
  BY <1>0, <1>2, Awake, WorkerMoved DEF Labels, PreWaiting, Past
<1>3. CASE PopFront(w) \/ SoloSpin(w)
  <2>1. PICK l \in {"run", "solo", "global", "local", "prewait"} : Goto(w, l)
    BY <1>3, Pool, PopsFront DEF Enter
  <2>2. pc[w] \in {"popfront", "solo"} /\ UNCHANGED <<ecVars, done_, cancelled_>>
    BY <1>3 DEF PopFront, SoloSpin, poolVars
  <2> QED BY <1>2, <2>1, <2>2
<1>4. CASE StealHit(w) \/ StealMiss(w)
  <2>1. pc[w] \in {"local", "global", "spin", "again"} /\ UNCHANGED <<ecVars, done_, cancelled_>>
    BY <1>4 DEF StealHit, StealMiss, poolVars
  <2>2. PICK l \in {"run", "local", "global", "spin", "again", "active", "prewait", "stopspin"} : Goto(w, l)
    <3>1. CASE StealHit(w) BY <3>1 DEF StealHit, Enter
    <3>2. CASE StealMiss(w)
      <4>1. Goto(w, pc[w]) \/ \E l \in {"global", "active", "prewait", "spin", "stopspin"} : Goto(w, l)
        BY <3>2 DEF StealMiss, StealFrom
      <4> QED BY <2>1, <4>1
    <3> QED BY <1>4, <3>1, <3>2
  <2> QED BY <1>2, <2>1, <2>2
<1>5. CASE NumActive(w) \/ StartSpinning(w) \/ StopSpinning(w)
  <2>1. pc[w] \in {"active", "startspin", "stopspin"} /\ UNCHANGED <<ecVars, done_, cancelled_>>
    BY <1>5 DEF NumActive, StartSpinning, StopSpinning, poolVars
  <2>2. PICK l \in {"prewait", "startspin", "stopspin", "spin", "run", "again"} : Goto(w, l)
    BY <1>5 DEF NumActive, StartSpinning, StopSpinning, StealFrom, Enter
  <2> QED BY <1>2, <2>1, <2>2
<1>6. CASE CheckCancelled(w)
  <2>1. pc[w] = "cancelled" /\ UNCHANGED <<ecVars, done_, cancelled_>>
    BY <1>6 DEF CheckCancelled, poolVars
  <2>2. CASE cancelled_
    <3>1. Goto(w, "exit") BY <1>6, <2>2 DEF CheckCancelled, StealFrom
    <3> QED BY <1>0, <2>1, <2>2, <3>1, Awake, WorkerMoved DEF Labels, PreWaiting, Past
  <2>3. CASE ~cancelled_
    <3>1. Goto(w, "victim") BY <1>6, <2>3 DEF CheckCancelled
    <3> QED BY <1>2, <2>1, <3>1
  <2> QED BY <2>2, <2>3
<1>7. CASE PopVictim(w)
  <2>1. pc[w] = "victim" /\ UNCHANGED <<ecVars, done_, cancelled_>>
    BY <1>7 DEF PopVictim, poolVars
  <2>2. Goto(w, "run") \/ Goto(w, "loop") BY <1>7 DEF PopVictim, Enter
  <2> QED BY <1>2, <2>1, <2>2
<1>8. CASE CheckQueue(w)
  <2>1. UNCHANGED <<ecVars, done_, cancelled_>> BY <1>8 DEF CheckQueue, poolVars
  <2>2. \/ pc[w] = "check" /\ \E l \in {"cancelwait", "check", "block"} : Goto(w, l)
        \/ pc[w] = "recheck" /\ \E l \in {"unblock", "recheck", "notifyall"} : Goto(w, l)
    BY <1>8 DEF CheckQueue, StealFrom
  <2>3. CASE pc[w] = "check"
    <3>1. PICK l \in {"cancelwait", "check", "block"} : Goto(w, l) BY <2>2, <2>3
    <3> QED BY <1>0, <2>1, <2>3, <3>1, Awake, WorkerMoved DEF Labels, PreWaiting, Past
  <2>4. CASE pc[w] = "recheck"
    <3>1. PICK l \in {"unblock", "recheck", "notifyall"} : Goto(w, l) BY <2>2, <2>4
    <3>2. done_ BY <2>4 DEF Closing
    <3> QED BY <1>0, <2>1, <2>4, <3>1, <3>2, Awake, WorkerMoved DEF Labels, PreWaiting, Past
  <2> QED BY <2>2, <2>3, <2>4
<1>9. CASE Block(w) \/ CheckDone(w) \/ CheckBlocked(w)
  <2>1. UNCHANGED <<ecVars, done_, cancelled_>>
    BY <1>9 DEF Block, CheckDone, CheckBlocked, poolVars
  <2>2. \/ pc[w] = "block" /\ Goto(w, "done")
        \/ pc[w] = "done" /\ (Goto(w, "commit") \/ (done_ /\ Goto(w, "all")))
        \/ pc[w] = "all" /\ (Goto(w, "cancelall") \/ Goto(w, "commit"))
    BY <1>9 DEF Block, CheckDone, CheckBlocked
  <2>3. pc[w] = "all" => done_ BY DEF Closing
  <2>4. PICK l \in {"done", "commit", "all", "cancelall"} :
           Goto(w, l) /\ (l \in {"all", "cancelall"} => done_) /\ pc[w] \in {"block", "done", "all"}
    BY <2>2, <2>3
  <2> QED BY <1>0, <2>1, <2>4, Awake, WorkerMoved DEF Labels, PreWaiting, Past
<1>10. CASE Unblock(w) \/ Wake(w)
  <2>1. /\ pc[w] \in {"unblock", "parked"} /\ Goto(w, "loop") /\ (pc[w] = "parked" => w \notin asleep)
        /\ UNCHANGED <<ecVars, done_, cancelled_>>
    BY <1>10 DEF Unblock, Wake, StealFrom
  <2> QED BY <1>0, <2>1, Awake, WorkerMoved DEF Labels, PreWaiting, Past
<1>11. ASSUME NEW l \in Labels, Goto(w, l), UNCHANGED <<done_, cancelled_>>, w \notin asleep,
              Prewait(w) \/ CancelWait(w) \/ CommitReturns(w) \/ CommitSleeps(w) \/ NotifyAll,
              Prewait(w) \/ NotifyAll => (l \in PreWaiting <=> w \in pre'),
              ~Prewait(w) /\ ~NotifyAll => l \notin PreWaiting,
              CommitSleeps(w) => l = "parked",
              l \in Past => done_, l # "exit"
       PROVE  ECTypes' /\ Known' /\ Closing'
  <2>1. w \in Threads /\ w # main /\ pc \in [Threads -> Labels] BY Pool DEF RestTypes
  <2>2. ECTypes' BY <1>0, <1>11, ECKept
  <2>3. /\ pre' \ {w} = pre \ {w} /\ asleep' \ {w} \subseteq asleep \ {w}
        /\ ~Prewait(w) /\ ~NotifyAll => w \notin pre'
        /\ w \in asleep' => CommitSleeps(w)
    BY <1>11 DEF Prewait, CancelWait, CommitReturns, CommitSleeps, NotifyAll
  <2>4. w \in pre' <=> l \in PreWaiting BY <1>11, <2>3
  <2>5. Known' BY <1>0, <1>11, <2>1, <2>3, <2>4, KnownMoved
  <2>6. Closing' BY <1>0, <1>11, <2>1, ClosingMoved
  <2> QED BY <2>2, <2>5, <2>6
<1>12. CASE WaitPrewait(w)
  <2>1. pc[w] = "prewait" /\ Prewait(w) /\ Goto(w, "check") /\ UNCHANGED <<done_, cancelled_>>
    BY <1>12 DEF WaitPrewait, StealFrom, poolVars
  <2>2. w \in pre' /\ w \notin asleep BY <2>1 DEF Prewait
  <2>3. ~CommitSleeps(w) BY <2>2 DEF CommitSleeps
  <2> QED BY <1>11, <2>1, <2>2, <2>3 DEF Labels, PreWaiting, Past
<1>13. CASE WaitCancel(w) \/ CancelAll(w)
  <2>1. /\ pc[w] \in {"cancelwait", "cancelall"} /\ CancelWait(w) /\ UNCHANGED <<done_, cancelled_>>
        /\ Goto(w, IF pc[w] = "cancelall" THEN "recheck" ELSE "cancelled")
    BY <1>13 DEF WaitCancel, CancelAll, StealFrom, poolVars
  <2>2. PICK l \in {"recheck", "cancelled"} : Goto(w, l) /\ (l = "recheck" => pc[w] = "cancelall")
    BY <2>1
  <2>3. /\ w \in pre /\ w \notin pre' /\ w \notin asleep /\ w \notin asleep'
        /\ ~Prewait(w) /\ ~NotifyAll /\ ~CommitSleeps(w)
    BY <2>1, Awake DEF CancelWait, Prewait, NotifyAll, CommitSleeps
  <2>4. pc[w] = "cancelall" => done_ BY DEF Closing
  <2> QED BY <1>11, <2>1, <2>2, <2>3, <2>4 DEF Labels, PreWaiting, Past
<1>14. CASE Commit(w)
  <2>1. /\ pc[w] = "commit" /\ (CommitReturns(w) \/ CommitSleeps(w)) /\ Goto(w, "parked")
        /\ UNCHANGED <<done_, cancelled_>>
    BY <1>14 DEF Commit, poolVars
  <2>2. ~Prewait(w) /\ ~NotifyAll /\ w \notin asleep
    BY <2>1, Awake DEF CommitReturns, CommitSleeps, Prewait, NotifyAll
  <2> QED BY <1>11, <2>1, <2>2 DEF Labels, PreWaiting, Past
<1>15. CASE Leave(w)
  <2>1. /\ pc[w] = "notifyall" /\ NotifyAll /\ Goto(w, "exit.stable")
        /\ UNCHANGED <<done_, cancelled_>> /\ done_
    BY <1>15 DEF Leave, poolVars, Closing
  <2>2. w \notin pre /\ w \notin pre' BY <2>1 DEF Known, PreWaiting, NotifyAll
  <2>3. ~CommitSleeps(w) /\ w \notin asleep BY <2>1, <2>2, Awake DEF CommitSleeps
  <2> QED BY <1>11, <2>1, <2>2, <2>3 DEF Labels, PreWaiting, Past
<1> QED BY <1>1, <1>3, <1>4, <1>5, <1>6, <1>7, <1>8, <1>9, <1>10, <1>12, <1>13, <1>14, <1>15 DEF WorkerStep

LEMMA MainKnown ==
  ASSUME scenario \in Scenarios, ECTypes, RestTypes, Places, Known, Closing,
         MainStep \/ MainCancels
  PROVE  ECTypes' /\ Known' /\ Closing'
<1>0. /\ UNCHANGED scenario /\ main \in Threads /\ main \notin Workers /\ Workers \subseteq Threads
      /\ pc \in [Threads -> Labels] /\ Workers' = Workers
  BY Pool, Constant DEF MainStep, MainCancels, RestTypes
<1>1. ASSUME NEW l \in Labels, Goto(main, l), UNCHANGED ecVars \/ NotifyAll
      PROVE  ECTypes' /\ Known'
  <2>1. pre' = pre /\ asleep' \subseteq asleep BY <1>1 DEF ecVars, NotifyAll
  <2>2. Known' BY <1>0, <1>1, <2>1, KnownMoved
  <2> QED BY <1>0, <1>1, <2>2, ECKept, Pool
<1>2. ASSUME NEW l \in OfMain, Goto(main, l), done_ => done_', cancelled_ => cancelled_',
             done_' /\ ~cancelled_' => l \in {"destroy.notify", "join", "destroyed"},
             l \in {"flush", "cancel.done", "cancel.notify"} => cancelled_'
      PROVE  Closing'
  <2>1. pc'[main] = l /\ \A w \in Workers : pc'[w] = pc[w] BY <1>0, <1>2 DEF Goto
  <2>2. \A w \in Workers : (pc'[w] \in Past => done_') /\ (pc'[w] = "exit" => cancelled_')
    BY <1>2, <2>1 DEF Closing, Past
  <2> QED BY <1>0, <1>2, <2>1, <2>2 DEF Closing, Past
<1>3. CASE ScheduleMain
  <2>1. /\ pc[main] = "main" /\ UNCHANGED <<ecVars, done_, cancelled_>>
        /\ Goto(main, "required") \/ Goto(main, "run")
    BY <1>3 DEF ScheduleMain, Schedule, poolVars
  <2>2. PICK l \in {"required", "run"} : Goto(main, l) BY <2>1
  <2>3. l \in Labels /\ l \in OfBoth /\ pc[main] \in OfBoth \cup {"main", "partition"}
    BY <2>1 DEF Labels, OfBoth
  <2>4. Closing' BY <1>0, <2>1, <2>2, <2>3, ClosingMoved
  <2> QED BY <1>1, <2>1, <2>2, <2>3, <2>4
<1>4. CASE Destroy
  <2>1. /\ UNCHANGED <<ecVars, cancelled_>> /\ done_' = TRUE
        /\ Goto(main, IF cancelled_ THEN "flush" ELSE "destroy.notify")
    BY <1>4 DEF Destroy, StealFrom
  <2>2. PICK l \in {"flush", "destroy.notify"} : Goto(main, l) /\ (l = "flush" <=> cancelled_)
    BY <2>1
  <2> QED BY <1>1, <1>2, <2>1, <2>2 DEF OfMain, Labels
<1>5. CASE DestroyNotify \/ FlushEnd \/ Join
  <2>1. PICK l \in {"join", "destroyed"} : Goto(main, l)
    BY <1>5 DEF DestroyNotify, FlushEnd, Join, StealFrom
  <2>2. (UNCHANGED ecVars \/ NotifyAll) /\ UNCHANGED <<done_, cancelled_>>
    BY <1>5 DEF DestroyNotify, FlushEnd, Join, poolVars
  <2> QED BY <1>1, <1>2, <2>1, <2>2 DEF OfMain, Labels
<1>6. CASE Flush
  <2>1. cancelled_ /\ UNCHANGED <<ecVars, done_, cancelled_>>
    BY <1>6 DEF Flush, poolVars, Closing
  <2>2. PICK l \in {"flush", "flush.stuck"} : Goto(main, l) BY <1>0, <1>6, FlushGoes
  <2> QED BY <1>1, <1>2, <2>1, <2>2 DEF OfMain, Labels
<1>7. CASE CancelDone \/ CancelNotify \/ MainCancels
  <2>1. PICK l \in {"cancel.done", "cancel.notify", "main"} : Goto(main, l)
    BY <1>7 DEF CancelDone, CancelNotify, MainCancels, Cancel
  <2>2. UNCHANGED ecVars \/ NotifyAll
    BY <1>7 DEF CancelDone, CancelNotify, MainCancels, Cancel
  <2>3. cancelled_' /\ (done_ => done_')
    BY <1>7 DEF CancelDone, CancelNotify, MainCancels, Cancel, poolVars, Closing
  <2> QED BY <1>1, <1>2, <2>1, <2>2, <2>3 DEF OfMain, Labels
<1>8. CASE SetStealPartitions
  <2>1. /\ pc[main] = "partition" /\ UNCHANGED <<ecVars, done_, cancelled_>>
        /\ Goto(main, "main") \/ Goto(main, "partition")
    BY <1>8 DEF SetStealPartitions
  <2>2. PICK l \in {"partition", "main"} : Goto(main, l) BY <2>1
  <2>3. l \in Labels BY DEF Labels
  <2>4. Closing' BY <1>0, <2>1, <2>2, <2>3, ClosingMoved
  <2> QED BY <1>1, <2>1, <2>2, <2>3, <2>4
<1> QED BY <1>3, <1>4, <1>5, <1>6, <1>7, <1>8 DEF MainStep

-----------------------------------------------------------------------------
(* The front of a queue is its owner's alone, until it is flushed.         *)

LEMMA QuietFrom ==
  ASSUME NEW w, Looks(w) \/ Waits(w)
  PROVE  pc[w] \notin OfBoth \cup {"stopspin", "exit", "exit.stable"} \cup OfMain
<1>1. CASE Looks(w)
  BY <1>1 DEF Looks, WorkerLoop, StealMiss, NumActive, StartSpinning, OfBoth, OfMain
<1>2. CASE Waits(w)
  BY <1>2 DEF Waits, WaitPrewait, CheckQueue, WaitCancel, CheckCancelled, Block, CheckDone, CheckBlocked,
              CancelAll, Unblock, Leave, Commit, Wake, OfBoth, OfMain
<1> QED BY <1>1, <1>2

LEMMA TakesFrom ==
  ASSUME NEW w, Takes(w)
  PROVE  pc[w] \in {"popfront", "solo", "local", "global", "spin", "again", "stopspin", "victim"}
BY DEF Takes, PopFront, SoloSpin, StealHit, StopSpinning, PopVictim

LEMMA WorkerGoes ==
  ASSUME NEW w \in Workers, w \in Threads, pc \in [Threads -> Labels], WorkerStep(w)
  PROVE  /\ ~Exited(w) /\ UNCHANGED <<scenario, cancelled_>> /\ \E l : Goto(w, l)
         /\ \/ CheckQueue(w) \/ CancelAll(w) \/ Leave(w)
            \/ \E l : Goto(w, l) /\ l \notin {"recheck", "notifyall", "exit.stable"}
<1>0. UNCHANGED scenario BY DEF WorkerStep
<1>1. ASSUME NEW l, Goto(w, l), l \notin {"recheck", "notifyall", "exit.stable"},
             ~Exited(w), UNCHANGED cancelled_
      PROVE  /\ ~Exited(w) /\ UNCHANGED <<scenario, cancelled_>> /\ \E m : Goto(w, m)
             /\ \/ CheckQueue(w) \/ CancelAll(w) \/ Leave(w)
                \/ \E m : Goto(w, m) /\ m \notin {"recheck", "notifyall", "exit.stable"}
  BY <1>0, <1>1
<1>2. CASE Takes(w)
  <2>1. ~Exited(w) BY <1>2, TakesFrom DEF Exited
  <2>2. UNCHANGED cancelled_
    BY <1>2 DEF Takes, PopFront, SoloSpin, StealHit, StopSpinning, PopVictim, poolVars
  <2>3. \/ UNCHANGED pc /\ pc[w] = "solo"
        \/ \E l \in {"run", "solo", "global", "local", "prewait", "stopspin", "again", "loop"} : Goto(w, l)
    BY <1>2 DEF Takes, PopFront, SoloSpin, StealHit, StopSpinning, PopVictim, StealFrom, Enter
  <2>4. UNCHANGED pc /\ pc[w] = "solo" => Goto(w, "solo") BY DEF Goto
  <2> QED BY <1>1, <2>1, <2>2, <2>3, <2>4
<1>3. CASE Looks(w) \/ Waits(w)
  <2>1. ~Exited(w) BY <1>3, QuietFrom DEF Exited
  <2>2. UNCHANGED cancelled_
    BY <1>3 DEF Looks, WorkerLoop, StealMiss, NumActive, StartSpinning, Waits, WaitPrewait, CheckQueue,
                WaitCancel, CheckCancelled, Block, CheckDone, CheckBlocked, CancelAll, Unblock, Leave,
                Commit, Wake, poolVars
  <2>3. CASE WorkerLoop(w) BY <1>1, <2>1, <2>2, <2>3 DEF WorkerLoop
  <2>4. CASE StealMiss(w)
    <3>1. \E l \in {"local", "global", "spin", "again", "active", "stopspin", "prewait"} : Goto(w, l)
      BY <2>4 DEF StealMiss, StealFrom
    <3> QED BY <1>1, <2>1, <2>2, <3>1
  <2>5. CASE NumActive(w) \/ StartSpinning(w)
    <3>1. \E l \in {"startspin", "spin", "stopspin", "prewait"} : Goto(w, l)
      BY <2>5 DEF NumActive, StartSpinning, StealFrom
    <3> QED BY <1>1, <2>1, <2>2, <3>1
  <2>6. CASE WaitPrewait(w) \/ WaitCancel(w) \/ CheckCancelled(w) \/ Block(w)
    <3>1. \E l \in {"check", "cancelled", "exit", "victim", "done"} : Goto(w, l)
      BY <2>6 DEF WaitPrewait, WaitCancel, CheckCancelled, Block, StealFrom
    <3> QED BY <1>1, <2>1, <2>2, <3>1
  <2>7. CASE CheckDone(w) \/ CheckBlocked(w) \/ Unblock(w) \/ Commit(w) \/ Wake(w)
    <3>1. \E l \in {"all", "commit", "cancelall", "loop", "parked"} : Goto(w, l)
      BY <2>7 DEF CheckDone, CheckBlocked, Unblock, Commit, Wake, StealFrom
    <3> QED BY <1>1, <2>1, <2>2, <3>1
  <2>8. CASE CheckQueue(w)
    <3>1. \E l : Goto(w, l) BY <2>8 DEF CheckQueue, StealFrom
    <3> QED BY <1>0, <2>1, <2>2, <2>8, <3>1
  <2>9. CASE CancelAll(w) \/ Leave(w)
    <3>1. \E l : Goto(w, l) BY <2>9 DEF CancelAll, Leave, StealFrom
    <3> QED BY <1>0, <2>1, <2>2, <2>9, <3>1
  <2> QED BY <1>3, <2>3, <2>4, <2>5, <2>6, <2>7, <2>8, <2>9 DEF Looks, Waits
<1> QED BY <1>2, <1>3 DEF WorkerStep, Takes, Looks, Waits

LEMMA StillFlushed ==
  ASSUME pc \in [Threads -> Labels], main \in Threads, NEW t \in Threads, NEW l, Goto(t, l),
         UNCHANGED cancelled_, t = main => pc[main] \notin {"flush", "flush.stuck", "join", "destroyed"}
  PROVE  Flushed => Flushed'
<1>1. t # main => pc'[main] = pc[main] BY DEF Goto
<1> QED BY <1>1 DEF Flushed

\* A pool that is not being flushed has queues that are atomic.
LEMMA Owned ==
  ASSUME Fronts, ~cancelled_, NEW v \in Workers
  PROVE  /\ front_[v] = "owned"
         /\ SeemsEmpty(v) <=> queue[v] = <<>>
         /\ SeemsFilled(v) <=> queue[v] # <<>>
BY DEF Fronts, Flushed, SeemsEmpty, SeemsFilled

LEMMA FrontsSame ==
  ASSUME UNCHANGED <<scenario, front_>>, Fronts, Flushed => Flushed'
  PROVE  Fronts'
<1>1. Workers' = Workers BY Constant
<1> QED BY <1>1 DEF Fronts

LEMMA FrontsPushed ==
  ASSUME scenario \in Scenarios, UNCHANGED scenario, Fronts, Closing,
         NEW t \in Threads, NEW k, NEW rest, Schedule(t, k, rest), Flushed => Flushed'
  PROVE  Fronts'
<1>1. PICK q \in Choices(t) :
         \/ UNCHANGED front_
         \/ Overlaps(q) /\ front_' = [front_ EXCEPT ![q] = "astray"]
  BY DEF Schedule, Push
<1>2. q \in Workers /\ Workers' = Workers BY Pool, Constant DEF Choices
<1>3. Overlaps(q) => Flushed BY <1>2 DEF Overlaps, Fronts, Closing, Flushed
<1> QED BY <1>1, <1>2, <1>3 DEF Fronts

LEMMA TasksFronts ==
  ASSUME scenario \in Scenarios, RestTypes, Inside, Places, Closing, Fronts,
         NEW t \in Threads, TaskStep(t)
  PROVE  Fronts'
<1>1. UNCHANGED <<scenario, cancelled_>> /\ pc[t] \in OfBoth BY TaskPlaces
<1>2. PICK l \in OfBoth \cup {"main", "loop"} : Goto(t, l) BY TaskPlaces
<1>3. Flushed => Flushed' BY <1>1, <1>2, Pool, StillFlushed DEF RestTypes, OfBoth
<1>4. CASE ScheduleChild(t)
  <2>1. \E k, rest : Schedule(t, k, rest) BY <1>4 DEF ScheduleChild
  <2> QED BY <1>1, <1>3, <2>1, FrontsPushed
<1>5. CASE IsNotifyRequired(t) \/ ScheduleNotify(t) \/ TaskEnd(t)
  <2>1. UNCHANGED front_ BY <1>5 DEF IsNotifyRequired, ScheduleNotify, TaskEnd
  <2> QED BY <1>1, <1>3, <2>1, FrontsSame
<1> QED BY <1>4, <1>5 DEF TaskStep

LEMMA WorkersFronts ==
  ASSUME scenario \in Scenarios, RestTypes, Fronts, NEW w \in Workers, WorkerStep(w)
  PROVE  Fronts'
<1>1. /\ main \in Threads /\ main \notin Workers /\ w \in Threads /\ pc \in [Threads -> Labels]
  BY Pool DEF RestTypes
<1>2. UNCHANGED <<scenario, cancelled_>> /\ \E l : Goto(w, l) BY <1>1, WorkerGoes
<1>3. Flushed => Flushed' BY <1>1, <1>2, StillFlushed
<1>4. UNCHANGED front_
  <2>1. CASE Takes(w)
    BY <2>1 DEF Takes, PopFront, SoloSpin, StealHit, StopSpinning, PopVictim
  <2>2. CASE Looks(w) BY <2>2 DEF Looks, WorkerLoop, StealMiss, NumActive, StartSpinning
  <2>3. CASE Waits(w)
    BY <2>3 DEF Waits, WaitPrewait, CheckQueue, WaitCancel, CheckCancelled, Block, CheckDone,
                CheckBlocked, CancelAll, Unblock, Leave, Commit, Wake
  <2> QED BY <2>1, <2>2, <2>3 DEF WorkerStep, Takes, Looks, Waits
<1> QED BY <1>2, <1>3, <1>4, FrontsSame

LEMMA MainFronts ==
  ASSUME scenario \in Scenarios, RestTypes, Closing, Fronts, MainStep \/ MainCancels
  PROVE  Fronts'
<1>0. UNCHANGED scenario /\ main \in Threads /\ pc \in [Threads -> Labels] /\ Workers' = Workers
  BY Pool, Constant DEF MainStep, MainCancels, RestTypes
<1>1. ASSUME NEW l, Goto(main, l), UNCHANGED front_, cancelled_ => cancelled_',
             pc[main] \in {"flush", "join"} => l \in {"join", "destroyed"},
             pc[main] \notin {"flush.stuck", "destroyed"}
      PROVE  Fronts'
  <2>1. pc'[main] = l BY <1>0, <1>1 DEF Goto
  <2>2. Flushed => Flushed' BY <1>1, <2>1 DEF Flushed
  <2> QED BY <1>0, <1>1, <2>2, FrontsSame
<1>2. CASE ScheduleMain
  <2>1. \E k : Schedule(main, k, stack) BY <1>2 DEF ScheduleMain
  <2>2. ~Flushed BY <1>2 DEF ScheduleMain, Flushed
  <2> QED BY <1>0, <2>1, <2>2, FrontsPushed
<1>3. CASE Destroy \/ DestroyNotify
  BY <1>1, <1>3 DEF Destroy, DestroyNotify, StealFrom, poolVars
<1>4. CASE FlushEnd \/ Join BY <1>1, <1>4 DEF FlushEnd, Join, poolVars
<1>5. CASE CancelDone \/ CancelNotify \/ MainCancels
  BY <1>1, <1>5 DEF CancelDone, CancelNotify, MainCancels, Cancel, poolVars
<1>6. CASE SetStealPartitions BY <1>1, <1>6 DEF SetStealPartitions
<1>7. CASE Flush
  <2>1. cancelled_ /\ UNCHANGED cancelled_ BY <1>7 DEF Flush, Closing, poolVars
  <2>2. pc'[main] \in {"flush", "flush.stuck"} BY <1>0, <1>7, FlushGoes DEF Goto
  <2>3. Flushed' BY <2>1, <2>2 DEF Flushed
  <2>4. front_' \in [Workers -> {"owned", "shared", "astray"}]
    <3>1. \/ UNCHANGED front_
          \/ \E q \in todo[main] :
               front_' = [front_ EXCEPT ![q] = IF @ = "astray" THEN @ ELSE "shared"]
      BY <1>7 DEF Flush
    <3> QED BY <3>1 DEF Fronts
  <2> QED BY <1>0, <2>3, <2>4 DEF Fronts
<1> QED BY <1>2, <1>3, <1>4, <1>5, <1>6, <1>7 DEF MainStep

-----------------------------------------------------------------------------
(* A queued task has a worker that will look for it.                       *)

\* A worker that will look is the reason ...
LEMMA Looker ==
  ASSUME UNCHANGED scenario, NEW w \in Workers, ~Lost(w)'
  PROVE  Looked'
BY Constant DEF Looked

\* ... and remains it when others move on, unless a queue is emptied under its eyes.
LEMMA StillLooks ==
  ASSUME UNCHANGED <<scenario, queue>>, pc \in [Threads -> Labels], todo \in [Threads -> SUBSET Workers],
         NEW t \in Threads, NEW l \in Labels, Goto(t, l), NEW w \in Workers, w \in Threads, w # t,
         ~Lost(w), asleep' \ {t} \subseteq asleep \ {t}, todo'[w] = todo[w]
  PROVE  ~Lost(w)'
<1>1. pc'[w] = pc[w] BY DEF Goto
<1>2. w \notin asleep' BY DEF Lost
<1> QED BY <1>1, <1>2 DEF Lost

\* Signals and queues are as before, and the one who moves looks if it would have looked.
LEMMA LookedKept ==
  ASSUME scenario \in Scenarios, RestTypes, Looked, NEW t \in Threads, NEW l \in Labels, Goto(t, l),
         UNCHANGED <<scenario, queue>>, cancelled_ => cancelled_',
         pc[t] \notin {"required", "notify"}, signals > 0 => signals' > 0,
         asleep' \ {t} \subseteq asleep \ {t},
         \A w \in Workers : w # t => todo'[w] = todo[w],
         t \in Workers /\ ~Lost(t) => ~Lost(t)'
  PROVE  Looked'
<1>1. /\ Workers' = Workers /\ Threads' = Threads /\ Workers \subseteq Threads
      /\ pc \in [Threads -> Labels] /\ todo \in [Threads -> SUBSET Workers]
      /\ \A s \in Threads : s # t => pc'[s] = pc[s]
  BY Pool, Constant DEF RestTypes, Goto
<1>2. CASE cancelled_ \/ (\A v \in Workers : queue[v] = <<>>) \/ signals > 0
  BY <1>1, <1>2 DEF Looked
<1>3. CASE \E s \in Threads : pc[s] \in {"required", "notify"}
  <2>1. PICK s \in Threads : pc[s] \in {"required", "notify"} BY <1>3
  <2>2. pc'[s] = pc[s] BY <1>1, <2>1
  <2> QED BY <1>1, <2>1, <2>2 DEF Looked
<1>4. CASE \E w \in Workers : ~Lost(w)
  <2>1. PICK w \in Workers : ~Lost(w) BY <1>4
  <2>2. CASE w = t BY <2>1, <2>2, Looker
  <2>3. CASE w # t
    <3>1. ~Lost(w)' BY <1>1, <2>1, <2>3, StillLooks
    <3> QED BY <3>1, Looker
  <2> QED BY <2>2, <2>3
<1> QED BY <1>2, <1>3, <1>4 DEF Looked

LostPlaces == {"block", "done", "all", "commit", "notifyall", "exit", "exit.stable", "check", "recheck"}

\* A worker that moves to where it will look at the queues
LEMMA LookerMoved ==
  ASSUME scenario \in Scenarios, RestTypes, UNCHANGED scenario, NEW w \in Workers,
         NEW l \in Labels \ LostPlaces, Goto(w, l), w \notin asleep'
  PROVE  Looked'
<1>1. pc'[w] = l BY Pool DEF RestTypes, Goto
<1>2. ~Lost(w)' BY <1>1 DEF Lost, LostPlaces
<1> QED BY <1>2, Looker

\* A cancelled pool
LEMMA Gone ==
  ASSUME cancelled_'
  PROVE  Looked'
BY DEF Looked

LEMMA WorkersLooked ==
  ASSUME scenario \in Scenarios, ECTypes, RestTypes, Known, Closing, Fronts, Looked,
         NEW w \in Workers, WorkerStep(w)
  PROVE  Looked'
<1>0. /\ UNCHANGED scenario /\ w \in Threads /\ Workers' = Workers /\ pc \in [Threads -> Labels]
      /\ todo \in [Threads -> SUBSET Workers]
  BY Pool, Constant DEF WorkerStep, RestTypes
<1>1. ASSUME cancelled_, UNCHANGED cancelled_ PROVE Looked' BY <1>1, Gone
<1>2. ASSUME NEW l \in {"popfront", "run", "solo", "global", "local", "prewait", "active", "startspin",
                        "spin", "again", "stopspin", "loop", "victim", "cancelled"},
             Goto(w, l), UNCHANGED asleep, w \notin asleep
      PROVE  Looked'
  BY <1>0, <1>2, LookerMoved DEF Labels, LostPlaces
<1>3. CASE WorkerLoop(w) \/ CheckCancelled(w)
  <2>1. pc[w] \in {"loop", "cancelled"} /\ UNCHANGED <<ecVars, cancelled_>>
    BY <1>3 DEF WorkerLoop, CheckCancelled, poolVars
  <2>2. ~cancelled_ => Goto(w, "popfront") \/ Goto(w, "victim")
    BY <1>3 DEF WorkerLoop, CheckCancelled
  <2> QED BY <1>1, <1>2, <2>1, <2>2, Awake DEF ecVars
<1>4. CASE PopFront(w) \/ SoloSpin(w)
  <2>1. PICK l \in {"run", "solo", "global", "local", "prewait"} : Goto(w, l)
    BY <1>4, Pool, PopsFront DEF Enter
  <2>2. pc[w] \in {"popfront", "solo"} /\ UNCHANGED ecVars BY <1>4 DEF PopFront, SoloSpin
  <2> QED BY <1>2, <2>1, <2>2, Awake DEF ecVars
<1>5. CASE StealHit(w) \/ StealMiss(w)
  <2>1. pc[w] \in {"local", "global", "spin", "again"} /\ UNCHANGED ecVars
    BY <1>5 DEF StealHit, StealMiss
  <2>2. PICK l \in {"run", "local", "global", "spin", "again", "active", "prewait", "stopspin"} : Goto(w, l)
    <3>1. CASE StealHit(w) BY <3>1 DEF StealHit, Enter
    <3>2. CASE StealMiss(w)
      <4>1. Goto(w, pc[w]) \/ \E l \in {"global", "active", "prewait", "spin", "stopspin"} : Goto(w, l)
        BY <3>2 DEF StealMiss, StealFrom
      <4> QED BY <2>1, <4>1
    <3> QED BY <1>5, <3>1, <3>2
  <2> QED BY <1>2, <2>1, <2>2, Awake DEF ecVars
<1>6. CASE NumActive(w) \/ StartSpinning(w) \/ StopSpinning(w) \/ PopVictim(w)
  <2>1. pc[w] \in {"active", "startspin", "stopspin", "victim"} /\ UNCHANGED ecVars
    BY <1>6 DEF NumActive, StartSpinning, StopSpinning, PopVictim
  <2>2. PICK l \in {"prewait", "startspin", "stopspin", "spin", "run", "again", "loop"} : Goto(w, l)
    BY <1>6 DEF NumActive, StartSpinning, StopSpinning, PopVictim, StealFrom, Enter
  <2> QED BY <1>2, <2>1, <2>2, Awake DEF ecVars
<1>7. CASE WaitCancel(w)
  <2>1. Goto(w, "cancelled") /\ UNCHANGED asleep /\ w \notin asleep
    BY <1>7, Awake DEF WaitCancel, CancelWait
  <2> QED BY <1>2, <2>1
<1>8. CASE Unblock(w) \/ Wake(w)
  <2>1. Goto(w, "loop") /\ UNCHANGED ecVars /\ w \notin asleep
    BY <1>8, Awake DEF Unblock, Wake, StealFrom
  <2> QED BY <1>2, <2>1 DEF ecVars
\* The checks start from all queues.
<1>9. CASE WaitPrewait(w) \/ CancelAll(w)
  <2>1. /\ \E l \in {"check", "recheck"} : Goto(w, l)
        /\ todo' = [todo EXCEPT ![w] = Workers] /\ UNCHANGED <<queue, asleep>> /\ w \notin asleep
    BY <1>9, Awake DEF WaitPrewait, CancelAll, StealFrom, Prewait, CancelWait
  <2>2. pc'[w] \in {"check", "recheck"} /\ todo'[w] = Workers BY <1>0, <2>1 DEF Goto
  <2>3. CASE \A v \in Workers : queue[v] = <<>> BY <1>0, <2>1, <2>3 DEF Looked
  <2>4. CASE \E v \in Workers : queue[v] # <<>>
    <3>1. ~Lost(w)' BY <1>0, <2>1, <2>2, <2>4 DEF Lost
    <3> QED BY <1>0, <3>1, Looker
  <2> QED BY <2>3, <2>4
<1>10. CASE CheckQueue(w)
  <2>1. /\ UNCHANGED <<ecVars, queue, cancelled_>> /\ w \notin asleep
        /\ pc[w] \in {"check", "recheck"}
    BY <1>10, Awake DEF CheckQueue, poolVars
  <2>2. SUFFICES ASSUME ~cancelled_ PROVE Looked' BY <1>1, <2>1
  <2>3. PICK v \in todo[w] :
          \/ queue[v] # <<>> /\ (Goto(w, "cancelwait") \/ Goto(w, "unblock"))
          \/ queue[v] = <<>> /\ StealFrom(w, pc[w], todo[w] \ {v})
          \/ /\ queue[v] = <<>> /\ todo[w] = {v}
             /\ StealFrom(w, "block", {}) \/ StealFrom(w, "notifyall", {})
    <3>1. \A v \in todo[w] : /\ SeemsEmpty(v) <=> queue[v] = <<>>
                             /\ SeemsFilled(v) <=> queue[v] # <<>>
      BY <1>0, <2>2, Owned
    <3> QED BY <1>10, <3>1 DEF CheckQueue, StealFrom
  <2>4. CASE queue[v] # <<>>
    <3>1. PICK l \in {"cancelwait", "unblock"} : Goto(w, l) BY <2>3, <2>4
    <3> QED BY <1>0, <2>1, <3>1, LookerMoved DEF Labels, LostPlaces, ecVars
  <2>5. CASE queue[v] = <<>>
    <3>1. PICK l \in {"check", "recheck", "block", "notifyall"}, vs \in SUBSET todo[w] :
            /\ Goto(w, l) /\ todo' = [todo EXCEPT ![w] = vs]
            /\ l \in {"check", "recheck"} => vs = todo[w] \ {v}
            /\ l \in {"block", "notifyall"} => todo[w] = {v}
      BY <2>1, <2>3, <2>5 DEF StealFrom
    <3>2. pc'[w] = l /\ todo'[w] = vs /\ \A s \in Workers : s # w => todo'[s] = todo[s]
      BY <1>0, <3>1 DEF Goto
    <3>3. ~Lost(w) => ~Lost(w)' BY <2>1, <2>5, <3>1, <3>2 DEF Lost, ecVars
    <3>4. l \in Labels BY DEF Labels
    <3> QED BY <1>0, <2>1, <3>1, <3>2, <3>3, <3>4, LookedKept DEF ecVars
  <2> QED BY <2>4, <2>5
\* Who is lost stays lost, and the others are as they were.
<1>11. ASSUME NEW l \in Labels, Goto(w, l), Lost(w), UNCHANGED <<queue, todo, cancelled_>>,
              pc[w] \notin {"required", "notify"}, signals > 0 => signals' > 0,
              asleep' \ {w} \subseteq asleep \ {w}
       PROVE  Looked'
  BY <1>0, <1>11, LookedKept
<1>12. CASE Block(w) \/ CheckDone(w) \/ CheckBlocked(w)
  <2>1. /\ pc[w] \in {"block", "done", "all"} /\ UNCHANGED <<ecVars, queue, todo, cancelled_>>
        /\ \E l \in {"done", "all", "commit", "cancelall"} : Goto(w, l)
    BY <1>12 DEF Block, CheckDone, CheckBlocked, poolVars
  <2>2. Lost(w) BY <2>1 DEF Lost
  <2> QED BY <1>11, <2>1, <2>2 DEF Labels, ecVars
<1>13. CASE Leave(w)
  <2>1. /\ pc[w] = "notifyall" /\ NotifyAll /\ Goto(w, "exit.stable") /\ UNCHANGED <<queue, todo, cancelled_>>
    BY <1>13 DEF Leave, poolVars
  <2>2. Lost(w) BY <2>1 DEF Lost
  <2>3. IsFiniteSet(pre) /\ Cardinality(pre) \in Nat
    BY Pool, FS_Subset, FS_CardinalityType DEF ECTypes
  <2>4. (signals > 0 => signals' > 0) /\ asleep' = {} BY <2>1, <2>3 DEF NotifyAll, ECTypes
  <2> QED BY <1>11, <2>1, <2>2, <2>4 DEF Labels
<1>14. CASE Commit(w)
  <2>1. pc[w] = "commit" /\ Goto(w, "parked") /\ UNCHANGED <<queue, todo, cancelled_>>
    BY <1>14 DEF Commit, poolVars
  <2>2. CASE CommitReturns(w)
    <3>1. w \notin asleep' BY <2>1, <2>2, Awake DEF CommitReturns
    <3> QED BY <1>0, <2>1, <3>1, LookerMoved DEF Labels, LostPlaces
  <2>3. CASE CommitSleeps(w)
    <3>1. Lost(w) BY <2>1 DEF Lost
    <3>2. UNCHANGED signals /\ asleep' \ {w} \subseteq asleep \ {w} BY <2>3 DEF CommitSleeps
    <3> QED BY <1>11, <2>1, <3>1, <3>2 DEF Labels
  <2> QED BY <1>14, <2>2, <2>3 DEF Commit
<1> QED BY <1>3, <1>4, <1>5, <1>6, <1>7, <1>8, <1>9, <1>10, <1>12, <1>13, <1>14 DEF WorkerStep

\* A thread in the spin loop is a worker, and it will look.
LEMMA SpinnerLooks ==
  ASSUME scenario \in Scenarios, RestTypes, Places, Known, Counters,
         spinning_.num_no_notification # spinning_.num_spinning
  PROVE  \E w \in Workers : pc[w] \in Spinners /\ ~Lost(w)
<1>1. spinning_.num_spinning # 0 BY DEF Counters, CounterTypes, CountersExact
<1>2. Cardinality(At(Spinners)) # 0 BY <1>1 DEF Counters, CountersExact, Spinners
<1>3. At(Spinners) # {} BY <1>2, FS_EmptySet
<1>4. PICK s \in Threads : pc[s] \in Spinners BY <1>3 DEF At
<1>5. s \in Workers BY <1>4, Pool DEF Places, OfMain, OfBoth, Spinners
<1>6. s \notin asleep BY <1>4, <1>5, Awake DEF Spinners
<1>7. ~Lost(s) BY <1>4, <1>6 DEF Lost, Spinners
<1> QED BY <1>4, <1>5, <1>7

\* With nobody waiting, a worker of a pool that is neither destroyed nor cancelled will look.
LEMMA NobodyWaits ==
  ASSUME Known, Closing, pre = {}, asleep = {}, ~done_, ~cancelled_, NEW w \in Workers
  PROVE  ~Lost(w)
<1>1. pc[w] \notin {"check", "block", "done", "all", "commit"} BY DEF Known, PreWaiting
<1>2. pc[w] \notin {"recheck", "notifyall", "exit", "exit.stable"} BY DEF Closing
<1> QED BY <1>1, <1>2 DEF Lost

LEMMA TasksLooked ==
  ASSUME scenario \in Scenarios, ECTypes, RestTypes, Inside, Places, Known, Closing, Counters, Looked,
         NEW t \in Threads, TaskStep(t)
  PROVE  Looked'
<1>0. /\ UNCHANGED <<scenario, cancelled_, todo>> /\ pc[t] \in OfBoth
      /\ Workers' = Workers /\ Threads' = Threads /\ Workers \subseteq Threads
      /\ pc \in [Threads -> Labels] /\ todo \in [Threads -> SUBSET Workers]
      /\ main \notin Workers /\ t \in Workers \cup {main} /\ Workers # {}
  BY TaskPlaces, Pool, Constant DEF RestTypes
<1>1. t \in Workers => t \notin asleep BY <1>0, Awake DEF OfBoth
\* A worker that runs, or has run, a task looks after it.
<1>2. ASSUME t \in Workers, NEW l \in {"run", "loop"}, Goto(t, l), t \notin asleep'
      PROVE  Looked'
  BY <1>0, <1>2, LookerMoved DEF Labels, LostPlaces
<1>3. ASSUME t = main, NEW l \in Labels, Goto(t, l), UNCHANGED <<queue, ecVars>>, pc[t] = "run"
      PROVE  Looked'
  BY <1>0, <1>3, LookedKept DEF ecVars
<1>4. ASSUME NEW l \in {"required", "notify"}, Goto(t, l) PROVE Looked'
  <2>1. pc'[t] = l BY <1>0, <1>4 DEF Goto
  <2> QED BY <1>0, <1>4, <2>1 DEF Looked
<1>5. CASE ScheduleChild(t)
  <2>1. pc[t] = "run" /\ UNCHANGED ecVars BY <1>5 DEF ScheduleChild
  <2>2. Goto(t, "required") \/ (Goto(t, "run") /\ UNCHANGED queue)
    BY <1>5 DEF ScheduleChild, Schedule
  <2>3. CASE Goto(t, "required") BY <1>4, <2>3
  <2>4. CASE Goto(t, "run") /\ UNCHANGED queue
    BY <1>0, <1>1, <1>2, <1>3, <2>1, <2>4 DEF ecVars, Labels
  <2> QED BY <2>2, <2>3, <2>4
<1>6. CASE IsNotifyRequired(t)
  <2>1. pc[t] = "required" /\ UNCHANGED <<ecVars, queue>> BY <1>6 DEF IsNotifyRequired
  <2>2. CASE spinning_.num_no_notification = spinning_.num_spinning
    <3>1. Goto(t, "notify") BY <1>6, <2>2 DEF IsNotifyRequired
    <3> QED BY <1>4, <3>1
  <2>3. CASE spinning_.num_no_notification # spinning_.num_spinning
    <3>1. PICK w \in Workers : pc[w] \in Spinners /\ ~Lost(w) BY <2>3, SpinnerLooks
    <3>2. w # t /\ w \in Threads BY <1>0, <2>1, <3>1 DEF Spinners
    <3>3. PICK l \in OfBoth \cup {"main", "loop"} : Goto(t, l) BY TaskPlaces
    <3>4. l \in Labels BY DEF OfBoth, Labels
    <3>5. ~Lost(w)' BY <1>0, <2>1, <3>1, <3>2, <3>3, <3>4, StillLooks DEF ecVars
    <3> QED BY <1>0, <3>5, Looker
  <2> QED BY <2>2, <2>3
<1>7. CASE ScheduleNotify(t)
  <2>1. pc[t] = "notify" /\ NotifyOne /\ Return(t) /\ UNCHANGED queue BY <1>7 DEF ScheduleNotify
  <2>2. PICK l \in {"run", "main"} : Goto(t, l) /\ (t \in Workers => l = "run")
    <3>1. t \in Workers => stack[t] # <<>> BY <2>1 DEF Inside, OfBoth
    <3> QED BY <2>1, <3>1 DEF Return
  <2>3. l \in Labels BY DEF Labels
  <2>4. CASE NotifyPreWaiter
    <3>1. signals' > 0 BY <2>4 DEF NotifyPreWaiter, ECTypes
    <3> QED BY <3>1 DEF Looked
  <2>5. CASE \E w \in Workers : NotifySleeper(w)
    <3>1. PICK w \in Workers : NotifySleeper(w) BY <2>5
    <3>2. w \notin asleep' /\ pc[w] = "parked" BY <3>1 DEF NotifySleeper, Known
    <3>3. pc'[w] = "parked" BY <2>1, <2>2, <3>2 DEF Goto
    <3>4. ~Lost(w)' BY <3>2, <3>3 DEF Lost
    <3> QED BY <1>0, <3>4, Looker
  <2>6. CASE signals = Cardinality(pre) /\ asleep = {} /\ UNCHANGED ecVars
    <3>1. CASE t \in Workers BY <1>1, <1>2, <2>2, <2>6, <3>1 DEF ecVars
    <3>2. CASE cancelled_ \/ signals > 0 BY <1>0, <2>6, <3>2 DEF Looked, ecVars
    <3>3. CASE t = main /\ ~cancelled_ /\ ~(signals > 0)
      <4>1. pre = {}
        <5>1. IsFiniteSet(pre) BY Pool, FS_Subset DEF ECTypes
        <5>2. Cardinality(pre) = 0 BY <2>6, <3>3 DEF ECTypes
        <5> QED BY <5>1, <5>2, FS_EmptySet
      <4>2. ~done_ BY <2>1, <3>3 DEF Closing
      <4>3. PICK w \in Workers : TRUE BY <1>0
      <4>4. ~Lost(w) BY <2>6, <3>3, <4>1, <4>2, NobodyWaits
      <4>5. ~Lost(w)' BY <1>0, <2>1, <2>2, <2>3, <2>6, <3>3, <4>4, StillLooks DEF ecVars
      <4> QED BY <1>0, <4>5, Looker
    <3> QED BY <1>0, <3>1, <3>2, <3>3
  <2> QED BY <2>1, <2>4, <2>5, <2>6 DEF NotifyOne
<1>8. CASE TaskEnd(t)
  <2>1. pc[t] = "run" /\ UNCHANGED <<ecVars, queue>> BY <1>8 DEF TaskEnd
  <2>2. PICK l \in {"run", "main", "loop"} : Goto(t, l) /\ (t \in Workers => l \in {"run", "loop"})
    <3>1. Goto(t, IF Len(stack[t]) > 1 THEN "run" ELSE IF t = main THEN "main" ELSE "loop")
      BY <1>8 DEF TaskEnd
    <3> QED BY <1>0, <3>1
  <2> QED BY <1>0, <1>1, <1>2, <1>3, <2>1, <2>2 DEF ecVars, Labels
<1> QED BY <1>5, <1>6, <1>7, <1>8 DEF TaskStep

LEMMA MainLooked ==
  ASSUME scenario \in Scenarios, ECTypes, RestTypes, Closing, Looked, MainStep \/ MainCancels
  PROVE  Looked'
<1>0. /\ UNCHANGED scenario /\ main \in Threads /\ main \notin Workers /\ Workers \subseteq Threads
      /\ Workers' = Workers /\ Threads' = Threads
      /\ pc \in [Threads -> Labels] /\ todo \in [Threads -> SUBSET Workers]
  BY Pool, Constant DEF MainStep, MainCancels, RestTypes
<1>1. ASSUME NEW l \in Labels, Goto(main, l), UNCHANGED queue, cancelled_ => cancelled_',
             UNCHANGED ecVars \/ NotifyAll,
             pc[main] \notin {"required", "notify"},
             todo' = todo \/ \E vs : todo' = [todo EXCEPT ![main] = vs]
      PROVE  Looked'
  <2>1. (signals > 0 => signals' > 0) /\ asleep' \subseteq asleep
    <3>1. IsFiniteSet(pre) /\ Cardinality(pre) \in Nat
      BY Pool, FS_Subset, FS_CardinalityType DEF ECTypes
    <3> QED BY <1>1, <3>1 DEF NotifyAll, ecVars, ECTypes
  <2>2. \A w \in Workers : w # main => todo'[w] = todo[w] BY <1>0, <1>1
  <2> QED BY <1>0, <1>1, <2>1, <2>2, LookedKept
<1>2. CASE ScheduleMain
  <2>1. /\ pc[main] = "main" /\ UNCHANGED <<ecVars, todo, cancelled_>>
        /\ Goto(main, "required") \/ (Goto(main, "run") /\ UNCHANGED queue)
    BY <1>2 DEF ScheduleMain, Schedule, poolVars
  <2>2. CASE Goto(main, "required")
    <3>1. pc'[main] = "required" BY <1>0, <2>2 DEF Goto
    <3> QED BY <1>0, <3>1 DEF Looked
  <2>3. CASE Goto(main, "run") /\ UNCHANGED queue BY <1>1, <2>1, <2>3 DEF Labels
  <2> QED BY <2>1, <2>2, <2>3
<1>3. CASE Destroy \/ DestroyNotify
  <2>1. PICK l \in {"flush", "destroy.notify", "join"} : Goto(main, l)
    BY <1>3 DEF Destroy, DestroyNotify, StealFrom
  <2>2. /\ pc[main] \in {"main", "destroy.notify"} /\ UNCHANGED <<queue, cancelled_>>
        /\ UNCHANGED ecVars \/ NotifyAll
        /\ \E vs : todo' = [todo EXCEPT ![main] = vs]
    BY <1>3 DEF Destroy, DestroyNotify, StealFrom, poolVars
  <2>3. l \in Labels BY DEF Labels
  <2> QED BY <1>1, <2>1, <2>2, <2>3
<1>4. CASE Flush \/ FlushEnd \/ CancelDone \/ CancelNotify \/ MainCancels
  <2>1. cancelled_'
    BY <1>4 DEF Flush, FlushEnd, CancelDone, CancelNotify, MainCancels, Cancel, poolVars, Closing
  <2> QED BY <2>1, Gone
<1>5. CASE Join
  BY <1>1, <1>5 DEF Join, Labels, poolVars
<1>6. CASE SetStealPartitions
  <2>1. /\ pc[main] = "partition" /\ UNCHANGED <<ecVars, queue, cancelled_>>
        /\ Goto(main, "main") \/ Goto(main, "partition")
        /\ \E vs : todo' = [todo EXCEPT ![main] = vs]
    BY <1>6 DEF SetStealPartitions
  <2>2. PICK l \in {"main", "partition"} : Goto(main, l) BY <2>1
  <2>3. l \in Labels BY DEF Labels
  <2> QED BY <1>1, <2>1, <2>2, <2>3
<1> QED BY <1>2, <1>3, <1>4, <1>5, <1>6 DEF MainStep

-----------------------------------------------------------------------------
(* The invariant, and what follows.                                        *)

LEMMA TypesParts ==
  Types /\ Fronts <=> ECTypes /\ RestTypes /\ CounterTypes /\ scenario \in Scenarios /\ Fronts
BY DEF Fronts, Types, TypeOK, ECTypes, RestTypes, CounterTypes, Frames

LEMMA Start ==
  ASSUME Init
  PROVE  PInv
<1>1. /\ scenario \in Scenarios /\ IsFiniteSet(Threads) /\ main \in Threads /\ main \notin Workers
      /\ \A t \in Threads : t # main => t \in Workers
      /\ Workers \subseteq Threads /\ MainTasks \subseteq Tasks /\ Workers # {}
  BY Pool DEF Init
<1>2. /\ \A w \in Workers : pc[w] = "loop"
      /\ pc[main] \in {"partition", "main"} /\ pc \in [Threads -> Labels]
  BY <1>1 DEF Init, Labels
<1>3. ECTypes BY FS_EmptySet DEF Init, InitEC, ECTypes
<1>4. RestTypes
  <2>1. /\ queue \in [Workers -> Seq(Tasks)] /\ stack \in [Threads -> Seq(Frames)]
        /\ task \in [Workers -> Seq(Tasks)]
    BY DEF Init
  <2>2. todo \in [Threads -> SUBSET Workers] BY <1>1 DEF Init
  <2>3. steal_partition \in [Workers -> SUBSET Workers] /\ spins \in [Workers -> Nat] BY DEF Init
  <2> QED BY <1>1, <1>2, <2>1, <2>2, <2>3 DEF Init, RestTypes
<1>5. Counters
  <2>1. At(Spinners) = {} /\ At(Blocked) = {} BY <1>1, <1>2 DEF At, Spinners, Blocked
  <2>2. CounterTypes BY DEF Init, CounterTypes
  <2>3. Cardinality(At(Spinners)) = 0 /\ Cardinality(At(Blocked)) = 0 BY <2>1, FS_EmptySet
  <2>4. /\ spinning_.num_spinning = 0 /\ spinning_.num_no_notification = 0 /\ blocked_ = 0
    BY DEF Init
  <2>5. CountersExact BY <2>3, <2>4 DEF CountersExact, Spinners, Blocked
  <2> QED BY <2>2, <2>5 DEF Counters
<1>6. Places BY <1>2 DEF Places, OfMain, OfBoth
<1>7. Inside
  <2>1. \A t \in Threads : stack[t] = <<>> /\ pc[t] \notin OfBoth BY <1>1, <1>2 DEF Init, OfBoth
  <2> QED BY <1>1, <2>1 DEF Inside, OfBoth
<1>8. Known BY <1>2 DEF Init, InitEC, Known, PreWaiting
<1>9. Closing BY <1>2 DEF Init, Closing
<1>10. Looked
  <2>1. \A v \in Workers : queue[v] = <<>> BY DEF Init
  <2> QED BY <2>1 DEF Looked
<1>11. Fronts BY DEF Init, Fronts
<1> QED BY <1>1, <1>3, <1>4, <1>5, <1>6, <1>7, <1>8, <1>9, <1>10, <1>11, TypesParts DEF PInv, Counters

LEMMA Step ==
  ASSUME PInv, [Next]_vars
  PROVE  PInv'
<1>1. /\ scenario \in Scenarios /\ ECTypes /\ RestTypes /\ Counters /\ Places /\ Inside /\ Known
      /\ Closing /\ Fronts /\ Looked /\ pc \in [Threads -> Labels]
  BY TypesParts DEF PInv, Counters, RestTypes
<1>2. ASSUME UNCHANGED scenario, ECTypes', RestTypes', Counters', Places', Inside', Known', Closing',
             Fronts', Looked'
      PROVE  PInv'
  <2>1. Types' <=> ECTypes' /\ RestTypes' /\ CounterTypes' /\ scenario' \in Scenarios
    BY <1>2 DEF Fronts, Types, TypeOK, ECTypes, RestTypes, CounterTypes, Frames
  <2> QED BY <1>1, <1>2, <2>1 DEF PInv, Counters
<1>3. ASSUME NEW t \in Threads, TaskStep(t) PROVE PInv'
  <2>1. UNCHANGED scenario BY <1>3 DEF TaskStep
  <2> QED BY <1>1, <1>2, <1>3, <2>1, TasksKept, TasksCounted, TasksKnown, TasksFronts, TasksLooked
<1>4. ASSUME NEW w \in Workers, WorkerStep(w) PROVE PInv'
  <2>1. UNCHANGED scenario BY <1>4 DEF WorkerStep
  <2>2. RestTypes' /\ Inside' /\ Places'
    <3>1. CASE Takes(w) BY <1>1, <2>1, <3>1, TakesKept
    <3>2. CASE Looks(w) \/ Waits(w)
      <4>1. Silent(w) /\ UNCHANGED <<queue, task>> BY <1>1, <2>1, <3>2, QuietSteps DEF Quiet
      <4>2. /\ queue' \in [Workers -> Seq(Tasks)] /\ task' \in [Workers -> Seq(Tasks)]
        BY <1>1, <4>1 DEF RestTypes
      <4> QED BY <1>1, <4>1, <4>2, SilentKept
    <3> QED BY <1>4, <3>1, <3>2 DEF WorkerStep, Takes, Looks, Waits
  <2> QED BY <1>1, <1>2, <1>4, <2>1, <2>2, WorkersCounted, WorkersKnown, WorkersFronts, WorkersLooked
<1>5. CASE MainStep \/ MainCancels
  <2>1. UNCHANGED scenario BY <1>5 DEF MainStep, MainCancels
  <2> QED BY <1>1, <1>2, <1>5, <2>1, MainKept, MainCounted, MainKnown, MainFronts, MainLooked
<1>6. CASE UNCHANGED vars
  <2>1. /\ UNCHANGED <<scenario, pre, signals, asleep, queue, front_, spinning_, blocked_, done_,
                       cancelled_, steal_partition, pc, stack, unscheduled, started, ended, task, todo, spins>>
        /\ Workers' = Workers /\ Threads' = Threads
    BY <1>6, Constant DEF vars, ecVars, poolVars, runVars
  <2>2. ECTypes' BY <1>1, <2>1 DEF ECTypes
  <2>3. RestTypes' BY <1>1, <2>1 DEF RestTypes
  <2>4. Counters' BY <1>1, <2>1 DEF Counters, CounterTypes, CountersExact, At
  <2>5. Places' /\ Inside' BY <1>1, <2>1 DEF Places, Inside
  <2>6. Known' /\ Closing' BY <1>1, <2>1 DEF Known, Closing
  <2>7. Looked' BY <1>1, <2>1 DEF Looked, Lost
  <2>8. Fronts' BY <1>1, <2>1 DEF Fronts, Flushed
  <2> QED BY <1>2, <2>1, <2>2, <2>3, <2>4, <2>5, <2>6, <2>7, <2>8
<1> QED BY <1>3, <1>4, <1>5, <1>6 DEF Next, Terminating

LEMMA Invariance == Spec => []PInv
<1>1. Init => PInv BY Start
<1>2. PInv /\ [Next]_vars => PInv' BY Step
<1> QED BY <1>1, <1>2, PTL DEF Spec

\* Every variable of the pool keeps its type, for any number of workers and any program: no counter
\* falls below zero, no thread pops what is not there.
THEOREM TypeCorrect == Spec => []TypeOK
<1>1. PInv => TypeOK BY DEF PInv, Types
<1> QED BY <1>1, Invariance, PTL

\* SpinningState and blocked_ count exactly the threads they are meant to, and no more notifications
\* are withheld than threads spin (NonBlockingThreadPool.h:181-187, 303-320).
THEOREM CountersAreExact == Spec => []CountersExact
<1>1. PInv => CountersExact BY DEF PInv
<1> QED BY <1>1, Invariance, PTL

\* A queued task never sits beside workers that all sleep, are about to or have left: a notification
\* is withheld only for a spinner that still looks, and given only to one that has not
\* (Schedule and WaitForWork, NonBlockingThreadPool.h:181-187, 416-461).
THEOREM NoneStalls == Spec => []NoStall
<1>1. ASSUME PInv PROVE NoStall
  <2>1. SUFFICES ASSUME Queued # {}, Scheduling = {}, ~cancelled_, ~(signals > 0)
                 PROVE  \E w \in Workers : w \notin asleep \cup Sinking /\ ~Exited(w)
    BY DEF NoStall
  <2>2. ~ \A v \in Workers : queue[v] = <<>>
    <3>1. PICK v \in Workers : {<<v, i>> : i \in 1 .. Len(queue[v])} # {} BY <2>1 DEF Queued
    <3>2. 1 .. Len(queue[v]) # {} BY <3>1
    <3>3. Len(<<>>) = 0 /\ 1 .. 0 = {} OBVIOUS
    <3>4. queue[v] # <<>> BY <3>2, <3>3
    <3> QED BY <3>4
  <2>3. ~ \E t \in Threads : pc[t] \in {"required", "notify"} BY <2>1 DEF Scheduling, At
  <2>4. PICK w \in Workers : ~Lost(w) BY <1>1, <2>1, <2>2, <2>3 DEF PInv, Looked
  <2>5. w \notin asleep /\ ~Exited(w) BY <2>4 DEF Lost, Exited
  <2>6. w \notin Sinking BY <2>4 DEF Lost, Sinking, At
  <2> QED BY <2>5, <2>6
<1> QED BY <1>1, Invariance, PTL

-----------------------------------------------------------------------------
(* Where the tasks are: how often one is in the queues and in the hands of the workers.           *)

Slots(Q, k) ==
  {x \in Workers \X (1 .. kSize) : x[2] <= Len(Q[x[1]]) /\ Q[x[1]][x[2]] = k}
Held(H, k) == {w \in Workers : H[w] = <<k>>}

Room(Q) == \A w \in Workers : Len(Q[w]) <= kSize

\* R is Q with task k as the i-th of queue q, or somewhere in it.
PutAt(Q, R, q, k, i) ==
  /\ i \in 1 .. Len(Q[q]) + 1 /\ Len(R[q]) = Len(Q[q]) + 1 /\ R[q][i] = k
  /\ \A j \in 1 .. Len(Q[q]) : R[q][IF j < i THEN j ELSE j + 1] = Q[q][j]
  /\ \A w \in Workers : w # q => R[w] = Q[w]
Put(Q, R, q, k) == \E i \in Nat : PutAt(Q, R, q, k, i)

\* R has task k once more than Q, and all other tasks as often.
OneMore(Q, R, k) ==
  \A j \in Tasks : /\ Cardinality(Slots(Q, j)) \in Nat /\ Cardinality(Slots(R, j)) \in Nat
                   /\ Cardinality(Slots(R, j)) = Cardinality(Slots(Q, j)) + (IF j = k THEN 1 ELSE 0)

LEMMA SlotsFinite ==
  ASSUME scenario \in Scenarios, NEW Q, NEW k
  PROVE  IsFiniteSet(Slots(Q, k)) /\ Cardinality(Slots(Q, k)) \in Nat
<1>0. IsFiniteSet(Workers) /\ kSize \in Int BY Pool
<1>1. IsFiniteSet(Workers) /\ IsFiniteSet(1 .. kSize) BY ONLY <1>0, FS_Interval
<1>2. IsFiniteSet(Workers \X (1 .. kSize)) BY <1>1, FS_Product
<1> QED BY <1>2, FS_Subset, FS_CardinalityType DEF Slots

LEMMA PutCounts ==
  ASSUME scenario \in Scenarios, NEW Q \in [Workers -> Seq(Tasks)], NEW R \in [Workers -> Seq(Tasks)],
         NEW q \in Workers, NEW k \in Tasks, Put(Q, R, q, k), Room(R)
  PROVE  OneMore(Q, R, k) /\ Room(Q)
<1>1. PICK i \in Nat : PutAt(Q, R, q, k, i) BY DEF Put
<1>2. /\ Len(Q[q]) \in Nat /\ i \in 1 .. Len(Q[q]) + 1 /\ Len(R[q]) = Len(Q[q]) + 1 /\ R[q][i] = k
      /\ \A h \in 1 .. Len(Q[q]) : R[q][IF h < i THEN h ELSE h + 1] = Q[q][h]
      /\ \A w \in Workers : w # q => R[w] = Q[w]
  BY <1>1 DEF PutAt
<1>3. kSize \in Nat /\ Len(Q[q]) + 1 <= kSize BY <1>2, Pool DEF Room
<1>4. ASSUME NEW j \in Tasks
      PROVE  /\ Cardinality(Slots(Q, j)) \in Nat /\ Cardinality(Slots(R, j)) \in Nat
             /\ Cardinality(Slots(R, j)) = Cardinality(Slots(Q, j)) + (IF j = k THEN 1 ELSE 0)
  <2> DEFINE S == Slots(Q, j)
             T == Slots(R, j) \ {<<q, i>>}
             Moved(x) == IF x[1] = q /\ x[2] >= i THEN <<q, x[2] + 1>> ELSE x
             f == [x \in S |-> Moved(x)]
  <2>1. /\ \A x \in S : x = <<x[1], x[2]>> /\ x[1] \in Workers /\ x[2] \in 1 .. kSize
                        /\ x[2] <= Len(Q[x[1]]) /\ Q[x[1]][x[2]] = j
        /\ \A x \in T : x = <<x[1], x[2]>> /\ x[1] \in Workers /\ x[2] \in 1 .. kSize
                        /\ x[2] <= Len(R[x[1]]) /\ R[x[1]][x[2]] = j
    BY DEF Slots
  <2>2. ASSUME NEW x \in S PROVE Moved(x) \in T
    <3>1. CASE x[1] = q
      <4> DEFINE n == IF x[2] < i THEN x[2] ELSE x[2] + 1
      <4>1. x[2] \in 1 .. Len(Q[q]) /\ i \in Nat BY <1>2, <2>1, <3>1
      <4>2. Moved(x) = <<q, n>> BY <2>1, <3>1, <4>1
      <4>3. n \in 1 .. kSize /\ n <= Len(R[q]) /\ n # i
        <5>1. Len(R[q]) = Len(Q[q]) + 1 /\ Len(Q[q]) \in Nat /\ kSize \in Nat /\ Len(Q[q]) + 1 <= kSize
          BY <1>2, <1>3
        <5> QED BY ONLY <4>1, <5>1
      <4>4. R[q][n] = j BY <1>2, <2>1, <3>1, <4>1
      <4> HIDE DEF n
      <4>5. <<q, n>> # <<q, i>> BY <4>3
      <4> QED BY <4>2, <4>3, <4>4, <4>5 DEF Slots
    <3>2. CASE x[1] # q
      <4>1. Moved(x) = x /\ R[x[1]] = Q[x[1]] BY <1>2, <2>1, <3>2
      <4>2. x # <<q, i>> BY <2>1, <3>2
      <4> QED BY <2>1, <4>1, <4>2 DEF Slots
    <3> QED BY <3>1, <3>2
  <2>3. ASSUME NEW x \in S, NEW y \in S, Moved(x) = Moved(y) PROVE x = y
    <3>1. PICK xq, xn, yq, yn : x = <<xq, xn>> /\ y = <<yq, yn>> /\ xn \in Int /\ yn \in Int
      <4>1. x = <<x[1], x[2]>> /\ y = <<y[1], y[2]>> /\ x[2] \in Int /\ y[2] \in Int BY <2>1
      <4> QED BY <4>1
    <3>2. /\ Moved(x) = <<xq, IF xq = q /\ xn >= i THEN xn + 1 ELSE xn>>
          /\ Moved(y) = <<yq, IF yq = q /\ yn >= i THEN yn + 1 ELSE yn>>
      BY <3>1
    <3> HIDE DEF Moved
    <3>3. /\ xq = yq
          /\ (IF xq = q /\ xn >= i THEN xn + 1 ELSE xn) = (IF yq = q /\ yn >= i THEN yn + 1 ELSE yn)
      <4>1. ASSUME NEW a, NEW b, NEW c, NEW d, <<a, b>> = <<c, d>> PROVE a = c /\ b = d
        BY ONLY <4>1
      <4>2. <<xq, IF xq = q /\ xn >= i THEN xn + 1 ELSE xn>> = <<yq, IF yq = q /\ yn >= i THEN yn + 1 ELSE yn>>
        BY <2>3, <3>2
      <4> HIDE DEF S, T, f
      <4> QED BY ONLY <4>1, <4>2
    <3>4. xn = yn BY <1>2, <3>1, <3>3
    <3> QED BY <3>1, <3>3, <3>4
  <2>4. ASSUME NEW y \in T PROVE \E x \in S : Moved(x) = y
    <3>1. CASE y[1] = q
      <4> DEFINE n == IF y[2] < i THEN y[2] ELSE y[2] - 1
      <4>1. y = <<q, y[2]>> /\ y # <<q, i>> /\ y[2] \in Nat /\ 1 <= y[2] BY <2>1, <3>1
      <4>2. y[2] # i BY <4>1
      <4>3. /\ n \in 1 .. kSize /\ n \in 1 .. Len(Q[q])
            /\ y[2] = IF n < i THEN n ELSE n + 1
            /\ n >= i <=> ~(n < i)
        <5>1. /\ Len(R[q]) = Len(Q[q]) + 1 /\ Len(Q[q]) \in Nat /\ kSize \in Nat /\ Len(Q[q]) + 1 <= kSize
              /\ i \in 1 .. Len(Q[q]) + 1 /\ y[2] <= Len(R[q])
          BY <1>2, <1>3, <2>1, <3>1
        <5> QED BY ONLY <4>1, <4>2, <5>1
      <4> HIDE DEF n
      <4>4. Q[q][n] = j BY <1>2, <2>1, <3>1, <4>3
      <4>5. <<q, n>> \in S BY <4>3, <4>4 DEF Slots
      <4>6. Moved(<<q, n>>) = <<q, IF n < i THEN n ELSE n + 1>> BY <4>3
      <4> QED BY <4>1, <4>3, <4>5, <4>6
    <3>2. CASE y[1] # q
      <4>1. y \in S BY <1>2, <2>1, <3>2 DEF Slots
      <4>2. Moved(y) = y BY <3>2
      <4> QED BY <4>1, <4>2
    <3> QED BY <3>1, <3>2
  <2>5. IsFiniteSet(S) /\ IsFiniteSet(Slots(R, j)) /\ Cardinality(S) \in Nat BY SlotsFinite
  <2>6. f \in Bijection(S, T)
    <3> HIDE DEF Moved, S, T
    <3>1. f \in [S -> T] BY <2>2
    <3>2. \A x \in S : f[x] = Moved(x) OBVIOUS
    <3> HIDE DEF f
    <3> QED BY <2>3, <2>4, <3>1, <3>2 DEF Bijection, Injection, Surjection, IsInjective
  <2>7. Cardinality(T) = Cardinality(S)
    <3> HIDE DEF f, S, T
    <3> QED BY <2>5, <2>6, FS_Bijection DEF ExistsBijection
  <2>8. <<q, i>> \in Slots(R, j) <=> j = k
    <3>1. i \in 1 .. kSize /\ i <= Len(R[q])
      <4>1. Len(Q[q]) \in Nat /\ Len(R[q]) = Len(Q[q]) + 1 /\ i \in 1 .. Len(Q[q]) + 1 BY <1>2
      <4> QED BY ONLY <1>3, <4>1
    <3> QED BY <1>2, <3>1 DEF Slots
  <2>9. /\ Cardinality(Slots(R, j)) \in Nat
        /\ Cardinality(T) = Cardinality(Slots(R, j)) - (IF <<q, i>> \in Slots(R, j) THEN 1 ELSE 0)
    <3>1. Slots(R, j) \ {<<q, i>>} = T \ {<<q, i>>} /\ <<q, i>> \notin T OBVIOUS
    <3> HIDE DEF T
    <3>2. PICK c : c = <<q, i>> OBVIOUS
    <3>3. Slots(R, j) \ {c} = T \ {c} /\ c \notin T BY <3>1, <3>2
    <3>4. /\ Cardinality(Slots(R, j)) \in Nat
          /\ Cardinality(T) = Cardinality(Slots(R, j))
               + (IF c \in T THEN 1 ELSE 0) - (IF c \in Slots(R, j) THEN 1 ELSE 0)
      BY ONLY <2>5, <3>3, CountMove
    <3> QED BY <3>2, <3>3, <3>4
  <2> QED BY <2>5, <2>7, <2>8, <2>9
<1>5. Room(Q)
  <2>1. ASSUME NEW w \in Workers PROVE Len(Q[w]) <= kSize
    <3>1. CASE w = q BY ONLY <1>2, <1>3, <3>1
    <3>2. CASE w # q BY <1>2, <3>2 DEF Room
    <3> QED BY <3>1, <3>2
  <2> QED BY <2>1 DEF Room
<1> QED BY <1>4, <1>5 DEF OneMore

\* H is G with task k in the hands of worker w, which were empty.
TakesUp(G, H, w, k) == \A u \in Workers : IF u = w THEN G[u] = <<>> /\ H[u] = <<k>> ELSE H[u] = G[u]

LEMMA HandCounts ==
  ASSUME scenario \in Scenarios, NEW G, NEW H, NEW w \in Workers, NEW k \in Tasks, TakesUp(G, H, w, k)
  PROVE  \A j \in Tasks : /\ Cardinality(Held(G, j)) \in Nat /\ Cardinality(Held(H, j)) \in Nat
                          /\ Cardinality(Held(H, j)) = Cardinality(Held(G, j)) + (IF j = k THEN 1 ELSE 0)
<1>1. ASSUME NEW j \in Tasks
      PROVE  /\ Cardinality(Held(G, j)) \in Nat /\ Cardinality(Held(H, j)) \in Nat
             /\ Cardinality(Held(H, j)) = Cardinality(Held(G, j)) + (IF j = k THEN 1 ELSE 0)
  <2>1. IsFiniteSet(Held(G, j)) BY Pool, FS_Subset DEF Held
  <2>2. /\ Held(G, j) \ {w} = Held(H, j) \ {w}
        /\ w \notin Held(G, j) /\ (w \in Held(H, j) <=> j = k)
    <3>1. <<k>> = <<j>> <=> j = k OBVIOUS
    <3>2. <<>> # <<j>> OBVIOUS
    <3> QED BY <3>1, <3>2 DEF Held, TakesUp
  <2>3. /\ Cardinality(Held(G, j)) \in Nat /\ Cardinality(Held(H, j)) \in Nat
        /\ Cardinality(Held(H, j)) = Cardinality(Held(G, j))
             + (IF w \in Held(H, j) THEN 1 ELSE 0) - (IF w \in Held(G, j) THEN 1 ELSE 0)
    BY ONLY <2>1, <2>2, CountMove
  <2> QED BY ONLY <2>2, <2>3
<1> QED BY <1>1

LEMMA HeldFinite ==
  ASSUME scenario \in Scenarios, NEW H, NEW k
  PROVE  IsFiniteSet(Held(H, k)) /\ Cardinality(Held(H, k)) \in Nat
BY Pool, FS_Subset, FS_CardinalityType DEF Held

\* Somewhere is a task that is counted, and a task that is somewhere is counted.
LEMMA Somewhere ==
  ASSUME scenario \in Scenarios, queue \in [Workers -> Seq(Tasks)], Room(queue)
  PROVE  \A k \in Tasks :
           /\ Waiting(k) \in Nat
           /\ Waiting(k) = Cardinality(Slots(queue, k)) + Cardinality(Held(task, k))
           /\ (\A w \in Workers : queue[w] = <<>> /\ task[w] = <<>>) => Waiting(k) = 0
<1>1. ASSUME NEW k \in Tasks
      PROVE  /\ Waiting(k) \in Nat
             /\ Waiting(k) = Cardinality(Slots(queue, k)) + Cardinality(Held(task, k))
             /\ (\A w \in Workers : queue[w] = <<>> /\ task[w] = <<>>) => Waiting(k) = 0
  <2>1. Waiting(k) = Cardinality(Slots(queue, k)) + Cardinality(Held(task, k))
    BY DEF Waiting, Slots, Held
  <2>2. Cardinality(Slots(queue, k)) \in Nat /\ Cardinality(Held(task, k)) \in Nat
    BY SlotsFinite, HeldFinite
  <2>3. ASSUME \A w \in Workers : queue[w] = <<>> /\ task[w] = <<>>
        PROVE  Slots(queue, k) = {} /\ Held(task, k) = {}
    <3>1. Len(<<>>) = 0 /\ <<>> # <<k>> OBVIOUS
    <3>2. \A w \in Workers : Len(queue[w]) = 0 BY <2>3, <3>1
    <3>3. Slots(queue, k) = {} BY <3>2 DEF Slots
    <3>4. Held(task, k) = {} BY <2>3, <3>1 DEF Held
    <3> QED BY <3>3, <3>4
  <2>4. Cardinality({}) = 0 BY FS_EmptySet
  <2>5. ASSUME \A w \in Workers : queue[w] = <<>> /\ task[w] = <<>>
        PROVE  Waiting(k) = 0
    <3>1. Slots(queue, k) = {} /\ Held(task, k) = {} BY <2>3, <2>5
    <3>2. Waiting(k) = 0 + 0 BY <2>1, <2>4, <3>1
    <3> QED BY <3>2
  <2> QED BY <2>1, <2>2, <2>5
<1> QED BY <1>1

-----------------------------------------------------------------------------
(* Which tasks run, and which were submitted.                                                     *)

\* Every task of S, and no other, is on one of the stacks, once, with what it has yet to schedule.
Framed(st, S) ==
  /\ \A t \in Threads : \A i \in 1 .. Len(st[t]) :
       st[t][i].task \in S /\ st[t][i].kids \subseteq Children[st[t][i].task]
  /\ \A s, t \in Threads : \A i \in 1 .. Len(st[s]) : \A j \in 1 .. Len(st[t]) :
       st[s][i].task = st[t][j].task => s = t /\ i = j
  /\ \A k \in S : \E t \in Threads : \E i \in 1 .. Len(st[t]) : st[t][i].task = k

\* What the tasks on the stacks have yet to schedule, and so what has been submitted
Due(st) == UNION {UNION {st[t][i].kids : i \in 1 .. Len(st[t])} : t \in Threads}
Given(sd, st, un) == (MainTasks \ un) \cup ((UNION {Children[p] : p \in sd}) \ Due(st))

\* More is to be scheduled from st2 than from st: K.
MoreDue(st, st2, K) == Due(st2) = Due(st) \cup K
LessDue(st, st2, k) == Due(st2) = Due(st) \ {k} /\ k \in Due(st)

\* st2 is st with frame f on top of the stack of thread t; st2 is st without the top of that stack.
OnTop(st, st2, t, f) == st2[t] = <<f>> \o st[t] /\ \A s \in Threads : s # t => st2[s] = st[s]
OffTop(st, st2, t) == st2[t] = Tail(st[t]) /\ \A s \in Threads : s # t => st2[s] = st[s]

LEMMA DueIs ==
  ASSUME NEW st
  PROVE  \A j : j \in Due(st) <=> \E s \in Threads : \E i \in 1 .. Len(st[s]) : j \in st[s][i].kids
BY DEF Due

LEMMA SubmittedIs == Submitted = Given(started, stack, unscheduled)
<1>1. UNION {f.kids : f \in UNION {{stack[t][i] : i \in 1 .. Len(stack[t])} : t \in Threads}} = Due(stack)
  BY DEF Due
<1> QED BY <1>1 DEF Submitted, Given

LEMMA SubmittedNext ==
  ASSUME UNCHANGED scenario
  PROVE  Submitted' = Given(started', stack', unscheduled')
<1>1. UNION {f.kids : f \in UNION {{stack'[t][i] : i \in 1 .. Len(stack'[t])} : t \in Threads}} = Due(stack')
  BY DEF Due
<1>2. Threads' = Threads /\ MainTasks' = MainTasks /\ Children' = Children
  BY Constant DEF MainTasks, Children
<1> QED BY <1>1, <1>2 DEF Submitted, Given

\* A task has one parent, and main's tasks have none.
LEMMA OneParent ==
  ASSUME scenario \in Scenarios, NEW p \in Tasks, NEW k \in Children[p]
  PROVE  k \in Tasks /\ k \notin MainTasks /\ \A q \in Tasks : k \in Children[q] => q = p
<1>1. k \in Tasks BY Pool
<1>2. k \notin MainTasks BY OneCallPerTask DEF Children, MainTasks
<1>3. \A q \in Tasks : k \in Children[q] => q = p BY OneCallPerTask DEF Children
<1> QED BY <1>1, <1>2, <1>3

LEMMA Pushing ==
  ASSUME NEW s \in Seq(Frames), NEW f \in Frames
  PROVE  /\ Len(<<f>> \o s) = Len(s) + 1 /\ (<<f>> \o s)[1] = f /\ Len(s) \in Nat
         /\ \A i \in 1 .. Len(s) : (<<f>> \o s)[i + 1] = s[i]
         /\ \A i \in 2 .. Len(s) + 1 : (<<f>> \o s)[i] = s[i - 1]
<1>1. <<f>> \o s \in Seq(Frames) OBVIOUS
<1> QED BY <1>1

LEMMA FrameEnter ==
  ASSUME scenario \in Scenarios, NEW st \in [Threads -> Seq(Frames)], NEW S,
         NEW t \in Threads, NEW k \in Tasks, k \notin S, Framed(st, S),
         NEW st2, OnTop(st, st2, t, Frame(k))
  PROVE  Framed(st2, S \cup {k}) /\ MoreDue(st, st2, Children[k])
<1>1. Frame(k) \in Frames /\ Frame(k).task = k /\ Frame(k).kids = Children[k]
  BY Pool DEF Frame, Frames
<1>2. /\ Len(st2[t]) = Len(st[t]) + 1 /\ st2[t][1] = Frame(k) /\ Len(st[t]) \in Nat
      /\ \A i \in 1 .. Len(st[t]) : st2[t][i + 1] = st[t][i]
      /\ \A i \in 2 .. Len(st[t]) + 1 : st2[t][i] = st[t][i - 1]
      /\ \A s \in Threads : s # t => st2[s] = st[s]
  <2>1. st[t] \in Seq(Frames) OBVIOUS
  <2> QED BY <1>1, <2>1, Pushing DEF OnTop
<1> DEFINE New(s, i) == s = t /\ i = 1
           Old(s, i) == IF s = t THEN i - 1 ELSE i
<1>3. ASSUME NEW s \in Threads, NEW i \in 1 .. Len(st2[s])
      PROVE  \/ New(s, i) /\ st2[s][i] = Frame(k)
             \/ /\ ~New(s, i) /\ Old(s, i) \in 1 .. Len(st[s])
                /\ st2[s][i] = st[s][Old(s, i)]
  <2>1. CASE s = t /\ i = 1 BY <1>2, <2>1
  <2>2. CASE s = t /\ i # 1
    <3>1. i \in 2 .. Len(st[t]) + 1 BY <1>2, <2>2
    <3> QED BY <1>2, <2>2, <3>1
  <2>3. CASE s # t BY <1>2, <2>3
  <2> QED BY <2>1, <2>2, <2>3
<1>4. ASSUME NEW s \in Threads, NEW i \in 1 .. Len(st[s])
      PROVE  \E j \in 1 .. Len(st2[s]) : st2[s][j] = st[s][i]
  <2>1. CASE s = t
    <3>1. i + 1 \in 1 .. Len(st2[t]) /\ st2[t][i + 1] = st[t][i] BY <1>2, <2>1
    <3> QED BY <2>1, <3>1
  <2>2. CASE s # t BY <1>2, <2>2
  <2> QED BY <2>1, <2>2
<1>5. 1 \in 1 .. Len(st2[t]) BY <1>2
<1>6. ASSUME NEW s \in Threads, NEW i \in 1 .. Len(st2[s])
      PROVE  st2[s][i].task \in S \cup {k} /\ st2[s][i].kids \subseteq Children[st2[s][i].task]
  <2>1. CASE New(s, i) BY <1>1, <1>3, <2>1
  <2>2. CASE ~New(s, i)
    <3>1. Old(s, i) \in 1 .. Len(st[s]) /\ st2[s][i] = st[s][Old(s, i)] BY <1>3, <2>2
    <3> HIDE DEF Old, New
    <3> QED BY <3>1 DEF Framed
  <2> QED BY <2>1, <2>2
<1>7. ASSUME NEW r \in Threads, NEW s \in Threads, NEW i \in 1 .. Len(st2[r]), NEW j \in 1 .. Len(st2[s]),
             st2[r][i].task = st2[s][j].task
      PROVE  r = s /\ i = j
  <2>1. CASE New(r, i)
    <3>1. st2[s][j].task = k BY <1>1, <1>3, <1>7, <2>1
    <3>2. New(s, j)
      <4>1. SUFFICES ASSUME ~New(s, j) PROVE FALSE OBVIOUS
      <4>2. Old(s, j) \in 1 .. Len(st[s]) /\ st2[s][j] = st[s][Old(s, j)] BY <1>3, <4>1
      <4> HIDE DEF Old
      <4>3. st[s][Old(s, j)].task \in S BY <4>2 DEF Framed
      <4> QED BY <3>1, <4>2, <4>3
    <3> QED BY <2>1, <3>2
  <2>2. CASE ~New(r, i)
    <3>1. Old(r, i) \in 1 .. Len(st[r]) /\ st2[r][i] = st[r][Old(r, i)] BY <1>3, <2>2
    <3>2. st2[r][i].task \in S
      <4> HIDE DEF Old
      <4> QED BY <3>1 DEF Framed
    <3>3. ~New(s, j) BY <1>1, <1>3, <1>7, <3>2
    <3>4. Old(s, j) \in 1 .. Len(st[s]) /\ st2[s][j] = st[s][Old(s, j)] BY <1>3, <3>3
    <3>5. r = s /\ Old(r, i) = Old(s, j)
      <4> HIDE DEF Old
      <4>1. st[r][Old(r, i)].task = st[s][Old(s, j)].task BY <1>7, <3>1, <3>4
      <4> QED BY <3>1, <3>4, <4>1 DEF Framed
    <3> QED BY <3>5
  <2> QED BY <2>1, <2>2
<1>8. ASSUME NEW j \in S \cup {k}
      PROVE  \E s \in Threads : \E i \in 1 .. Len(st2[s]) : st2[s][i].task = j
  <2>1. CASE j = k BY <1>1, <1>2, <1>5, <2>1
  <2>2. CASE j # k
    <3>0. PICK s \in Threads : \E i \in 1 .. Len(st[s]) : st[s][i].task = j BY <2>2 DEF Framed
    <3>1. PICK i \in 1 .. Len(st[s]) : st[s][i].task = j BY <3>0
    <3> QED BY <1>4, <3>1
  <2> QED BY <2>1, <2>2
<1>9. Due(st2) = Due(st) \cup Children[k]
  <2>1. ASSUME NEW j \in Due(st2) PROVE j \in Due(st) \cup Children[k]
    <3>0. PICK s \in Threads : \E i \in 1 .. Len(st2[s]) : j \in st2[s][i].kids BY DueIs
    <3>1. PICK i \in 1 .. Len(st2[s]) : j \in st2[s][i].kids BY <3>0
    <3>2. CASE New(s, i) BY <1>1, <1>3, <3>1, <3>2
    <3>3. CASE ~New(s, i)
      <4>1. Old(s, i) \in 1 .. Len(st[s]) /\ st2[s][i] = st[s][Old(s, i)] BY <1>3, <3>3
      <4> HIDE DEF Old
      <4>2. j \in st[s][Old(s, i)].kids BY <3>1, <4>1
      <4> QED BY <4>1, <4>2, DueIs
    <3> QED BY <3>2, <3>3
  <2>2. ASSUME NEW j \in Due(st) PROVE j \in Due(st2)
    <3>0. PICK s \in Threads : \E i \in 1 .. Len(st[s]) : j \in st[s][i].kids BY DueIs
    <3>1. PICK i \in 1 .. Len(st[s]) : j \in st[s][i].kids BY <3>0
    <3>2. PICK h \in 1 .. Len(st2[s]) : st2[s][h] = st[s][i] BY <1>4
    <3>3. j \in st2[s][h].kids BY <3>1, <3>2
    <3> QED BY <3>3, DueIs
  <2>3. ASSUME NEW j \in Children[k] PROVE j \in Due(st2)
    <3>1. j \in st2[t][1].kids BY <1>1, <1>2
    <3> QED BY <1>5, <3>1, DueIs
  <2> QED BY <2>1, <2>2, <2>3
<1>10. Framed(st2, S \cup {k})
  <2> HIDE DEF New, Old
  <2> QED BY <1>6, <1>7, <1>8 DEF Framed
<1> QED BY <1>9, <1>10 DEF MoreDue

LEMMA FrameLeave ==
  ASSUME NEW st \in [Threads -> Seq(Frames)], NEW S,
         NEW t \in Threads, st[t] # <<>>, Framed(st, S),
         NEW st2, OffTop(st, st2, t)
  PROVE  /\ st[t][1].task \in S
         /\ Framed(st2, S \ {st[t][1].task}) /\ MoreDue(st2, st, st[t][1].kids)
<1>1. /\ Len(st2[t]) = Len(st[t]) - 1 /\ Len(st[t]) \in Nat /\ Len(st[t]) > 0
      /\ \A i \in 1 .. Len(st2[t]) : st2[t][i] = st[t][i + 1]
      /\ \A s \in Threads : s # t => st2[s] = st[s]
  <2>1. st[t] \in Seq(Frames) OBVIOUS
  <2>2. /\ Len(Tail(st[t])) = Len(st[t]) - 1 /\ Len(st[t]) \in Nat /\ Len(st[t]) > 0
        /\ \A i \in 1 .. Len(Tail(st[t])) : Tail(st[t])[i] = st[t][i + 1]
    BY <2>1
  <2> QED BY <2>2 DEF OffTop
<1> DEFINE Old(s, i) == IF s = t THEN i + 1 ELSE i
<1>2. ASSUME NEW s \in Threads, NEW i \in 1 .. Len(st2[s])
      PROVE  /\ Old(s, i) \in 1 .. Len(st[s]) /\ st2[s][i] = st[s][Old(s, i)]
             /\ ~(s = t /\ Old(s, i) = 1)
  BY <1>1
<1>3. ASSUME NEW s \in Threads, NEW i \in 1 .. Len(st[s]), ~(s = t /\ i = 1)
      PROVE  \E j \in 1 .. Len(st2[s]) : st2[s][j] = st[s][i]
  <2>1. CASE s = t
    <3>1. i - 1 \in 1 .. Len(st2[t]) /\ (i - 1) + 1 = i BY <1>1, <1>3, <2>1
    <3>2. st2[t][i - 1] = st[t][i] BY <1>1, <3>1
    <3> QED BY <2>1, <3>1, <3>2
  <2>2. CASE s # t BY <1>1, <2>2
  <2> QED BY <2>1, <2>2
<1>4. 1 \in 1 .. Len(st[t]) BY <1>1
<1> HIDE DEF Old
<1>5. st[t][1].task \in S BY <1>4 DEF Framed
<1>6. ASSUME NEW s \in Threads, NEW i \in 1 .. Len(st2[s])
      PROVE  /\ st2[s][i].task \in S \ {st[t][1].task}
             /\ st2[s][i].kids \subseteq Children[st2[s][i].task]
  <2>1. Old(s, i) \in 1 .. Len(st[s]) /\ st2[s][i] = st[s][Old(s, i)] /\ ~(s = t /\ Old(s, i) = 1)
    BY <1>2
  <2>2. st[s][Old(s, i)].task # st[t][1].task BY <1>4, <2>1 DEF Framed
  <2> QED BY <2>1, <2>2 DEF Framed
<1>7. ASSUME NEW r \in Threads, NEW s \in Threads, NEW i \in 1 .. Len(st2[r]), NEW j \in 1 .. Len(st2[s]),
             st2[r][i].task = st2[s][j].task
      PROVE  r = s /\ i = j
  <2>1. /\ Old(r, i) \in 1 .. Len(st[r]) /\ Old(s, j) \in 1 .. Len(st[s])
        /\ st[r][Old(r, i)].task = st[s][Old(s, j)].task
    BY <1>2, <1>7
  <2>2. r = s /\ Old(r, i) = Old(s, j) BY <2>1 DEF Framed
  <2> QED BY <2>2 DEF Old
<1>8. ASSUME NEW j \in S \ {st[t][1].task}
      PROVE  \E s \in Threads : \E i \in 1 .. Len(st2[s]) : st2[s][i].task = j
  <2>0. PICK s \in Threads : \E i \in 1 .. Len(st[s]) : st[s][i].task = j BY DEF Framed
  <2>1. PICK i \in 1 .. Len(st[s]) : st[s][i].task = j BY <2>0
  <2>2. ~(s = t /\ i = 1) BY <2>1
  <2> QED BY <1>3, <2>1, <2>2
<1>9. Due(st) = Due(st2) \cup st[t][1].kids
  <2>1. ASSUME NEW j \in Due(st2) PROVE j \in Due(st)
    <3>0. PICK s \in Threads : \E i \in 1 .. Len(st2[s]) : j \in st2[s][i].kids BY DueIs
    <3>1. PICK i \in 1 .. Len(st2[s]) : j \in st2[s][i].kids BY <3>0
    <3>2. Old(s, i) \in 1 .. Len(st[s]) /\ j \in st[s][Old(s, i)].kids BY <1>2, <3>1
    <3> QED BY <3>2, DueIs
  <2>2. ASSUME NEW j \in Due(st) PROVE j \in Due(st2) \cup st[t][1].kids
    <3>0. PICK s \in Threads : \E i \in 1 .. Len(st[s]) : j \in st[s][i].kids BY DueIs
    <3>1. PICK i \in 1 .. Len(st[s]) : j \in st[s][i].kids BY <3>0
    <3>2. CASE s = t /\ i = 1 BY <3>1, <3>2
    <3>3. CASE ~(s = t /\ i = 1)
      <4>1. PICK h \in 1 .. Len(st2[s]) : st2[s][h] = st[s][i] BY <1>3, <3>3
      <4>2. j \in st2[s][h].kids BY <3>1, <4>1
      <4> QED BY <4>2, DueIs
    <3> QED BY <3>2, <3>3
  <2>3. st[t][1].kids \subseteq Due(st) BY <1>4 DEF Due
  <2> QED BY <2>1, <2>2, <2>3
<1>10. Framed(st2, S \ {st[t][1].task}) BY <1>6, <1>7, <1>8 DEF Framed
<1> QED BY <1>5, <1>9, <1>10 DEF MoreDue

\* The task on top of the stack of t schedules one of its children.
Parted(st, t, k) ==
  [st EXCEPT ![t] = <<[task |-> st[t][1].task, kids |-> st[t][1].kids \ {k}]>> \o Tail(@)]

Parts(st, st2, t, k) == st[t] # <<>> /\ k \in st[t][1].kids /\ st2 = Parted(st, t, k)

LEMMA FrameTop ==
  ASSUME scenario \in Scenarios, NEW st \in [Threads -> Seq(Frames)], NEW S \in SUBSET Tasks,
         NEW t \in Threads, Framed(st, S), NEW k, NEW st2, Parts(st, st2, t, k)
  PROVE  /\ st2 \in [Threads -> Seq(Frames)] /\ st2[t] # <<>> /\ \A s \in Threads : s # t => st2[s] = st[s]
         /\ Framed(st2, S) /\ LessDue(st, st2, k)
         /\ st[t][1].task \in S /\ k \in Children[st[t][1].task]
<1>0. st[t] # <<>> /\ k \in st[t][1].kids /\ st2 = Parted(st, t, k) BY DEF Parts
<1> DEFINE top == [task |-> st[t][1].task, kids |-> st[t][1].kids \ {k}]
           rest == <<top>> \o Tail(st[t])
<1>1. st[t] \in Seq(Frames) /\ Len(st[t]) \in Nat /\ Len(st[t]) > 0 BY <1>0
<1>2. 1 \in 1 .. Len(st[t]) /\ st[t][1] \in Frames BY <1>1
<1>3. top \in Frames /\ top.task = st[t][1].task /\ top.kids = st[t][1].kids \ {k} BY <1>2 DEF Frames
<1>4. /\ rest \in Seq(Frames) /\ Len(rest) = Len(st[t]) /\ rest[1] = top
      /\ \A i \in 1 .. Len(st[t]) : i # 1 => rest[i] = st[t][i]
  <2>1. /\ Tail(st[t]) \in Seq(Frames) /\ Len(Tail(st[t])) = Len(st[t]) - 1
        /\ \A i \in 1 .. Len(Tail(st[t])) : Tail(st[t])[i] = st[t][i + 1]
    BY <1>1
  <2>2. /\ rest \in Seq(Frames) /\ Len(rest) = Len(st[t]) /\ rest[1] = top
        /\ \A i \in 2 .. Len(rest) : rest[i] = Tail(st[t])[i - 1]
    <3> HIDE DEF top
    <3> QED BY <1>1, <1>3, <2>1
  <2>3. ASSUME NEW i \in 1 .. Len(st[t]), i # 1 PROVE rest[i] = st[t][i]
    <3>1. i \in 2 .. Len(rest) /\ i - 1 \in 1 .. Len(Tail(st[t])) BY <1>1, <2>1, <2>2, <2>3
    <3>2. (i - 1) + 1 = i OBVIOUS
    <3> QED BY <2>1, <2>2, <3>1, <3>2
  <2> QED BY <2>2, <2>3
<1> HIDE DEF rest
<1>5. /\ st2 \in [Threads -> Seq(Frames)] /\ st2[t] = rest
      /\ \A s \in Threads : s # t => st2[s] = st[s]
  BY <1>0, <1>4 DEF rest, Parted
<1>6. st2[t] # <<>> BY <1>1, <1>4, <1>5
<1>7. /\ \A s \in Threads : Len(st2[s]) = Len(st[s])
      /\ \A s \in Threads : \A i \in 1 .. Len(st[s]) : ~(s = t /\ i = 1) => st2[s][i] = st[s][i]
      /\ st2[t][1] = top
  BY <1>4, <1>5
<1>8. st[t][1].task \in S /\ k \in Children[st[t][1].task] BY <1>0, <1>2 DEF Framed
<1> HIDE DEF top
<1>9. ASSUME NEW s \in Threads, NEW i \in 1 .. Len(st[s])
      PROVE  /\ st2[s][i].task = st[s][i].task /\ st2[s][i].kids = st[s][i].kids \ {k}
  <2>1. CASE s = t /\ i = 1 BY <1>3, <1>7, <2>1
  <2>2. CASE ~(s = t /\ i = 1)
    <3>1. k \notin st[s][i].kids
      <4>1. SUFFICES ASSUME k \in st[s][i].kids PROVE FALSE OBVIOUS
      <4>2. st[s][i].task \in S /\ k \in Children[st[s][i].task] BY <4>1 DEF Framed
      <4>3. st[s][i].task = st[t][1].task BY <1>8, <4>2, OneParent
      <4> QED BY <1>0, <1>2, <2>2, <4>3 DEF Framed
    <3> QED BY <1>7, <2>2, <3>1
  <2> QED BY <2>1, <2>2
<1>10. Framed(st2, S)
  <2>1. ASSUME NEW s \in Threads, NEW i \in 1 .. Len(st2[s])
        PROVE  st2[s][i].task \in S /\ st2[s][i].kids \subseteq Children[st2[s][i].task]
    BY <1>7, <1>9 DEF Framed
  <2>2. ASSUME NEW r \in Threads, NEW s \in Threads, NEW i \in 1 .. Len(st2[r]), NEW j \in 1 .. Len(st2[s]),
               st2[r][i].task = st2[s][j].task
        PROVE  r = s /\ i = j
    <3>1. i \in 1 .. Len(st[r]) /\ j \in 1 .. Len(st[s]) BY <1>7
    <3>2. st[r][i].task = st[s][j].task BY <1>9, <2>2, <3>1
    <3> QED BY <3>1, <3>2 DEF Framed
  <2>3. ASSUME NEW j \in S
        PROVE  \E s \in Threads : \E i \in 1 .. Len(st2[s]) : st2[s][i].task = j
    <3>1. PICK s \in Threads : \E i \in 1 .. Len(st[s]) : st[s][i].task = j BY DEF Framed
    <3> QED BY <1>7, <1>9, <3>1
  <2> QED BY <2>1, <2>2, <2>3 DEF Framed
<1>11. Due(st2) = Due(st) \ {k}
  <2>1. ASSUME NEW j PROVE j \in Due(st2) <=> j \in Due(st) /\ j # k
    <3>1. \A s \in Threads : \A i \in 1 .. Len(st[s]) : j \in st2[s][i].kids <=> j \in st[s][i].kids /\ j # k
      BY <1>9
    <3>2. j \in Due(st) <=> \E s \in Threads : \E i \in 1 .. Len(st[s]) : j \in st[s][i].kids BY DueIs
    <3>3. j \in Due(st2) <=> \E s \in Threads : \E i \in 1 .. Len(st2[s]) : j \in st2[s][i].kids BY DueIs
    <3> QED BY <1>7, <3>1, <3>2, <3>3
  <2> QED BY <2>1
<1>12. k \in Due(st) BY <1>0, <1>2 DEF Due
<1> QED BY <1>5, <1>6, <1>8, <1>10, <1>11, <1>12 DEF LessDue

\* B has k, which A has not, and else what A has.
Gains(A, B, k) == k \notin A /\ B = A \cup {k}

LEMMA GivenEnter ==
  ASSUME scenario \in Scenarios, NEW sd, sd \subseteq Tasks, NEW k \in Tasks, k \notin sd,
         NEW st, NEW st2, NEW un, MoreDue(st, st2, Children[k])
  PROVE  Given(sd \cup {k}, st2, un) = Given(sd, st, un)
<1>1. ASSUME NEW p \in sd, NEW j \in Children[p] PROVE j \notin Children[k] BY OneParent
<1>2. UNION {Children[p] : p \in sd \cup {k}} = (UNION {Children[p] : p \in sd}) \cup Children[k]
  OBVIOUS
<1>3. (UNION {Children[p] : p \in sd}) \cap Children[k] = {} BY <1>1
<1> QED BY <1>2, <1>3 DEF Given, MoreDue

LEMMA GivenChild ==
  ASSUME scenario \in Scenarios, NEW sd, sd \subseteq Tasks, NEW p \in sd, NEW k \in Children[p],
         NEW st, NEW st2, NEW un, LessDue(st, st2, k)
  PROVE  Gains(Given(sd, st, un), Given(sd, st2, un), k)
<1>1. k \notin MainTasks BY OneParent
<1>2. k \in UNION {Children[q] : q \in sd} OBVIOUS
<1> QED BY <1>1, <1>2 DEF Given, LessDue, Gains

LEMMA GivenMain ==
  ASSUME scenario \in Scenarios, NEW sd, sd \subseteq Tasks, NEW st, NEW un, un \subseteq MainTasks,
         NEW k \in un
  PROVE  Gains(Given(sd, st, un), Given(sd, st, un \ {k}), k)
<1>1. \A p \in sd : k \notin Children[p] BY OneParent
<1> QED BY <1>1 DEF Given, Gains

-----------------------------------------------------------------------------
(* The tasks, step by step.                                                                       *)

\* A task is in the hands of a worker that is about to leave the spin loop only.
Hands == \A w \in Workers : task[w] # <<>> => pc[w] = "stopspin" /\ Len(task[w]) = 1
Idle == \A t \in Threads : pc[t] \notin OfBoth => stack[t] = <<>>

TaskInv ==
  /\ Room(queue) /\ Hands /\ Idle
  /\ Framed(stack, started \ ended)
  /\ unscheduled \subseteq MainTasks /\ started \subseteq Submitted
  /\ Conserved

\* What a step does for the user of the pool
Submits ==
  \E k \in Tasks \ Submitted :
    /\ Submitted' = Submitted \cup {k} /\ ended' = ended
    /\ started' = started \/ (k \notin started /\ started' = started \cup {k})
Starts ==
  \E k \in Submitted \ started :
    k \in Tasks /\ started' = started \cup {k} /\ Submitted' = Submitted /\ ended' = ended
Finishes ==
  \E k \in started \ ended :
    k \in Tasks /\ ended' = ended \cup {k} /\ Submitted' = Submitted /\ started' = started
Nothing == Submitted' = Submitted /\ started' = started /\ ended' = ended
Works == Submits \/ Starts \/ Finishes \/ Nothing

LEMMA TaskInvNext ==
  ASSUME UNCHANGED scenario, Room(queue'), Hands', Idle', Framed(stack', started' \ ended'),
         unscheduled' \subseteq MainTasks, started' \subseteq Submitted', Conserved'
  PROVE  TaskInv'
<1>1. /\ Threads' = Threads /\ Workers' = Workers /\ Children' = Children /\ MainTasks' = MainTasks
      /\ kSize' = kSize
  BY Constant DEF Children, MainTasks, kSize
<1>2. Room(queue)' BY <1>1 DEF Room
<1>3. Framed(stack, started \ ended)' BY <1>1 DEF Framed
<1> QED BY <1>1, <1>2, <1>3 DEF TaskInv

LEMMA SomewhereNext ==
  ASSUME scenario \in Scenarios, UNCHANGED scenario, NEW k \in Tasks
  PROVE  /\ Waiting(k)' \in Nat
         /\ Waiting(k)' = Cardinality(Slots(queue', k)) + Cardinality(Held(task', k))
<1>1. Workers' = Workers /\ kSize' = kSize BY Constant DEF kSize
<1>2. Waiting(k)' = Cardinality(Slots(queue', k)) + Cardinality(Held(task', k))
  BY <1>1 DEF Waiting, Slots, Held
<1>3. Cardinality(Slots(queue', k)) \in Nat /\ Cardinality(Held(task', k)) \in Nat
  BY SlotsFinite, HeldFinite
<1> QED BY <1>2, <1>3

\* Nobody takes or queues a task: none waits more or less than before.
LEMMA WaitingSame ==
  ASSUME scenario \in Scenarios, UNCHANGED <<scenario, queue, task>>, NEW k \in Tasks
  PROVE  Waiting(k) \in Nat /\ Waiting(k)' = Waiting(k)
<1>1. Waiting(k)' = Cardinality(Slots(queue, k)) + Cardinality(Held(task, k)) /\ Waiting(k)' \in Nat
  BY SomewhereNext
<1>2. Waiting(k) = Cardinality(Slots(queue, k)) + Cardinality(Held(task, k))
  BY DEF Waiting, Slots, Held
<1> QED BY <1>1, <1>2

\* Task k waits once less, all other tasks as often as before.
Fetched(k) == \A j \in Tasks : /\ Waiting(j) \in Nat /\ Waiting(j)' \in Nat
                               /\ Waiting(j) = Waiting(j)' + (IF j = k THEN 1 ELSE 0)

LEMMA PoppedCounts ==
  ASSUME scenario \in Scenarios, UNCHANGED scenario, Room(queue),
         queue \in [Workers -> Seq(Tasks)], queue' \in [Workers -> Seq(Tasks)],
         UNCHANGED task, NEW v \in Workers, NEW k \in Tasks, Put(queue', queue, v, k)
  PROVE  Fetched(k) /\ Room(queue')
<1>1. OneMore(queue', queue, k) /\ Room(queue') BY PutCounts
<1>2. ASSUME NEW j \in Tasks
      PROVE  /\ Waiting(j) \in Nat /\ Waiting(j)' \in Nat
             /\ Waiting(j) = Waiting(j)' + (IF j = k THEN 1 ELSE 0)
  <2>1. /\ Waiting(j)' \in Nat
        /\ Waiting(j)' = Cardinality(Slots(queue', j)) + Cardinality(Held(task, j))
    BY SomewhereNext
  <2>2. Waiting(j) \in Nat /\ Waiting(j) = Cardinality(Slots(queue, j)) + Cardinality(Held(task, j))
    BY Somewhere
  <2>3. /\ Cardinality(Slots(queue', j)) \in Nat
        /\ Cardinality(Slots(queue, j)) = Cardinality(Slots(queue', j)) + (IF j = k THEN 1 ELSE 0)
    BY <1>1 DEF OneMore
  <2>4. Cardinality(Held(task, j)) \in Nat BY HeldFinite
  <2> QED BY <2>1, <2>2, <2>3, <2>4
<1> QED BY <1>1, <1>2 DEF Fetched

LEMMA PushedCounts ==
  ASSUME scenario \in Scenarios, UNCHANGED scenario, Room(queue'),
         queue \in [Workers -> Seq(Tasks)], queue' \in [Workers -> Seq(Tasks)],
         UNCHANGED task, NEW v \in Workers, NEW k \in Tasks, Put(queue, queue', v, k)
  PROVE  \A j \in Tasks : /\ Waiting(j) \in Nat
                          /\ Waiting(j)' = Waiting(j) + (IF j = k THEN 1 ELSE 0)
<1>1. OneMore(queue, queue', k) /\ Room(queue) BY PutCounts
<1>2. ASSUME NEW j \in Tasks
      PROVE  /\ Waiting(j) \in Nat
             /\ Waiting(j)' = Waiting(j) + (IF j = k THEN 1 ELSE 0)
  <2>1. Waiting(j)' = Cardinality(Slots(queue', j)) + Cardinality(Held(task, j))
    BY SomewhereNext
  <2>2. Waiting(j) \in Nat /\ Waiting(j) = Cardinality(Slots(queue, j)) + Cardinality(Held(task, j))
    BY <1>1, Somewhere
  <2>3. /\ Cardinality(Slots(queue, j)) \in Nat
        /\ Cardinality(Slots(queue', j)) = Cardinality(Slots(queue, j)) + (IF j = k THEN 1 ELSE 0)
    BY <1>1 DEF OneMore
  <2>4. Cardinality(Held(task, j)) \in Nat BY HeldFinite
  <2> QED BY <2>1, <2>2, <2>3, <2>4
<1> QED BY <1>2

\* A task that was taken from a queue, wherever, was in it; one that is pushed gets in.
LEMMA PoppedPut ==
  ASSUME queue \in [Workers -> Seq(Tasks)], NEW v \in Workers, NEW i \in 1 .. Len(queue[v]), Pop(v, i)
  PROVE  /\ queue[v][i] \in Tasks /\ queue' \in [Workers -> Seq(Tasks)]
         /\ Put(queue', queue, v, queue[v][i])
<1>1. queue[v] \in Seq(Tasks) /\ Len(queue[v]) \in Nat /\ i \in Nat OBVIOUS
<1>2. /\ queue[v][i] \in Tasks
      /\ Without(queue[v], i) \in Seq(Tasks) /\ Len(Without(queue[v], i)) = Len(queue[v]) - 1
      /\ \A j \in 1 .. Len(queue[v]) - 1 : Without(queue[v], i)[j] = queue[v][IF j < i THEN j ELSE j + 1]
  BY <1>1, WithoutOne
<1>3. /\ queue' \in [Workers -> Seq(Tasks)] /\ queue'[v] = Without(queue[v], i)
      /\ \A w \in Workers : w # v => queue[w] = queue'[w]
  BY <1>2 DEF Pop
<1>4. Len(queue'[v]) = Len(queue[v]) - 1 /\ i \in 1 .. Len(queue'[v]) + 1 BY <1>1, <1>2, <1>3
<1>5. PutAt(queue', queue, v, queue[v][i], i) BY <1>1, <1>2, <1>3, <1>4 DEF PutAt
<1> QED BY <1>1, <1>2, <1>3, <1>5 DEF Put

LEMMA PushedPut ==
  ASSUME scenario \in Scenarios, queue \in [Workers -> Seq(Tasks)], Room(queue),
         NEW t, NEW q \in Workers, NEW k \in Tasks, Push(t, q, k)
  PROVE  Put(queue, queue', q, k) /\ Room(queue')
<1>1. /\ queue[q] \in Seq(Tasks) /\ Len(queue[q]) \in Nat /\ Len(queue[q]) < kSize /\ kSize \in Nat
      /\ \A w \in Workers : w # q => queue'[w] = queue[w]
  BY Pool DEF Push
<1>2. CASE t = q
  <2>1. queue'[q] = <<k>> \o queue[q] BY <1>2 DEF Push
  <2>2. /\ Len(queue'[q]) = Len(queue[q]) + 1 /\ queue'[q][1] = k
        /\ \A j \in 1 .. Len(queue[q]) : queue'[q][j + 1] = queue[q][j]
    BY <1>1, <2>1
  <2>3. PutAt(queue, queue', q, k, 1) BY <1>1, <2>2 DEF PutAt
  <2> QED BY <1>1, <2>2, <2>3 DEF Put, Room
<1>3. CASE t # q
  <2>1. queue'[q] = Append(queue[q], k) BY <1>3 DEF Push
  <2>2. /\ Len(queue'[q]) = Len(queue[q]) + 1 /\ queue'[q][Len(queue[q]) + 1] = k
        /\ \A j \in 1 .. Len(queue[q]) : queue'[q][j] = queue[q][j]
    BY <1>1, <2>1
  <2>3. PutAt(queue, queue', q, k, Len(queue[q]) + 1) BY <1>1, <2>2 DEF PutAt
  <2> QED BY <1>1, <2>2, <2>3 DEF Put, Room
<1> QED BY <1>2, <1>3

\* What waits is submitted and has not started.
LEMMA FetchedKnown ==
  ASSUME Conserved, NEW k \in Tasks, Fetched(k)
  PROVE  k \in Submitted \ started /\ Waiting(k) = 1 /\ Waiting(k)' = 0
<1>1. Waiting(k) \in Nat /\ Waiting(k)' \in Nat /\ Waiting(k) = Waiting(k)' + 1 BY DEF Fetched
<1>2. k \in Submitted \ started /\ Waiting(k) = 1 BY <1>1 DEF Conserved
<1> QED BY <1>1, <1>2

\* Somebody runs a task that it has taken.
LEMMA TakenTold ==
  ASSUME scenario \in Scenarios, UNCHANGED scenario, RestTypes, TaskInv,
         NEW t \in Threads, NEW k \in Tasks, Enter(t, k), UNCHANGED <<unscheduled, ended>>,
         Fetched(k), Room(queue'), Hands', Flushed => Flushed'
  PROVE  TaskInv' /\ Starts
<1>1. k \in Submitted \ started /\ Waiting(k)' = 0 BY FetchedKnown DEF TaskInv
<1>2. k \notin started \ ended /\ (started \cup {k}) \ ended = (started \ ended) \cup {k}
  BY <1>1 DEF RestTypes
<1>3. stack \in [Threads -> Seq(Frames)] /\ pc \in [Threads -> Labels] BY DEF RestTypes
<1>4. Framed(stack', started' \ ended') /\ MoreDue(stack, stack', Children[k])
  <2>1. stack' = [stack EXCEPT ![t] = <<Frame(k)>> \o @] BY DEF Enter
  <2>2. Framed(stack, started \ ended) BY DEF TaskInv
  <2>3. PICK S, st2 : S = started \ ended /\ st2 = stack' OBVIOUS
  <2>4. Framed(st2, S \cup {k}) /\ MoreDue(stack, st2, Children[k])
    <3>1. k \notin S /\ Framed(stack, S) /\ OnTop(stack, st2, t, Frame(k))
      BY <1>2, <1>3, <2>1, <2>2, <2>3 DEF OnTop
    <3> QED BY ONLY scenario \in Scenarios, t \in Threads, k \in Tasks, <1>3, <3>1, FrameEnter
  <2> QED BY <1>2, <2>3, <2>4 DEF Enter
<1>5. Submitted' = Submitted
  <2>1. Submitted = Given(started, stack, unscheduled) BY SubmittedIs
  <2>2. Submitted' = Given(started', stack', unscheduled') BY SubmittedNext
  <2>3. started \subseteq Tasks /\ k \notin started BY <1>1 DEF RestTypes
  <2>4. Given(started \cup {k}, stack', unscheduled) = Given(started, stack, unscheduled)
    BY <1>4, <2>3, GivenEnter
  <2> QED BY <2>1, <2>2, <2>4 DEF Enter
<1>6. started' = started \cup {k} BY DEF Enter
<1>7. Idle'
  <2>1. Threads' = Threads BY Constant
  <2>2. pc'[t] = "run" /\ \A s \in Threads : s # t => pc'[s] = pc[s] /\ stack'[s] = stack[s]
    BY <1>3 DEF Enter, Goto
  <2> QED BY <2>1, <2>2 DEF Idle, TaskInv, OfBoth
<1>8. Conserved'
  <2>1. ASSUME NEW j \in Tasks
        PROVE  IF j \in Submitted' \ started'
               THEN Waiting(j)' = 1 \/ (Waiting(j)' = 0 /\ Flushed')
               ELSE Waiting(j)' = 0
    <3>1. CASE j = k BY <1>1, <1>6, <3>1
    <3>2. CASE j # k
      <4>1. Waiting(j)' = Waiting(j) BY <3>2 DEF Fetched
      <4>2. j \in Submitted' \ started' <=> j \in Submitted \ started BY <1>5, <1>6, <3>2
      <4>3. IF j \in Submitted \ started
            THEN Waiting(j) = 1 \/ (Waiting(j) = 0 /\ Flushed)
            ELSE Waiting(j) = 0
        BY DEF TaskInv, Conserved, Flushed
      <4> QED BY <4>1, <4>2, <4>3
    <3> QED BY <3>1, <3>2
  <2> QED BY <2>1 DEF Conserved, Flushed
<1>9. TaskInv' BY <1>1, <1>4, <1>5, <1>6, <1>7, <1>8, TaskInvNext DEF TaskInv
<1> QED BY <1>1, <1>5, <1>6, <1>9 DEF Starts

\* Somebody moves, and no task does.
LEMMA WalksTold ==
  ASSUME scenario \in Scenarios, RestTypes, TaskInv,
         NEW t \in Threads, NEW l, Goto(t, l),
         UNCHANGED <<scenario, queue, task, runVars>>,
         t \in Workers => task[t] = <<>>, l \notin OfBoth => stack[t] = <<>>,
         Flushed => Flushed'
  PROVE  TaskInv' /\ Nothing
<1>1. UNCHANGED <<scenario, queue, task, stack, unscheduled, started, ended>> BY DEF runVars
<1>2. Submitted' = Submitted BY <1>1, SubmittedIs, SubmittedNext
<1>3. Workers' = Workers /\ Threads' = Threads BY <1>1, Constant
<1>4. pc'[t] = l /\ \A s \in Threads : s # t => pc'[s] = pc[s] BY DEF RestTypes, Goto
<1>5. Hands' /\ Idle'
  <2>1. Workers \subseteq Threads BY Pool
  <2>2. Hands' BY <1>1, <1>3, <1>4, <2>1 DEF Hands, TaskInv
  <2>3. Idle' BY <1>1, <1>3, <1>4 DEF Idle, TaskInv
  <2> QED BY <2>2, <2>3
<1>6. \A j \in Tasks : Waiting(j)' = Waiting(j) BY <1>1, WaitingSame
<1>7. Conserved' BY <1>1, <1>2, <1>6 DEF Conserved, TaskInv, Flushed
<1>8. TaskInv' BY <1>1, <1>2, <1>5, <1>7, TaskInvNext DEF TaskInv
<1> QED BY <1>1, <1>2, <1>8 DEF Nothing

\* Schedule, with what it makes of the stacks and of what main has to schedule
LEMMA ScheduleTold ==
  ASSUME scenario \in Scenarios, RestTypes, TaskInv,
         NEW t \in Threads, NEW k \in Tasks, NEW st \in [Threads -> Seq(Frames)],
         \A s \in Threads : s # t => st[s] = stack[s],
         Framed(st, started \ ended), k \notin Submitted, unscheduled' \subseteq MainTasks,
         Given(started, st, unscheduled') = Submitted \cup {k},
         Schedule(t, k, st), pc[t] \in {"run", "main"},
         UNCHANGED <<scenario, poolVars, task, ended>>, queue' \in [Workers -> Seq(Tasks)]
  PROVE  TaskInv' /\ Submits
<1>0. /\ Workers' = Workers /\ Threads' = Threads /\ Workers \subseteq Threads
      /\ main \in Threads /\ main \notin Workers /\ pc \in [Threads -> Labels]
      /\ stack \in [Threads -> Seq(Frames)] /\ queue \in [Workers -> Seq(Tasks)]
      /\ started \subseteq Tasks /\ k \notin started /\ ended \subseteq started
  BY Pool, Constant DEF RestTypes, TaskInv
<1>1. ASSUME NEW l \in {"required", "run"}, Goto(t, l), \A s \in Threads : s # t => stack'[s] = stack[s]
      PROVE  Hands' /\ Idle' /\ (Flushed => Flushed')
  <2>1. pc'[t] = l /\ \A s \in Threads : s # t => pc'[s] = pc[s] BY <1>0, <1>1 DEF Goto
  <2>2. Hands' BY <1>0, <2>1 DEF Hands, TaskInv
  <2>3. Idle' BY <1>0, <1>1, <2>1 DEF Idle, TaskInv, OfBoth
  <2>4. Flushed => Flushed' BY <1>0, <2>1 DEF Flushed, poolVars
  <2> QED BY <2>2, <2>3, <2>4
<1>2. PICK q \in Choices(t) :
        \/ Push(t, q, k) /\ Goto(t, "required") /\ stack' = st /\ UNCHANGED started
        \/ /\ stack' = [st EXCEPT ![t] = <<Frame(k)>> \o @]
           /\ started' = started \cup {k} /\ Goto(t, "run") /\ UNCHANGED queue
  BY DEF Schedule
<1>3. Submitted' = Given(started', stack', unscheduled') BY SubmittedNext
<1>4. IF k \in Submitted \ started
      THEN Waiting(k) = 1 \/ (Waiting(k) = 0 /\ Flushed)
      ELSE Waiting(k) = 0
  BY DEF TaskInv, Conserved, Flushed
<1>5. \A j \in Tasks : IF j \in Submitted \ started
                       THEN Waiting(j) = 1 \/ (Waiting(j) = 0 /\ Flushed)
                       ELSE Waiting(j) = 0
  BY DEF TaskInv, Conserved, Flushed
<1>6. CASE Push(t, q, k) /\ Goto(t, "required") /\ stack' = st /\ UNCHANGED started
  <2>1. q \in Workers BY <1>0, <1>2, Pool DEF Choices
  <2>2. Put(queue, queue', q, k) /\ Room(queue') BY <1>0, <1>6, <2>1, PushedPut DEF TaskInv
  <2>4. \A j \in Tasks : /\ Waiting(j) \in Nat
                         /\ Waiting(j)' = Waiting(j) + (IF j = k THEN 1 ELSE 0)
    BY <1>0, <2>1, <2>2, PushedCounts
  <2>5. Submitted' = Submitted \cup {k} BY <1>3, <1>6
  <2>6. Hands' /\ Idle' /\ (Flushed => Flushed') BY <1>1, <1>6
  <2>7. Conserved'
    <3>1. ASSUME NEW j \in Tasks
          PROVE  IF j \in Submitted' \ started'
                 THEN Waiting(j)' = 1 \/ (Waiting(j)' = 0 /\ Flushed')
                 ELSE Waiting(j)' = 0
      <4>1. CASE j = k BY <1>0, <1>4, <1>6, <2>4, <2>5, <4>1
      <4>2. CASE j # k BY <1>5, <1>6, <2>4, <2>5, <2>6, <4>2
      <4> QED BY <4>1, <4>2
    <3> QED BY <3>1 DEF Conserved, Flushed
  <2>8. started' \subseteq Submitted' BY <1>6, <2>5 DEF TaskInv
  <2>9. TaskInv' BY <1>6, <2>2, <2>6, <2>7, <2>8, TaskInvNext
  <2> QED BY <1>6, <2>5, <2>9 DEF Submits
<1>7. CASE /\ stack' = [st EXCEPT ![t] = <<Frame(k)>> \o @]
           /\ started' = started \cup {k} /\ Goto(t, "run") /\ UNCHANGED queue
  <2>1. k \notin started \ ended /\ (started \cup {k}) \ ended = (started \ ended) \cup {k}
    BY <1>0
  <2>2. Framed(stack', started' \ ended') /\ MoreDue(st, stack', Children[k])
    <3>1. stack' = [st EXCEPT ![t] = <<Frame(k)>> \o @] BY <1>7
    <3>2. PICK S, st2 : S = started \ ended /\ st2 = stack' OBVIOUS
    <3>3. Framed(st2, S \cup {k}) /\ MoreDue(st, st2, Children[k])
      <4>1. k \notin S /\ Framed(st, S) /\ OnTop(st, st2, t, Frame(k))
        BY <2>1, <3>1, <3>2 DEF OnTop
      <4> QED BY ONLY scenario \in Scenarios, t \in Threads, k \in Tasks, st \in [Threads -> Seq(Frames)],
                      <4>1, FrameEnter
    <3> QED BY <1>7, <2>1, <3>2, <3>3
  <2>3. Submitted' = Submitted \cup {k}
    <3>1. Given(started \cup {k}, stack', unscheduled') = Given(started, st, unscheduled')
      <4>1. PICK st2, un : st2 = stack' /\ un = unscheduled' OBVIOUS
      <4>2. MoreDue(st, st2, Children[k]) BY <2>2, <4>1
      <4>3. Given(started \cup {k}, st2, un) = Given(started, st, un)
        BY ONLY scenario \in Scenarios, k \in Tasks, <1>0, <4>2, GivenEnter
      <4> QED BY <4>1, <4>3
    <3> QED BY <1>3, <1>7, <3>1
  <2>4. \A s \in Threads : s # t => stack'[s] = stack[s] BY <1>7
  <2>5. Hands' /\ Idle' /\ (Flushed => Flushed') BY <1>1, <1>7, <2>4
  <2>6. \A j \in Tasks : Waiting(j)' = Waiting(j) BY <1>7, WaitingSame
  <2>7. Conserved'
    <3>1. ASSUME NEW j \in Tasks
          PROVE  IF j \in Submitted' \ started'
                 THEN Waiting(j)' = 1 \/ (Waiting(j)' = 0 /\ Flushed')
                 ELSE Waiting(j)' = 0
      <4>1. CASE j = k BY <1>4, <1>7, <2>6, <4>1
      <4>2. CASE j # k BY <1>5, <1>7, <2>3, <2>5, <2>6, <4>2
      <4> QED BY <4>1, <4>2
    <3> QED BY <3>1 DEF Conserved, Flushed
  <2>8. started' \subseteq Submitted' /\ Room(queue') BY <1>7, <2>3 DEF TaskInv
  <2>9. TaskInv' BY <2>2, <2>5, <2>7, <2>8, TaskInvNext
  <2> QED BY <1>0, <1>7, <2>3, <2>9 DEF Submits
<1> QED BY <1>2, <1>6, <1>7

LEMMA TasksTold ==
  ASSUME scenario \in Scenarios, RestTypes, Inside, Places, TaskInv,
         NEW t \in Threads, TaskStep(t)
  PROVE  TaskInv' /\ Works
<1>0. /\ UNCHANGED scenario /\ stack \in [Threads -> Seq(Frames)] /\ pc \in [Threads -> Labels]
      /\ main \in Threads /\ main \notin Workers /\ queue' \in [Workers -> Seq(Tasks)]
      /\ started \subseteq Tasks
  <2>1. UNCHANGED scenario BY DEF TaskStep
  <2>2. RestTypes' /\ Workers' = Workers BY <2>1, TasksKept, Constant
  <2> QED BY <2>1, <2>2, Pool DEF RestTypes
<1>1. CASE ScheduleChild(t)
  <2>1. stack[t] # <<>> /\ pc[t] = "run" BY <1>1 DEF ScheduleChild, Inside
  <2>2. PICK k \in stack[t][1].kids : Schedule(t, k, Parted(stack, t, k))
    BY <1>1 DEF ScheduleChild, Parted
  <2>3. UNCHANGED <<poolVars, task, ended, unscheduled>> BY <1>1 DEF ScheduleChild
  <2>4. PICK st : st = Parted(stack, t, k) OBVIOUS
  <2>5. PICK S : S = started \ ended OBVIOUS
  <2>6. S \subseteq Tasks /\ Framed(stack, S) BY <1>0, <2>5 DEF TaskInv
  <2>7. /\ st \in [Threads -> Seq(Frames)] /\ \A s \in Threads : s # t => st[s] = stack[s]
        /\ Framed(st, S) /\ LessDue(stack, st, k)
        /\ stack[t][1].task \in S /\ k \in Children[stack[t][1].task]
    <3>1. Parts(stack, st, t, k) /\ S \in SUBSET Tasks BY <2>1, <2>4, <2>6 DEF Parts
    <3>2. stack \in [Threads -> Seq(Frames)] /\ Framed(stack, S) BY <1>0, <2>6
    <3> QED BY ONLY scenario \in Scenarios, t \in Threads, <3>1, <3>2, FrameTop
  <2>8. PICK p \in started : k \in Children[p] BY <2>5, <2>7
  <2>9. k \in Tasks BY <1>0, <2>8, OneParent
  <2>10. Gains(Given(started, stack, unscheduled), Given(started, st, unscheduled), k)
    BY <1>0, <2>7, <2>8, GivenChild
  <2>11. k \notin Submitted /\ Given(started, st, unscheduled') = Submitted \cup {k}
    BY <2>3, <2>10, SubmittedIs DEF Gains
  <2>12. Framed(st, started \ ended) /\ unscheduled' \subseteq MainTasks /\ Schedule(t, k, st)
    BY <2>2, <2>3, <2>4, <2>5, <2>7 DEF TaskInv
  <2>13. pc[t] \in {"run", "main"} BY <2>1
  <2> QED BY <1>0, <2>3, <2>7, <2>9, <2>11, <2>12, <2>13, ScheduleTold DEF Works
<1>2. ASSUME NEW l \in {"run", "main", "notify"}, Goto(t, l), l = "main" => stack[t] = <<>>,
             pc[t] \in OfBoth, UNCHANGED <<queue, done_, cancelled_, runVars, task>>
      PROVE  TaskInv' /\ Works
  <2>1. t \in Workers => task[t] = <<>> BY <1>2 DEF TaskInv, Hands, OfBoth
  <2>2. l \notin OfBoth => stack[t] = <<>> BY <1>2 DEF OfBoth
  <2>3. Flushed => Flushed' BY <1>0, <1>2 DEF Flushed, Goto, OfBoth
  <2> QED BY <1>0, <1>2, <2>1, <2>2, <2>3, WalksTold DEF Works
<1>3. CASE IsNotifyRequired(t)
  <2>1. /\ pc[t] = "required" /\ UNCHANGED <<queue, done_, cancelled_, runVars, task>>
        /\ Goto(t, "notify") \/ Goto(t, IF stack[t] = <<>> THEN "main" ELSE "run")
    BY <1>3 DEF IsNotifyRequired, Return
  <2> QED BY <1>2, <2>1 DEF OfBoth
<1>4. CASE ScheduleNotify(t)
  <2>1. /\ pc[t] = "notify" /\ UNCHANGED <<queue, done_, cancelled_, runVars, task>>
        /\ Goto(t, IF stack[t] = <<>> THEN "main" ELSE "run")
    BY <1>4 DEF ScheduleNotify, Return, poolVars
  <2> QED BY <1>2, <2>1 DEF OfBoth
<1>5. CASE TaskEnd(t)
  <2>1. stack[t] # <<>> /\ pc[t] = "run" /\ stack[t][1].kids = {} BY <1>5 DEF TaskEnd, Inside
  <2>2. /\ ended' = ended \cup {stack[t][1].task}
        /\ stack' = [stack EXCEPT ![t] = Tail(@)]
        /\ Goto(t, IF Len(stack[t]) > 1 THEN "run" ELSE IF t = main THEN "main" ELSE "loop")
        /\ UNCHANGED <<queue, cancelled_, task, unscheduled, started>>
    BY <1>5 DEF TaskEnd, poolVars
  <2>3. PICK S, x : S = started \ ended /\ x = stack[t][1].task OBVIOUS
  <2>4. PICK st2 : st2 = stack' OBVIOUS
  <2>5. OffTop(stack, st2, t) BY <1>0, <2>2, <2>4 DEF OffTop
  <2>6. x \in S /\ Framed(st2, S \ {x}) /\ MoreDue(st2, stack, stack[t][1].kids)
    BY <1>0, <2>1, <2>3, <2>5, FrameLeave DEF TaskInv
  <2>7. Framed(stack', started' \ ended')
    <3>1. started' \ ended' = S \ {x} BY <2>2, <2>3
    <3> QED BY <2>4, <2>6, <3>1
  <2>8. Submitted' = Submitted
    <3>1. Due(stack') = Due(stack) BY <2>1, <2>4, <2>6 DEF MoreDue
    <3>2. Submitted = Given(started, stack, unscheduled) BY SubmittedIs
    <3>3. Submitted' = Given(started', stack', unscheduled') BY <1>0, SubmittedNext
    <3> QED BY <2>2, <3>1, <3>2, <3>3 DEF Given
  <2>9. /\ pc'[t] \in {"run", "main", "loop"} /\ \A s \in Threads : s # t => pc'[s] = pc[s] /\ stack'[s] = stack[s]
        /\ Threads' = Threads /\ Workers' = Workers /\ Workers \subseteq Threads
    BY <1>0, <2>2, Pool, Constant DEF Goto
  <2>10. Hands' BY <1>0, <2>1, <2>2, <2>9 DEF Hands, TaskInv
  <2>11. Idle'
    <3>1. pc'[t] \notin OfBoth => stack'[t] = <<>>
      <4>1. SUFFICES ASSUME pc'[t] # "run" PROVE stack'[t] = <<>> BY DEF OfBoth
      <4>2. ~(Len(stack[t]) > 1) BY <1>0, <2>2, <4>1 DEF Goto
      <4>3. /\ stack[t] \in Seq(Frames) /\ stack'[t] = Tail(stack[t]) BY <1>0, <2>2
      <4> QED BY <2>1, <4>2, <4>3
    <3> QED BY <2>9, <3>1 DEF Idle, TaskInv
  <2>12. Flushed => Flushed' BY <1>0, <2>1, <2>2, <2>9 DEF Flushed
  <2>13. \A j \in Tasks : Waiting(j)' = Waiting(j) BY <1>0, <2>2, WaitingSame
  <2>14. Conserved' BY <2>2, <2>8, <2>12, <2>13 DEF Conserved, TaskInv, Flushed
  <2>15. TaskInv' BY <1>0, <2>2, <2>7, <2>8, <2>10, <2>11, <2>14, TaskInvNext DEF TaskInv
  <2>16. Finishes
    <3>1. x \in started \ ended /\ x \in Tasks /\ ended' = ended \cup {x} BY <1>0, <2>2, <2>3, <2>6
    <3> QED BY <2>2, <2>8, <3>1 DEF Finishes
  <2> QED BY <2>15, <2>16 DEF Works
<1> QED BY <1>1, <1>3, <1>4, <1>5 DEF TaskStep

LEMMA TakesTold ==
  ASSUME scenario \in Scenarios, UNCHANGED scenario, RestTypes, Inside, Places, TaskInv,
         NEW w \in Workers, Takes(w)
  PROVE  TaskInv' /\ Works
<1>0. /\ w \in Threads /\ w # main /\ main \in Threads /\ pc \in [Threads -> Labels]
      /\ queue \in [Workers -> Seq(Tasks)] /\ task \in [Workers -> Seq(Tasks)]
      /\ Workers' = Workers /\ Threads' = Threads /\ Workers \subseteq Threads
      /\ Room(queue) /\ Hands /\ Idle /\ Conserved
      /\ pc[w] \in {"popfront", "solo", "local", "global", "spin", "again", "stopspin", "victim"}
  BY Pool, Constant, TakesFrom DEF RestTypes, TaskInv
<1>1. cancelled_' = cancelled_
  BY DEF Takes, PopFront, SoloSpin, StealHit, StopSpinning, PopVictim, poolVars
<1>2. ASSUME NEW l, Goto(w, l) PROVE Flushed => Flushed'
  <2>1. pc'[main] = pc[main] BY <1>0, <1>2 DEF Goto
  <2> QED BY <1>1, <2>1 DEF Flushed
\* A task from a queue is run.
<1>3. ASSUME NEW v \in Workers, NEW k \in Tasks, Enter(w, k), Put(queue', queue, v, k),
             queue' \in [Workers -> Seq(Tasks)], UNCHANGED <<task, unscheduled, ended>>, pc[w] # "stopspin"
      PROVE  TaskInv' /\ Works
  <2>1. Goto(w, "run") BY <1>3 DEF Enter
  <2>2. Fetched(k) /\ Room(queue') BY <1>0, <1>3, PoppedCounts
  <2>3. \A s \in Threads : s # w => pc'[s] = pc[s] BY <1>0, <2>1 DEF Goto
  <2>4. Hands' BY <1>0, <1>3, <2>3 DEF Hands
  <2>5. Flushed => Flushed' BY <1>2, <2>1
  <2> QED BY <1>0, <1>3, <2>2, <2>4, <2>5, TakenTold DEF Works
\* There was none.
<1>4. ASSUME NEW l, Goto(w, l), UNCHANGED <<queue, task, stack, started, ended, unscheduled>>, task[w] = <<>>
      PROVE  TaskInv' /\ Works
  <2>1. stack[w] = <<>> BY <1>0 DEF Idle, OfBoth
  <2>2. Flushed => Flushed' BY <1>2, <1>4
  <2>3. UNCHANGED runVars BY <1>4 DEF runVars
  <2> QED BY <1>0, <1>4, <2>1, <2>2, <2>3, WalksTold DEF Works
<1>5. pc[w] # "stopspin" => task[w] = <<>> BY <1>0 DEF Hands
<1>6. CASE PopFront(w) \/ SoloSpin(w)
  <2>1. pc[w] # "stopspin" /\ UNCHANGED <<task, unscheduled, ended>> BY <1>6 DEF PopFront, SoloSpin
  <2>2. CASE \E i \in FrontOf(w) : Pop(w, i) /\ Enter(w, queue[w][i])
    <3>1. PICK i \in 1 .. Len(queue[w]) : Pop(w, i) /\ Enter(w, queue[w][i]) BY <2>2, Reached
    <3> QED BY <1>0, <1>3, <2>1, <3>1, PoppedPut
  <2>3. CASE /\ UNCHANGED <<queue, stack, started>>
             /\ \E l \in {"solo", "global", "local", "prewait"} : Goto(w, l)
    BY <1>4, <1>5, <2>1, <2>3
  <2> QED BY <1>0, <1>6, <2>2, <2>3, PopsFront
<1>7. CASE StealHit(w)
  <2>0. PICK v \in todo[w] : \E i \in 1 .. Len(queue[v]) :
          /\ Pop(v, i)
          /\ IF pc[w] = "spin"
             THEN /\ task' = [task EXCEPT ![w] = <<queue[v][i]>>]
                  /\ Goto(w, "stopspin")
                  /\ UNCHANGED <<stack, started>>
             ELSE Enter(w, queue[v][i]) /\ UNCHANGED task
    BY <1>7, Reached DEF StealHit
  <2>1. PICK i \in 1 .. Len(queue[v]) :
          /\ Pop(v, i)
          /\ IF pc[w] = "spin"
             THEN /\ task' = [task EXCEPT ![w] = <<queue[v][i]>>]
                  /\ Goto(w, "stopspin")
                  /\ UNCHANGED <<stack, started>>
             ELSE Enter(w, queue[v][i]) /\ UNCHANGED task
    BY <2>0
  <2>2. /\ v \in Workers /\ UNCHANGED <<unscheduled, ended>>
        /\ pc[w] \in {"local", "global", "spin", "again"}
    BY <1>0, <1>7 DEF StealHit, RestTypes
  <2>3. /\ queue[v][i] \in Tasks /\ Put(queue', queue, v, queue[v][i])
        /\ queue' \in [Workers -> Seq(Tasks)]
    BY <1>0, <2>1, <2>2, PoppedPut
  <2>4. CASE pc[w] # "spin" BY <1>3, <2>1, <2>2, <2>3, <2>4
  <2>5. CASE pc[w] = "spin"
    <3>1. PICK k \in Tasks : k = queue[v][i] BY <2>3
    <3>2. task' = [task EXCEPT ![w] = <<k>>] /\ Goto(w, "stopspin") /\ UNCHANGED <<stack, started>>
      BY <2>1, <2>5, <3>1
    <3>3. task[w] = <<>> /\ stack[w] = <<>> BY <1>0, <2>5 DEF Hands, Idle, OfBoth
    <3>4. OneMore(queue', queue, k) /\ Room(queue') BY <1>0, <2>2, <2>3, <3>1, PutCounts
    <3>5. \A j \in Tasks : /\ Cardinality(Held(task, j)) \in Nat /\ Cardinality(Held(task', j)) \in Nat
                           /\ Cardinality(Held(task', j)) = Cardinality(Held(task, j)) + (IF j = k THEN 1 ELSE 0)
      <4>1. TakesUp(task, task', w, k) BY <1>0, <3>2, <3>3 DEF TakesUp
      <4>2. PICK H : H = task' OBVIOUS
      <4> QED BY <4>1, <4>2, HandCounts
    <3>6. ASSUME NEW j \in Tasks PROVE Waiting(j)' = Waiting(j)
      <4>1. Waiting(j)' = Cardinality(Slots(queue', j)) + Cardinality(Held(task', j)) BY SomewhereNext
      <4>2. Waiting(j) = Cardinality(Slots(queue, j)) + Cardinality(Held(task, j)) BY <1>0, Somewhere
      <4> QED BY <3>4, <3>5, <4>1, <4>2 DEF OneMore
    <3>7. Submitted' = Submitted BY <2>2, <3>2, SubmittedIs, SubmittedNext
    <3>8. pc'[w] = "stopspin" /\ \A s \in Threads : s # w => pc'[s] = pc[s] BY <1>0, <3>2 DEF Goto
    <3>9. Hands'
      <4>1. task'[w] = <<k>> /\ \A u \in Workers : u # w => task'[u] = task[u] BY <1>0, <3>2
      <4>2. Len(<<k>>) = 1 OBVIOUS
      <4> QED BY <1>0, <3>8, <4>1, <4>2 DEF Hands
    <3>10. Idle' BY <1>0, <3>2, <3>3, <3>8 DEF Idle
    <3>11. Flushed => Flushed' BY <1>2, <3>2
    <3>12. Conserved' BY <3>2, <3>6, <3>7, <3>11 DEF Conserved, TaskInv, Flushed
    <3>13. TaskInv' BY <2>2, <3>2, <3>4, <3>7, <3>9, <3>10, <3>12, TaskInvNext DEF TaskInv
    <3> QED BY <2>2, <3>2, <3>7, <3>13 DEF Works, Nothing
  <2> QED BY <2>4, <2>5
<1>8. CASE StopSpinning(w)
  <2>1. /\ pc[w] = "stopspin" /\ task' = [task EXCEPT ![w] = <<>>]
        /\ UNCHANGED <<queue, unscheduled, ended>>
    BY <1>8 DEF StopSpinning
  <2>2. CASE task[w] # <<>>
    <3>1. PICK k : k = task[w][1] OBVIOUS
    <3>2. Enter(w, k) BY <1>8, <2>2, <3>1 DEF StopSpinning
    <3>3. task[w] = <<k>> /\ k \in Tasks
      <4>1. task[w] \in Seq(Tasks) /\ Len(task[w]) = 1 BY <1>0, <2>2 DEF Hands
      <4> QED BY <3>1, <4>1
    <3>4. task'[w] = <<>> /\ TakesUp(task', task, w, k)
      BY <1>0, <2>1, <3>3 DEF TakesUp
    <3>5. \A j \in Tasks : /\ Cardinality(Held(task', j)) \in Nat /\ Cardinality(Held(task, j)) \in Nat
                           /\ Cardinality(Held(task, j)) = Cardinality(Held(task', j)) + (IF j = k THEN 1 ELSE 0)
      <4>1. PICK G : G = task' OBVIOUS
      <4> QED BY <3>3, <3>4, <4>1, HandCounts
    <3>6. ASSUME NEW j \in Tasks
          PROVE  /\ Waiting(j) \in Nat /\ Waiting(j)' \in Nat
                 /\ Waiting(j) = Waiting(j)' + (IF j = k THEN 1 ELSE 0)
      <4>1. Waiting(j)' \in Nat /\ Waiting(j)' = Cardinality(Slots(queue, j)) + Cardinality(Held(task', j))
        BY <2>1, SomewhereNext
      <4>2. Waiting(j) \in Nat /\ Waiting(j) = Cardinality(Slots(queue, j)) + Cardinality(Held(task, j))
        BY <1>0, Somewhere
      <4>3. Cardinality(Slots(queue, j)) \in Nat BY SlotsFinite
      <4> QED BY <3>5, <4>1, <4>2, <4>3
    <3>7. Goto(w, "run") BY <3>2 DEF Enter
    <3>8. Hands'
      <4>1. \A s \in Threads : s # w => pc'[s] = pc[s] BY <1>0, <3>7 DEF Goto
      <4>2. \A u \in Workers : u # w => task'[u] = task[u] BY <1>0, <2>1
      <4> QED BY <1>0, <3>4, <4>1, <4>2 DEF Hands
    <3>9. (Flushed => Flushed') /\ Room(queue') BY <1>0, <1>2, <2>1, <3>7
    <3>10. Fetched(k) BY <3>6 DEF Fetched
    <3> QED BY <1>0, <2>1, <3>2, <3>3, <3>8, <3>9, <3>10, TakenTold DEF Works
  <2>3. CASE task[w] = <<>>
    <3>1. /\ UNCHANGED <<stack, started>> /\ (Goto(w, "again") \/ Goto(w, "prewait"))
      BY <1>8, <2>3 DEF StopSpinning, StealFrom
    <3>2. UNCHANGED task BY <1>0, <2>1, <2>3
    <3> QED BY <1>4, <2>1, <2>3, <3>1, <3>2
  <2> QED BY <2>2, <2>3
<1>9. CASE PopVictim(w)
  <2>1. PICK v \in todo[w] :
          \/ \E i \in 1 .. Len(queue[v]) : Pop(v, i) /\ Enter(w, queue[v][i])
          \/ Goto(w, "loop") /\ UNCHANGED <<queue, stack, started>>
    BY <1>9, Reached DEF PopVictim
  <2>2. v \in Workers /\ UNCHANGED <<task, unscheduled, ended>> /\ pc[w] = "victim"
    BY <1>0, <1>9 DEF PopVictim, RestTypes
  <2>3. CASE \E i \in 1 .. Len(queue[v]) : Pop(v, i) /\ Enter(w, queue[v][i])
    <3>1. PICK i \in 1 .. Len(queue[v]) : Pop(v, i) /\ Enter(w, queue[v][i]) BY <2>3
    <3> QED BY <1>0, <1>3, <2>2, <3>1, PoppedPut
  <2>4. CASE Goto(w, "loop") /\ UNCHANGED <<queue, stack, started>> BY <1>4, <1>5, <2>2, <2>4
  <2> QED BY <2>1, <2>3, <2>4
<1> QED BY <1>6, <1>7, <1>8, <1>9 DEF Takes

LEMMA WorkersTold ==
  ASSUME scenario \in Scenarios, RestTypes, Inside, Places, TaskInv,
         NEW w \in Workers, WorkerStep(w)
  PROVE  TaskInv' /\ Works
<1>1. UNCHANGED scenario /\ w \in Threads /\ w # main /\ main \in Threads /\ pc \in [Threads -> Labels]
  BY Pool DEF WorkerStep, RestTypes
<1>2. CASE Takes(w) BY <1>1, <1>2, TakesTold
<1>3. CASE Looks(w) \/ Waits(w)
  <2>1. Quiet(w) BY <1>1, <1>3, QuietSteps
  <2>2. PICK l \in QuietPlaces : Goto(w, l) BY <2>1 DEF Quiet, Silent
  <2>3. UNCHANGED <<queue, task, runVars, cancelled_>> BY <2>1 DEF Quiet, Silent, runVars
  <2>4. pc[w] \notin OfBoth /\ pc[w] # "stopspin" BY <1>3, QuietFrom
  <2>5. stack[w] = <<>> /\ task[w] = <<>> BY <1>1, <2>4 DEF TaskInv, Idle, Hands
  <2>6. Flushed => Flushed' BY <1>1, <2>2, <2>3 DEF Flushed, Goto
  <2> QED BY <1>1, <2>2, <2>3, <2>5, <2>6, WalksTold DEF Works
<1> QED BY <1>2, <1>3 DEF WorkerStep, Takes, Looks, Waits

LEMMA MainTold ==
  ASSUME scenario \in Scenarios, RestTypes, Inside, Places, Closing, TaskInv, MainStep \/ MainCancels
  PROVE  TaskInv' /\ Works
<1>0. /\ UNCHANGED scenario /\ main \in Threads /\ main \notin Workers /\ pc \in [Threads -> Labels]
      /\ stack \in [Threads -> Seq(Frames)] /\ queue' \in [Workers -> Seq(Tasks)]
      /\ queue \in [Workers -> Seq(Tasks)]
      /\ Workers' = Workers /\ Threads' = Threads /\ started \subseteq Tasks
  <2>1. UNCHANGED scenario BY DEF MainStep, MainCancels
  <2>2. RestTypes' /\ Workers' = Workers /\ Threads' = Threads BY <2>1, MainKept, Constant
  <2> QED BY <2>1, <2>2, Pool DEF RestTypes
<1>1. CASE ScheduleMain
  <2>1. PICK k \in unscheduled : unscheduled' = unscheduled \ {k} /\ Schedule(main, k, stack)
    BY <1>1 DEF ScheduleMain
  <2>2. UNCHANGED <<poolVars, task, ended>> /\ pc[main] \in {"run", "main"} BY <1>1 DEF ScheduleMain
  <2>3. unscheduled \subseteq MainTasks /\ k \in Tasks /\ Framed(stack, started \ ended)
    BY Pool DEF TaskInv
  <2>4. Gains(Given(started, stack, unscheduled), Given(started, stack, unscheduled \ {k}), k)
    BY <1>0, <2>3, GivenMain
  <2>5. /\ k \notin Submitted /\ unscheduled' \subseteq MainTasks
        /\ Given(started, stack, unscheduled') = Submitted \cup {k}
    BY <2>1, <2>3, <2>4, SubmittedIs DEF Gains
  <2> QED BY <1>0, <2>1, <2>2, <2>3, <2>5, ScheduleTold DEF Works
<1>2. ASSUME NEW l \in OfMain, Goto(main, l), UNCHANGED <<queue, task, runVars>>,
             pc[main] \in OfMain, Flushed => Flushed'
      PROVE  TaskInv' /\ Works
  <2>1. stack[main] = <<>> BY <1>0, <1>2 DEF TaskInv, Idle, OfMain, OfBoth
  <2> QED BY <1>0, <1>2, <2>1, WalksTold DEF Works
<1>3. ASSUME NEW l \in OfMain, Goto(main, l), UNCHANGED <<queue, task, runVars>>,
             pc[main] \in OfMain, pc[main] \in {"flush", "flush.stuck", "join", "destroyed"}
               => l \in {"flush", "flush.stuck", "join", "destroyed"},
             cancelled_ => cancelled_'
      PROVE  TaskInv' /\ Works
  <2>1. pc'[main] = l BY <1>0, <1>3 DEF Goto
  <2>2. Flushed => Flushed' BY <1>3, <2>1 DEF Flushed
  <2> QED BY <1>2, <1>3, <2>2
<1>4. CASE Destroy \/ DestroyNotify
  <2>1. /\ pc[main] \in {"main", "destroy.notify"} /\ UNCHANGED <<queue, task, runVars, cancelled_>>
        /\ Goto(main, "flush") \/ Goto(main, "destroy.notify") \/ Goto(main, "join")
    BY <1>4 DEF Destroy, DestroyNotify, StealFrom, poolVars
  <2> QED BY <1>3, <2>1 DEF OfMain
<1>5. CASE FlushEnd \/ Join
  <2>1. /\ pc[main] \in {"flush", "join"} /\ UNCHANGED <<queue, task, runVars, cancelled_>>
        /\ Goto(main, "join") \/ Goto(main, "destroyed")
    BY <1>5 DEF FlushEnd, Join, poolVars
  <2> QED BY <1>3, <2>1 DEF OfMain
<1>6. CASE CancelDone \/ CancelNotify \/ MainCancels
  <2>1. /\ pc[main] \in {"main", "cancel.done", "cancel.notify"} /\ UNCHANGED <<queue, task, runVars>>
        /\ cancelled_ => cancelled_'
        /\ Goto(main, "cancel.done") \/ Goto(main, "cancel.notify") \/ Goto(main, "main")
    BY <1>6 DEF CancelDone, CancelNotify, MainCancels, Cancel, poolVars
  <2> QED BY <1>3, <2>1 DEF OfMain
<1>7. CASE SetStealPartitions
  <2>1. /\ pc[main] = "partition" /\ UNCHANGED <<queue, task, runVars, cancelled_>>
        /\ Goto(main, "partition") \/ Goto(main, "main")
    BY <1>7 DEF SetStealPartitions
  <2> QED BY <1>3, <2>1 DEF OfMain
<1>8. CASE Flush
  <2>1. /\ pc[main] = "flush" /\ UNCHANGED <<task, runVars, cancelled_>> BY <1>8 DEF Flush, poolVars
  <2>2. PICK l \in {"flush", "flush.stuck"} : Goto(main, l) BY <1>0, <1>8, FlushGoes
  <2>3. PICK q \in todo[main] : (\E i \in 1 .. Len(queue[q]) : Pop(q, i)) \/ UNCHANGED queue
    BY <1>8, Reached DEF Flush
  <2>4. q \in Workers BY <1>0 DEF RestTypes
  <2>5. CASE UNCHANGED queue BY <1>3, <2>1, <2>2, <2>5 DEF OfMain
  <2>6. CASE \E i \in 1 .. Len(queue[q]) : Pop(q, i)
    <3>1. PICK i \in 1 .. Len(queue[q]) : Pop(q, i) BY <2>6
    <3>2. PICK k \in Tasks : Put(queue', queue, q, k) BY <1>0, <2>4, <3>1, PoppedPut
    <3>3. Fetched(k) /\ Room(queue') BY <1>0, <2>1, <2>4, <3>2, PoppedCounts DEF TaskInv
    <3>4. k \in Submitted \ started /\ Waiting(k)' = 0 BY <3>2, <3>3, FetchedKnown DEF TaskInv
    <3>5. UNCHANGED <<stack, unscheduled, started, ended>> BY <2>1 DEF runVars
    <3>6. Submitted' = Submitted BY <1>0, <3>5, SubmittedIs, SubmittedNext
    <3>7. Flushed /\ Flushed' BY <1>0, <2>1, <2>2 DEF Closing, Flushed, Goto
    <3>8. Hands' /\ Idle'
      <4>1. pc'[main] = l /\ \A t \in Threads : t # main => pc'[t] = pc[t] BY <1>0, <2>2 DEF Goto
      <4>2. stack[main] = <<>> BY <1>0, <2>1 DEF Idle, OfBoth, TaskInv
      <4>3. Hands' BY <1>0, <2>1, <4>1, Pool DEF Hands, TaskInv
      <4>4. Idle' BY <1>0, <3>5, <4>1, <4>2 DEF Idle, TaskInv
      <4> QED BY <4>3, <4>4
    <3>9. Conserved'
      <4>1. ASSUME NEW j \in Tasks
            PROVE  IF j \in Submitted' \ started'
                   THEN Waiting(j)' = 1 \/ (Waiting(j)' = 0 /\ Flushed')
                   ELSE Waiting(j)' = 0
        <5>1. CASE j = k BY <3>4, <3>5, <3>6, <3>7, <5>1
        <5>2. CASE j # k
          <6>1. Waiting(j)' = Waiting(j) BY <3>3, <5>2 DEF Fetched
          <6>2. IF j \in Submitted \ started
                THEN Waiting(j) = 1 \/ (Waiting(j) = 0 /\ Flushed)
                ELSE Waiting(j) = 0
            BY DEF TaskInv, Conserved, Flushed
          <6> QED BY <3>5, <3>6, <3>7, <6>1, <6>2
        <5> QED BY <5>1, <5>2
      <4> QED BY <4>1 DEF Conserved, Flushed
    <3>10. TaskInv' BY <1>0, <3>3, <3>5, <3>6, <3>8, <3>9, TaskInvNext DEF TaskInv
    <3> QED BY <3>5, <3>6, <3>10 DEF Works, Nothing
  <2> QED BY <2>3, <2>5, <2>6
<1> QED BY <1>1, <1>4, <1>5, <1>6, <1>7, <1>8 DEF MainStep

-----------------------------------------------------------------------------
(* The end of the pool.                                                                           *)

\* A worker that is to leave a pool that was not cancelled, and has seen queue v empty
Checked(w, v) == pc[w] \in {"notifyall", "exit.stable"} \/ (pc[w] = "recheck" /\ v \notin todo[w])

\* Not all workers have left, or are leaving, while a queue has a task that they do not see.
Drained ==
  cancelled_ \/ \A v \in Workers : queue[v] # <<>> => \E w \in Workers : ~Checked(w, v)

Over == pc[main] = "destroyed" => \A w \in Workers : Exited(w)

LEMMA DrainedKept ==
  ASSUME UNCHANGED scenario, Drained, cancelled_ => cancelled_',
         \A v \in Workers : queue'[v] # <<>> =>
           queue[v] # <<>> /\ \A w \in Workers : Checked(w, v)' => Checked(w, v)
  PROVE  Drained'
<1>1. Workers' = Workers BY Constant
<1> QED BY <1>1 DEF Drained

\* A worker that does not leave takes care of all queues.
LEMMA DrainedMoved ==
  ASSUME UNCHANGED scenario, pc \in [Threads -> Labels], NEW t \in Workers, t \in Threads,
         NEW l, Goto(t, l), l \notin {"recheck", "notifyall", "exit.stable"}
  PROVE  Drained'
<1>1. Workers' = Workers BY Constant
<1>2. pc'[t] = l BY DEF Goto
<1>3. \A v \in Workers : ~Checked(t, v)' BY <1>2 DEF Checked
<1> QED BY <1>1, <1>3 DEF Drained

\* Nobody leaves a pool that is neither destroyed nor cancelled.
LEMMA DrainedOpen ==
  ASSUME scenario \in Scenarios, UNCHANGED scenario, pc \in [Threads -> Labels],
         Closing, ~done_, NEW l, Goto(main, l)
  PROVE  Drained'
<1>1. Workers' = Workers /\ Workers # {} /\ Workers \subseteq Threads /\ main \notin Workers
  BY Pool, Constant
<1>2. \A w \in Workers : pc'[w] = pc[w] BY <1>1 DEF Goto
<1>3. \A w \in Workers : pc[w] \notin {"recheck", "notifyall", "exit.stable"} BY DEF Closing
<1>4. PICK w \in Workers : TRUE BY <1>1
<1>5. \A v \in Workers : ~Checked(w, v)' BY <1>2, <1>3 DEF Checked
<1> QED BY <1>1, <1>5 DEF Drained

LEMMA WorkersDrain ==
  ASSUME scenario \in Scenarios, RestTypes, Fronts, Drained, NEW w \in Workers, WorkerStep(w)
  PROVE  Drained'
<1>0. /\ w \in Threads /\ Workers \subseteq Threads /\ UNCHANGED <<scenario, cancelled_>>
      /\ Workers' = Workers
      /\ pc \in [Threads -> Labels] /\ todo \in [Threads -> SUBSET Workers]
  <2>1. w \in Threads /\ Workers \subseteq Threads /\ pc \in [Threads -> Labels] BY Pool DEF RestTypes
  <2>2. UNCHANGED <<scenario, cancelled_>> BY <2>1, WorkerGoes
  <2> QED BY <2>1, <2>2, Constant DEF RestTypes
<1>1. ASSUME NEW l, Goto(w, l), l \notin {"recheck", "notifyall", "exit.stable"} PROVE Drained'
  BY <1>0, <1>1, DrainedMoved
<1>2. CASE CheckQueue(w)
  <2>1. SUFFICES ASSUME ~cancelled_ PROVE Drained' BY <1>0 DEF Drained
  <2>2. PICK v \in todo[w] :
          IF queue[v] # <<>>
          THEN StealFrom(w, IF pc[w] = "check" THEN "cancelwait" ELSE "unblock", {v})
          ELSE IF todo[w] # {v} THEN StealFrom(w, pc[w], todo[w] \ {v})
          ELSE StealFrom(w, IF pc[w] = "check" THEN "block" ELSE "notifyall", {})
    <3>1. \A v \in todo[w] : /\ SeemsEmpty(v) <=> queue[v] = <<>>
                             /\ SeemsFilled(v) <=> queue[v] # <<>>
      BY <1>0, <2>1, Owned
    <3> QED BY <1>2, <3>1 DEF CheckQueue
  <2>3. pc[w] \in {"check", "recheck"} /\ UNCHANGED queue BY <1>2 DEF CheckQueue
  <2>4. CASE queue[v] # <<>> \/ pc[w] = "check"
    <3>1. \E l \in {"cancelwait", "unblock", "check", "block"} : Goto(w, l)
      BY <2>2, <2>3, <2>4 DEF StealFrom
    <3> QED BY <1>1, <3>1
  <2>5. CASE queue[v] = <<>> /\ pc[w] = "recheck"
    <3>1. PICK l \in {"recheck", "notifyall"}, vs \in SUBSET Workers :
            /\ StealFrom(w, l, vs) /\ todo[w] \ {v} \subseteq vs
      <4>1. CASE todo[w] # {v}
        <5>1. StealFrom(w, "recheck", todo[w] \ {v}) BY <2>2, <2>5, <4>1
        <5>2. todo[w] \ {v} \in SUBSET Workers BY <1>0
        <5> QED BY <5>1, <5>2
      <4>2. CASE todo[w] = {v}
        <5>1. StealFrom(w, "notifyall", {}) BY <2>2, <2>5, <4>2
        <5>2. todo[w] \ {v} \subseteq {} /\ {} \in SUBSET Workers BY <4>2
        <5> QED BY <5>1, <5>2
      <4> QED BY <4>1, <4>2
    <3>2. l = "recheck" \/ todo[w] = {v}
      <4>1. SUFFICES ASSUME todo[w] # {v} PROVE l = "recheck" OBVIOUS
      <4>2. StealFrom(w, "recheck", todo[w] \ {v}) BY <2>2, <2>5, <4>1
      <4> QED BY <1>0, <3>1, <4>2 DEF StealFrom, Goto
    <3>3. /\ pc'[w] = l /\ todo'[w] = vs
          /\ \A x \in Workers : x # w => pc'[x] = pc[x] /\ todo'[x] = todo[x]
      BY <1>0, <3>1 DEF StealFrom, Goto
    <3>4. ASSUME NEW u \in Workers, queue[u] # <<>>, NEW x \in Workers, Checked(x, u)'
          PROVE  Checked(x, u)
      <4>1. u # v BY <2>5, <3>4
      <4>2. CASE x # w BY <3>3, <3>4, <4>2 DEF Checked
      <4>3. CASE x = w
        <5>1. u \notin todo[w]
          <6>1. CASE l = "notifyall" BY <3>2, <4>1, <6>1
          <6>2. CASE l = "recheck"
            <7>1. u \notin vs BY <3>3, <3>4, <4>3, <6>2 DEF Checked
            <7> QED BY <3>1, <4>1, <7>1
          <6> QED BY <6>1, <6>2
        <5> QED BY <2>5, <4>3, <5>1 DEF Checked
      <4> QED BY <4>2, <4>3
    <3> QED BY <1>0, <2>3, <3>4, DrainedKept
  <2> QED BY <2>3, <2>4, <2>5
<1>3. CASE CancelAll(w)
  <2>1. pc'[w] = "recheck" /\ todo'[w] = Workers BY <1>0, <1>3 DEF CancelAll, StealFrom, Goto
  <2>2. \A v \in Workers : ~Checked(w, v)' BY <2>1 DEF Checked
  <2> QED BY <1>0, <2>2 DEF Drained
<1>4. CASE Leave(w)
  <2>1. /\ pc[w] = "notifyall" /\ UNCHANGED <<queue, todo>>
        /\ \A x \in Workers : x # w => pc'[x] = pc[x]
    BY <1>0, <1>4 DEF Leave, Goto
  <2>2. \A u, x \in Workers : Checked(x, u)' => Checked(x, u) BY <2>1 DEF Checked
  <2> QED BY <1>0, <2>1, <2>2, DrainedKept
<1> QED BY <1>0, <1>1, <1>2, <1>3, <1>4, WorkerGoes

LEMMA TasksDrain ==
  ASSUME scenario \in Scenarios, RestTypes, Inside, Places, Closing, Drained, NEW t \in Threads, TaskStep(t)
  PROVE  Drained'
<1>1. /\ UNCHANGED <<scenario, cancelled_>> /\ pc[t] \in OfBoth /\ pc \in [Threads -> Labels]
      /\ t # main => t \in Workers
  BY TaskPlaces, Pool DEF RestTypes
<1>2. PICK l \in OfBoth \cup {"main", "loop"} : Goto(t, l) BY TaskPlaces
<1>3. l \notin {"recheck", "notifyall", "exit.stable"} BY DEF OfBoth
<1>4. CASE t # main BY <1>1, <1>2, <1>3, <1>4, DrainedMoved
<1>5. CASE cancelled_ BY <1>1, <1>5 DEF Drained
<1>6. CASE t = main /\ ~cancelled_
  <2>1. ~done_ BY <1>1, <1>6 DEF Closing, OfBoth
  <2> QED BY <1>1, <1>2, <1>6, <2>1, DrainedOpen
<1> QED BY <1>4, <1>5, <1>6

LEMMA MainDrains ==
  ASSUME scenario \in Scenarios, RestTypes, Closing, Drained, MainStep \/ MainCancels
  PROVE  Drained'
<1>0. /\ UNCHANGED scenario /\ main \in Threads /\ main \notin Workers /\ Workers \subseteq Threads
      /\ pc \in [Threads -> Labels] /\ todo \in [Threads -> SUBSET Workers]
  BY Pool DEF MainStep, MainCancels, RestTypes
<1>1. ASSUME NEW l, Goto(main, l), UNCHANGED queue, cancelled_ => cancelled_',
             todo' = todo \/ \E vs : todo' = [todo EXCEPT ![main] = vs]
      PROVE  Drained'
  <2>1. \A w \in Workers : pc'[w] = pc[w] /\ todo'[w] = todo[w] BY <1>0, <1>1 DEF Goto
  <2>2. \A u, x \in Workers : Checked(x, u)' => Checked(x, u) BY <2>1 DEF Checked
  <2> QED BY <1>0, <1>1, <2>2, DrainedKept
<1>2. CASE ScheduleMain
  <2>1. ~done_ /\ \E l : Goto(main, l) BY <1>2 DEF ScheduleMain, Schedule
  <2> QED BY <1>0, <2>1, DrainedOpen
<1>3. CASE Destroy \/ DestroyNotify
  BY <1>1, <1>3 DEF Destroy, DestroyNotify, StealFrom, poolVars
<1>4. CASE FlushEnd \/ Join \/ CancelDone \/ CancelNotify
  BY <1>1, <1>4 DEF FlushEnd, Join, CancelDone, CancelNotify, poolVars
<1>5. CASE MainCancels BY <1>1, <1>5 DEF MainCancels, Cancel
<1>6. CASE SetStealPartitions BY <1>1, <1>6 DEF SetStealPartitions
<1>7. CASE Flush
  <2>1. cancelled_ /\ UNCHANGED cancelled_ BY <1>7 DEF Flush, Closing, poolVars
  <2> QED BY <2>1 DEF Drained
<1> QED BY <1>2, <1>3, <1>4, <1>5, <1>6, <1>7 DEF MainStep

\* Nobody does anything in a pool that is destroyed, and main destroys it when all have left.
LEMMA Alive ==
  ASSUME scenario \in Scenarios, UNCHANGED scenario, RestTypes, Inside, Places, Over,
         \/ \E t \in Threads : TaskStep(t)
         \/ \E w \in Workers : WorkerStep(w)
         \/ MainStep \/ MainCancels
  PROVE  pc[main] # "destroyed" /\ (Join \/ pc'[main] # "destroyed") /\ Over'
<1>0. /\ main \in Threads /\ main \notin Workers /\ Workers \subseteq Threads
      /\ pc \in [Threads -> Labels] /\ \A t \in Threads : t # main => t \in Workers
  BY Pool DEF RestTypes
<1>1. CASE \E t \in Threads : TaskStep(t)
  <2>1. PICK t \in Threads : TaskStep(t) BY <1>1
  <2>2. pc[t] \in OfBoth BY <2>1, TaskPlaces
  <2>3. PICK l \in OfBoth \cup {"main", "loop"} : Goto(t, l) BY <2>1, TaskPlaces
  <2>4. pc[main] # "destroyed" BY <1>0, <2>2 DEF Over, Exited, OfBoth
  <2>5. pc'[main] # "destroyed" BY <1>0, <2>3, <2>4 DEF Goto, OfBoth
  <2> QED BY <2>4, <2>5 DEF Over
<1>2. CASE \E w \in Workers : WorkerStep(w)
  <2>1. PICK w \in Workers : WorkerStep(w) BY <1>2
  <2>2. ~Exited(w) BY <1>0, <2>1, WorkerGoes
  <2>3. PICK l : Goto(w, l) BY <1>0, <2>1, WorkerGoes
  <2>4. pc[main] # "destroyed" BY <2>2 DEF Over
  <2>5. pc'[main] # "destroyed" BY <1>0, <2>3, <2>4 DEF Goto
  <2> QED BY <2>4, <2>5 DEF Over
<1>3. CASE Join
  <2>1. Workers' = Workers BY Constant
  <2>2. pc[main] # "destroyed" BY <1>3 DEF Join
  <2>3. \A w \in Workers : Exited(w) /\ pc'[w] = pc[w] BY <1>0, <1>3 DEF Join, Goto
  <2> QED BY <1>3, <2>1, <2>2, <2>3 DEF Over, Exited
<1>4. CASE (MainStep /\ ~Join) \/ MainCancels
  <2>1. pc[main] # "destroyed"
    BY <1>4 DEF MainStep, MainCancels, ScheduleMain, Destroy, DestroyNotify, Flush, FlushEnd, CancelDone,
                CancelNotify, SetStealPartitions, Cancel
  <2>2. pc' = pc \/ \E l \in {"required", "run", "flush", "flush.stuck", "destroy.notify", "join", "cancel.done",
                              "cancel.notify", "main", "partition"} : Goto(main, l)
    BY <1>4 DEF MainStep, MainCancels, ScheduleMain, Schedule, Destroy, DestroyNotify, StealFrom, Flush,
                FlushEnd, CancelDone, CancelNotify, SetStealPartitions, Cancel
  <2>3. pc'[main] # "destroyed" BY <1>0, <2>1, <2>2 DEF Goto
  <2> QED BY <2>1, <2>3 DEF Over
<1> QED BY <1>1, <1>2, <1>3, <1>4

-----------------------------------------------------------------------------
(* The tasks and the end, together, and the promise.                                              *)

WInv == PInv /\ TaskInv /\ Drained /\ Over

LEMMA PParts ==
  ASSUME PInv
  PROVE  scenario \in Scenarios /\ ECTypes /\ RestTypes /\ Places /\ Inside /\ Closing /\ Fronts
BY TypesParts DEF PInv

LEMMA RunKept ==
  ASSUME scenario \in Scenarios, UNCHANGED <<scenario, runVars>>
  PROVE  Nothing
<1>1. UNCHANGED <<stack, unscheduled, started, ended>> BY DEF runVars
<1>2. Submitted' = Submitted BY <1>1, SubmittedIs, SubmittedNext
<1> QED BY <1>1, <1>2 DEF Nothing

LEMMA NoneSubmitted ==
  ASSUME Init
  PROVE  Submitted = {} /\ started = {} /\ ended = {}
<1>1. Submitted = Given({}, stack, MainTasks) BY SubmittedIs DEF Init
<1> QED BY <1>1 DEF Init, Given

LEMMA WStart ==
  ASSUME Init
  PROVE  WInv
<1>1. PInv BY Start
<1>2. /\ scenario \in Scenarios /\ RestTypes /\ pc[main] \in {"partition", "main"} /\ main \in Threads
      /\ \A w \in Workers : queue[w] = <<>> /\ task[w] = <<>>
      /\ \A t \in Threads : stack[t] = <<>>
      /\ Submitted = {} /\ started = {} /\ ended = {} /\ unscheduled = MainTasks /\ kSize \in Nat
  BY <1>1, PParts, Pool, NoneSubmitted DEF Init
<1>3. Len(<<>>) = 0 OBVIOUS
<1>4. Room(queue)
  <2>1. \A w \in Workers : Len(queue[w]) = 0 BY <1>2, <1>3
  <2> QED BY <1>2, <2>1 DEF Room
<1>5. Hands /\ Idle BY <1>2 DEF Hands, Idle
<1>6. Framed(stack, started \ ended)
  <2>1. \A t \in Threads : Len(stack[t]) = 0 BY <1>2, <1>3
  <2> QED BY <1>2, <2>1 DEF Framed
<1>7. Conserved
  <2>1. \A k \in Tasks : Waiting(k) = 0 BY <1>2, <1>4, Somewhere DEF RestTypes
  <2> QED BY <1>2, <2>1 DEF Conserved
<1>8. Drained /\ Over BY <1>2 DEF Drained, Over
<1> QED BY <1>1, <1>2, <1>4, <1>5, <1>6, <1>7, <1>8 DEF WInv, TaskInv

LEMMA WStep ==
  ASSUME WInv, [Next]_vars
  PROVE  WInv'
<1>1. /\ PInv' /\ scenario \in Scenarios /\ RestTypes /\ Places /\ Inside /\ Closing /\ Fronts
      /\ TaskInv /\ Drained /\ Over
  BY Step, PParts DEF WInv
<1>2. ASSUME NEW t \in Threads, TaskStep(t) PROVE WInv'
  <2>1. UNCHANGED scenario BY <1>2 DEF TaskStep
  <2> QED BY <1>1, <1>2, <2>1, TasksTold, TasksDrain, Alive DEF WInv
<1>3. ASSUME NEW w \in Workers, WorkerStep(w) PROVE WInv'
  <2>1. UNCHANGED scenario BY <1>3 DEF WorkerStep
  <2> QED BY <1>1, <1>3, <2>1, WorkersTold, WorkersDrain, Alive DEF WInv
<1>4. CASE MainStep \/ MainCancels
  <2>1. UNCHANGED scenario BY <1>4 DEF MainStep, MainCancels
  <2> QED BY <1>1, <1>4, <2>1, MainTold, MainDrains, Alive DEF WInv
<1>5. CASE UNCHANGED vars
  <2>1. /\ UNCHANGED <<scenario, queue, pc, stack, unscheduled, started, ended, task, todo, cancelled_, runVars>>
        /\ Workers' = Workers /\ Threads' = Threads
    BY <1>5, Constant DEF vars, poolVars, runVars
  <2>2. Submitted' = Submitted BY <1>1, <2>1, RunKept DEF Nothing
  <2>3. \A j \in Tasks : Waiting(j)' = Waiting(j) BY <1>1, <2>1, WaitingSame
  <2>4. Hands' /\ Idle' BY <1>1, <2>1 DEF TaskInv, Hands, Idle
  <2>5. Conserved' BY <1>1, <2>1, <2>2, <2>3 DEF TaskInv, Conserved, Flushed
  <2>6. TaskInv' BY <1>1, <2>1, <2>2, <2>4, <2>5, TaskInvNext DEF TaskInv
  <2>7. Drained' BY <1>1, <2>1 DEF Drained, Checked
  <2>8. Over' BY <1>1, <2>1 DEF Over, Exited
  <2> QED BY <1>1, <2>6, <2>7, <2>8 DEF WInv
<1> QED BY <1>2, <1>3, <1>4, <1>5 DEF Next, Terminating

LEMMA WHolds == Spec => []WInv
<1>1. Init => WInv BY WStart
<1>2. WInv /\ [Next]_vars => WInv' BY WStep
<1> QED BY <1>1, <1>2, PTL DEF Spec

\* No task is lost, queued twice or run twice, whoever takes it from which end of which queue, and
\* whether it is queued or run in place (ScheduleWithHint and WorkerLoop,
\* NonBlockingThreadPool.h:122-154, 341-369): a submitted task that has not started is at exactly one place, any other at none.
THEOREM TasksConserved == Spec => []Conserved
<1>1. WInv => Conserved BY DEF WInv, TaskInv
<1> QED BY <1>1, WHolds, PTL

\* When all workers have left, no task is inside of one and, in a pool that was not cancelled, none was
\* left out.
LEMMA AllDone ==
  ASSUME WInv, Join
  PROVE  started = ended /\ (cancelled_ \/ Submitted = ended)
<1>1. /\ scenario \in Scenarios /\ RestTypes /\ Closing /\ TaskInv /\ Drained
      /\ \A w \in Workers : Exited(w)
      /\ pc[main] = "join" /\ \A t \in Threads : t # main => t \in Workers
  BY PParts, Pool DEF WInv, Join
<1>2. \A t \in Threads : stack[t] = <<>>
  <2>1. \A t \in Threads : pc[t] \notin OfBoth BY <1>1 DEF Exited, OfBoth
  <2> QED BY <1>1, <2>1 DEF TaskInv, Idle
<1>3. started = ended
  <2>1. Len(<<>>) = 0 OBVIOUS
  <2>2. \A t \in Threads : Len(stack[t]) = 0 BY <1>2, <2>1
  <2>3. ASSUME NEW k \in started \ ended PROVE FALSE
    <3>1. PICK t \in Threads : \E i \in 1 .. Len(stack[t]) : stack[t][i].task = k
      BY <1>1 DEF TaskInv, Framed
    <3> QED BY <2>2, <3>1
  <2> QED BY <1>1, <2>3 DEF RestTypes
<1>4. ASSUME ~cancelled_ PROVE Submitted = ended
  <2>1. \A w \in Workers : pc[w] = "exit.stable" BY <1>1, <1>4 DEF Exited, Closing
  <2>2. \A v \in Workers : queue[v] = <<>> BY <1>1, <1>4, <2>1 DEF Drained, Checked
  <2>3. \A w \in Workers : task[w] = <<>> BY <1>1, <2>1 DEF TaskInv, Hands
  <2>4. \A k \in Tasks : Waiting(k) = 0 BY <1>1, <2>2, <2>3, Somewhere DEF TaskInv, RestTypes
  <2>5. Submitted \subseteq Tasks
    <3>1. \A p \in Tasks : Children[p] \subseteq Tasks BY <1>1, Pool
    <3>2. MainTasks \subseteq Tasks /\ started \subseteq Tasks BY <1>1, Pool DEF RestTypes
    <3> QED BY <3>1, <3>2, SubmittedIs DEF Given
  <2>6. ASSUME NEW k \in Submitted \ started PROVE FALSE
    <3>1. Waiting(k) = 1 \/ (Waiting(k) = 0 /\ cancelled_) BY <1>1, <2>5, <2>6 DEF TaskInv, Conserved, Flushed
    <3> QED BY <1>4, <2>4, <2>5, <2>6, <3>1
  <2> QED BY <1>1, <1>3, <2>6 DEF TaskInv
<1> QED BY <1>3, <1>4

\* What a step does with the two flags of the promise
LEMMA Flags ==
  ASSUME WInv, Next, ~UNCHANGED vars
  PROVE  /\ pc[main] # "destroyed"
         /\ \/ Works /\ pc'[main] # "destroyed" /\ UNCHANGED cancelled_
            \/ Nothing /\ pc'[main] # "destroyed" /\ cancelled_'
            \/ Nothing /\ Join /\ pc'[main] = "destroyed" /\ UNCHANGED cancelled_
<1>1. /\ scenario \in Scenarios /\ RestTypes /\ Places /\ Inside /\ Closing /\ TaskInv /\ Over
      /\ main \in Threads /\ pc \in [Threads -> Labels] /\ Workers \subseteq Threads
  BY PParts, Pool DEF WInv, RestTypes
<1>2. ASSUME NEW t \in Threads, TaskStep(t)
      PROVE  pc[main] # "destroyed" /\ Works /\ pc'[main] # "destroyed" /\ UNCHANGED cancelled_
  <2>1. UNCHANGED scenario BY <1>2 DEF TaskStep
  <2>2. pc[main] # "destroyed" /\ (Join \/ pc'[main] # "destroyed") BY <1>1, <1>2, <2>1, Alive
  <2>3. ~Join
    <3>1. pc[t] \in OfBoth BY <1>1, <1>2, TaskPlaces
    <3> QED BY <1>1, <3>1, Pool DEF Join, Exited, OfBoth
  <2>4. UNCHANGED cancelled_ BY <1>1, <1>2, TaskPlaces
  <2> QED BY <1>1, <1>2, <2>2, <2>3, <2>4, TasksTold
<1>3. ASSUME NEW w \in Workers, WorkerStep(w)
      PROVE  pc[main] # "destroyed" /\ Works /\ pc'[main] # "destroyed" /\ UNCHANGED cancelled_
  <2>1. UNCHANGED scenario BY <1>3 DEF WorkerStep
  <2>2. pc[main] # "destroyed" /\ (Join \/ pc'[main] # "destroyed") BY <1>1, <1>3, <2>1, Alive
  <2>3. ~Exited(w) /\ UNCHANGED cancelled_ BY <1>1, <1>3, WorkerGoes
  <2> QED BY <1>1, <1>3, <2>2, <2>3, WorkersTold DEF Join
<1>4. CASE MainCancels
  <2>1. UNCHANGED <<scenario, runVars>> /\ cancelled_' /\ pc[main] = "main"
    BY <1>4 DEF MainCancels, Cancel
  <2>2. pc[main] # "destroyed" /\ (Join \/ pc'[main] # "destroyed") BY <1>1, <1>4, <2>1, Alive
  <2>3. Nothing BY <1>1, <2>1, RunKept
  <2> QED BY <2>1, <2>2, <2>3 DEF Join
<1>5. CASE Join /\ UNCHANGED scenario
  <2>1. UNCHANGED <<runVars, cancelled_>> /\ pc[main] = "join" /\ pc'[main] = "destroyed"
    BY <1>1, <1>5 DEF Join, Goto, poolVars
  <2>2. Nothing BY <1>1, <1>5, <2>1, RunKept
  <2> QED BY <1>5, <2>1, <2>2
<1>6. CASE MainStep /\ ~Join
  <2>1. UNCHANGED <<scenario, cancelled_>>
    BY <1>6 DEF MainStep, ScheduleMain, Destroy, DestroyNotify, Flush, FlushEnd, CancelDone, CancelNotify,
                SetStealPartitions, poolVars
  <2>2. pc[main] # "destroyed" /\ pc'[main] # "destroyed" BY <1>1, <1>6, <2>1, Alive
  <2>3. Works BY <1>1, <1>6, MainTold
  <2> QED BY <2>1, <2>2, <2>3
<1> QED BY <1>2, <1>3, <1>4, <1>5, <1>6 DEF Next, MainStep, Terminating

LEMMA StepPromise ==
  ASSUME WInv, [Next]_vars
  PROVE  [Promise!NextTP]_(Promise!tpVars)
<1>1. CASE UNCHANGED vars
  <2>1. UNCHANGED <<scenario, runVars, pc, cancelled_>> BY <1>1 DEF vars, poolVars
  <2>2. Nothing BY <2>1, PParts, RunKept DEF WInv
  <2> QED BY <2>1, <2>2 DEF Nothing, Promise!tpVars
<1>2. CASE Next /\ ~UNCHANGED vars
  <2>0. pc[main] # "destroyed" BY <1>2, Flags
  <2>1. CASE Works /\ pc'[main] # "destroyed" /\ UNCHANGED cancelled_
    <3>0. (pc'[main] = "destroyed") = (pc[main] = "destroyed") BY <2>0, <2>1
    <3>1. CASE Submits
      <4>1. PICK k \in Tasks \ Submitted :
              /\ Submitted' = Submitted \cup {k} /\ ended' = ended
              /\ started' = started \/ (k \notin started /\ started' = started \cup {k})
        BY <3>1 DEF Submits
      <4>2. Promise!Enqueue(k) \/ Promise!RunInPlace(k)
        BY <2>0, <2>1, <3>0, <4>1 DEF Promise!Enqueue, Promise!RunInPlace, Promise!Submit, Promise!Run
      <4> QED BY <4>1, <4>2 DEF Promise!NextTP
    <3>2. CASE Starts
      <4>1. PICK k \in Submitted \ started :
              k \in Tasks /\ started' = started \cup {k} /\ Submitted' = Submitted /\ ended' = ended
        BY <3>2 DEF Starts
      <4>2. Promise!Start(k) BY <2>0, <2>1, <3>0, <4>1 DEF Promise!Start, Promise!Run
      <4> QED BY <4>1, <4>2 DEF Promise!NextTP
    <3>3. CASE Finishes
      <4>1. PICK k \in started \ ended :
              k \in Tasks /\ ended' = ended \cup {k} /\ Submitted' = Submitted /\ started' = started
        BY <3>3 DEF Finishes
      <4>2. Promise!End(k) BY <2>0, <2>1, <3>0, <4>1 DEF Promise!End
      <4> QED BY <4>1, <4>2 DEF Promise!NextTP
    <3>4. CASE Nothing BY <2>1, <3>0, <3>4 DEF Nothing, Promise!tpVars
    <3> QED BY <2>1, <3>1, <3>2, <3>3, <3>4 DEF Works
  <2>2. CASE Nothing /\ pc'[main] # "destroyed" /\ cancelled_'
    <3>1. cancelled_' = TRUE
      <4>1. PInv' BY <1>2, WStep DEF WInv
      <4>2. cancelled_' \in BOOLEAN BY <4>1 DEF PInv, Types, TypeOK
      <4> QED BY <2>2, <4>2
    <3>2. Promise!CancelPool BY <2>0, <2>2, <3>1 DEF Promise!CancelPool, Nothing
    <3> QED BY <3>2 DEF Promise!NextTP
  <2>3. CASE Nothing /\ Join /\ pc'[main] = "destroyed" /\ UNCHANGED cancelled_
    <3>1. started = ended /\ (cancelled_ \/ Submitted = ended) BY <2>3, AllDone
    <3>2. Promise!DestroyPool BY <2>3, <3>1 DEF Promise!DestroyPool, Nothing
    <3> QED BY <3>2 DEF Promise!NextTP
  <2> QED BY <1>2, <2>1, <2>2, <2>3, Flags
<1> QED BY <1>1, <1>2

\* The pool implements what it promises its user (ThreadPoolInterface.h, and the destructor,
\* NonBlockingThreadPool.h:87-105): a submitted task is run at most once, and when the pool is gone no
\* task is still running and, unless it was cancelled, none was left out.
THEOREM ImplementsPromise == Spec => PromiseSpec
<1>1. Init => Promise!InitTP
  <2>1. SUFFICES ASSUME Init PROVE Promise!InitTP OBVIOUS
  <2>2. Submitted = {} /\ started = {} /\ ended = {} BY <2>1, NoneSubmitted
  <2>3. cancelled_ = FALSE BY <2>1 DEF Init
  <2>4. (pc[main] = "destroyed") = FALSE
    <3>1. main \in Threads BY DEF Threads
    <3> QED BY <2>1, <3>1 DEF Init
  <2> QED BY <2>2, <2>3, <2>4 DEF Promise!InitTP
<1>2. WInv /\ [Next]_vars => [Promise!NextTP]_(Promise!tpVars) BY StepPromise
<1> QED BY <1>1, <1>2, WHolds, PTL DEF Spec, PromiseSpec, Promise!SpecTP

=============================================================================

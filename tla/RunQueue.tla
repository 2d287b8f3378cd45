------------------------------ MODULE RunQueue ------------------------------
(***************************************************************************)
(* Eigen's RunQueue (Eigen/src/ThreadPool/RunQueue.h): the work-stealing   *)
(* deque of a pool thread.  The owner works on the front without a lock,   *)
(* the other threads on the back under mutex_; the two ends meet through   *)
(* the state of each element.  Anybody may ask Size and Empty at any time, *)
(* from a snapshot of the two rolling indices.                             *)
(*                                                                         *)
(* One step is one access to shared memory, under sequential consistency,  *)
(* with two exceptions.  Loading an element's state and the exchange that  *)
(* claims it are one step, for a claim that fails at either has the same   *)
(* effect.  An item is moved in or out together with the store that        *)
(* releases its element, for only the claimant may touch it (Exclusive).   *)
(* mutex_ is taken with the first access it protects and released with the *)
(* last.                                                                   *)
(***************************************************************************)
EXTENDS Naturals, Integers, Sequences, FiniteSets

CONSTANTS owner,     \* the thread that works on the front
          Remotes,   \* the threads that work on the back
          Observers, \* the threads that ask whether the queue is empty
          None,      \* no thread
          kSize,     \* the capacity
          Modulus,   \* 2^32: front_ and back_ are unsigned
          Prefill,   \* bound: how many items are queued at the start
          MaxWork    \* bound: items are numbered 1 .. MaxWork

ASSUME RunQueueAssumption ==
  /\ owner \notin Remotes
  /\ None \notin Remotes
  /\ kSize \in Nat /\ kSize > 2
  /\ Modulus \in Nat \ {0} /\ Modulus % (2 * kSize) = 0
  /\ MaxWork \in Nat /\ Prefill \subseteq 0 .. MaxWork /\ \A n \in Prefill : n <= kSize

Threads == Remotes \cup Observers \cup {owner}
Elements == 0 .. kSize - 1

VARIABLES
  front_, back_,  \* the rolling indices with their modification counters
  elemState,      \* the state of each element
  elemWork,       \* the item in each element
  mutex_,         \* the remote thread that holds the lock
  pc,             \* where each thread is
  arg,            \* the item a thread is pushing (0: none)
  front, back,    \* SizeOrNotEmpty's locals
  mid, start,     \* PopBackHalf's locals, counted from back_ (-1: n = 0)
  issued,         \* items that were created
  ran,            \* how often each item was handed to a caller
  sawEmpty,       \* history: the queue was empty during the current Empty()
  moves           \* history: how often front_ moved since Empty() loaded it

ends == <<front_, back_>>
array == <<elemState, elemWork>>
half == <<mid, start>>
snap == <<front, back>>
work == <<issued, ran>>
vars == <<ends, array, mutex_, pc, arg, snap, half, work, sawEmpty, moves>>
-----------------------------------------------------------------------------
kMask2 == 2 * kSize - 1

\* x & kMask2: the rolling index; x & kMask: the element it names.
Low(x) == x % (2 * kSize)
Elem(x) == x % kSize

\* front + 1 + (kSize << 1) and the same of back: one up, one modification.
BugUp(x) == (x - Low(x)) + Low(x + 1)
Up(x) == (x + 1 + 2 * kSize) % Modulus

\* ((x - 1) & kMask2) | (x & ~kMask2): one down, the counter stays.
BugDown(x) == x - 1
Down(x) == (x - Low(x)) + Low(x + 2 * kSize - 1)

\* (front & kMask2) - (back & kMask2), the overflow fixed.
RawSize(f, b) == LET size == Low(f) - Low(b)
                 IN  IF size < 0 THEN size + 2 * kSize ELSE size

CalculateSize(f, b) == IF RawSize(f, b) > kSize THEN kSize ELSE RawSize(f, b)

Goto(t, l) == pc' = [pc EXCEPT ![t] = l]
Give(w) == ran' = [ran EXCEPT ![w] = @ + 1]
-----------------------------------------------------------------------------
\* The queue after n PushFront calls.
Init ==
  \E n \in Prefill :
    /\ front_ = (n * (1 + 2 * kSize)) % Modulus /\ back_ = 0
    /\ elemState = [e \in Elements |-> IF e < n THEN "Ready" ELSE "Empty"]
    /\ elemWork = [e \in Elements |-> IF e < n THEN e + 1 ELSE 0]
    /\ mutex_ = None
    /\ pc = [t \in Threads |-> "idle"]
    /\ arg = [t \in Threads |-> 0]
    /\ front = [t \in Threads |-> 0] /\ back = [t \in Threads |-> 0]
    /\ mid = 0 /\ start = -1
    /\ issued = n
    /\ ran = [w \in 1 .. MaxWork |-> 0]
    /\ sawEmpty = [t \in Threads |-> FALSE]
    /\ moves = [t \in Threads |-> 0]
-----------------------------------------------------------------------------
(***************************************************************************)
(* SizeOrNotEmpty: load front_, then back_, then front_ again until it     *)
(* has not moved.  Empty() is called by itself and first thing in PopBack  *)
(* and PopBackHalf; Size() is called in PopBackHalf, under the lock.       *)
(***************************************************************************)
SnapFront(t, l) ==
  /\ front' = [front EXCEPT ![t] = front_]
  /\ Goto(t, l)
  /\ UNCHANGED <<ends, array, mutex_, arg, back, half, work>>

\* The four places back_ is loaded for, and the loads that complete them.
Loads == {<<"empty.back", "empty.front1">>, <<"pop.back", "pop.front1">>,
          <<"half.back", "half.front1">>, <<"size.back", "size.front1">>}

SnapBack(t) ==
  /\ \E c \in Loads : pc[t] = c[1] /\ Goto(t, c[2])
  /\ back' = [back EXCEPT ![t] = back_]
  /\ UNCHANGED <<ends, array, mutex_, arg, front, half, work>>

SnapRetry(t) ==
  /\ \E c \in Loads : pc[t] = c[2] /\ Goto(t, c[1])
  /\ front[t] # front_
  /\ front' = [front EXCEPT ![t] = front_]
  /\ UNCHANGED <<ends, array, mutex_, arg, back, half, work>>

\* The snapshot is consistent: (front ^ back) & kMask2.
Consistent(t, c) == pc[t] = c /\ front[t] = front_
MaybeZero(t) == Low(front[t]) = Low(back[t])

Forget(t) == /\ front' = [front EXCEPT ![t] = 0]
             /\ back' = [back EXCEPT ![t] = 0]

Empty(t) == pc[t] = "idle" /\ SnapFront(t, "empty.back")

EmptyReturn(t) ==
  /\ Consistent(t, "empty.front1")
  /\ Goto(t, "idle") /\ Forget(t)
  /\ UNCHANGED <<ends, array, mutex_, arg, half, work>>
-----------------------------------------------------------------------------
(***************************************************************************)
(* The owner, on the front.                                                *)
(***************************************************************************)
\* PushFront claims the element after the front, or gives the item back.
BugPushFront ==
  /\ pc[owner] = "idle" /\ issued < MaxWork
  /\ issued' = issued + 1
  /\ elemState' = [elemState EXCEPT ![Elem(front_)] = "Busy"]
  /\ arg' = [arg EXCEPT ![owner] = issued + 1]
  /\ Goto(owner, "pushfront.index")
  /\ UNCHANGED <<ran, ends, elemWork, mutex_, snap, half>>
PushFront ==
  /\ pc[owner] = "idle" /\ issued < MaxWork
  /\ issued' = issued + 1
  /\ LET e == Elem(front_)
     IN  \/ /\ elemState[e] = "Empty"
            /\ elemState' = [elemState EXCEPT ![e] = "Busy"]
            /\ arg' = [arg EXCEPT ![owner] = issued + 1]
            /\ Goto(owner, "pushfront.index")
            /\ UNCHANGED ran
         \/ /\ elemState[e] # "Empty"
            /\ Give(issued + 1)
            /\ UNCHANGED <<elemState, arg, pc>>
  /\ UNCHANGED <<ends, elemWork, mutex_, snap, half>>

PushFrontIndex ==
  /\ pc[owner] = "pushfront.index"
  /\ front_' = Up(front_)
  /\ Goto(owner, "pushfront.ready")
  /\ UNCHANGED <<back_, array, mutex_, arg, snap, half, work>>

PushFrontReady ==
  /\ pc[owner] = "pushfront.ready"
  /\ LET e == Elem(front_ + Modulus - 1)
     IN  /\ elemState' = [elemState EXCEPT ![e] = "Ready"]
         /\ elemWork' = [elemWork EXCEPT ![e] = arg[owner]]
  /\ arg' = [arg EXCEPT ![owner] = 0]
  /\ Goto(owner, "idle")
  /\ UNCHANGED <<ends, mutex_, snap, half, work>>

\* PopFront claims the front element; when it is not ready it returns nothing.
PopFront ==
  /\ pc[owner] = "idle"
  /\ LET e == Elem(front_ + Modulus - 1)
     IN  /\ elemState[e] = "Ready"
         /\ elemState' = [elemState EXCEPT ![e] = "Busy"]
  /\ Goto(owner, "popfront.take")
  /\ UNCHANGED <<ends, elemWork, mutex_, arg, snap, half, work>>

PopFrontTake ==
  /\ pc[owner] = "popfront.take"
  /\ LET e == Elem(front_ + Modulus - 1)
     IN  /\ elemState' = [elemState EXCEPT ![e] = "Empty"]
         /\ elemWork' = [elemWork EXCEPT ![e] = 0]
         /\ Give(elemWork[e])
  /\ Goto(owner, "popfront.index")
  /\ UNCHANGED <<ends, mutex_, arg, snap, half, issued>>

PopFrontIndex ==
  /\ pc[owner] = "popfront.index"
  /\ front_' = Down(front_)
  /\ Goto(owner, "idle")
  /\ UNCHANGED <<back_, array, mutex_, arg, snap, half, work>>
-----------------------------------------------------------------------------
(***************************************************************************)
(* The other threads, on the back.                                         *)
(***************************************************************************)
PushBack(r) ==
  /\ pc[r] = "idle" /\ mutex_ = None /\ issued < MaxWork
  /\ issued' = issued + 1
  /\ LET e == Elem(back_ + Modulus - 1)
     IN  \/ /\ elemState[e] = "Empty"
            /\ elemState' = [elemState EXCEPT ![e] = "Busy"]
            /\ mutex_' = r
            /\ arg' = [arg EXCEPT ![r] = issued + 1]
            /\ Goto(r, "pushback.index")
            /\ UNCHANGED ran
         \/ /\ elemState[e] # "Empty"
            /\ Give(issued + 1)
            /\ UNCHANGED <<elemState, mutex_, arg, pc>>
  /\ UNCHANGED <<ends, elemWork, snap, half>>

PushBackIndex(r) ==
  /\ pc[r] = "pushback.index"
  /\ back_' = Down(back_)
  /\ Goto(r, "pushback.ready")
  /\ UNCHANGED <<front_, array, mutex_, arg, snap, half, work>>

PushBackReady(r) ==
  /\ pc[r] = "pushback.ready"
  /\ elemState' = [elemState EXCEPT ![Elem(back_)] = "Ready"]
  /\ elemWork' = [elemWork EXCEPT ![Elem(back_)] = arg[r]]
  /\ arg' = [arg EXCEPT ![r] = 0]
  /\ mutex_' = None
  /\ Goto(r, "idle")
  /\ UNCHANGED <<ends, snap, half, work>>

PopBack(r) == pc[r] = "idle" /\ SnapFront(r, "pop.back")

\* if (Empty()) return Work();
PopBackEmpty(r) ==
  /\ Consistent(r, "pop.front1")
  /\ Goto(r, IF MaybeZero(r) THEN "idle" ELSE "popback.claim")
  /\ Forget(r)
  /\ UNCHANGED <<ends, array, mutex_, arg, half, work>>

BugPopBackClaim(r) ==
  /\ pc[r] = "popback.claim" /\ mutex_ = None
  /\ elemState' = [elemState EXCEPT ![Elem(back_)] = "Busy"]
  /\ mutex_' = r
  /\ Goto(r, "popback.take")
  /\ UNCHANGED <<ends, elemWork, arg, snap, half, work>>
PopBackClaim(r) ==
  /\ pc[r] = "popback.claim" /\ mutex_ = None
  /\ LET e == Elem(back_)
     IN  \/ /\ elemState[e] = "Ready"
            /\ elemState' = [elemState EXCEPT ![e] = "Busy"]
            /\ mutex_' = r
            /\ Goto(r, "popback.take")
         \/ /\ elemState[e] # "Ready"
            /\ Goto(r, "idle")
            /\ UNCHANGED <<elemState, mutex_>>
  /\ UNCHANGED <<ends, elemWork, arg, snap, half, work>>

PopBackTake(r) ==
  /\ pc[r] = "popback.take"
  /\ elemState' = [elemState EXCEPT ![Elem(back_)] = "Empty"]
  /\ elemWork' = [elemWork EXCEPT ![Elem(back_)] = 0]
  /\ Give(elemWork[Elem(back_)])
  /\ Goto(r, "popback.index")
  /\ UNCHANGED <<ends, mutex_, arg, snap, half, issued>>

PopBackIndex(r) ==
  /\ pc[r] = "popback.index"
  /\ back_' = Up(back_)
  /\ mutex_' = None
  /\ Goto(r, "idle")
  /\ UNCHANGED <<front_, array, arg, snap, half, work>>

PopBackHalf(r) == pc[r] = "idle" /\ SnapFront(r, "half.back")

HalfEmpty(r) ==
  /\ Consistent(r, "half.front1")
  /\ Goto(r, IF MaybeZero(r) THEN "idle" ELSE "half.lock")
  /\ Forget(r)
  /\ UNCHANGED <<ends, array, mutex_, arg, half, work>>

\* The lock is taken, and Size() begins.
HalfLock(r) ==
  /\ pc[r] = "half.lock" /\ mutex_ = None
  /\ mutex_' = r
  /\ front' = [front EXCEPT ![r] = front_]
  /\ Goto(r, "size.back")
  /\ UNCHANGED <<ends, array, arg, back, half, work>>

\* mid = back + (size - 1) / 2
Mid(size) == IF size > 1 THEN (size - 1) \div 2 ELSE 0

HalfSize(r) ==
  /\ Consistent(r, "size.front1")
  /\ mid' = Mid(CalculateSize(front[r], back[r]))
  /\ Goto(r, "half.scan")
  /\ Forget(r)
  /\ UNCHANGED <<ends, array, mutex_, arg, start, work>>

\* n == 0: the elements the owner has already popped are passed over, the
\* first that is ready is claimed.
BugHalfScan(r) ==
  /\ pc[r] = "half.scan"
  /\ LET e == Elem(back_ + mid)
     IN  /\ elemState' = [elemState EXCEPT ![e] = IF @ = "Ready" THEN "Busy" ELSE @]
         /\ start' = mid
         /\ Goto(r, "half.take")
  /\ UNCHANGED <<ends, elemWork, mutex_, arg, snap, mid, work>>
HalfScan(r) ==
  /\ pc[r] = "half.scan"
  /\ LET e == Elem(back_ + mid)
     IN  \/ /\ elemState[e] = "Ready"
            /\ elemState' = [elemState EXCEPT ![e] = "Busy"]
            /\ start' = mid
            /\ Goto(r, "half.take")
            /\ UNCHANGED <<mutex_, mid>>
         \/ /\ elemState[e] # "Ready" /\ mid > 0
            /\ mid' = mid - 1
            /\ UNCHANGED <<elemState, mutex_, start, pc>>
         \/ /\ elemState[e] # "Ready" /\ mid = 0
            /\ mutex_' = None
            /\ Goto(r, "idle")
            /\ UNCHANGED <<elemState, mid, start>>
  /\ UNCHANGED <<ends, elemWork, arg, snap, work>>

\* The claimed element and then those below it, which need no claim.
HalfTake(r) ==
  /\ pc[r] = "half.take"
  /\ LET e == Elem(back_ + mid)
     IN  /\ elemState' = [elemState EXCEPT ![e] = "Empty"]
         /\ elemWork' = [elemWork EXCEPT ![e] = 0]
         /\ Give(elemWork[e])
  /\ IF mid = 0 THEN Goto(r, "half.index") /\ UNCHANGED mid
                ELSE mid' = mid - 1 /\ UNCHANGED pc
  /\ UNCHANGED <<ends, mutex_, arg, snap, start, issued>>

\* back_.store(start + 1 + (kSize << 1))
BugHalfIndex(r) ==
  /\ pc[r] = "half.index"
  /\ back_' = Up(back_)
  /\ start' = -1
  /\ mutex_' = None
  /\ Goto(r, "idle")
  /\ UNCHANGED <<front_, array, arg, snap, mid, work>>
HalfIndex(r) ==
  /\ pc[r] = "half.index"
  /\ back_' = Up(back_ + start)
  /\ start' = -1
  /\ mutex_' = None
  /\ Goto(r, "idle")
  /\ UNCHANGED <<front_, array, arg, snap, mid, work>>
-----------------------------------------------------------------------------
(***************************************************************************)
(* The items that are queued, front first: those at the positions between  *)
(* the two indices that no pop has claimed yet.  A position a pop has      *)
(* emptied may already hold a new item of the other end, one lap on.       *)
(***************************************************************************)
InFront == IF pc[owner] \in {"popfront.take", "popfront.index"} THEN 1 ELSE 0

InBack ==
  IF \E r \in Remotes : pc[r] \in {"popback.take", "popback.index"} THEN 1
  ELSE start + 1

Positions == InBack .. (RawSize(front_, back_) - InFront - 1)

ReadyAt(i) == elemState[Elem(back_ + i)] = "Ready"

NoneQueued == \A i \in Positions : ~ReadyAt(i)

Queued ==
  LET items[i \in 0 .. RawSize(front_, back_)] ==
        IF i = 0 THEN <<>>
        ELSE IF i - 1 \in Positions /\ ReadyAt(i - 1)
             THEN <<elemWork[Elem(back_ + i - 1)]>> \o items[i - 1]
             ELSE items[i - 1]
  IN  items[RawSize(front_, back_)]

\* Where Empty() has loaded front_ and goes on to load back_, and where it has both.
LoadedFront == {"empty.back", "pop.back", "half.back"}
LoadedBoth == {"empty.front1", "pop.front1", "half.front1"}

\* The history: an Empty() that begins or runs while nothing is queued, and how
\* often the front moves under it.
Watch ==
  /\ sawEmpty' = [t \in Threads |->
       /\ pc'[t] # "idle"
       /\ NoneQueued' \/ (sawEmpty[t] /\ pc[t] # "idle")]
  /\ moves' = [t \in Threads |->
       IF \/ pc'[t] \notin LoadedFront \cup LoadedBoth
          \/ pc'[t] \in LoadedFront /\ pc[t] \notin LoadedFront
       THEN 0
       ELSE IF front_' # front_ THEN moves[t] + 1 ELSE moves[t]]

OwnerStep == \/ PushFront \/ PushFrontIndex \/ PushFrontReady
             \/ PopFront \/ PopFrontTake \/ PopFrontIndex

RemoteStep(r) ==
  \/ PushBack(r) \/ PushBackIndex(r) \/ PushBackReady(r)
  \/ PopBack(r) \/ PopBackEmpty(r) \/ PopBackClaim(r) \/ PopBackTake(r) \/ PopBackIndex(r)
  \/ PopBackHalf(r) \/ HalfEmpty(r) \/ HalfLock(r) \/ HalfSize(r) \/ HalfScan(r)
  \/ HalfTake(r) \/ HalfIndex(r)

SnapshotStep(t) == SnapBack(t) \/ SnapRetry(t)

ObserverStep(t) == Empty(t) \/ EmptyReturn(t)

Next ==
  /\ \/ OwnerStep
     \/ \E r \in Remotes : RemoteStep(r)
     \/ \E t \in Observers : ObserverStep(t)
     \/ \E t \in Threads : SnapshotStep(t)
  /\ Watch

Spec == Init /\ [][Next]_vars
-----------------------------------------------------------------------------
\* Every variable has its type.
TypeOK ==
  /\ front_ \in 0 .. Modulus - 1 /\ back_ \in 0 .. Modulus - 1
  /\ elemState \in [Elements -> {"Empty", "Busy", "Ready"}]
  /\ elemWork \in [Elements -> 0 .. MaxWork]
  /\ mutex_ \in Remotes \cup {None}
  /\ arg \in [Threads -> 0 .. MaxWork]
  /\ mid \in 0 .. kSize /\ start \in -1 .. kSize
  /\ issued \in 0 .. MaxWork
  /\ ran \in [1 .. MaxWork -> Nat]
  /\ sawEmpty \in [Threads -> BOOLEAN] /\ moves \in [Threads -> Nat]

\* The element each thread has claimed.
Claims(t) ==
  {e \in Elements :
     \/ pc[t] = "pushfront.index" /\ e = Elem(front_)
     \/ pc[t] \in {"pushfront.ready", "popfront.take"} /\ e = Elem(front_ + Modulus - 1)
     \/ pc[t] = "pushback.index" /\ e = Elem(back_ + Modulus - 1)
     \/ pc[t] \in {"pushback.ready", "popback.take"} /\ e = Elem(back_)
     \/ pc[t] = "half.take" /\ \E i \in 0 .. mid : e = Elem(back_ + i)}

\* An element is touched by one thread at a time: the owner and the thread
\* behind the lock never hold the same one, a busy element has a holder and
\* what a thread holds is busy - or ready, below the element PopBackHalf
\* claimed, where the assert of RunQueue.h:129 stands.
Exclusive ==
  /\ \A s, t \in Threads : s # t => Claims(s) \cap Claims(t) = {}
  /\ {e \in Elements : elemState[e] = "Busy"} \subseteq UNION {Claims(t) : t \in Threads}
  /\ \A t \in Threads : \A e \in Claims(t) :
       IF pc[t] = "half.take" /\ e # Elem(back_ + start)
       THEN elemState[e] = "Ready" ELSE elemState[e] = "Busy"

\* No item is lost and none is handed out twice: each is at one place, in
\* the queue, in the hands of a push or of PopBackHalf, or given to a caller.
Conserved ==
  LET queue == Queued
      popped == UNION {Claims(t) : t \in {r \in Threads :
                         pc[r] \in {"popfront.take", "popback.take", "half.take"}}}
  IN  \A w \in 1 .. issued :
        Cardinality({i \in 1 .. Len(queue) : queue[i] = w})
        + Cardinality({t \in Threads : arg[t] = w})
        + Cardinality({e \in popped : elemWork[e] = w}) + ran[w] = 1

\* Empty() is about to answer that the queue is empty.
SaysEmpty(t) == (\E c \in LoadedBoth : Consistent(t, c)) /\ MaybeZero(t)

\* Empty() never claims a non-empty queue empty (RunQueue.h:187): when it is
\* about to say so, there was a moment during the call with nothing queued,
\* whatever the two ends did between the three loads.
EmptyIsTrue == \A t \in Threads : SaysEmpty(t) => sawEmpty[t]

\* How often the front has to move to come back to the same index: once round
\* by PopFront, which leaves the modification counter alone, or once round the
\* counter by PushFront.
Round == IF 2 * kSize < Modulus \div (2 * kSize) THEN 2 * kSize ELSE Modulus \div (2 * kSize)

\* So it does, as long as the front has not come round since it was loaded.
EmptyIsTrueInARound == \A t \in Threads : SaysEmpty(t) /\ moves[t] < Round => sawEmpty[t]

\* A pop that comes back empty-handed found nothing: where the owner at rest, or
\* a thread about to take the lock, would see an element that is not ready at
\* its end, no item is queued at the other end either.
NothingToPop ==
  /\ pc[owner] = "idle" /\ elemState[Elem(front_ + Modulus - 1)] # "Ready" => NoneQueued
  /\ \A r \in Remotes :
       pc[r] = "popback.claim" /\ mutex_ = None /\ elemState[Elem(back_)] # "Ready" => NoneQueued
-----------------------------------------------------------------------------
\* RunQueue implements the atomic deque: an item enters when its element
\* becomes ready and leaves when it is claimed.
Deque == INSTANCE RunQueueSpec WITH Work <- 1 .. MaxWork, queue <- Queued

DequeSpec == Deque!SpecRQ
=============================================================================

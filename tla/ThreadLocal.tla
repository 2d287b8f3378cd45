---------------------------- MODULE ThreadLocal ----------------------------
(***************************************************************************)
(* Eigen's ThreadLocal (Eigen/src/ThreadPool/ThreadLocal.h): an element    *)
(* for each thread that asks, in a lock-free hash table of capacity_ slots *)
(* that only grows, and in a map behind a mutex once the table is full.    *)
(*                                                                         *)
(* One step is one access to shared memory, under sequential consistency.  *)
(* A record of data_ belongs to the thread that reserved its index until   *)
(* ptr_ points to it, so it is written with the reservation.  The section  *)
(* under mu_ is one step.                                                  *)
(***************************************************************************)
EXTENDS Naturals, FiniteSets

CONSTANTS Threads,
          capacity_,
          Null,      \* the null pointer
          MaxCalls   \* bound: how often each thread calls local()

ASSUME ThreadLocalAssumption ==
  IsFiniteSet(Threads) /\ capacity_ \in Nat /\ MaxCalls \in Nat /\ Null \notin Nat \cup Threads

Slots == 0 .. capacity_ - 1

VARIABLES
  hash,       \* std::hash of each thread id, modulo capacity_
  ptr_,       \* the table: an index of data_, or null
  data_,      \* the thread id of each record
  filled_records_,
  per_thread_map_,  \* the threads that have an element in the map
  pc, idx,
  inserted,   \* the record a thread reserved
  empty,      \* the expected value of the exchange
  from,       \* insertion_idx: where a thread began to probe
  got,        \* the elements each thread was given
  calls

table == <<ptr_, data_, filled_records_, per_thread_map_>>
vars == <<hash, table, pc, idx, inserted, empty, from, got, calls>>

Init ==
  /\ hash \in [Threads -> IF capacity_ = 0 THEN {0} ELSE Slots]
  /\ ptr_ = [i \in Slots |-> Null]
  /\ data_ = [i \in Slots |-> Null]
  /\ filled_records_ = 0 /\ per_thread_map_ = {}
  /\ pc = [t \in Threads |-> "idle"]
  /\ idx = [t \in Threads |-> 0] /\ from = [t \in Threads |-> 0]
  /\ inserted = [t \in Threads |-> Null] /\ empty = [t \in Threads |-> Null]
  /\ got = [t \in Threads |-> {}]
  /\ calls = [t \in Threads |-> 0]

Goto(t, l) == pc' = [pc EXCEPT ![t] = l]

\* local() returns a record of data_ or the element of the map.
Give(t, e) == /\ got' = [got EXCEPT ![t] = @ \cup {e}]
              /\ Goto(t, "idle")
Record(i) == <<"data_", i>>
Spilled(t) == <<"per_thread_map_", t>>

BugAfter(i) == IF i + 1 >= capacity_ THEN i ELSE i + 1
After(i) == IF i + 1 >= capacity_ THEN i + 1 - capacity_ ELSE i + 1
-----------------------------------------------------------------------------
Local(t) ==
  /\ pc[t] = "idle" /\ calls[t] < MaxCalls
  /\ calls' = [calls EXCEPT ![t] = @ + 1]
  /\ idx' = [idx EXCEPT ![t] = hash[t]]
  /\ Goto(t, IF capacity_ = 0 THEN "spill" ELSE "find")
  /\ UNCHANGED <<hash, table, inserted, empty, from, got>>

\* Without the break where the walk began.
BugFind(t) ==
  /\ pc[t] = "find"
  /\ LET r == ptr_[idx[t]]
     IN  IF r # Null /\ data_[r] = t
         THEN Give(t, Record(r)) /\ UNCHANGED idx
         ELSE /\ idx' = [idx EXCEPT ![t] = IF r = Null THEN @ ELSE After(@)]
              /\ Goto(t, IF r = Null THEN "full" ELSE "find")
              /\ UNCHANGED got
  /\ UNCHANGED <<hash, table, inserted, empty, from, calls>>
\* Is the next record of the table this thread's?  The walk ends at a null
\* pointer or where it began.
Find(t) ==
  /\ pc[t] = "find"
  /\ LET r == ptr_[idx[t]]
     IN  IF r # Null /\ data_[r] = t
         THEN Give(t, Record(r)) /\ UNCHANGED idx
         ELSE /\ idx' = [idx EXCEPT ![t] = IF r = Null THEN @ ELSE After(@)]
              /\ Goto(t, IF r = Null \/ After(idx[t]) = hash[t] THEN "full" ELSE "find")
              /\ UNCHANGED got
  /\ UNCHANGED <<hash, table, inserted, empty, from, calls>>

Full(t) ==
  /\ pc[t] = "full"
  /\ Goto(t, IF filled_records_ >= capacity_ THEN "spill" ELSE "reserve")
  /\ UNCHANGED <<hash, table, idx, inserted, empty, from, got, calls>>

\* filled_records_.fetch_add(1), which others may have raised meanwhile.
BugReserve(t) ==
  /\ pc[t] = "reserve"
  /\ filled_records_' = filled_records_ + 1
  /\ data_' = [data_ EXCEPT ![filled_records_] = t]
  /\ inserted' = [inserted EXCEPT ![t] = filled_records_]
  /\ empty' = [empty EXCEPT ![t] = Null]
  /\ from' = [from EXCEPT ![t] = idx[t]]
  /\ Goto(t, "probe")
  /\ UNCHANGED <<hash, ptr_, per_thread_map_, idx, got, calls>>
Reserve(t) ==
  /\ pc[t] = "reserve"
  /\ filled_records_' = filled_records_ + 1
  /\ IF filled_records_ >= capacity_
     THEN Goto(t, "spill") /\ UNCHANGED <<data_, inserted, empty, from>>
     ELSE /\ data_' = [data_ EXCEPT ![filled_records_] = t]
          /\ inserted' = [inserted EXCEPT ![t] = filled_records_]
          /\ empty' = [empty EXCEPT ![t] = Null]
          /\ from' = [from EXCEPT ![t] = idx[t]]
          /\ Goto(t, "probe")
  /\ UNCHANGED <<hash, ptr_, per_thread_map_, idx, got, calls>>

\* The next slot that is free; a full loop is what line 195 asserts against.
Probe(t) ==
  /\ pc[t] = "probe"
  /\ IF ptr_[idx[t]] = Null
     THEN Goto(t, "publish") /\ UNCHANGED idx
     ELSE /\ idx' = [idx EXCEPT ![t] = After(@)]
          /\ Goto(t, IF After(idx[t]) = from[t] THEN "overrun" ELSE "probe")
  /\ UNCHANGED <<hash, table, inserted, empty, from, got, calls>>

\* compare_exchange_weak(empty, inserted)
BugPublish(t) ==
  /\ pc[t] = "publish"
  /\ ptr_' = [ptr_ EXCEPT ![idx[t]] = inserted[t]]
  /\ Give(t, Record(inserted[t]))
  /\ UNCHANGED <<hash, data_, filled_records_, per_thread_map_, idx, inserted, empty, from, calls>>
Publish(t) ==
  /\ pc[t] = "publish" /\ ptr_[idx[t]] = empty[t]
  /\ ptr_' = [ptr_ EXCEPT ![idx[t]] = inserted[t]]
  /\ Give(t, Record(inserted[t]))
  /\ UNCHANGED <<hash, data_, filled_records_, per_thread_map_, idx, inserted, empty, from, calls>>

\* It fails, possibly for no reason, leaves what it found in "empty", and
\* the search begins again.
PublishFails(t) ==
  /\ pc[t] = "publish"
  /\ empty' = [empty EXCEPT ![t] = ptr_[idx[t]]]
  /\ idx' = [idx EXCEPT ![t] = from[t]]
  /\ Goto(t, "probe")
  /\ UNCHANGED <<hash, table, inserted, from, got, calls>>

SpilledLocal(t) ==
  /\ pc[t] = "spill"
  /\ per_thread_map_' = per_thread_map_ \cup {t}
  /\ Give(t, Spilled(t))
  /\ UNCHANGED <<hash, ptr_, data_, filled_records_, idx, inserted, empty, from, calls>>

\* What ForEach and the destructor visit, with nobody in local().
BugVisited == {Record(ptr_[i]) : i \in {j \in Slots : ptr_[j] # Null}}
              \cup (IF filled_records_ <= capacity_ THEN {} ELSE {Spilled(t) : t \in per_thread_map_})
Visited == {Record(ptr_[i]) : i \in {j \in Slots : ptr_[j] # Null}}
           \cup (IF filled_records_ < capacity_ THEN {} ELSE {Spilled(t) : t \in per_thread_map_})

Finished == \A t \in Threads : pc[t] = "idle" /\ calls[t] = MaxCalls

Step(t) == Local(t) \/ Find(t) \/ Full(t) \/ Reserve(t) \/ Probe(t) \/ Publish(t) \/ SpilledLocal(t)

Next ==
  \/ \E t \in Threads : Step(t) \/ PublishFails(t)
  \/ Finished /\ UNCHANGED vars

Spec == Init /\ [][Next]_vars

\* Threads that can run are run, and a weak exchange does not fail for ever
\* where it could succeed.
Fairness == \A t \in Threads :
  WF_vars(Step(t) \/ PublishFails(t)) /\ SF_vars(Publish(t))

FairSpec == Spec /\ Fairness
-----------------------------------------------------------------------------
Pointers == Slots \cup {Null}

\* Every variable has its type.
TypeOK ==
  /\ ptr_ \in [Slots -> Pointers] /\ data_ \in [Slots -> Threads \cup {Null}]
  /\ filled_records_ \in Nat /\ per_thread_map_ \subseteq Threads
  /\ pc \in [Threads -> {"idle", "find", "full", "reserve", "probe", "publish", "spill",
                         "overrun"}]
  /\ idx \in [Threads -> Nat] /\ from \in [Threads -> Nat]
  /\ inserted \in [Threads -> Pointers] /\ empty \in [Threads -> Pointers]
  /\ calls \in [Threads -> 0 .. MaxCalls]

\* Each thread has one element for life, however often it asks, and no other
\* thread is given it: a record is not handed out in the table and in the map,
\* nor a second one when the first is not found again.
OneEach ==
  /\ \A t \in Threads : Cardinality(got[t]) <= 1
  /\ \A s, t \in Threads : s # t => got[s] \cap got[t] = {}

\* A thread with a record always finds a slot for it (the assert of line 195).
RoomLeft == \A t \in Threads : pc[t] # "overrun"

\* With nobody in local(), ForEach visits every element that was handed out and
\* no other, and so does the destructor that releases them (lines 205-242).
AllVisited == (\A t \in Threads : pc[t] = "idle") => Visited = UNION {got[t] : t \in Threads}

\* Every call of local() returns, whatever the collisions.
Returns == \A t \in Threads : pc[t] # "idle" ~> pc[t] = "idle"
=============================================================================

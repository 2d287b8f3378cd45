------------------------- MODULE ThreadLocalProofs -------------------------
(***************************************************************************)
(* Safety of ThreadLocal, for any number of threads, any capacity of the   *)
(* table and any hash.                                                     *)
(*                                                                         *)
(* A thread finds its record again because the walk from its hash value to *)
(* the record never met a null pointer when it was published, and slots    *)
(* are never cleared.  A thread with a record finds a free slot because    *)
(* the pointers are distinct records and none of them is its own.          *)
(***************************************************************************)
EXTENDS ThreadLocal, FiniteSetTheorems, TLAPS

----------------------------------------------------------------------------
(* The inductive invariant.                                                *)

\* How far a walk that began at a has come at i
Dist(a, i) == IF i >= a THEN i - a ELSE i + capacity_ - a

\* The slots a walk passed before it came to i are taken.
Path(p, a, i) == \A j \in Slots : Dist(a, j) < Dist(a, i) => p[j] # Null

Elements == {Record(i) : i \in Slots} \cup {Spilled(t) : t \in Threads}

Types ==
  /\ TypeOK
  /\ hash \in [Threads -> Nat] /\ \A t \in Threads : capacity_ > 0 => hash[t] \in Slots
  /\ got \in [Threads -> SUBSET Elements]

\* The first records of data_ are taken, each by one thread, which knows it.
Reserved ==
  /\ \A r \in Slots : data_[r] = Null <=> r >= filled_records_
  /\ \A t \in Threads, r \in Slots : data_[r] = t <=> inserted[t] = r

\* A record is published once, and then it was given to its thread.
Published ==
  /\ \A i, j \in Slots : ptr_[i] # Null /\ ptr_[i] = ptr_[j] => i = j
  /\ \A i \in Slots : ptr_[i] # Null =>
       \E t \in Threads : inserted[t] = ptr_[i] /\ got[t] = {Record(ptr_[i])}

Walking(t) == pc[t] \in {"find", "full", "reserve", "probe", "publish"}
Placing(t) == pc[t] \in {"probe", "publish"}

\* A thread walks from its hash value over slots that are taken.
Walked(t) == Walking(t) => capacity_ > 0 /\ idx[t] \in Slots /\ Path(ptr_, hash[t], idx[t])

\* A thread without a record has none of the table, and one of the map only if that is full.
Without(t) ==
  inserted[t] = Null =>
    /\ pc[t] \in {"idle", "find", "full", "reserve", "spill"}
    /\ pc[t] = "spill" => filled_records_ >= capacity_
    /\ \/ got[t] = {} /\ t \notin per_thread_map_
       \/ /\ got[t] = {Spilled(t)} /\ t \in per_thread_map_
          /\ filled_records_ >= capacity_ /\ pc[t] # "reserve"

\* A thread that publishes its record has no element yet, and walked from its hash value to
\* where it began to probe and from there on.
Publishing(t) ==
  inserted[t] # Null /\ Placing(t) =>
    /\ got[t] = {} /\ t \notin per_thread_map_
    /\ from[t] \in Slots /\ Path(ptr_, hash[t], from[t]) /\ Path(ptr_, from[t], idx[t])

\* What a failed exchange left in "empty" is in the table, but not in the slot that comes next.
Stale(t) ==
  Placing(t) /\ empty[t] # Null =>
    \E s \in Slots : ptr_[s] = empty[t] /\ (pc[t] = "publish" => s # idx[t])

\* A thread that has published its record will find it.
Having(t) ==
  inserted[t] # Null /\ ~Placing(t) =>
    /\ pc[t] \in {"idle", "find"}
    /\ got[t] = {Record(inserted[t])} /\ t \notin per_thread_map_
    /\ \E s \in Slots : /\ ptr_[s] = inserted[t] /\ Path(ptr_, hash[t], s)
                        /\ pc[t] = "find" => Dist(hash[t], idx[t]) <= Dist(hash[t], s)

Thread(t) == Walked(t) /\ Without(t) /\ Publishing(t) /\ Stale(t) /\ Having(t)

TInv == Types /\ Reserved /\ Published /\ \A t \in Threads : Thread(t)

----------------------------------------------------------------------------
(* The walk round the table.                                               *)

\* The table has a size, which may be none.
LEMMA CapacityType == capacity_ \in Nat BY ThreadLocalAssumption

\* The next slot is one further, until the walk is back.
LEMMA Around ==
  ASSUME NEW a \in Slots, NEW i \in Slots
  PROVE  /\ After(i) \in Slots /\ Dist(a, i) \in 0 .. capacity_ - 1 /\ Dist(a, a) = 0
         /\ After(i) = a => Dist(a, i) = capacity_ - 1
         /\ After(i) # a => Dist(a, After(i)) = Dist(a, i) + 1
         /\ \A j \in Slots : Dist(a, j) = Dist(a, i) => j = i
BY ThreadLocalAssumption DEF Slots, After, Dist

\* Passing a slot that is taken keeps the path.
LEMMA PathOn ==
  ASSUME NEW a \in Slots, NEW i \in Slots, Path(ptr_, a, i), ptr_[i] # Null
  PROVE  /\ Path(ptr_, a, After(i))
         /\ After(i) = a => \A j \in Slots : ptr_[j] # Null
<1>1. ASSUME NEW j \in Slots, Dist(a, j) <= Dist(a, i) PROVE ptr_[j] # Null
  <2>1. Dist(a, j) \in Nat /\ Dist(a, i) \in Nat BY Around
  <2>2. CASE Dist(a, j) = Dist(a, i)
    <3>1. j = i BY <2>2, Around
    <3> QED BY <3>1
  <2>3. CASE Dist(a, j) < Dist(a, i) BY <2>3 DEF Path
  <2> QED BY <1>1, <2>1, <2>2, <2>3
<1>2. CASE After(i) = a
  <2>1. Dist(a, After(i)) = 0 BY <1>2, Around
  <2>2. ASSUME NEW j \in Slots PROVE Dist(a, j) \in Nat /\ Dist(a, j) <= Dist(a, i)
    <3>1. Dist(a, i) = capacity_ - 1 BY <1>2, Around
    <3>2. Dist(a, j) \in 0 .. capacity_ - 1 BY Around
    <3> QED BY <3>1, <3>2, ThreadLocalAssumption
  <2>3. Path(ptr_, a, After(i)) BY <2>1, <2>2 DEF Path
  <2> QED BY <1>1, <2>2, <2>3
<1>3. CASE After(i) # a
  <2>1. Dist(a, After(i)) = Dist(a, i) + 1 BY <1>3, Around
  <2>2. ASSUME NEW j \in Slots, Dist(a, j) < Dist(a, After(i)) PROVE ptr_[j] # Null
    <3>1. Dist(a, j) \in 0 .. capacity_ - 1 /\ Dist(a, i) \in 0 .. capacity_ - 1 BY Around
    <3>2. Dist(a, j) <= Dist(a, i) BY <2>1, <2>2, <3>1, ThreadLocalAssumption
    <3> QED BY <1>1, <3>2
  <2> QED BY <1>3, <2>2 DEF Path
<1> QED BY <1>2, <1>3

\* A path stays one when slots are filled, and begins empty.
LEMMA PathKeeps ==
  ASSUME NEW p, NEW q, NEW a, NEW i, Path(p, a, i), \A j \in Slots : p[j] # Null => q[j] # Null
  PROVE  Path(q, a, i)
BY DEF Path

LEMMA PathBegins ==
  ASSUME NEW p, NEW a \in Slots
  PROVE  Path(p, a, a)
BY Around, ThreadLocalAssumption DEF Path

\* When all slots are taken, every record is published: the pointers are distinct.
LEMMA AllPublished ==
  ASSUME Types, Published, \A j \in Slots : ptr_[j] # Null, NEW r \in Slots
  PROVE  \E s \in Slots : ptr_[s] = r
<1>1. ptr_ \in [Slots -> Slots] BY DEF Types, TypeOK, Pointers
<1>2. IsFiniteSet(Slots) BY ThreadLocalAssumption, FS_Interval DEF Slots
<1> DEFINE image == {ptr_[s] : s \in Slots}
<1>3. ptr_ \in Bijection(Slots, image)
  BY <1>1, Z3 DEF Published, Bijection, Injection, Surjection, IsInjective
<1>4. Cardinality(image) = Cardinality(Slots)
  <2>1. ExistsBijection(Slots, image) BY <1>3, Z3 DEF ExistsBijection
  <2> HIDE DEF image
  <2> QED BY <1>2, <2>1, FS_Bijection
<1>5. image = Slots BY <1>1, <1>2, <1>4, FS_Subset
<1> QED BY <1>5

----------------------------------------------------------------------------
(* The steps that leave the table alone.                                   *)

Places == {"idle", "find", "full", "reserve", "probe", "publish", "spill", "overrun"}

\* A thread that moves on its own
LEMMA QuietKeeps ==
  ASSUME TInv, NEW t \in Threads, NEW l \in Places, pc' = [pc EXCEPT ![t] = l],
         UNCHANGED <<hash, table, inserted, got>>,
         idx' \in [Threads -> Nat], from' \in [Threads -> Nat],
         empty' \in [Threads -> Pointers], calls' \in [Threads -> 0 .. MaxCalls],
         \A u \in Threads \ {t} : idx'[u] = idx[u] /\ from'[u] = from[u] /\ empty'[u] = empty[u],
         Thread(t)'
  PROVE  TInv'
<1>0. Types /\ Reserved /\ Published /\ \A u \in Threads : Thread(u) BY DEF TInv
<1>1. UNCHANGED <<hash, ptr_, data_, filled_records_, per_thread_map_, inserted, got>>
  BY DEF table
<1>2. pc' \in [Threads -> Places] /\ \A u \in Threads \ {t} : pc'[u] = pc[u]
  BY <1>0 DEF Types, TypeOK, Places
<1>3. Types' BY <1>0, <1>1, <1>2 DEF Types, TypeOK, Places
<1>4. Reserved' /\ Published'
  <2>1. Reserved' BY <1>0, <1>1 DEF Reserved
  <2>2. Published' BY <1>0, <1>1 DEF Published
  <2> QED BY <2>1, <2>2
<1>5. ASSUME NEW u \in Threads, u # t PROVE Thread(u)'
  <2>1. UNCHANGED <<pc[u], idx[u], from[u], empty[u], inserted[u], got[u], hash[u]>>
    BY <1>1, <1>2, <1>5
  <2>2. Thread(u) BY <1>0
  <2>3. Walked(u)' BY <1>1, <2>1, <2>2 DEF Thread, Walked, Walking
  <2>4. Without(u)' BY <1>1, <2>1, <2>2 DEF Thread, Without
  <2>5. Publishing(u)' BY <1>1, <2>1, <2>2 DEF Thread, Publishing, Placing
  <2>6. Stale(u)' BY <1>1, <2>1, <2>2 DEF Thread, Stale, Placing
  <2>7. Having(u)' BY <1>1, <2>1, <2>2 DEF Thread, Having, Placing
  <2> QED BY <2>3, <2>4, <2>5, <2>6, <2>7 DEF Thread
<1> QED BY <1>3, <1>4, <1>5 DEF TInv

\* A call begins at the slot of the hash value.
LEMMA LocalKeeps ==
  ASSUME TInv, NEW t \in Threads, Local(t)
  PROVE  TInv'
<1>0. Types /\ Thread(t) BY DEF TInv
<1>1. PICK l \in {"spill", "find"} : pc' = [pc EXCEPT ![t] = l] /\ (l = "spill" <=> capacity_ = 0)
  BY DEF Local, Goto
<1>2. /\ pc[t] = "idle" /\ idx' = [idx EXCEPT ![t] = hash[t]]
      /\ calls' = [calls EXCEPT ![t] = calls[t] + 1] /\ calls[t] < MaxCalls
      /\ UNCHANGED <<hash, table, inserted, empty, from, got>>
  BY DEF Local
<1>3. UNCHANGED <<ptr_, filled_records_, per_thread_map_>> BY <1>2 DEF table
<1>4. /\ idx' \in [Threads -> Nat] /\ from' \in [Threads -> Nat]
      /\ empty' \in [Threads -> Pointers] /\ calls' \in [Threads -> 0 .. MaxCalls]
      /\ \A u \in Threads \ {t} : idx'[u] = idx[u]
      /\ idx'[t] = hash[t] /\ pc'[t] = l
  <2>1. /\ idx \in [Threads -> Nat] /\ from \in [Threads -> Nat] /\ empty \in [Threads -> Pointers]
        /\ calls \in [Threads -> 0 .. MaxCalls] /\ pc \in [Threads -> Places]
        /\ hash[t] \in Nat /\ MaxCalls \in Nat
    BY <1>0, ThreadLocalAssumption DEF Types, TypeOK, Places
  <2>2. calls' \in [Threads -> 0 .. MaxCalls]
    <3>1. calls[t] + 1 \in 0 .. MaxCalls BY <1>2, <2>1
    <3> QED BY <1>2, <2>1, <3>1
  <2>3. idx' \in [Threads -> Nat] /\ idx'[t] = hash[t] /\ \A u \in Threads \ {t} : idx'[u] = idx[u]
    BY <1>2, <2>1
  <2>4. pc'[t] = l BY <1>1, <2>1
  <2> QED BY <1>2, <2>1, <2>2, <2>3, <2>4
<1>5. filled_records_ \in Nat BY <1>0 DEF Types, TypeOK
<1>6. capacity_ > 0 => hash[t] \in Slots BY <1>0 DEF Types
<1>7. Walked(t)'
  <2>1. CASE l = "spill" BY <1>4, <2>1 DEF Walked, Walking
  <2>2. CASE l = "find"
    <3>1. capacity_ > 0 BY <1>1, <2>2, CapacityType
    <3>2. hash[t] \in Slots /\ Path(ptr_', hash[t], hash[t]) BY <1>6, <3>1, PathBegins
    <3> QED BY <1>2, <1>4, <3>1, <3>2 DEF Walked
  <2> QED BY <1>1, <2>1, <2>2
<1>8. Without(t)'
  <2>1. l = "spill" => filled_records_ >= capacity_ 
    <3>1. capacity_ = 0 => filled_records_ >= capacity_ BY <1>5, CapacityType
    <3> QED BY <1>1, <3>1
  <2> QED BY <1>0, <1>1, <1>2, <1>3, <1>4, <2>1 DEF Thread, Without
<1>9. Publishing(t)' /\ Stale(t)' BY <1>1, <1>4 DEF Publishing, Stale, Placing
<1>10. Having(t)'
  <2> SUFFICES ASSUME inserted[t] # Null PROVE Having(t)'
    BY <1>2 DEF Having
  <2>1. /\ got[t] = {Record(inserted[t])} /\ t \notin per_thread_map_
        /\ \E s \in Slots : ptr_[s] = inserted[t] /\ Path(ptr_, hash[t], s)
    BY <1>0, <1>2 DEF Thread, Having, Placing
  <2>2. capacity_ # 0 /\ capacity_ > 0
    <3>1. Slots # {} BY <2>1
    <3> QED BY <3>1, CapacityType DEF Slots
  <2>3. l = "find" BY <1>1, <2>2
  <2>4. \A s \in Slots : Dist(hash[t], hash[t]) <= Dist(hash[t], s)
    BY <1>6, <2>2, Around
  <2> QED BY <1>2, <1>3, <1>4, <2>1, <2>3, <2>4 DEF Having
<1>11. Thread(t)' BY <1>7, <1>8, <1>9, <1>10 DEF Thread
<1>12. l \in Places BY DEF Places
<1> QED BY <1>1, <1>2, <1>4, <1>11, <1>12, QuietKeeps

\* The walk finds the record of a thread that has one, and no other.
LEMMA FindKeeps ==
  ASSUME TInv, NEW t \in Threads, Find(t)
  PROVE  TInv'
<1>0. Types /\ Reserved /\ Published /\ Thread(t) BY DEF TInv
<1> DEFINE r == ptr_[idx[t]]
<1>1. /\ pc[t] = "find" /\ UNCHANGED <<hash, table, inserted, empty, from, calls>>
  BY DEF Find
<1>2. /\ capacity_ > 0 /\ idx[t] \in Slots /\ Path(ptr_, hash[t], idx[t]) /\ hash[t] \in Slots
      /\ r \in Slots \cup {Null}
  BY <1>0, <1>1 DEF Thread, Walked, Walking, Types, TypeOK, Pointers
<1>3. /\ idx \in [Threads -> Nat] /\ from \in [Threads -> Nat] /\ empty \in [Threads -> Pointers]
      /\ calls \in [Threads -> 0 .. MaxCalls] /\ pc \in [Threads -> Places]
      /\ got \in [Threads -> SUBSET Elements] /\ inserted \in [Threads -> Pointers]
  BY <1>0 DEF Types, TypeOK, Places
<1>4. UNCHANGED <<ptr_, data_, filled_records_, per_thread_map_>> BY <1>1 DEF table
<1>5. inserted[t] # Null =>
        /\ got[t] = {Record(inserted[t])} /\ t \notin per_thread_map_
        /\ \E s \in Slots : /\ ptr_[s] = inserted[t] /\ Path(ptr_, hash[t], s)
                            /\ Dist(hash[t], idx[t]) <= Dist(hash[t], s)
  BY <1>0, <1>1 DEF Thread, Having, Placing
<1>6. CASE r # Null /\ data_[r] = t
  <2>1. inserted[t] = r /\ inserted[t] # Null BY <1>0, <1>2, <1>6 DEF Reserved
  <2>2. pc' = [pc EXCEPT ![t] = "idle"] /\ UNCHANGED idx BY <1>6 DEF Find, Give, Goto
  <2>3. UNCHANGED got
    <3>1. got' = [got EXCEPT ![t] = got[t] \cup {Record(r)}] BY <1>6 DEF Find, Give
    <3>2. got[t] \cup {Record(r)} = got[t] BY <1>5, <2>1
    <3> QED BY <1>3, <3>1, <3>2
  <2>4. pc'[t] = "idle" BY <1>3, <2>2
  <2>5. Walked(t)' /\ Publishing(t)' /\ Stale(t)' BY <2>4 DEF Walked, Walking, Publishing, Stale, Placing
  <2>6. Without(t)' BY <1>1, <2>1 DEF Without
  <2>7. Having(t)' BY <1>1, <1>4, <1>5, <2>1, <2>3, <2>4 DEF Having
  <2>8. Thread(t)' BY <2>5, <2>6, <2>7 DEF Thread
  <2>9. "idle" \in Places BY DEF Places
  <2> QED BY <1>1, <1>3, <2>2, <2>3, <2>8, <2>9, QuietKeeps
<1>7. CASE ~(r # Null /\ data_[r] = t)
  <2>1. /\ pc' = [pc EXCEPT ![t] = IF r = Null \/ After(idx[t]) = hash[t] THEN "full" ELSE "find"]
        /\ idx' = [idx EXCEPT ![t] = IF r = Null THEN idx[t] ELSE After(idx[t])]
        /\ UNCHANGED got
    BY <1>7 DEF Find, Goto
  <2>2. PICK l \in {"full", "find"} :
          pc' = [pc EXCEPT ![t] = l] /\ (l = "full" <=> r = Null \/ After(idx[t]) = hash[t])
    BY <2>1
  <2>3. PICK i \in Slots :
          /\ idx' = [idx EXCEPT ![t] = i]
          /\ r = Null => i = idx[t]
          /\ r # Null => i = After(idx[t])
    BY <1>2, <2>1, Around
  <2>4. pc'[t] = l /\ idx'[t] = i /\ idx' \in [Threads -> Nat]
    BY <1>3, <2>2, <2>3, CapacityType DEF Slots
  <2>5. Path(ptr_, hash[t], i) BY <1>2, <2>3, PathOn
  <2>6. Walked(t)' BY <1>1, <1>2, <1>4, <2>4, <2>5 DEF Walked
  <2>7. Publishing(t)' /\ Stale(t)' BY <2>4 DEF Publishing, Stale, Placing
  <2>8. Without(t)' BY <1>0, <1>1, <1>4, <2>1, <2>4 DEF Thread, Without
  <2>9. Having(t)'
    <3> SUFFICES ASSUME inserted[t] # Null PROVE Having(t)' BY <1>1 DEF Having
    <3>1. PICK s \in Slots : /\ ptr_[s] = inserted[t] /\ Path(ptr_, hash[t], s)
                             /\ Dist(hash[t], idx[t]) <= Dist(hash[t], s)
      BY <1>5
    <3>2. s # idx[t]
      <4>1. inserted[t] \in Slots BY <1>3 DEF Pointers
      <4>2. data_[inserted[t]] = t BY <1>0, <4>1 DEF Reserved
      <4> QED BY <1>7, <3>1, <4>2
    <3>3. /\ Dist(hash[t], idx[t]) \in 0 .. capacity_ - 1 /\ Dist(hash[t], s) \in 0 .. capacity_ - 1
          /\ Dist(hash[t], idx[t]) # Dist(hash[t], s)
      BY <1>2, <3>2, Around
    <3>4. Dist(hash[t], idx[t]) < Dist(hash[t], s) BY <3>1, <3>3, CapacityType
    <3>5. r # Null BY <1>2, <3>1, <3>4 DEF Path
    <3>6. After(idx[t]) # hash[t]
      <4> SUFFICES ASSUME After(idx[t]) = hash[t] PROVE FALSE OBVIOUS
      <4>1. Dist(hash[t], idx[t]) = capacity_ - 1 BY <1>2, Around
      <4> QED BY <3>3, <3>4, <4>1, CapacityType
    <3>7. Dist(hash[t], i) = Dist(hash[t], idx[t]) + 1 BY <1>2, <2>3, <3>5, <3>6, Around
    <3>8. Dist(hash[t], i) <= Dist(hash[t], s) BY <3>3, <3>4, <3>7, CapacityType
    <3>9. l = "find" BY <2>2, <3>5, <3>6
    <3> QED BY <1>1, <1>4, <1>5, <2>1, <2>4, <3>1, <3>8, <3>9 DEF Having
  <2>10. Thread(t)' BY <2>6, <2>7, <2>8, <2>9 DEF Thread
  <2>11. l \in Places /\ \A u \in Threads \ {t} : idx'[u] = idx[u] BY <1>3, <2>3 DEF Places
  <2> QED BY <1>1, <1>3, <2>1, <2>2, <2>4, <2>10, <2>11, QuietKeeps
<1> QED BY <1>6, <1>7

\* The walk ended: the thread has no record.
LEMMA FullKeeps ==
  ASSUME TInv, NEW t \in Threads, Full(t)
  PROVE  TInv'
<1>0. Types /\ Thread(t) BY DEF TInv
<1>1. PICK l \in {"spill", "reserve"} :
        pc' = [pc EXCEPT ![t] = l] /\ (l = "spill" <=> filled_records_ >= capacity_)
  BY DEF Full, Goto
<1>2. pc[t] = "full" /\ UNCHANGED <<hash, table, idx, inserted, empty, from, got, calls>>
  BY DEF Full
<1>3. UNCHANGED <<ptr_, data_, filled_records_, per_thread_map_>> BY <1>2 DEF table
<1>4. /\ idx \in [Threads -> Nat] /\ from \in [Threads -> Nat] /\ empty \in [Threads -> Pointers]
      /\ calls \in [Threads -> 0 .. MaxCalls] /\ pc \in [Threads -> Places]
  BY <1>0 DEF Types, TypeOK, Places
<1>5. pc'[t] = l BY <1>1, <1>4
<1>6. inserted[t] = Null BY <1>0, <1>2 DEF Thread, Having, Placing
<1>7. Walked(t)' BY <1>0, <1>2, <1>3, <1>5 DEF Thread, Walked, Walking
<1>8. Without(t)' BY <1>0, <1>1, <1>2, <1>3, <1>5 DEF Thread, Without
<1>9. Publishing(t)' /\ Stale(t)' /\ Having(t)'
  BY <1>2, <1>5, <1>6 DEF Publishing, Stale, Having, Placing
<1>10. Thread(t)' BY <1>7, <1>8, <1>9 DEF Thread
<1>11. l \in Places BY DEF Places
<1> QED BY <1>1, <1>2, <1>4, <1>10, <1>11, QuietKeeps

\* A thread that probes has reserved a record and not published it: a slot is free.
LEMMA SlotIsFree ==
  ASSUME TInv, NEW t \in Threads, inserted[t] # Null, Placing(t)
  PROVE  \A s \in Slots : ptr_[s] # inserted[t]
<1>0. Types /\ Reserved /\ Published /\ Thread(t) BY DEF TInv
<1> SUFFICES ASSUME NEW s \in Slots, ptr_[s] = inserted[t] PROVE FALSE OBVIOUS
<1>1. inserted[t] \in Slots BY <1>0 DEF Types, TypeOK, Pointers
<1>2. PICK u \in Threads : inserted[u] = ptr_[s] /\ got[u] = {Record(ptr_[s])}
  BY <1>0 DEF Published
<1>3. data_[inserted[t]] = t /\ data_[inserted[t]] = u BY <1>0, <1>1, <1>2 DEF Reserved
<1>4. got[t] = {} BY <1>0 DEF Thread, Publishing
<1> QED BY <1>2, <1>3, <1>4

\* Probing: the next slot, which is free in the end.
LEMMA ProbeKeeps ==
  ASSUME TInv, NEW t \in Threads, Probe(t)
  PROVE  TInv'
<1>0. Types /\ Published /\ Thread(t) BY DEF TInv
<1>1. /\ pc[t] = "probe" /\ Placing(t)
      /\ UNCHANGED <<hash, table, inserted, empty, from, got, calls>>
  BY DEF Probe, Placing
<1>2. UNCHANGED <<ptr_, data_, filled_records_, per_thread_map_>> BY <1>1 DEF table
<1>3. /\ idx \in [Threads -> Nat] /\ from \in [Threads -> Nat] /\ empty \in [Threads -> Pointers]
      /\ calls \in [Threads -> 0 .. MaxCalls] /\ pc \in [Threads -> Places]
      /\ inserted[t] \in Pointers
  BY <1>0 DEF Types, TypeOK, Places
<1>4. inserted[t] # Null BY <1>0, <1>1 DEF Thread, Without
<1>5. /\ capacity_ > 0 /\ idx[t] \in Slots /\ Path(ptr_, hash[t], idx[t]) /\ hash[t] \in Slots
      /\ got[t] = {} /\ t \notin per_thread_map_
      /\ from[t] \in Slots /\ Path(ptr_, hash[t], from[t]) /\ Path(ptr_, from[t], idx[t])
  BY <1>0, <1>1, <1>4 DEF Thread, Walked, Walking, Publishing, Types
<1>6. PICK l \in {"probe", "publish"}, i \in Slots :
        /\ pc' = [pc EXCEPT ![t] = l] /\ idx' = [idx EXCEPT ![t] = i]
        /\ Path(ptr_, hash[t], i) /\ Path(ptr_, from[t], i)
        /\ l = "publish" => ptr_[i] = Null
  <2>1. CASE ptr_[idx[t]] = Null
    <3>1. pc' = [pc EXCEPT ![t] = "publish"] /\ UNCHANGED idx BY <2>1 DEF Probe, Goto
    <3>2. idx' = [idx EXCEPT ![t] = idx[t]] BY <1>3, <3>1
    <3> QED BY <1>5, <2>1, <3>1, <3>2
  <2>2. CASE ptr_[idx[t]] # Null
    <3>1. After(idx[t]) # from[t]
      <4> SUFFICES ASSUME After(idx[t]) = from[t] PROVE FALSE OBVIOUS
      <4>1. \A j \in Slots : ptr_[j] # Null BY <1>5, <2>2, PathOn
      <4>2. inserted[t] \in Slots BY <1>3, <1>4 DEF Pointers
      <4>3. \E s \in Slots : ptr_[s] = inserted[t] BY <1>0, <4>1, <4>2, AllPublished
      <4> QED BY <1>1, <1>4, <4>3, SlotIsFree
    <3>2. pc' = [pc EXCEPT ![t] = "probe"] /\ idx' = [idx EXCEPT ![t] = After(idx[t])]
      BY <2>2, <3>1 DEF Probe, Goto
    <3>3. /\ After(idx[t]) \in Slots /\ Path(ptr_, hash[t], After(idx[t]))
          /\ Path(ptr_, from[t], After(idx[t]))
      BY <1>5, <2>2, PathOn, Around
    <3> QED BY <3>2, <3>3
  <2> QED BY <2>1, <2>2
<1>7. pc'[t] = l /\ idx'[t] = i /\ idx' \in [Threads -> Nat]
  BY <1>3, <1>6, CapacityType DEF Slots
<1>8. Walked(t)' BY <1>1, <1>2, <1>5, <1>6, <1>7 DEF Walked
<1>9. Without(t)' /\ Having(t)' BY <1>1, <1>4, <1>7 DEF Without, Having, Placing
<1>10. Publishing(t)' BY <1>1, <1>2, <1>5, <1>6, <1>7 DEF Publishing
<1>11. Stale(t)'
  <2>1. empty[t] # Null => \E s \in Slots : ptr_[s] = empty[t] BY <1>0, <1>1 DEF Thread, Stale
  <2> QED BY <1>1, <1>2, <1>6, <1>7, <2>1 DEF Stale
<1>12. Thread(t)' BY <1>8, <1>9, <1>10, <1>11 DEF Thread
<1>13. l \in Places /\ \A u \in Threads \ {t} : idx'[u] = idx[u] BY <1>3, <1>6 DEF Places
<1> QED BY <1>1, <1>3, <1>6, <1>7, <1>12, <1>13, QuietKeeps

\* A failed exchange begins again, with what it found.
LEMMA PublishFailsKeeps ==
  ASSUME TInv, NEW t \in Threads, PublishFails(t)
  PROVE  TInv'
<1>0. Types /\ Thread(t) BY DEF TInv
<1>1. /\ pc[t] = "publish" /\ Placing(t) /\ pc' = [pc EXCEPT ![t] = "probe"]
      /\ empty' = [empty EXCEPT ![t] = ptr_[idx[t]]] /\ idx' = [idx EXCEPT ![t] = from[t]]
      /\ UNCHANGED <<hash, table, inserted, from, got, calls>>
  BY DEF PublishFails, Placing, Goto
<1>2. UNCHANGED <<ptr_, data_, filled_records_, per_thread_map_>> BY <1>1 DEF table
<1>3. /\ idx \in [Threads -> Nat] /\ from \in [Threads -> Nat] /\ empty \in [Threads -> Pointers]
      /\ calls \in [Threads -> 0 .. MaxCalls] /\ pc \in [Threads -> Places]
      /\ ptr_ \in [Slots -> Pointers]
  BY <1>0 DEF Types, TypeOK, Places
<1>4. inserted[t] # Null BY <1>0, <1>1 DEF Thread, Without
<1>5. /\ capacity_ > 0 /\ idx[t] \in Slots
      /\ got[t] = {} /\ t \notin per_thread_map_
      /\ from[t] \in Slots /\ Path(ptr_, hash[t], from[t]) /\ Path(ptr_, from[t], from[t])
  BY <1>0, <1>1, <1>4, PathBegins DEF Thread, Walked, Walking, Publishing
<1>6. /\ pc'[t] = "probe" /\ idx'[t] = from[t] /\ empty'[t] = ptr_[idx[t]]
      /\ idx' \in [Threads -> Nat] /\ empty' \in [Threads -> Pointers]
      /\ \A u \in Threads \ {t} : idx'[u] = idx[u] /\ empty'[u] = empty[u]
  BY <1>1, <1>3, <1>5
<1>7. Walked(t)' BY <1>1, <1>2, <1>5, <1>6 DEF Walked
<1>8. Without(t)' /\ Having(t)' BY <1>1, <1>4, <1>6 DEF Without, Having, Placing
<1>9. Publishing(t)' BY <1>1, <1>2, <1>5, <1>6 DEF Publishing
<1>10. Stale(t)' BY <1>2, <1>5, <1>6 DEF Stale
<1>11. Thread(t)' BY <1>7, <1>8, <1>9, <1>10 DEF Thread
<1>12. "probe" \in Places BY DEF Places
<1> QED BY <1>1, <1>3, <1>6, <1>11, <1>12, QuietKeeps

----------------------------------------------------------------------------
(* The steps that change the table or the map.                             *)

\* What a thread does to the table leaves the others where they are.
LEMMA OtherKeeps ==
  ASSUME TInv, NEW u \in Threads,
         UNCHANGED <<hash, pc[u], idx[u], from[u], empty[u], inserted[u], got[u]>>,
         filled_records_ \in Nat, filled_records_' \in Nat, filled_records_' >= filled_records_,
         \A j \in Slots : ptr_[j] # Null => ptr_'[j] = ptr_[j],
         u \in per_thread_map_' <=> u \in per_thread_map_
  PROVE  Thread(u)'
<1>1. Thread(u) BY DEF TInv
<1>2. \A a, i : Path(ptr_, a, i) => Path(ptr_', a, i) BY DEF Path
<1>3. filled_records_ >= capacity_ => filled_records_' >= capacity_ BY CapacityType
<1>4. Walked(u)' BY <1>1, <1>2 DEF Thread, Walked, Walking
<1>5. Without(u)' BY <1>1, <1>3 DEF Thread, Without
<1>6. Publishing(u)' BY <1>1, <1>2 DEF Thread, Publishing, Placing
<1>7. Stale(u)' BY <1>1 DEF Thread, Stale, Placing
<1>8. Having(u)'
  <2> SUFFICES ASSUME inserted[u] # Null, ~Placing(u) PROVE Having(u)'
    BY DEF Having, Placing
  <2>1. PICK s \in Slots : /\ ptr_[s] = inserted[u] /\ Path(ptr_, hash[u], s)
                           /\ pc[u] = "find" => Dist(hash[u], idx[u]) <= Dist(hash[u], s)
    BY <1>1 DEF Thread, Having
  <2>2. ptr_'[s] = inserted[u] /\ Path(ptr_', hash[u], s) BY <1>2, <2>1
  <2> QED BY <1>1, <2>1, <2>2 DEF Thread, Having
<1> QED BY <1>4, <1>5, <1>6, <1>7, <1>8 DEF Thread

\* A reservation takes the first record that is free, if there is one.
LEMMA ReserveKeeps ==
  ASSUME TInv, NEW t \in Threads, Reserve(t)
  PROVE  TInv'
<1>0. Types /\ Reserved /\ Published /\ Thread(t) BY DEF TInv
<1>1. /\ pc[t] = "reserve" /\ filled_records_' = filled_records_ + 1
      /\ UNCHANGED <<hash, ptr_, per_thread_map_, idx, got, calls>>
  BY DEF Reserve
<1>2. /\ filled_records_ \in Nat /\ filled_records_' \in Nat /\ filled_records_' >= filled_records_
      /\ ptr_ \in [Slots -> Pointers] /\ data_ \in [Slots -> Threads \cup {Null}]
      /\ pc \in [Threads -> Places] /\ idx \in [Threads -> Nat] /\ from \in [Threads -> Nat]
      /\ inserted \in [Threads -> Pointers] /\ empty \in [Threads -> Pointers]
  BY <1>0, <1>1 DEF Types, TypeOK, Places
<1>3. inserted[t] = Null BY <1>0, <1>1 DEF Thread, Having, Placing
<1>4. /\ capacity_ > 0 /\ idx[t] \in Slots /\ Path(ptr_, hash[t], idx[t])
      /\ got[t] = {} /\ t \notin per_thread_map_
  BY <1>0, <1>1, <1>3 DEF Thread, Walked, Walking, Without
<1>5. CASE filled_records_ >= capacity_
  <2>1. pc' = [pc EXCEPT ![t] = "spill"] /\ UNCHANGED <<data_, inserted, empty, from>>
    BY <1>5 DEF Reserve, Goto
  <2>2. /\ pc' \in [Threads -> Places] /\ pc'[t] = "spill"
        /\ \A u \in Threads \ {t} : pc'[u] = pc[u]
    BY <1>2, <2>1 DEF Places
  <2>3. Types' BY <1>0, <1>1, <1>2, <2>1, <2>2 DEF Types, TypeOK, Places
  <2>4. Reserved'
    <3>1. \A r \in Slots : r < filled_records_ /\ r < filled_records_'
      BY <1>1, <1>2, <1>5, CapacityType DEF Slots
    <3>2. \A r \in Slots : ~(r >= filled_records_) /\ ~(r >= filled_records_')
      BY <1>2, <3>1 DEF Slots
    <3> QED BY <1>0, <2>1, <3>2 DEF Reserved
  <2>5. Published' BY <1>0, <1>1, <2>1 DEF Published
  <2>6. Thread(t)'
    <3>1. filled_records_' >= capacity_ BY <1>1, <1>2, <1>5, CapacityType
    <3>2. Walked(t)' /\ Publishing(t)' /\ Stale(t)' BY <2>2 DEF Walked, Walking, Publishing, Stale, Placing
    <3>3. Without(t)' BY <1>1, <1>4, <2>2, <3>1 DEF Without
    <3>4. Having(t)' BY <1>3, <2>1 DEF Having
    <3> QED BY <3>2, <3>3, <3>4 DEF Thread
  <2>7. ASSUME NEW u \in Threads \ {t} PROVE Thread(u)'
    BY <1>1, <1>2, <2>1, <2>2, OtherKeeps
  <2> QED BY <2>3, <2>4, <2>5, <2>6, <2>7 DEF TInv
<1>6. CASE ~(filled_records_ >= capacity_)
  <2>1. /\ data_' = [data_ EXCEPT ![filled_records_] = t]
        /\ inserted' = [inserted EXCEPT ![t] = filled_records_]
        /\ empty' = [empty EXCEPT ![t] = Null] /\ from' = [from EXCEPT ![t] = idx[t]]
        /\ pc' = [pc EXCEPT ![t] = "probe"]
    BY <1>6 DEF Reserve, Goto
  <2>2. filled_records_ \in Slots BY <1>2, <1>6, CapacityType DEF Slots
  <2>3. t # Null /\ filled_records_ # Null BY <2>2, ThreadLocalAssumption DEF Slots
  <2>4. /\ pc' \in [Threads -> Places] /\ pc'[t] = "probe"
        /\ \A u \in Threads \ {t} : pc'[u] = pc[u]
    BY <1>2, <2>1 DEF Places
  <2>5. /\ inserted' \in [Threads -> Pointers] /\ inserted'[t] = filled_records_
        /\ \A u \in Threads \ {t} : inserted'[u] = inserted[u]
    BY <1>2, <2>1, <2>2 DEF Pointers
  <2>6. /\ empty' \in [Threads -> Pointers] /\ empty'[t] = Null
        /\ \A u \in Threads \ {t} : empty'[u] = empty[u]
    BY <1>2, <2>1 DEF Pointers
  <2>7. /\ from' \in [Threads -> Nat] /\ from'[t] = idx[t]
        /\ \A u \in Threads \ {t} : from'[u] = from[u]
    BY <1>2, <2>1
  <2>8. /\ data_' \in [Slots -> Threads \cup {Null}] /\ data_'[filled_records_] = t
        /\ \A r \in Slots \ {filled_records_} : data_'[r] = data_[r]
    BY <1>2, <2>1, <2>2
  <2>9. Types' BY <1>0, <1>1, <1>2, <2>4, <2>5, <2>6, <2>7, <2>8 DEF Types, TypeOK, Places
  <2>10. Reserved'
    <3>1. \A r \in Slots : data_'[r] = Null <=> r >= filled_records_'
      <4>1. \A r \in Slots \ {filled_records_} : r >= filled_records_ <=> r >= filled_records_ + 1
        BY <1>2 DEF Slots
      <4>2. ~(filled_records_ >= filled_records_ + 1) BY <1>2
      <4> QED BY <1>0, <1>1, <2>3, <2>8, <4>1, <4>2 DEF Reserved
    <3>2. data_[filled_records_] = Null
      <4>1. filled_records_ >= filled_records_ BY <1>2
      <4> QED BY <1>0, <2>2, <4>1 DEF Reserved
    <3>3. ASSUME NEW u \in Threads, NEW r \in Slots PROVE data_'[r] = u <=> inserted'[u] = r
      <4>1. u # Null /\ r # Null BY ThreadLocalAssumption DEF Slots
      <4>2. data_[r] = u <=> inserted[u] = r BY <1>0 DEF Reserved
      <4>3. CASE u = t BY <1>3, <2>5, <2>8, <4>1, <4>2, <4>3
      <4>4. CASE u # t BY <2>3, <2>5, <2>8, <3>2, <4>1, <4>2, <4>4
      <4> QED BY <4>3, <4>4
    <3> QED BY <3>1, <3>3 DEF Reserved
  <2>11. Published'
    <3>1. ASSUME NEW i \in Slots, ptr_[i] # Null
          PROVE  \E u \in Threads : inserted'[u] = ptr_[i] /\ got[u] = {Record(ptr_[i])}
      <4>1. PICK u \in Threads : inserted[u] = ptr_[i] /\ got[u] = {Record(ptr_[i])}
        BY <1>0, <3>1 DEF Published
      <4> QED BY <1>3, <2>5, <3>1, <4>1
    <3> QED BY <1>0, <1>1, <3>1 DEF Published
  <2>12. Thread(t)'
    <3>1. Walked(t)' BY <1>1, <1>4 DEF Walked
    <3>2. Without(t)' /\ Having(t)' BY <2>3, <2>4, <2>5 DEF Without, Having, Placing
    <3>3. Publishing(t)'
      <4>1. Path(ptr_, idx[t], idx[t]) BY <1>4, PathBegins
      <4> QED BY <1>1, <1>4, <2>7, <4>1 DEF Publishing
    <3>4. Stale(t)' BY <2>6 DEF Stale
    <3> QED BY <3>1, <3>2, <3>3, <3>4 DEF Thread
  <2>13. ASSUME NEW u \in Threads \ {t} PROVE Thread(u)'
    BY <1>1, <1>2, <2>4, <2>5, <2>6, <2>7, OtherKeeps
  <2> QED BY <2>9, <2>10, <2>11, <2>12, <2>13 DEF TInv
<1> QED BY <1>5, <1>6

\* The exchange puts the record into a slot that is free, which is on the walk of the thread.
LEMMA PublishKeeps ==
  ASSUME TInv, NEW t \in Threads, Publish(t)
  PROVE  TInv'
<1>0. Types /\ Reserved /\ Published /\ Thread(t) BY DEF TInv
<1>1. /\ pc[t] = "publish" /\ Placing(t) /\ ptr_[idx[t]] = empty[t]
      /\ ptr_' = [ptr_ EXCEPT ![idx[t]] = inserted[t]]
      /\ got' = [got EXCEPT ![t] = got[t] \cup {Record(inserted[t])}]
      /\ pc' = [pc EXCEPT ![t] = "idle"]
      /\ UNCHANGED <<hash, data_, filled_records_, per_thread_map_, idx, inserted, empty, from, calls>>
  BY DEF Publish, Give, Goto, Placing
<1>2. /\ filled_records_ \in Nat /\ filled_records_ >= filled_records_
      /\ ptr_ \in [Slots -> Pointers] /\ pc \in [Threads -> Places]
      /\ inserted \in [Threads -> Pointers] /\ got \in [Threads -> SUBSET Elements]
  BY <1>0 DEF Types, TypeOK, Places
<1>3. inserted[t] # Null BY <1>0, <1>1 DEF Thread, Without
<1>4. /\ idx[t] \in Slots /\ Path(ptr_, hash[t], idx[t])
      /\ got[t] = {} /\ t \notin per_thread_map_ /\ inserted[t] \in Slots
  BY <1>0, <1>1, <1>2, <1>3 DEF Thread, Walked, Walking, Publishing, Pointers
<1>5. ptr_[idx[t]] = Null
  <2> SUFFICES ASSUME empty[t] # Null PROVE FALSE BY <1>1
  <2>1. PICK s \in Slots : ptr_[s] = empty[t] /\ s # idx[t] BY <1>0, <1>1 DEF Thread, Stale
  <2> QED BY <1>0, <1>1, <1>4, <2>1 DEF Published
<1>6. \A s \in Slots : ptr_[s] # inserted[t] BY <1>1, <1>3, SlotIsFree
<1>7. /\ ptr_' \in [Slots -> Pointers] /\ ptr_'[idx[t]] = inserted[t]
      /\ \A s \in Slots : s # idx[t] => ptr_'[s] = ptr_[s]
      /\ \A s \in Slots : ptr_[s] # Null => ptr_'[s] = ptr_[s]
  BY <1>1, <1>2, <1>4, <1>5
<1>8. /\ pc' \in [Threads -> Places] /\ pc'[t] = "idle"
      /\ \A u \in Threads \ {t} : pc'[u] = pc[u]
  BY <1>1, <1>2 DEF Places
<1>9. /\ got' \in [Threads -> SUBSET Elements] /\ got'[t] = {Record(inserted[t])}
      /\ \A u \in Threads \ {t} : got'[u] = got[u]
  <2>1. Record(inserted[t]) \in Elements BY <1>4 DEF Elements
  <2>2. got' = [got EXCEPT ![t] = {Record(inserted[t])}] BY <1>1, <1>4
  <2> QED BY <1>2, <2>1, <2>2
<1>10. Types' BY <1>0, <1>1, <1>7, <1>8, <1>9 DEF Types, TypeOK, Places
<1>11. Reserved' BY <1>0, <1>1 DEF Reserved
<1>12. Published'
  <2>1. ASSUME NEW i \in Slots, NEW j \in Slots, ptr_'[i] # Null, ptr_'[i] = ptr_'[j] PROVE i = j
    BY <1>0, <1>6, <1>7, <2>1 DEF Published
  <2>2. ASSUME NEW i \in Slots, ptr_'[i] # Null
        PROVE  \E u \in Threads : inserted[u] = ptr_'[i] /\ got'[u] = {Record(ptr_'[i])}
    <3>1. CASE i = idx[t] BY <1>7, <1>9, <3>1
    <3>2. CASE i # idx[t]
      <4>1. ptr_'[i] = ptr_[i] /\ ptr_[i] # Null BY <1>7, <2>2, <3>2
      <4>2. PICK u \in Threads : inserted[u] = ptr_[i] /\ got[u] = {Record(ptr_[i])}
        BY <1>0, <4>1 DEF Published
      <4>3. u # t BY <1>6, <4>2
      <4> QED BY <1>9, <4>1, <4>2, <4>3
    <3> QED BY <3>1, <3>2
  <2> QED BY <1>1, <2>1, <2>2 DEF Published
<1>13. Thread(t)'
  <2>1. Walked(t)' /\ Publishing(t)' /\ Stale(t)'
    BY <1>8 DEF Walked, Walking, Publishing, Stale, Placing
  <2>2. Without(t)' BY <1>1, <1>3 DEF Without
  <2>3. Path(ptr_', hash[t], idx[t]) BY <1>4, <1>7, PathKeeps
  <2>4. Having(t)' BY <1>1, <1>4, <1>7, <1>8, <1>9, <2>3 DEF Having
  <2> QED BY <2>1, <2>2, <2>4 DEF Thread
<1>14. ASSUME NEW u \in Threads \ {t} PROVE Thread(u)'
  BY <1>1, <1>2, <1>7, <1>8, <1>9, OtherKeeps
<1> QED BY <1>10, <1>11, <1>12, <1>13, <1>14 DEF TInv

\* The map gives a thread the same element every time.
LEMMA SpilledKeeps ==
  ASSUME TInv, NEW t \in Threads, SpilledLocal(t)
  PROVE  TInv'
<1>0. Types /\ Reserved /\ Published /\ Thread(t) BY DEF TInv
<1>1. /\ pc[t] = "spill" /\ per_thread_map_' = per_thread_map_ \cup {t}
      /\ got' = [got EXCEPT ![t] = got[t] \cup {Spilled(t)}]
      /\ pc' = [pc EXCEPT ![t] = "idle"]
      /\ UNCHANGED <<hash, ptr_, data_, filled_records_, idx, inserted, empty, from, calls>>
  BY DEF SpilledLocal, Give, Goto
<1>2. /\ filled_records_ \in Nat /\ filled_records_ >= filled_records_
      /\ pc \in [Threads -> Places] /\ per_thread_map_ \subseteq Threads
      /\ got \in [Threads -> SUBSET Elements]
  BY <1>0 DEF Types, TypeOK, Places
<1>3. inserted[t] = Null BY <1>0, <1>1 DEF Thread, Having, Placing
<1>4. filled_records_ >= capacity_ /\ got[t] \in {{}, {Spilled(t)}}
  BY <1>0, <1>1, <1>3 DEF Thread, Without
<1>5. /\ pc' \in [Threads -> Places] /\ pc'[t] = "idle"
      /\ \A u \in Threads \ {t} : pc'[u] = pc[u]
  BY <1>1, <1>2 DEF Places
<1>6. /\ got' \in [Threads -> SUBSET Elements] /\ got'[t] = {Spilled(t)}
      /\ \A u \in Threads \ {t} : got'[u] = got[u]
  <2>1. Spilled(t) \in Elements BY DEF Elements
  <2>2. got' = [got EXCEPT ![t] = {Spilled(t)}] BY <1>1, <1>4
  <2> QED BY <1>2, <2>1, <2>2
<1>7. Types' BY <1>0, <1>1, <1>2, <1>5, <1>6 DEF Types, TypeOK, Places
<1>8. Reserved' BY <1>0, <1>1 DEF Reserved
<1>9. Published'
  <2>1. ASSUME NEW i \in Slots, ptr_[i] # Null
        PROVE  \E u \in Threads : inserted[u] = ptr_[i] /\ got'[u] = {Record(ptr_[i])}
    <3>1. PICK u \in Threads : inserted[u] = ptr_[i] /\ got[u] = {Record(ptr_[i])}
      BY <1>0, <2>1 DEF Published
    <3> QED BY <1>3, <1>6, <2>1, <3>1
  <2> QED BY <1>0, <1>1, <2>1 DEF Published
<1>10. Thread(t)'
  <2>1. Walked(t)' /\ Publishing(t)' /\ Stale(t)'
    BY <1>5 DEF Walked, Walking, Publishing, Stale, Placing
  <2>2. Without(t)' BY <1>1, <1>4, <1>5, <1>6 DEF Without
  <2>3. Having(t)' BY <1>1, <1>3 DEF Having
  <2> QED BY <2>1, <2>2, <2>3 DEF Thread
<1>11. ASSUME NEW u \in Threads \ {t} PROVE Thread(u)'
  <2>1. u \in per_thread_map_' <=> u \in per_thread_map_ BY <1>1, <1>11
  <2> QED BY <1>1, <1>2, <1>5, <1>6, <2>1, OtherKeeps
<1> QED BY <1>7, <1>8, <1>9, <1>10, <1>11 DEF TInv

----------------------------------------------------------------------------

\* At first the table is empty and nobody has asked for an element.
LEMMA TInitially == Init => TInv
<1> SUFFICES ASSUME Init PROVE TInv OBVIOUS
<1>1. /\ \A i \in Slots : ptr_[i] = Null /\ data_[i] = Null
      /\ filled_records_ = 0 /\ per_thread_map_ = {}
      /\ \A t \in Threads : pc[t] = "idle" /\ inserted[t] = Null /\ got[t] = {}
  BY DEF Init
<1>2. Types
  <2>1. hash \in [Threads -> Nat] /\ \A t \in Threads : capacity_ > 0 => hash[t] \in Slots
    <3>1. CASE capacity_ = 0
      <4>1. hash \in [Threads -> {0}] BY <3>1 DEF Init
      <4> QED BY <3>1, <4>1
    <3>2. CASE capacity_ # 0
      <4>1. hash \in [Threads -> Slots] /\ Slots \subseteq Nat BY <3>2, CapacityType DEF Init, Slots
      <4> QED BY <4>1
    <3> QED BY <3>1, <3>2
  <2>2. got \in [Threads -> SUBSET Elements] BY DEF Init
  <2>3. TypeOK
    <3>1. 0 \in 0 .. MaxCalls BY ThreadLocalAssumption
    <3>2. Null \in Pointers BY DEF Pointers
    <3> QED BY <3>1, <3>2 DEF Init, TypeOK
  <2> QED BY <2>1, <2>2, <2>3 DEF Types
<1>3. Reserved
  <2>1. \A r \in Slots : r >= 0 BY DEF Slots
  <2>2. \A t \in Threads : t # Null BY ThreadLocalAssumption
  <2>3. \A r \in Slots : r # Null BY ThreadLocalAssumption DEF Slots
  <2> QED BY <1>1, <2>1, <2>2, <2>3 DEF Reserved
<1>4. Published BY <1>1 DEF Published
<1>5. \A t \in Threads : Thread(t)
  BY <1>1 DEF Thread, Walked, Walking, Without, Publishing, Stale, Having, Placing
<1> QED BY <1>2, <1>3, <1>4, <1>5 DEF TInv

\* When all have finished nothing changes.
LEMMA TStutter == TInv /\ UNCHANGED vars => TInv'
<1> SUFFICES ASSUME TInv, UNCHANGED vars PROVE TInv' OBVIOUS
<1>0. Types /\ Reserved /\ Published BY DEF TInv
<1>1. UNCHANGED <<hash, ptr_, data_, filled_records_, per_thread_map_, pc, idx, inserted, empty,
                  from, got, calls>>
  BY DEF vars, table
<1>2. Types' BY <1>0, <1>1 DEF Types, TypeOK
<1>3. Reserved' BY <1>0, <1>1 DEF Reserved
<1>4. Published' BY <1>0, <1>1 DEF Published
<1>5. filled_records_ \in Nat /\ filled_records_ >= filled_records_ BY <1>0 DEF Types, TypeOK
<1>6. ASSUME NEW u \in Threads PROVE Thread(u)' BY <1>1, <1>5, OtherKeeps
<1> QED BY <1>2, <1>3, <1>4, <1>6 DEF TInv

\* Every step keeps the invariant.
LEMMA TInductive == TInv /\ [Next]_vars => TInv'
<1> SUFFICES ASSUME TInv, [Next]_vars PROVE TInv' OBVIOUS
<1>1. ASSUME NEW t \in Threads, Step(t) PROVE TInv'
  BY <1>1, LocalKeeps, FindKeeps, FullKeeps, ReserveKeeps, ProbeKeeps, PublishKeeps, SpilledKeeps
     DEF Step
<1>2. ASSUME NEW t \in Threads, PublishFails(t) PROVE TInv' BY <1>2, PublishFailsKeeps
<1>3. CASE UNCHANGED vars BY <1>3, TStutter
<1> QED BY <1>1, <1>2, <1>3 DEF Next

\* So it always holds.
LEMMA TInvariant == Spec => []TInv
BY TInitially, TInductive, PTL DEF Spec

----------------------------------------------------------------------------

\* Every variable keeps its type; the records are never overrun by a late reservation.
THEOREM TypeCorrect == Spec => []TypeOK
<1>1. TInv => TypeOK BY DEF TInv, Types
<1> QED BY <1>1, TInvariant, PTL

\* What a thread was given: nothing, its record, or its element of the map.
LEMMA GotOne ==
  ASSUME TInv, NEW t \in Threads
  PROVE  /\ inserted[t] = Null => got[t] \in {{}, {Spilled(t)}}
         /\ inserted[t] # Null => inserted[t] \in Slots /\ got[t] \in {{}, {Record(inserted[t])}}
<1>1. inserted[t] # Null => inserted[t] \in Slots BY DEF TInv, Types, TypeOK, Pointers
<1>2. Without(t) /\ Publishing(t) /\ Having(t) BY DEF TInv, Thread
<1> QED BY <1>1, <1>2 DEF Without, Publishing, Having

\* A thread has one element for life, in the table or in the map, and shares it with nobody,
\* although another call may find the table full that was not, or lose the exchange
\* (local(), ThreadLocal.h:132).
THEOREM OneElement == Spec => []OneEach
<1>1. TInv => OneEach
  <2> SUFFICES ASSUME TInv PROVE OneEach OBVIOUS
  <2>1. ASSUME NEW t \in Threads PROVE Cardinality(got[t]) <= 1
    <3>1. PICK e : got[t] \in {{}, {e}} BY GotOne
    <3>2. Cardinality({}) = 0 /\ Cardinality({e}) = 1 BY FS_EmptySet, FS_Singleton
    <3>3. Cardinality(got[t]) = 0 \/ Cardinality(got[t]) = 1 BY <3>1, <3>2
    <3> QED BY <3>3
  <2>2. ASSUME NEW s \in Threads, NEW t \in Threads, s # t PROVE got[s] \cap got[t] = {}
    <3>1. ASSUME inserted[s] # Null, inserted[s] = inserted[t] PROVE FALSE
      <4>1. inserted[s] \in Slots BY <3>1, GotOne
      <4>2. data_[inserted[s]] = s /\ data_[inserted[s]] = t BY <3>1, <4>1 DEF TInv, Reserved
      <4> QED BY <2>2, <4>2
    <3> QED BY <2>2, <3>1, GotOne DEF Record, Spilled
  <2> QED BY <2>1, <2>2 DEF OneEach
<1> QED BY <1>1, TInvariant, PTL

\* The assertion in the probing loop holds: a thread that reserved a record finds a free slot
\* before it is round, for the pointers are distinct and none is to its record
\* (local(), ThreadLocal.h:195).
THEOREM NeverOverrun == Spec => []RoomLeft
<1>1. TInv => RoomLeft
  <2> SUFFICES ASSUME TInv, NEW t \in Threads PROVE pc[t] # "overrun" BY DEF RoomLeft
  <2>1. Without(t) /\ Having(t) BY DEF TInv, Thread
  <2> QED BY <2>1 DEF Without, Having, Placing
<1> QED BY <1>1, TInvariant, PTL

\* ForEach and the destructor, with nobody in local(), see every element that was given and
\* no other, though they skip the map when the table is not full (ThreadLocal.h:205).
THEOREM ForEachVisitsAll == Spec => []AllVisited
<1>1. TInv => AllVisited
  <2> SUFFICES ASSUME TInv, \A t \in Threads : pc[t] = "idle"
               PROVE  Visited = UNION {got[t] : t \in Threads}
    BY DEF AllVisited
  <2>1. ASSUME NEW t \in Threads
        PROVE  /\ inserted[t] = Null =>
                    \/ got[t] = {} /\ t \notin per_thread_map_
                    \/ /\ got[t] = {Spilled(t)} /\ t \in per_thread_map_
                       /\ filled_records_ >= capacity_
               /\ inserted[t] # Null =>
                    /\ got[t] = {Record(inserted[t])} /\ t \notin per_thread_map_
                    /\ \E s \in Slots : ptr_[s] = inserted[t]
    BY DEF TInv, Thread, Without, Having, Placing
  <2>2. /\ filled_records_ \in Nat /\ per_thread_map_ \subseteq Threads
        /\ (filled_records_ >= capacity_ <=> ~(filled_records_ < capacity_))
    BY CapacityType DEF TInv, Types, TypeOK
  <2>3. ASSUME NEW e \in Visited PROVE \E t \in Threads : e \in got[t]
    <3>1. CASE \E i \in Slots : ptr_[i] # Null /\ e = Record(ptr_[i])
      BY <3>1 DEF TInv, Published
    <3>2. CASE \E t \in per_thread_map_ : e = Spilled(t) BY <2>1, <2>2, <3>2
    <3> QED BY <2>2, <2>3, <3>1, <3>2 DEF Visited
  <2>4. ASSUME NEW t \in Threads, NEW e \in got[t] PROVE e \in Visited
    <3>1. CASE inserted[t] = Null
      <4>1. e = Spilled(t) /\ t \in per_thread_map_ /\ ~(filled_records_ < capacity_)
        BY <2>1, <2>2, <2>4, <3>1
      <4> QED BY <4>1 DEF Visited
    <3>2. CASE inserted[t] # Null
      <4>1. e = Record(inserted[t]) BY <2>1, <2>4, <3>2
      <4>2. PICK s \in Slots : ptr_[s] = inserted[t] BY <2>1, <3>2
      <4> QED BY <3>2, <4>1, <4>2 DEF Visited
    <3> QED BY <3>1, <3>2
  <2> QED BY <2>3, <2>4
<1> QED BY <1>1, TInvariant, PTL

=============================================================================

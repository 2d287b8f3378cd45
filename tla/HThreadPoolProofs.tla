------------------------- MODULE HThreadPoolProofs -------------------------
(***************************************************************************)
(* The two counters of HThreadPool, the bound on its threads and what      *)
(* wait() promises, for any number of committing threads and tasks and any *)
(* minimum and maximum.                                                    *)
(***************************************************************************)
EXTENDS HThreadPool, FiniteSetTheorems, TLAPS

----------------------------------------------------------------------------
(* The inductive invariant.                                                *)

WorkerPlaces ==
  {"none", "loop", "lock", "delete", "pop", "run", "deleted", "retired", "ended"}
CreatingPlaces == {"start", "create", "add", "added"}

HTypes ==
  /\ min_thread_num \in Nat /\ max_thread_num \in Nat \ {0}
  /\ status \in {"STOP", "RUNNING", "PAUSE"}
  /\ cur_thread_num \in Int /\ idle_thread_num \in Int
  /\ pc \in [Threads -> WorkerPlaces]
  /\ threads \in [Threads -> {"absent", "RUNNING", "STOP"}]
  /\ cpc \in [Creators -> CreatingPlaces \cup
                {"idle", "need", "push", "join", "empty?", "counters?", "all?", "idle?", "waited"}]
  /\ \A c \in Committers : cpc[c] \notin {"join", "empty?", "counters?", "all?", "idle?", "waited"}
  /\ cpc[Owner] \notin {"need", "push"}
  /\ next \in [Creators -> {"idle", "need", "push"}] /\ next[Owner] = "idle"
  /\ left \in [Creators -> Int] /\ new \in [Creators -> Threads \cup {0}]

\* The owner starts and stops the pool while nobody commits.
Alone ==
  cpc[Owner] \in CreatingPlaces \cup {"join"} => \A c \in Committers : cpc[c] = "idle"

\* A pool that is stopped has no threads, and nobody is creating any.
Stopped ==
  status = "STOP" /\ cpc[Owner] # "join" =>
    Alive = {} /\ \A c \in Creators : cpc[c] \in {"idle", "start"}

\* A thread is in the list, or about to be.
Listed ==
  \A w \in Threads : pc[w] # "none" =>
    threads[w] # "absent" \/ \E c \in Creators : cpc[c] \in {"add", "added"} /\ new[c] = w

\* Those that are marked in the list have given up.
Marked == \A w \in Threads : threads[w] = "STOP" => pc[w] = "retired"

Counted ==
  /\ cur_thread_num = Cardinality(Alive) - Cardinality(Adding({"add"}))
                      - Cardinality(At({"deleted", "retired"}))
  /\ idle_thread_num = Cardinality(Alive) - Cardinality(Adding({"add", "added"}))
                       - Cardinality(At({"retired"}))
                       - Cardinality(At({"pop", "run"}))

HInv == HTypes /\ Alone /\ Stopped /\ Listed /\ Marked /\ Counted /\ ThreadBound

----------------------------------------------------------------------------
(* Counting.                                                               *)

\* A set that gains or loses a single point
LEMMA CountMove ==
  ASSUME NEW A, NEW B, NEW c, IsFiniteSet(A), A \ {c} = B \ {c}
  PROVE  /\ Cardinality(A) \in Nat
         /\ c \in A /\ c \in B => Cardinality(B) = Cardinality(A)
         /\ c \notin A /\ c \notin B => Cardinality(B) = Cardinality(A)
         /\ c \notin A /\ c \in B => Cardinality(B) = Cardinality(A) + 1
         /\ c \in A /\ c \notin B => Cardinality(B) = Cardinality(A) - 1
<1>1. IsFiniteSet(A \ {c}) /\ Cardinality(A \ {c}) \in Nat BY FS_Subset, FS_CardinalityType
<1>2. Cardinality((A \ {c}) \cup {c}) = Cardinality(A \ {c}) + 1 BY <1>1, FS_AddElement
<1>3. Cardinality(A) = IF c \in A THEN Cardinality(A \ {c}) + 1 ELSE Cardinality(A \ {c})
  <2>1. CASE c \in A
    <3>1. (A \ {c}) \cup {c} = A BY <2>1
    <3> QED BY <2>1, <3>1, <1>2
  <2>2. CASE c \notin A
    <3>1. A \ {c} = A BY <2>2
    <3> QED BY <2>2, <3>1
  <2> QED BY <2>1, <2>2
<1>4. Cardinality(B) = IF c \in B THEN Cardinality(A \ {c}) + 1 ELSE Cardinality(A \ {c})
  <2>1. CASE c \in B
    <3>1. (A \ {c}) \cup {c} = B BY <2>1
    <3> QED BY <2>1, <3>1, <1>2
  <2>2. CASE c \notin B
    <3>1. A \ {c} = B BY <2>2
    <3> QED BY <2>2, <3>1
  <2> QED BY <2>1, <2>2
<1> QED BY <1>1, <1>3, <1>4

\* What a worker contributes to the counts, before and after it moves
LEMMA WorkerMoves ==
  ASSUME HTypes, NEW w \in Threads, NEW p \in WorkerPlaces, pc' = [pc EXCEPT ![w] = p]
  PROVE  /\ pc' \in [Threads -> WorkerPlaces] /\ pc'[w] = p
         /\ \A v \in Threads : v # w => pc'[v] = pc[v]
         /\ Cardinality(Alive) \in Nat
         /\ Cardinality(Alive') = Cardinality(Alive)
              + (IF p # "none" THEN 1 ELSE 0) - (IF pc[w] # "none" THEN 1 ELSE 0)
         /\ \A P : /\ Cardinality(At(P)) \in Nat
                   /\ Cardinality(At(P)') = Cardinality(At(P))
                        + (IF p \in P THEN 1 ELSE 0) - (IF pc[w] \in P THEN 1 ELSE 0)
<1>1. /\ pc' \in [Threads -> WorkerPlaces] /\ pc'[w] = p
      /\ \A v \in Threads : v # w => pc'[v] = pc[v]
  BY DEF HTypes
<1>2. IsFiniteSet(Threads) BY HAssumption
<1>3. ASSUME NEW P
      PROVE  /\ Cardinality(At(P)) \in Nat
             /\ Cardinality(At(P)') = Cardinality(At(P))
                  + (IF p \in P THEN 1 ELSE 0) - (IF pc[w] \in P THEN 1 ELSE 0)
  <2>1. IsFiniteSet(At(P)) /\ At(P) \ {w} = At(P)' \ {w} BY <1>1, <1>2, FS_Subset DEF At
  <2>2. (w \in At(P) <=> pc[w] \in P) /\ (w \in At(P)' <=> p \in P) BY <1>1 DEF At
  <2>3. /\ Cardinality(At(P)) \in Nat
        /\ Cardinality(At(P)') = Cardinality(At(P))
             + (IF p \in P THEN 1 ELSE 0) - (IF pc[w] \in P THEN 1 ELSE 0)
    BY <2>1, <2>2, CountMove
  <2> QED BY <2>3
<1>4. /\ Cardinality(Alive) \in Nat
      /\ Cardinality(Alive') = Cardinality(Alive)
              + (IF p # "none" THEN 1 ELSE 0) - (IF pc[w] # "none" THEN 1 ELSE 0)
  <2>1. IsFiniteSet(Alive) /\ Alive \ {w} = Alive' \ {w} BY <1>1, <1>2, FS_Subset DEF Alive
  <2>2. (w \in Alive <=> pc[w] # "none") /\ (w \in Alive' <=> p # "none") BY <1>1 DEF Alive
  <2> QED BY <2>1, <2>2, CountMove
<1> QED BY <1>1, <1>3, <1>4

\* The same for a creator
LEMMA CreatorMoves ==
  ASSUME HTypes, NEW c \in Creators, NEW p, cpc' = [cpc EXCEPT ![c] = p]
  PROVE  /\ cpc'[c] = p /\ \A d \in Creators : d # c => cpc'[d] = cpc[d]
         /\ \A P : /\ Cardinality(Adding(P)) \in Nat
                   /\ Cardinality(Adding(P)') = Cardinality(Adding(P))
                        + (IF p \in P THEN 1 ELSE 0) - (IF cpc[c] \in P THEN 1 ELSE 0)
<1>1. cpc'[c] = p /\ \A d \in Creators : d # c => cpc'[d] = cpc[d] BY DEF HTypes
<1>2. IsFiniteSet(Creators) BY HAssumption, FS_AddElement DEF Creators
<1>3. ASSUME NEW P
      PROVE  /\ Cardinality(Adding(P)) \in Nat
             /\ Cardinality(Adding(P)') = Cardinality(Adding(P))
                  + (IF p \in P THEN 1 ELSE 0) - (IF cpc[c] \in P THEN 1 ELSE 0)
  <2>1. IsFiniteSet(Adding(P)) /\ Adding(P) \ {c} = Adding(P)' \ {c} BY <1>1, <1>2, FS_Subset DEF Adding
  <2>2. (c \in Adding(P) <=> cpc[c] \in P) /\ (c \in Adding(P)' <=> p \in P) BY <1>1 DEF Adding
  <2>3. /\ Cardinality(Adding(P)) \in Nat
        /\ Cardinality(Adding(P)') = Cardinality(Adding(P))
             + (IF p \in P THEN 1 ELSE 0) - (IF cpc[c] \in P THEN 1 ELSE 0)
    BY <2>1, <2>2, CountMove
  <2> QED BY <2>3
<1> QED BY <1>1, <1>3

\* The same as the counters need it: what a move adds to a count
GaveUp == {"deleted", "retired"}
Adds == {"add", "added"}
Runs == {"pop", "run"}

\* n becomes m as one thing that was among those counted, if pre, is, if post.
Recount(n, m, pre, post) ==
  /\ n \in Nat /\ m \in Nat
  /\ (pre /\ post) \/ (~pre /\ ~post) => m = n
  /\ ~pre /\ post => m = n + 1
  /\ pre /\ ~post => m = n - 1

\* What is counted of the workers when one of them moves
LEMMA WorkerCounts ==
  ASSUME HTypes, NEW w \in Threads, NEW p \in WorkerPlaces, pc' = [pc EXCEPT ![w] = p]
  PROVE  /\ Recount(Cardinality(Alive), Cardinality(Alive'), pc[w] # "none", p # "none")
         /\ Recount(Cardinality(At({"deleted", "retired"})), Cardinality(At({"deleted", "retired"})'),
                    pc[w] \in GaveUp, p \in GaveUp)
         /\ Recount(Cardinality(At({"retired"})), Cardinality(At({"retired"})'),
                    pc[w] = "retired", p = "retired")
         /\ Recount(Cardinality(At({"pop", "run"})), Cardinality(At({"pop", "run"})'),
                    pc[w] \in Runs, p \in Runs)
<1>1. Recount(Cardinality(Alive), Cardinality(Alive'), pc[w] # "none", p # "none")
  <2>1. IsFiniteSet(Alive) /\ IsFiniteSet(Alive') BY HAssumption, FS_Subset DEF Alive
  <2>2. Cardinality(Alive) \in Nat /\ Cardinality(Alive') \in Nat BY <2>1, FS_CardinalityType
  <2>3. Cardinality(Alive') = Cardinality(Alive)
                        + (IF p # "none" THEN 1 ELSE 0) - (IF pc[w] # "none" THEN 1 ELSE 0)
    BY WorkerMoves
  <2> QED BY <2>2, <2>3 DEF Recount
<1>2. ASSUME NEW P
      PROVE  Recount(Cardinality(At(P)), Cardinality(At(P)'), pc[w] \in P, p \in P)
  <2>1. IsFiniteSet(At(P)) /\ IsFiniteSet(At(P)') BY HAssumption, FS_Subset DEF At
  <2>2. Cardinality(At(P)) \in Nat /\ Cardinality(At(P)') \in Nat BY <2>1, FS_CardinalityType
  <2>3. Cardinality(At(P)') = Cardinality(At(P))
                        + (IF p \in P THEN 1 ELSE 0) - (IF pc[w] \in P THEN 1 ELSE 0)
    BY WorkerMoves
  <2> QED BY <2>2, <2>3 DEF Recount
<1>3. Recount(Cardinality(At(GaveUp)), Cardinality(At(GaveUp)'), pc[w] \in GaveUp, p \in GaveUp)
  BY <1>2
<1>4. Recount(Cardinality(At({"retired"})), Cardinality(At({"retired"})'),
              pc[w] \in {"retired"}, p \in {"retired"})
  BY <1>2
<1>5. Recount(Cardinality(At(Runs)), Cardinality(At(Runs)'), pc[w] \in Runs, p \in Runs)
  BY <1>2
<1> QED BY <1>1, <1>3, <1>4, <1>5 DEF GaveUp, Runs, Recount

\* What is counted of the creators when one of them moves
LEMMA CreatorCounts ==
  ASSUME HTypes, NEW c \in Creators, NEW q, cpc' = [cpc EXCEPT ![c] = q]
  PROVE  /\ Recount(Cardinality(Adding({"add"})), Cardinality(Adding({"add"})'),
                    cpc[c] = "add", q = "add")
         /\ Recount(Cardinality(Adding({"add", "added"})), Cardinality(Adding({"add", "added"})'),
                    cpc[c] \in Adds, q \in Adds)
<1>2. ASSUME NEW P
      PROVE  Recount(Cardinality(Adding(P)), Cardinality(Adding(P)'), cpc[c] \in P, q \in P)
  <2>0. IsFiniteSet(Creators) BY HAssumption, FS_AddElement DEF Creators
  <2>1. IsFiniteSet(Adding(P)) /\ IsFiniteSet(Adding(P)') BY <2>0, FS_Subset DEF Adding
  <2>2. Cardinality(Adding(P)) \in Nat /\ Cardinality(Adding(P)') \in Nat
    BY <2>1, FS_CardinalityType
  <2>3. Cardinality(Adding(P)') = Cardinality(Adding(P))
                        + (IF q \in P THEN 1 ELSE 0) - (IF cpc[c] \in P THEN 1 ELSE 0)
    BY CreatorMoves
  <2> QED BY <2>2, <2>3 DEF Recount
<1>3. Recount(Cardinality(Adding({"add"})), Cardinality(Adding({"add"})'),
              cpc[c] \in {"add"}, q \in {"add"})
  BY <1>2
<1>4. Recount(Cardinality(Adding(Adds)), Cardinality(Adding(Adds)'), cpc[c] \in Adds, q \in Adds)
  BY <1>2
<1> QED BY <1>3, <1>4 DEF Adds, Recount

\* There is always a number of creators at certain places.
LEMMA CreatorsCounted ==
  /\ \A P : IsFiniteSet(Adding(P)) /\ Cardinality(Adding(P)) \in Nat
  /\ Cardinality(Committers) \in Nat /\ Cardinality(Committers) > 0
<1>1. IsFiniteSet(Creators) BY HAssumption, FS_AddElement DEF Creators
<1>2. ASSUME NEW P PROVE IsFiniteSet(Adding(P)) /\ Cardinality(Adding(P)) \in Nat
  BY <1>1, FS_Subset, FS_CardinalityType DEF Adding
<1>3. Cardinality(Committers) \in Nat /\ Cardinality(Committers) # 0
  BY HAssumption, FS_CardinalityType, FS_EmptySet
<1> QED BY <1>2, <1>3

\* The workers are counted, too.
LEMMA WorkersCounted ==
  {Cardinality(Alive), Cardinality(At({"deleted", "retired"})), Cardinality(At({"retired"})),
   Cardinality(At({"pop", "run"}))} \subseteq Nat
BY HAssumption, FS_Subset, FS_CardinalityType DEF Alive, At

----------------------------------------------------------------------------
(* The steps of the workers.                                               *)

\* A worker that neither begins nor ends, nor marks itself in the list
LEMMA WorkerFrame ==
  ASSUME HInv, NEW w \in Threads, NEW p \in WorkerPlaces \ {"none", "retired"},
         pc' = [pc EXCEPT ![w] = p], pc[w] \notin {"none", "deleted", "retired"},
         UNCHANGED <<status, threads, creators, sizes>>,
         IF p = "deleted" THEN cur_thread_num' = cur_thread_num - 1 ELSE UNCHANGED cur_thread_num,
         /\ (pc[w] \in Runs) = (p \in Runs) => UNCHANGED idle_thread_num
         /\ pc[w] \in Runs /\ p \notin Runs => idle_thread_num' = idle_thread_num + 1
         /\ pc[w] \notin Runs /\ p \in Runs => idle_thread_num' = idle_thread_num - 1
  PROVE  HInv'
<1>0. HTypes /\ Alone /\ Stopped /\ Listed /\ Marked /\ Counted /\ ThreadBound BY DEF HInv
<1>1. /\ pc' \in [Threads -> WorkerPlaces] /\ pc'[w] = p
      /\ \A v \in Threads : v # w => pc'[v] = pc[v]
  BY <1>0, WorkerMoves
<1>2. UNCHANGED <<status, threads, cpc, next, left, new, min_thread_num, max_thread_num>>
  BY DEF creators, sizes
<1>3. HTypes'
  <2>1. cur_thread_num \in Int /\ idle_thread_num \in Int BY <1>0 DEF HTypes
  <2>2. cur_thread_num' \in Int BY <2>1
  <2>3. idle_thread_num' \in Int BY <2>1
  <2> QED BY <1>0, <1>1, <1>2, <2>2, <2>3 DEF HTypes
<1>4. Alone' BY <1>0, <1>2 DEF Alone
<1>5. Stopped' BY <1>0, <1>1, <1>2 DEF Stopped, Alive
<1>6. Listed' BY <1>0, <1>1, <1>2 DEF Listed
<1>7. Marked' BY <1>0, <1>1, <1>2 DEF Marked
<1>8. UNCHANGED <<Adding({"add"}), Adding({"add", "added"})>> BY <1>2 DEF Adding
<1>9. /\ {cur_thread_num, idle_thread_num, max_thread_num} \subseteq Int
      /\ {Cardinality(Adding({"add"})), Cardinality(Adding({"add", "added"})),
          Cardinality(Committers)} \subseteq Nat
  BY <1>0, CreatorsCounted DEF HTypes
<1>10. Counted'
  <2>1. /\ Recount(Cardinality(Alive), Cardinality(Alive'), pc[w] # "none", p # "none")
        /\ Recount(Cardinality(At({"deleted", "retired"})), Cardinality(At({"deleted", "retired"})'),
                   pc[w] \in GaveUp, p \in GaveUp)
        /\ Recount(Cardinality(At({"retired"})), Cardinality(At({"retired"})'),
                   pc[w] = "retired", p = "retired")
        /\ Recount(Cardinality(At({"pop", "run"})), Cardinality(At({"pop", "run"})'),
                   pc[w] \in Runs, p \in Runs)
    BY <1>0, WorkerCounts
  <2>2. cur_thread_num' = Cardinality(Alive') - Cardinality(Adding({"add"})')
                           - Cardinality(At({"deleted", "retired"})')
    BY <1>0, <1>8, <1>9, <2>1 DEF Counted, Recount, GaveUp
  <2>3. idle_thread_num' = Cardinality(Alive') - Cardinality(Adding({"add", "added"})')
                            - Cardinality(At({"retired"})') - Cardinality(At({"pop", "run"})')
    BY <1>0, <1>8, <1>9, <2>1 DEF Counted, Recount
  <2> QED BY <2>2, <2>3 DEF Counted
<1>11. ThreadBound' BY <1>0, <1>2, <1>8, <1>9 DEF ThreadBound
<1> QED BY <1>3, <1>4, <1>5, <1>6, <1>7, <1>10, <1>11 DEF HInv

\* The steps that take it from place to place
LEMMA WorkerKeeps ==
  ASSUME HInv, NEW w \in Threads,
         Loop(w) \/ Leave(w) \/ Timeout(w) \/ Take(w) \/ Pop(w) \/ Run(w) \/ DelThread(w)
  PROVE  HInv'
<1>1. CASE Loop(w)
  <2>1. PICK p \in {"ended", "lock"} : pc' = [pc EXCEPT ![w] = p] BY <1>1 DEF Loop, Go
  <2> QED BY <1>1, <2>1, WorkerFrame DEF Loop, counters, limits, sizes, WorkerPlaces, Runs
<1>2. CASE Leave(w)
  BY <1>2, WorkerFrame DEF Leave, Go, counters, limits, sizes, WorkerPlaces, Runs
<1>3. CASE Timeout(w)
  <2>1. PICK p \in {"delete", "loop"} : pc' = [pc EXCEPT ![w] = p] BY <1>3 DEF Timeout, Go
  <2> QED BY <1>3, <2>1, WorkerFrame DEF Timeout, counters, limits, sizes, WorkerPlaces, Runs
<1>4. CASE Take(w)
  BY <1>4, WorkerFrame DEF Take, Go, limits, sizes, WorkerPlaces, Runs
<1>5. CASE Pop(w)
  BY <1>5, WorkerFrame DEF Pop, Go, counters, limits, sizes, WorkerPlaces, Runs
<1>6. CASE Run(w)
  BY <1>6, WorkerFrame DEF Run, Go, limits, sizes, WorkerPlaces, Runs
<1>7. CASE DelThread(w)
  BY <1>7, WorkerFrame DEF DelThread, Go, limits, sizes, WorkerPlaces, Runs
<1> QED BY <1>1, <1>2, <1>3, <1>4, <1>5, <1>6, <1>7

\* A worker that is scanning the list is alive and not marked; those it erases are.
LEMMA ScanKeeps ==
  ASSUME HInv, NEW w \in Threads, Scan(w)
  PROVE  HInv'
<1>0. HTypes /\ Alone /\ Stopped /\ Listed /\ Marked /\ Counted /\ ThreadBound BY DEF HInv
<1>1. /\ pc[w] = "deleted" /\ idle_thread_num' = idle_thread_num - 1
      /\ UNCHANGED <<status, cur_thread_num, cpc, next, left, new, min_thread_num, max_thread_num>>
  BY DEF Scan, creators, sizes
<1>2. PICK old \in SUBSET {v \in Threads : threads[v] = "STOP"} :
        /\ threads' = [v \in Threads |->
                        IF v \in old THEN "absent"
                        ELSE IF v = w /\ threads[w] # "absent" THEN "STOP" ELSE threads[v]]
        /\ pc' = [v \in Threads |->
                   IF v = w THEN "retired" ELSE IF v \in old THEN "none" ELSE pc[v]]
  BY DEF Scan
<1>3. old \subseteq Threads /\ w \notin old /\ \A v \in old : pc[v] = "retired"
  BY <1>0, <1>1, <1>2 DEF Marked
<1>4. /\ \A v \in Threads : pc'[v] =
           IF v = w THEN "retired" ELSE IF v \in old THEN "none" ELSE pc[v]
      /\ \A v \in Threads : threads'[v] =
           IF v \in old THEN "absent"
           ELSE IF v = w /\ threads[w] # "absent" THEN "STOP" ELSE threads[v]
  BY <1>2
<1>5. HTypes'
  <2>1. pc' \in [Threads -> WorkerPlaces] BY <1>0, <1>2 DEF HTypes, WorkerPlaces
  <2>2. threads' \in [Threads -> {"absent", "RUNNING", "STOP"}] BY <1>0, <1>2 DEF HTypes
  <2>3. idle_thread_num' \in Int BY <1>0, <1>1 DEF HTypes
  <2> QED BY <1>0, <1>1, <2>1, <2>2, <2>3 DEF HTypes
<1>6. Alone' BY <1>0, <1>1 DEF Alone
<1>7. Stopped' BY <1>0, <1>1 DEF Stopped, Alive
<1>8. Listed' BY <1>0, <1>1, <1>3, <1>4 DEF Listed
<1>9. Marked' BY <1>0, <1>3, <1>4 DEF Marked
<1>10. UNCHANGED <<Adding({"add"}), Adding({"add", "added"})>> BY <1>1 DEF Adding
<1>11. Counted'
  <2>1. /\ IsFiniteSet(Threads) /\ IsFiniteSet(old) /\ IsFiniteSet(Alive)
        /\ IsFiniteSet(At({"deleted", "retired"})) /\ IsFiniteSet(At({"retired"}))
        /\ IsFiniteSet(At({"retired"}) \cup {w})
        /\ IsFiniteSet(At({"pop", "run"}))
    BY <1>3, HAssumption, FS_Subset, FS_AddElement DEF Alive, At
  <2>2. /\ Cardinality(old) \in Nat /\ Cardinality(Alive) \in Nat
        /\ Cardinality(At({"deleted", "retired"})) \in Nat /\ Cardinality(At({"retired"})) \in Nat
        /\ Cardinality(At({"pop", "run"})) \in Nat
    BY <2>1, FS_CardinalityType
  <2>3. /\ Alive' = Alive \ old /\ Alive \cap old = old
    BY <1>1, <1>3, <1>4 DEF Alive
  <2>4. /\ At({"deleted", "retired"})' = At({"deleted", "retired"}) \ old
        /\ At({"deleted", "retired"}) \cap old = old
    BY <1>1, <1>3, <1>4 DEF At
  <2>5. /\ At({"retired"})' = (At({"retired"}) \cup {w}) \ old
        /\ (At({"retired"}) \cup {w}) \cap old = old /\ w \notin At({"retired"})
    BY <1>1, <1>3, <1>4 DEF At
  <2>6. At({"pop", "run"})' = At({"pop", "run"}) BY <1>1, <1>3, <1>4 DEF At
  <2>7. Cardinality(Alive') = Cardinality(Alive) - Cardinality(old)
    <3>1. Cardinality(Alive \ old) = Cardinality(Alive) - Cardinality(Alive \cap old)
      BY <2>1, FS_Difference
    <3> QED BY <2>3, <3>1
  <2>8. Cardinality(At({"deleted", "retired"})')
          = Cardinality(At({"deleted", "retired"})) - Cardinality(old)
    BY <2>1, <2>4, FS_Difference
  <2>9. Cardinality(At({"retired"})') = Cardinality(At({"retired"}) \cup {w}) - Cardinality(old)
    BY <2>1, <2>5, FS_Difference
  <2>10. Cardinality(At({"retired"}) \cup {w}) = Cardinality(At({"retired"})) + 1
    BY <2>1, <2>5, FS_AddElement
  <2>11. /\ cur_thread_num \in Int /\ idle_thread_num \in Int
         /\ Cardinality(Adding({"add"})) \in Nat /\ Cardinality(Adding({"add", "added"})) \in Nat
    BY <1>0, CreatorsCounted DEF HTypes
  <2>12. cur_thread_num' = Cardinality(Alive') - Cardinality(Adding({"add"})')
                            - Cardinality(At({"deleted", "retired"})')
    BY <1>0, <1>1, <1>10, <2>2, <2>7, <2>8, <2>11 DEF Counted
  <2>13. idle_thread_num' = Cardinality(Alive') - Cardinality(Adding({"add", "added"})')
                             - Cardinality(At({"retired"})') - Cardinality(At({"pop", "run"})')
    BY <1>0, <1>1, <1>10, <2>2, <2>6, <2>7, <2>9, <2>10, <2>11 DEF Counted
  <2> QED BY <2>12, <2>13 DEF Counted
<1>12. ThreadBound' BY <1>0, <1>1, <1>10 DEF ThreadBound
<1> QED BY <1>5, <1>6, <1>7, <1>8, <1>9, <1>11, <1>12 DEF HInv

----------------------------------------------------------------------------
(* The steps of the creators: start(), createThread() and commit().        *)

CreatorPlaces ==
  CreatingPlaces \cup {"idle", "need", "push", "join", "empty?", "counters?", "all?", "idle?", "waited"}

\* A creator that is not in the middle of adding a thread, before nor after
LEMMA QuietFrame ==
  ASSUME HInv, NEW c \in Creators, NEW q \in CreatorPlaces,
         cpc' = [cpc EXCEPT ![c] = q], cpc[c] \notin Adds, q \notin Adds,
         UNCHANGED <<counters, pc, threads, new, sizes>>,
         status' \in {"STOP", "RUNNING", "PAUSE"},
         next' \in [Creators -> {"idle", "need", "push"}], next'[Owner] = "idle",
         left' \in [Creators -> Int],
         IF c = Owner THEN q \notin {"need", "push"}
                      ELSE q \notin {"join", "empty?", "counters?", "all?", "idle?", "waited"},
         Alone', Stopped'
  PROVE  HInv'
<1>0. HTypes /\ Alone /\ Stopped /\ Listed /\ Marked /\ Counted /\ ThreadBound BY DEF HInv
<1>1. /\ cpc' \in [Creators -> CreatorPlaces] /\ cpc'[c] = q
      /\ \A d \in Creators : d # c => cpc'[d] = cpc[d]
  BY <1>0 DEF HTypes, CreatorPlaces
<1>2. UNCHANGED <<cur_thread_num, idle_thread_num, pc, threads, new, min_thread_num, max_thread_num>>
  BY DEF counters, sizes
<1>3. HTypes'
  <2>1. \A d \in Committers : cpc'[d] \notin {"join", "empty?", "counters?", "all?", "idle?", "waited"}
    BY <1>0, <1>1, HAssumption DEF HTypes, Creators
  <2>2. cpc'[Owner] \notin {"need", "push"} BY <1>0, <1>1 DEF HTypes, Creators
  <2> QED BY <1>0, <1>1, <1>2, <2>1, <2>2 DEF HTypes, CreatorPlaces
<1>4. Listed' BY <1>0, <1>1, <1>2 DEF Listed, Adds
<1>5. Marked' BY <1>0, <1>2 DEF Marked
<1>6. UNCHANGED <<Adding({"add"}), Adding({"add", "added"})>> BY <1>1 DEF Adding, Adds
<1>7. /\ UNCHANGED Alive /\ UNCHANGED At({"deleted", "retired"})
      /\ UNCHANGED At({"retired"}) /\ UNCHANGED At({"pop", "run"})
  BY <1>2 DEF Alive, At
<1>8. Counted' BY <1>0, <1>2, <1>6, <1>7 DEF Counted
<1>9. ThreadBound' BY <1>0, <1>2, <1>6 DEF ThreadBound
<1> QED BY <1>3, <1>4, <1>5, <1>8, <1>9 DEF HInv

\* Where the creators may be: the owner does not push, and only it waits and joins.
LEMMA Places ==
  ASSUME HInv, NEW c \in Creators
  PROVE  /\ Owner \in Creators /\ Owner \notin Committers /\ (c = Owner \/ c \in Committers)
         /\ cpc[c] \in CreatorPlaces /\ next[c] \in {"idle", "need", "push"}
         /\ left[c] \in Int /\ min_thread_num \in Nat
         /\ IF c = Owner THEN cpc[c] \notin {"need", "push"} /\ next[c] = "idle"
                         ELSE cpc[c] \notin {"join", "empty?", "counters?", "all?", "idle?", "waited"}
BY HAssumption DEF HInv, HTypes, Creators, CreatorPlaces

\* While a thread is created, or pushed for, the pool is not stopped and nobody joins.
LEMMA Active ==
  ASSUME HInv, NEW c \in Creators, cpc[c] \in {"create", "add", "added", "need", "push"}
  PROVE  /\ cpc[Owner] # "join" /\ status # "STOP"
         /\ c # Owner => cpc[Owner] \notin CreatingPlaces
         /\ c = Owner => \A d \in Committers : cpc[d] = "idle"
<1>1. (c = Owner \/ c \in Committers) /\ (c = Owner => cpc[c] \notin {"need", "push"})
  BY Places
<1>2. cpc[Owner] # "join" BY <1>1 DEF HInv, Alone
<1> QED BY <1>1, <1>2 DEF HInv, Alone, Stopped, CreatingPlaces

\* start() marks the pool as running.
LEMMA SetRunningKeeps ==
  ASSUME HInv, NEW c \in Creators, SetRunning(c)
  PROVE  HInv'
<1>1. PICK q \in {next[c], "create"} : cpc' = [cpc EXCEPT ![c] = q]
  BY DEF SetRunning, Onward, Go
<1>2. /\ q \in CreatorPlaces /\ q \notin Adds /\ q # "start"
      /\ IF c = Owner THEN q \notin {"need", "push"}
                      ELSE q \notin {"join", "empty?", "counters?", "all?", "idle?", "waited"}
  BY <1>1, Places DEF CreatorPlaces, CreatingPlaces, Adds
<1>3. /\ cpc[c] = "start" /\ status' = "RUNNING" /\ left' = [left EXCEPT ![c] = min_thread_num]
      /\ UNCHANGED <<counters, pc, threads, new, sizes, next>>
  BY DEF SetRunning, Go, workers, limits
<1>4. left' \in [Creators -> Int] /\ next' \in [Creators -> {"idle", "need", "push"}]
      /\ next'[Owner] = "idle"
  BY <1>3, Places DEF HInv, HTypes
<1>5. cpc'[c] = q /\ \A d \in Creators : d # c => cpc'[d] = cpc[d]
  BY <1>1 DEF HInv, HTypes
<1>6. Alone'
  <2>1. CASE c = Owner
    BY <1>3, <1>5, <2>1, HAssumption DEF HInv, Alone, CreatingPlaces, Creators
  <2>2. CASE c # Owner
    BY <1>3, <1>5, <2>2, Places DEF HInv, Alone
  <2> QED BY <2>1, <2>2
<1>7. Stopped' BY <1>3 DEF Stopped
<1>8. cpc[c] \notin Adds BY <1>3 DEF Adds
<1> QED BY <1>1, <1>2, <1>3, <1>4, <1>6, <1>7, <1>8, QuietFrame

\* createThread() when there are threads enough
LEMMA FullKeeps ==
  ASSUME HInv, NEW c \in Creators, CreateThread(c), UNCHANGED <<new, pc>>,
         cpc' = [cpc EXCEPT ![c] = Onward(c, left'[c])]
  PROVE  HInv'
<1>1. PICK q \in {next[c], "create"} : cpc' = [cpc EXCEPT ![c] = q]
  BY DEF Onward
<1>2. /\ q \in CreatorPlaces /\ q \notin Adds
      /\ IF c = Owner THEN q \notin {"need", "push"}
                      ELSE q \notin {"join", "empty?", "counters?", "all?", "idle?", "waited"}
  BY <1>1, Places DEF CreatorPlaces, CreatingPlaces, Adds
<1>3. /\ cpc[c] = "create" /\ left' = [left EXCEPT ![c] = left[c] - 1]
      /\ UNCHANGED <<counters, pc, threads, new, sizes, next, status>>
  BY DEF CreateThread, Go, limits
<1>4. left' \in [Creators -> Int] /\ next' \in [Creators -> {"idle", "need", "push"}]
      /\ next'[Owner] = "idle" /\ status' \in {"STOP", "RUNNING", "PAUSE"}
  BY <1>3, Places DEF HInv, HTypes
<1>5. cpc'[c] = q /\ \A d \in Creators : d # c => cpc'[d] = cpc[d]
  BY <1>1 DEF HInv, HTypes
<1>6. Alone'
  <2>1. CASE c = Owner
    BY <1>3, <1>5, <2>1, HAssumption DEF HInv, Alone, CreatingPlaces, Creators
  <2>2. CASE c # Owner
    BY <1>3, <1>5, <2>2, Places, Active DEF Alone
  <2> QED BY <2>1, <2>2
<1>7. Stopped' BY <1>3, Active DEF Stopped
<1>8. cpc[c] \notin Adds BY <1>3 DEF Adds
<1> QED BY <1>1, <1>2, <1>3, <1>4, <1>6, <1>7, <1>8, QuietFrame

\* A creator that stays within creating keeps the others where they were.
LEMMA StillCreating ==
  ASSUME HInv, NEW c \in Creators, cpc[c] \in {"create", "add", "added"},
         NEW q \in CreatorPlaces, cpc' = [cpc EXCEPT ![c] = q],
         q \in CreatingPlaces \/ q = next[c], UNCHANGED status
  PROVE  /\ Alone' /\ Stopped' /\ cpc' \in [Creators -> CreatorPlaces] /\ cpc'[c] = q
         /\ \A d \in Creators : d # c => cpc'[d] = cpc[d]
         /\ \A d \in Committers : cpc'[d] \notin {"join", "empty?", "counters?", "all?", "idle?", "waited"}
         /\ cpc'[Owner] \notin {"need", "push"}
<1>1. /\ cpc' \in [Creators -> CreatorPlaces] /\ cpc'[c] = q
      /\ \A d \in Creators : d # c => cpc'[d] = cpc[d]
  BY DEF HInv, HTypes, CreatorPlaces
<1>2. Alone'
  <2>1. CASE c = Owner
    BY <1>1, <2>1, HAssumption, Active DEF Alone, Creators
  <2>2. CASE c # Owner
    BY <1>1, <2>2, Places, Active DEF Alone
  <2> QED BY <2>1, <2>2
<1>3. Stopped' BY Active DEF Stopped
<1>4. \A d \in Committers : cpc'[d] \notin {"join", "empty?", "counters?", "all?", "idle?", "waited"}
  BY <1>1, Places, HAssumption DEF HInv, HTypes, Creators, CreatingPlaces
<1>5. cpc'[Owner] \notin {"need", "push"}
  BY <1>1, Places DEF HInv, HTypes, CreatingPlaces
<1> QED BY <1>1, <1>2, <1>3, <1>4, <1>5

\* createThread() when there is room.  The room is looked for without a lock, so that all
\* committers may find the same last place: that many threads, not more, are being added.
LEMMA SpawnKeeps ==
  ASSUME HInv, NEW c \in Creators, CreateThread(c), cur_thread_num < max_thread_num,
         NEW w \in Threads, pc[w] = "none", pc' = [pc EXCEPT ![w] = "loop"],
         new' = [new EXCEPT ![c] = w], cpc' = [cpc EXCEPT ![c] = "add"]
  PROVE  HInv'
<1>0. HTypes /\ Listed /\ Marked /\ Counted /\ ThreadBound BY DEF HInv
<1>1. /\ cpc[c] = "create" /\ left' = [left EXCEPT ![c] = left[c] - 1]
      /\ UNCHANGED <<cur_thread_num, idle_thread_num, threads, next, status,
                     min_thread_num, max_thread_num>>
  BY DEF CreateThread, Go, limits, sizes, counters
<1>2. /\ Alone' /\ Stopped' /\ cpc' \in [Creators -> CreatorPlaces] /\ cpc'[c] = "add"
      /\ \A d \in Creators : d # c => cpc'[d] = cpc[d]
      /\ \A d \in Committers : cpc'[d] \notin {"join", "empty?", "counters?", "all?", "idle?", "waited"}
      /\ cpc'[Owner] \notin {"need", "push"}
  BY <1>1, StillCreating DEF CreatorPlaces, CreatingPlaces
<1>3. /\ pc' \in [Threads -> WorkerPlaces] /\ pc'[w] = "loop"
      /\ \A v \in Threads : v # w => pc'[v] = pc[v]
  BY <1>0, WorkerMoves DEF WorkerPlaces
<1>4. HTypes'
  <2>1. new' \in [Creators -> Threads \cup {0}] BY <1>0 DEF HTypes
  <2>2. left' \in [Creators -> Int] BY <1>0, <1>1, Places DEF HTypes
  <2> QED BY <1>0, <1>1, <1>2, <1>3, <2>1, <2>2 DEF HTypes, CreatorPlaces
<1>5. Listed'
  <2>1. new'[c] = w /\ \A d \in Creators : d # c => new'[d] = new[d] BY <1>0 DEF HTypes
  <2> QED BY <1>0, <1>1, <1>2, <1>3, <2>1 DEF Listed
<1>6. Marked' BY <1>0, <1>1, <1>3 DEF Marked
<1>7. /\ Recount(Cardinality(Alive), Cardinality(Alive'), FALSE, TRUE)
      /\ Recount(Cardinality(At({"deleted", "retired"})), Cardinality(At({"deleted", "retired"})'),
                 FALSE, FALSE)
      /\ Recount(Cardinality(At({"retired"})), Cardinality(At({"retired"})'), FALSE, FALSE)
      /\ Recount(Cardinality(At({"pop", "run"})), Cardinality(At({"pop", "run"})'), FALSE, FALSE)
  BY <1>0, WorkerCounts DEF WorkerPlaces, GaveUp, Runs, Recount
<1>8. /\ Recount(Cardinality(Adding({"add"})), Cardinality(Adding({"add"})'), FALSE, TRUE)
      /\ Recount(Cardinality(Adding({"add", "added"})), Cardinality(Adding({"add", "added"})'),
                 FALSE, TRUE)
  BY <1>0, <1>1, CreatorCounts DEF Adds, Recount
<1>9. {cur_thread_num, idle_thread_num, max_thread_num} \subseteq Int BY <1>0 DEF HTypes
<1>10. Counted'
  <2>1. cur_thread_num' = Cardinality(Alive') - Cardinality(Adding({"add"})')
                           - Cardinality(At({"deleted", "retired"})')
    BY <1>0, <1>1, <1>7, <1>8, <1>9 DEF Counted, Recount
  <2>2. idle_thread_num' = Cardinality(Alive') - Cardinality(Adding({"add", "added"})')
                            - Cardinality(At({"retired"})') - Cardinality(At({"pop", "run"})')
    BY <1>0, <1>1, <1>7, <1>8, <1>9 DEF Counted, Recount
  <2> QED BY <2>1, <2>2 DEF Counted
<1>11. Cardinality(Adding({"add"})') <= Cardinality(Committers)
  <2>1. CASE c = Owner
    <3>1. Adding({"add"})' = {Owner}
      BY <1>1, <1>2, <2>1, Active, HAssumption DEF Adding, Creators
    <3>2. Cardinality({Owner}) = 1 BY FS_Singleton
    <3> QED BY <3>1, <3>2, CreatorsCounted
  <2>2. CASE c # Owner
    <3>1. cpc'[Owner] # "add" BY <1>1, <1>2, <2>2, Places, Active DEF CreatingPlaces
    <3>2. Adding({"add"})' \subseteq Committers BY <3>1 DEF Adding, Creators
    <3> QED BY <3>2, HAssumption, FS_Subset
  <2> QED BY <2>1, <2>2
<1>12. ThreadBound'
  <2>1. Cardinality(Adding({"add"})') \in Nat /\ Cardinality(Committers) \in Nat
    BY <1>8, CreatorsCounted DEF Recount
  <2> QED BY <1>1, <1>9, <1>11, <2>1 DEF ThreadBound
<1> QED BY <1>2, <1>4, <1>5, <1>6, <1>10, <1>12 DEF HInv

\* createThread() either way
LEMMA CreateThreadKeeps ==
  ASSUME HInv, NEW c \in Creators, CreateThread(c)
  PROVE  HInv'
<1>1. CASE cpc' = [cpc EXCEPT ![c] = Onward(c, left'[c])] /\ UNCHANGED <<new, pc>>
  BY <1>1, FullKeeps
<1>2. CASE cur_thread_num < max_thread_num
  <2>1. PICK w \in Threads : /\ pc[w] = "none" /\ pc' = [pc EXCEPT ![w] = "loop"]
                             /\ new' = [new EXCEPT ![c] = w]
    BY <1>2 DEF CreateThread, Go, HInv, HTypes
  <2>2. cpc' = [cpc EXCEPT ![c] = "add"] BY <1>2 DEF CreateThread, Go, HInv, HTypes
  <2> QED BY <1>2, <2>1, <2>2, SpawnKeeps
<1> QED BY <1>1, <1>2 DEF CreateThread, Go

\* addThread(), its first half: the thread counts for cur_thread_num
LEMMA AddThreadKeeps ==
  ASSUME HInv, NEW c \in Creators, AddThread(c)
  PROVE  HInv'
<1>0. HTypes /\ Listed /\ Marked /\ Counted /\ ThreadBound BY DEF HInv
<1>1. /\ cpc[c] = "add" /\ cpc' = [cpc EXCEPT ![c] = "added"]
      /\ cur_thread_num' = cur_thread_num + 1
      /\ UNCHANGED <<idle_thread_num, pc, threads, next, left, new, status,
                     min_thread_num, max_thread_num>>
  BY DEF AddThread, Go, limits, sizes, workers
<1>2. /\ Alone' /\ Stopped' /\ cpc' \in [Creators -> CreatorPlaces] /\ cpc'[c] = "added"
      /\ \A d \in Creators : d # c => cpc'[d] = cpc[d]
      /\ \A d \in Committers : cpc'[d] \notin {"join", "empty?", "counters?", "all?", "idle?", "waited"}
      /\ cpc'[Owner] \notin {"need", "push"}
  BY <1>1, StillCreating DEF CreatorPlaces, CreatingPlaces
<1>3. HTypes'
  <2>1. cur_thread_num' \in Int BY <1>0, <1>1 DEF HTypes
  <2> QED BY <1>0, <1>1, <1>2, <2>1 DEF HTypes, CreatorPlaces
<1>4. Listed' BY <1>0, <1>1, <1>2 DEF Listed
<1>5. Marked' BY <1>0, <1>1 DEF Marked
<1>6. /\ UNCHANGED Alive /\ UNCHANGED At({"deleted", "retired"})
      /\ UNCHANGED At({"retired"}) /\ UNCHANGED At({"pop", "run"})
  BY <1>1 DEF Alive, At
<1>7. /\ Recount(Cardinality(Adding({"add"})), Cardinality(Adding({"add"})'), TRUE, FALSE)
      /\ Recount(Cardinality(Adding({"add", "added"})), Cardinality(Adding({"add", "added"})'),
                 TRUE, TRUE)
  <2>1. /\ Recount(Cardinality(Adding({"add"})), Cardinality(Adding({"add"})'),
                   cpc[c] = "add", "added" = "add")
        /\ Recount(Cardinality(Adding({"add", "added"})), Cardinality(Adding({"add", "added"})'),
                   cpc[c] \in Adds, "added" \in Adds)
    BY <1>0, <1>1, CreatorCounts
  <2> QED BY <1>1, <2>1 DEF Adds, Recount
<1>8. {cur_thread_num, idle_thread_num, max_thread_num} \subseteq Int BY <1>0 DEF HTypes
<1>9. {Cardinality(Alive), Cardinality(At({"deleted", "retired"})), Cardinality(At({"retired"})),
       Cardinality(At({"pop", "run"})), Cardinality(Committers)} \subseteq Nat
  BY WorkersCounted, CreatorsCounted
<1>10. Counted'
  <2>1. cur_thread_num' = Cardinality(Alive') - Cardinality(Adding({"add"})')
                           - Cardinality(At({"deleted", "retired"})')
    BY <1>0, <1>1, <1>6, <1>7, <1>8, <1>9 DEF Counted, Recount
  <2>2. idle_thread_num' = Cardinality(Alive') - Cardinality(Adding({"add", "added"})')
                            - Cardinality(At({"retired"})') - Cardinality(At({"pop", "run"})')
    BY <1>0, <1>1, <1>6, <1>7, <1>8, <1>9 DEF Counted, Recount
  <2> QED BY <2>1, <2>2 DEF Counted
<1>11. ThreadBound'
  <2>1. Cardinality(Adding({"add"})') = Cardinality(Adding({"add"})) - 1
        /\ Cardinality(Adding({"add"})) \in Nat
    BY <1>7 DEF Recount
  <2> QED BY <1>0, <1>1, <1>8, <1>9, <2>1 DEF ThreadBound
<1> QED BY <1>2, <1>3, <1>4, <1>5, <1>10, <1>11 DEF HInv

\* Its second half: it counts for idle_thread_num and is in the list.
LEMMA ListThreadKeeps ==
  ASSUME HInv, NEW c \in Creators, ListThread(c)
  PROVE  HInv'
<1>0. HTypes /\ Listed /\ Marked /\ Counted /\ ThreadBound BY DEF HInv
<1>1. /\ cpc[c] = "added" /\ idle_thread_num' = idle_thread_num + 1
      /\ threads' = [threads EXCEPT ![new[c]] = "RUNNING"] /\ new' = [new EXCEPT ![c] = 0]
      /\ UNCHANGED <<cur_thread_num, pc, next, left, status, min_thread_num, max_thread_num>>
  BY DEF ListThread, Go, limits, sizes, workers
<1>2. PICK q \in {next[c], "create"} : cpc' = [cpc EXCEPT ![c] = q]
  BY DEF ListThread, Onward, Go
<1>3. q \in CreatorPlaces /\ q \notin Adds /\ (q \in CreatingPlaces \/ q = next[c])
  BY <1>2, Places DEF CreatorPlaces, CreatingPlaces, Adds
<1>4. /\ Alone' /\ Stopped' /\ cpc' \in [Creators -> CreatorPlaces] /\ cpc'[c] = q
      /\ \A d \in Creators : d # c => cpc'[d] = cpc[d]
      /\ \A d \in Committers : cpc'[d] \notin {"join", "empty?", "counters?", "all?", "idle?", "waited"}
      /\ cpc'[Owner] \notin {"need", "push"}
  BY <1>1, <1>2, <1>3, StillCreating
<1>5. HTypes'
  <2>1. idle_thread_num' \in Int BY <1>0, <1>1 DEF HTypes
  <2>2. new' \in [Creators -> Threads \cup {0}] BY <1>0, <1>1 DEF HTypes
  <2>3. threads' \in [Threads -> {"absent", "RUNNING", "STOP"}] BY <1>0, <1>1 DEF HTypes
  <2> QED BY <1>0, <1>1, <1>4, <2>1, <2>2, <2>3 DEF HTypes, CreatorPlaces
<1>6. \A v \in Threads : threads'[v] = IF v = new[c] THEN "RUNNING" ELSE threads[v]
  BY <1>0, <1>1 DEF HTypes
<1>7. Listed'
  <2>1. \A d \in Creators : d # c => new'[d] = new[d] BY <1>0, <1>1 DEF HTypes
  <2> QED BY <1>0, <1>1, <1>4, <1>6, <2>1 DEF Listed
<1>8. Marked' BY <1>0, <1>1, <1>6 DEF Marked
<1>9. /\ UNCHANGED Alive /\ UNCHANGED At({"deleted", "retired"})
      /\ UNCHANGED At({"retired"}) /\ UNCHANGED At({"pop", "run"})
  BY <1>1 DEF Alive, At
<1>10. /\ Recount(Cardinality(Adding({"add"})), Cardinality(Adding({"add"})'), FALSE, FALSE)
       /\ Recount(Cardinality(Adding({"add", "added"})), Cardinality(Adding({"add", "added"})'),
                  TRUE, FALSE)
  BY <1>0, <1>1, <1>2, <1>3, CreatorCounts DEF Adds, Recount
<1>11. {cur_thread_num, idle_thread_num, max_thread_num} \subseteq Int BY <1>0 DEF HTypes
<1>12. {Cardinality(Alive), Cardinality(At({"deleted", "retired"})), Cardinality(At({"retired"})),
        Cardinality(At({"pop", "run"})), Cardinality(Committers)} \subseteq Nat
  BY WorkersCounted, CreatorsCounted
<1>13. Counted'
  <2>1. cur_thread_num' = Cardinality(Alive') - Cardinality(Adding({"add"})')
                           - Cardinality(At({"deleted", "retired"})')
    BY <1>0, <1>1, <1>9, <1>10, <1>11, <1>12 DEF Counted, Recount
  <2>2. idle_thread_num' = Cardinality(Alive') - Cardinality(Adding({"add", "added"})')
                            - Cardinality(At({"retired"})') - Cardinality(At({"pop", "run"})')
    BY <1>0, <1>1, <1>9, <1>10, <1>11, <1>12 DEF Counted, Recount
  <2> QED BY <2>1, <2>2 DEF Counted
<1>14. ThreadBound' BY <1>0, <1>1, <1>10, <1>11, <1>12 DEF ThreadBound, Recount
<1> QED BY <1>4, <1>5, <1>7, <1>8, <1>13, <1>14 DEF HInv

\* commit(), but for the threads it creates
LEMMA CommitKeeps ==
  ASSUME HInv, NEW c \in Committers, Commit(c) \/ Started(c) \/ Push(c)
  PROVE  HInv'
<1>1. c \in Creators /\ c # Owner BY HAssumption DEF Creators
<1>2. /\ cpc[c] \in {"idle", "need", "push"}
      /\ UNCHANGED <<counters, pc, threads, new, sizes, status>>
  BY DEF Commit, Started, Push, workers, limits
<1>3. PICK q \in {"start", "create", "push", "idle"} :
        /\ cpc' = [cpc EXCEPT ![c] = q]
        /\ status = "STOP" /\ cpc[c] = "idle" => q = "start"
  BY DEF Commit, Started, Push, Need, Go
<1>4. /\ next' \in [Creators -> {"idle", "need", "push"}] /\ next'[Owner] = "idle"
      /\ left' \in [Creators -> Int]
  <2>1. \/ UNCHANGED next
        \/ \E x \in {"idle", "need", "push"} : next' = [next EXCEPT ![c] = x]
    BY DEF Commit, Started, Push, Need, Go
  <2>2. UNCHANGED left \/ left' = [left EXCEPT ![c] = 1]
    BY DEF Commit, Started, Push, Need, Go
  <2>3. next \in [Creators -> {"idle", "need", "push"}] /\ next[Owner] = "idle"
        /\ left \in [Creators -> Int]
    BY DEF HInv, HTypes
  <2>4. next' \in [Creators -> {"idle", "need", "push"}]
    <3>1. CASE UNCHANGED next BY <2>3, <3>1
    <3>2. ASSUME NEW x \in {"idle", "need", "push"}, next' = [next EXCEPT ![c] = x]
          PROVE  next' \in [Creators -> {"idle", "need", "push"}]
      BY <2>3, <3>2
    <3> QED BY <2>1, <3>1, <3>2
  <2>5. next'[Owner] = "idle"
    <3>1. ASSUME NEW x, next' = [next EXCEPT ![c] = x] PROVE next'[Owner] = next[Owner]
      BY <1>1, <2>3, <3>1 DEF Creators
    <3> QED BY <2>1, <2>3, <3>1
  <2>6. left' \in [Creators -> Int] BY <2>2, <2>3
  <2> QED BY <2>4, <2>5, <2>6
<1>5. cpc'[c] = q /\ \A d \in Creators : d # c => cpc'[d] = cpc[d]
  BY <1>1, <1>3 DEF HInv, HTypes
<1>6. Alone'
  <2>1. CASE cpc[c] = "idle"
    <3>1. cpc[Owner] \notin CreatingPlaces \cup {"join"}
      BY <2>1 DEF Commit, Started, Push, CreatingPlaces, WaitPlaces, CounterPlaces
    <3> QED BY <1>1, <1>5, <3>1, Places DEF Alone
  <2>2. CASE cpc[c] # "idle"
    BY <1>1, <1>2, <1>5, <2>2, Places, Active DEF Alone
  <2> QED BY <2>1, <2>2
<1>7. Stopped'
  <2>1. CASE cpc[c] = "idle"
    <3>1. UNCHANGED Alive BY <1>2 DEF Alive
    <3> QED BY <1>1, <1>2, <1>3, <1>5, <2>1, <3>1, Places DEF HInv, Stopped
  <2>2. CASE cpc[c] # "idle"
    BY <1>1, <1>2, <1>5, <2>2, Active DEF Stopped
  <2> QED BY <2>1, <2>2
<1>8. /\ q \in CreatorPlaces /\ q \notin Adds /\ cpc[c] \notin Adds
      /\ q \notin {"join", "empty?", "counters?", "all?", "idle?", "waited"}
      /\ status' \in {"STOP", "RUNNING", "PAUSE"}
  BY <1>2, <1>3 DEF CreatorPlaces, CreatingPlaces, Adds, HInv, HTypes
<1> QED BY <1>1, <1>2, <1>3, <1>4, <1>6, <1>7, <1>8, QuietFrame

----------------------------------------------------------------------------
(* The owner.                                                              *)

\* pause() and resume()
LEMMA PauseKeeps ==
  ASSUME HInv, Pause \/ Resume
  PROVE  HInv'
<1>1. /\ status \in {"RUNNING", "PAUSE"} /\ status' \in {"RUNNING", "PAUSE"}
      /\ UNCHANGED <<cur_thread_num, idle_thread_num, threads, pc, cpc, next, left, new,
                     min_thread_num, max_thread_num>>
  BY DEF Pause, Resume, counters, workers, creators, limits, sizes
<1>2. UNCHANGED <<Adding({"add"}), Adding({"add", "added"})>> BY <1>1 DEF Adding
<1>3. /\ UNCHANGED Alive /\ UNCHANGED At({"deleted", "retired"})
      /\ UNCHANGED At({"retired"}) /\ UNCHANGED At({"pop", "run"})
  BY <1>1 DEF Alive, At
<1>4. HTypes' BY <1>1 DEF HInv, HTypes
<1>5. Alone' /\ Stopped' /\ Listed' /\ Marked'
  BY <1>1 DEF HInv, Alone, Stopped, Listed, Marked
<1>6. Counted' BY <1>1, <1>2, <1>3 DEF HInv, Counted
<1>7. ThreadBound' BY <1>1, <1>2 DEF HInv, ThreadBound
<1> QED BY <1>4, <1>5, <1>6, <1>7 DEF HInv

\* start(), wait() and the first half of stop()
LEMMA OwnerMoves ==
  ASSUME HInv, Start \/ Wait \/ WaitEmpty \/ WaitFirst \/ WaitSecond \/ WaitReturns \/ Stop
  PROVE  HInv'
<1>1. Owner \in Creators /\ Owner \notin Committers BY HAssumption DEF Creators
<1>2. /\ cpc[Owner] \in {"idle", "empty?", "counters?", "all?", "idle?", "waited"}
      /\ UNCHANGED <<counters, pc, threads, new, sizes, left>>
      /\ status' \in {status, "STOP"}
  BY <1>1 DEF Start, Wait, WaitEmpty, WaitFirst, WaitSecond, WaitReturns, Stop, Idle, Adding, workers, limits
<1>3. next' \in [Creators -> {"idle", "need", "push"}] /\ next'[Owner] = "idle"
  <2>1. next \in [Creators -> {"idle", "need", "push"}] /\ next[Owner] = "idle"
    BY DEF HInv, HTypes
  <2>2. UNCHANGED next \/ next' = [next EXCEPT ![Owner] = "idle"]
    BY DEF Start, Wait, WaitEmpty, WaitFirst, WaitSecond, WaitReturns, Stop, Go
  <2> QED BY <1>1, <2>1, <2>2
<1>4. PICK q \in {"start", "idle", "empty?", "counters?", "all?", "idle?", "waited", "join"} :
        /\ cpc' = [cpc EXCEPT ![Owner] = q]
        /\ q \in {"start", "join"} => Adding({"idle"}) = Creators
        /\ q = "join" \/ UNCHANGED status
        /\ q \in {"start", "join"} \/ status # "STOP" \/ cpc[Owner] # "idle"
  BY DEF Start, Wait, WaitEmpty, WaitFirst, WaitSecond, WaitReturns, Stop, Idle, Go
<1>5. cpc'[Owner] = q /\ \A d \in Creators : d # Owner => cpc'[d] = cpc[d]
  BY <1>1, <1>4 DEF HInv, HTypes
<1>6. Alone'
  <2>1. CASE q \in {"start", "join"}
    BY <1>1, <1>4, <1>5, <2>1 DEF Alone, Adding, Creators
  <2>2. CASE q \notin {"start", "join"}
    BY <1>4, <1>5, <2>2 DEF Alone, CreatingPlaces
  <2> QED BY <2>1, <2>2
<1>7. Stopped'
  <2>1. CASE q = "join" BY <1>5, <2>1 DEF Stopped
  <2>2. CASE q # "join"
    <3>1. UNCHANGED status /\ UNCHANGED Alive BY <1>2, <1>4, <2>2 DEF Alive
    <3> QED BY <1>1, <1>2, <1>4, <1>5, <2>2, <3>1 DEF HInv, Stopped
  <2> QED BY <2>1, <2>2
<1>8. /\ q \in CreatorPlaces /\ q \notin Adds /\ cpc[Owner] \notin Adds
      /\ q \notin {"need", "push"} /\ status' \in {"STOP", "RUNNING", "PAUSE"}
      /\ left' \in [Creators -> Int]
  BY <1>2, <1>4 DEF CreatorPlaces, CreatingPlaces, Adds, HInv, HTypes
<1> QED BY <1>1, <1>2, <1>3, <1>4, <1>6, <1>7, <1>8, QuietFrame

\* The second half of stop(): every thread is in the list, so none is left.
LEMMA StopJoinedKeeps ==
  ASSUME HInv, StopJoined
  PROVE  HInv'
<1>0. HTypes /\ Alone /\ Listed BY DEF HInv
<1>1. /\ cpc[Owner] = "join" /\ cpc' = [cpc EXCEPT ![Owner] = "idle"]
      /\ threads' = [w \in Threads |-> "absent"]
      /\ pc' = [w \in Threads |-> IF threads[w] # "absent" THEN "none" ELSE pc[w]]
      /\ cur_thread_num' = 0 /\ idle_thread_num' = 0
      /\ UNCHANGED <<status, next, left, new, min_thread_num, max_thread_num>>
  BY DEF StopJoined, Go, limits, sizes
<1>2. Owner \in Creators /\ \A c \in Creators : c = Owner \/ (c \in Committers /\ cpc[c] = "idle")
  BY <1>0, <1>1 DEF Creators, Alone
<1>3. \A c \in Creators : cpc'[c] = "idle"
  BY <1>0, <1>1, <1>2 DEF HTypes
<1>4. \A w \in Threads : pc'[w] = "none" BY <1>0, <1>1, <1>2 DEF Listed, HTypes
<1>5. HTypes'
  <2>1. pc' \in [Threads -> WorkerPlaces] BY <1>0, <1>1 DEF HTypes, WorkerPlaces
  <2>2. threads' \in [Threads -> {"absent", "RUNNING", "STOP"}] BY <1>1
  <2>3. cpc' \in [Creators -> CreatorPlaces] BY <1>0, <1>1 DEF HTypes, CreatorPlaces
  <2>4. cur_thread_num' \in Int /\ idle_thread_num' \in Int BY <1>1
  <2> QED BY <1>0, <1>1, <1>2, <1>3, <2>1, <2>2, <2>3, <2>4 DEF HTypes, CreatorPlaces, Creators
<1>6. Alone' BY <1>3 DEF Alone, Creators
<1>7. Alive' = {} BY <1>4 DEF Alive
<1>8. Stopped' BY <1>3, <1>7 DEF Stopped
<1>9. Listed' BY <1>4 DEF Listed
<1>10. Marked' BY <1>1 DEF Marked
<1>11. /\ Adding({"add"})' = {} /\ Adding({"add", "added"})' = {} /\ At({"deleted", "retired"})' = {}
       /\ At({"retired"})' = {} /\ At({"pop", "run"})' = {}
  BY <1>3, <1>4 DEF Adding, At
<1>12. Cardinality({}) = 0 BY FS_EmptySet
<1>13. Counted' BY <1>1, <1>7, <1>11, <1>12 DEF Counted
<1>14. ThreadBound'
  <2>1. max_thread_num \in Nat \ {0} /\ Cardinality(Committers) \in Nat
    BY <1>0, CreatorsCounted DEF HTypes
  <2> QED BY <1>1, <1>11, <1>12, <2>1 DEF ThreadBound
<1> QED BY <1>5, <1>6, <1>8, <1>9, <1>10, <1>13, <1>14 DEF HInv

----------------------------------------------------------------------------

\* A new pool is stopped, empty and nobody is calling.
LEMMA HInitially == Init => HInv
<1> SUFFICES ASSUME Init PROVE HInv OBVIOUS
<1>1. /\ \A c \in Creators : cpc[c] = "idle"
      /\ \A w \in Threads : pc[w] = "none" /\ threads[w] = "absent"
      /\ cur_thread_num = 0 /\ idle_thread_num = 0
      /\ min_thread_num \in Nat /\ max_thread_num \in Nat \ {0}
  BY HAssumption DEF Init
<1>2. HTypes
  <2>1. Owner \in Creators /\ Committers \subseteq Creators BY DEF Creators
  <2>2. pc \in [Threads -> WorkerPlaces] /\ threads \in [Threads -> {"absent", "RUNNING", "STOP"}]
    BY DEF Init, WorkerPlaces
  <2>3. cpc \in [Creators -> CreatorPlaces] BY DEF Init, CreatorPlaces
  <2>4. next \in [Creators -> {"idle", "need", "push"}] /\ next[Owner] = "idle"
    BY <2>1 DEF Init
  <2>5. left \in [Creators -> Int] /\ new \in [Creators -> Threads \cup {0}] BY DEF Init
  <2>6. status = "STOP" BY DEF Init
  <2> QED BY <1>1, <2>1, <2>2, <2>3, <2>4, <2>5, <2>6 DEF HTypes, CreatorPlaces
<1>3. Alone /\ Listed /\ Marked BY <1>1 DEF Alone, Listed, Marked, Creators
<1>4. Alive = {} BY <1>1 DEF Alive
<1>5. Stopped BY <1>1, <1>4 DEF Stopped
<1>6. /\ Adding({"add"}) = {} /\ Adding({"add", "added"}) = {} /\ At({"deleted", "retired"}) = {}
      /\ At({"retired"}) = {} /\ At({"pop", "run"}) = {}
  BY <1>1 DEF Adding, At
<1>7. Cardinality({}) = 0 BY FS_EmptySet
<1>8. Counted BY <1>1, <1>4, <1>6, <1>7 DEF Counted
<1>9. ThreadBound
  <2>1. cur_thread_num = 0 /\ Cardinality(Adding({"add"})) = 0 BY <1>1, <1>6, <1>7
  <2>2. max_thread_num \in Nat \ {0} /\ Cardinality(Committers) \in Nat BY <1>1, CreatorsCounted
  <2> QED BY <2>1, <2>2 DEF ThreadBound
<1> QED BY <1>2, <1>3, <1>5, <1>8, <1>9 DEF HInv

\* A paused worker, a turn of wait() and a process that has crashed change nothing.
LEMMA HStutter == HInv /\ UNCHANGED vars => HInv'
<1> SUFFICES ASSUME HInv, UNCHANGED vars PROVE HInv' OBVIOUS
<1>1. UNCHANGED <<status, cur_thread_num, idle_thread_num, threads, pc, cpc, next, left, new,
                  min_thread_num, max_thread_num>>
  BY DEF vars, counters, workers, creators, limits, sizes
<1>2. UNCHANGED <<Adding({"add"}), Adding({"add", "added"})>> BY <1>1 DEF Adding
<1>3. /\ UNCHANGED Alive /\ UNCHANGED At({"deleted", "retired"})
      /\ UNCHANGED At({"retired"}) /\ UNCHANGED At({"pop", "run"})
  BY <1>1 DEF Alive, At
<1>4. HTypes' BY <1>1 DEF HInv, HTypes
<1>5. Alone' /\ Stopped' /\ Listed' /\ Marked'
  BY <1>1, <1>3 DEF HInv, Alone, Stopped, Listed, Marked
<1>6. Counted' BY <1>1, <1>2, <1>3 DEF HInv, Counted
<1>7. ThreadBound' BY <1>1, <1>2 DEF HInv, ThreadBound
<1> QED BY <1>4, <1>5, <1>6, <1>7 DEF HInv

\* Every step keeps the invariant.
LEMMA HInductive == HInv /\ [Next]_vars => HInv'
<1> SUFFICES ASSUME HInv, [Next]_vars PROVE HInv' OBVIOUS
<1>1. ASSUME NEW w \in Threads, WorkerStep(w) PROVE HInv'
  BY <1>1, WorkerKeeps, ScanKeeps, HStutter DEF WorkerStep, Yield
<1>2. ASSUME NEW c \in Committers, Commit(c) \/ Started(c) \/ Push(c) PROVE HInv'
  BY <1>2, CommitKeeps
<1>3. ASSUME NEW c \in Creators, Create(c) PROVE HInv'
  BY <1>3, SetRunningKeeps, CreateThreadKeeps, AddThreadKeeps, ListThreadKeeps DEF Create
<1>4. CASE OwnerStep
  BY <1>4, PauseKeeps, OwnerMoves, StopJoinedKeeps, HStutter DEF OwnerStep, WaitStep, WaitTurn
<1>5. CASE Crashed \/ UNCHANGED vars BY <1>5, HStutter DEF Crashed
<1> QED BY <1>1, <1>2, <1>3, <1>4, <1>5 DEF Next

\* So it always holds.
LEMMA Invariant == Spec => []HInv
BY HInitially, HInductive, PTL DEF Spec

(* cur_thread_num counts the threads in the list that have not given up,   *)
(* idle_thread_num those of them that are not busy, but for the threads    *)
(* half-way through addThread() or delThread(); a stopped pool has no      *)
(* threads - for any number of committing threads, any sizes of the pool   *)
(* and any number of calls (hthreadpool.h:185 and 199).                    *)
THEOREM HCountersExact == Spec => []CountersExact
<1>1. HInv => CountersExact
  <2> SUFFICES ASSUME HInv PROVE CountersExact OBVIOUS
  <2>1. status = "STOP" /\ Adding({"idle"}) = Creators => Alive = {}
    <3> SUFFICES ASSUME status = "STOP", Adding({"idle"}) = Creators PROVE Alive = {} OBVIOUS
    <3>1. cpc[Owner] # "join" BY DEF Adding, Creators
    <3> QED BY <3>1 DEF HInv, Stopped
  <2> QED BY <2>1 DEF HInv, Counted, CountersExact
<1> QED BY <1>1, Invariant, PTL

(* The unlocked check of max_thread_num can be overrun, but by fewer       *)
(* threads than commit at the same time (createThread, hthreadpool.h:150): *)
(* with a single committing thread it is never overrun.                    *)
THEOREM HThreadBound == Spec => []ThreadBound
<1>1. HInv => ThreadBound BY DEF HInv
<1> QED BY <1>1, Invariant, PTL

----------------------------------------------------------------------------
(* wait(): what it read of the queue and the counters is still worth       *)
(* something when it returns.                                              *)

WTypes ==
  /\ tasks \in Seq(Tasks) /\ running \in [Threads -> Tasks \cup {0}]
  /\ committed \subseteq Tasks /\ before \subseteq committed /\ seen \in Int

\* Every task was committed; it is not queued twice, so it does not come back.
OnlyCommitted == \A t : Queued(t) => t \in committed

\* task_mutex is held by one worker at a time, and a worker that pops has what to pop.
LockPlaces == {"pop", "delete", "deleted"}
TaskLock ==
  \A w \in Threads : pc[w] \in LockPlaces =>
    /\ task_mutex = Held /\ \A v \in Threads : pc[v] \in LockPlaces => v = w
    /\ pc[w] = "pop" => tasks # <<>>

\* Who holds a task is running it.
HasTask == \A w \in Threads : running[w] # 0 => pc[w] = "run"

\* A task committed before wait() was called is being run.
Unfinished == \E w \in Threads : running[w] \in before

\* wait() has read the queue.  If the threads stay the same from there on, those that have
\* a task are missing from idle_thread_num: what was read of it falls short of the count of
\* threads, and what is still to be read will fall short of the count that was read.
ReadPlaces == CounterPlaces \cup {"waited"}
Waiting ==
  /\ cpc[Owner] \in ReadPlaces => \A t \in before : ~Queued(t)
  /\ cpc[Owner] \in CounterPlaces /\ ~churned => At({"deleted"}) = {}
  /\ cpc[Owner] = "all?" /\ ~churned /\ Unfinished => seen < cur_thread_num
  /\ cpc[Owner] = "idle?" /\ ~churned => idle_thread_num + Cardinality(At(Runs)) <= seen
  /\ cpc[Owner] = "waited" /\ ~churned => ~Unfinished

WInv == WTypes /\ OnlyCommitted /\ TaskLock /\ HasTask /\ Waiting

\* Moving what the invariant does not speak of: the frame of all other steps.
LEMMA WaitFrame ==
  ASSUME WInv, UNCHANGED <<tasks, running, seen, before, committed>>,
         TaskLock', HasTask', churned => churned',
         \/ cpc'[Owner] = cpc[Owner]
         \/ cpc'[Owner] \notin ReadPlaces,
         cpc[Owner] \in ReadPlaces =>
           /\ At({"deleted"})' \subseteq At({"deleted"})
           /\ cur_thread_num \in Int /\ cur_thread_num' \in Int
           /\ cur_thread_num' >= cur_thread_num
           /\ \/ cpc[Owner] # "idle?" \/ churned'
              \/ idle_thread_num' + Cardinality(At(Runs)') = idle_thread_num + Cardinality(At(Runs))
  PROVE  WInv'
<1>1. UNCHANGED <<tasks, running, seen, before, committed>> OBVIOUS
<1>2. WTypes' BY <1>1 DEF WInv, WTypes
<1>3. (\A t : Queued(t)' <=> Queued(t)) /\ (Unfinished' <=> Unfinished)
  BY <1>1 DEF Queued, Unfinished
<1>4. OnlyCommitted' BY <1>1, <1>3 DEF WInv, OnlyCommitted
<1>5. Waiting'
  <2>1. CASE cpc'[Owner] \notin ReadPlaces BY <2>1 DEF Waiting, ReadPlaces, CounterPlaces
  <2>2. CASE cpc[Owner] = cpc'[Owner] /\ cpc[Owner] \in ReadPlaces
    <3>1. \A t \in before' : cpc'[Owner] \in ReadPlaces => ~Queued(t)'
      BY <1>1, <1>3, <2>2 DEF WInv, Waiting
    <3>2. cpc'[Owner] \in CounterPlaces /\ ~churned' => At({"deleted"})' = {}
      BY <1>1, <2>2 DEF WInv, Waiting
    <3>3. cpc'[Owner] = "all?" /\ ~churned' /\ Unfinished' => seen' < cur_thread_num'
      <4>1. seen \in Int BY DEF WInv, WTypes
      <4> QED BY <1>1, <1>3, <2>2, <4>1 DEF WInv, Waiting
    <3>4. cpc'[Owner] = "idle?" /\ ~churned' => idle_thread_num' + Cardinality(At(Runs)') <= seen'
      BY <1>1, <2>2 DEF WInv, Waiting
    <3>5. cpc'[Owner] = "waited" /\ ~churned' => ~Unfinished'
      BY <1>1, <1>3, <2>2 DEF WInv, Waiting
    <3> QED BY <3>1, <3>2, <3>3, <3>4, <3>5 DEF Waiting
  <2> QED BY <2>1, <2>2
<1> QED BY <1>2, <1>4, <1>5 DEF WInv

\* A worker that takes or ends a task changes idle_thread_num and the number of those that
\* are busy by one each, in opposite directions.
LEMMA Balanced ==
  ASSUME HInv, NEW w \in Threads, NEW p \in WorkerPlaces, pc' = [pc EXCEPT ![w] = p],
         /\ (pc[w] \in Runs) = (p \in Runs) => UNCHANGED idle_thread_num
         /\ pc[w] \in Runs /\ p \notin Runs => idle_thread_num' = idle_thread_num + 1
         /\ pc[w] \notin Runs /\ p \in Runs => idle_thread_num' = idle_thread_num - 1
  PROVE  idle_thread_num' + Cardinality(At(Runs)') = idle_thread_num + Cardinality(At(Runs))
<1>1. HTypes /\ idle_thread_num \in Int BY DEF HInv, HTypes
<1>2. Recount(Cardinality(At({"pop", "run"})), Cardinality(At({"pop", "run"})'),
              pc[w] \in Runs, p \in Runs)
  BY <1>1, WorkerCounts
<1>3. Recount(Cardinality(At(Runs)), Cardinality(At(Runs)'), pc[w] \in Runs, p \in Runs)
  BY <1>2 DEF Runs
<1> QED BY <1>1, <1>3 DEF Recount

\* The lock, when one worker moves from p to another place it holds it at, or lets it go.
LEMMA LockMoves ==
  ASSUME HInv, WInv, NEW w \in Threads, NEW p \in WorkerPlaces, pc' = [pc EXCEPT ![w] = p],
         UNCHANGED <<tasks, running>>,
         p \in LockPlaces => task_mutex = Free \/ pc[w] \in LockPlaces,
         p \in LockPlaces => task_mutex' = Held,
         p = "pop" => tasks # <<>>,
         UNCHANGED task_mutex \/ p \in LockPlaces \/ pc[w] \in LockPlaces,
         pc[w] # "run"
  PROVE  TaskLock' /\ HasTask'
<1>1. pc'[w] = p /\ \A v \in Threads : v # w => pc'[v] = pc[v] BY DEF HInv, HTypes
<1>2. Free # Held BY DEF Free, Held
<1>3. HasTask' BY <1>1 DEF WInv, HasTask
<1>4. TaskLock' BY <1>1, <1>2 DEF WInv, TaskLock
<1> QED BY <1>3, <1>4

\* The steps of the workers that neither pop nor finish a task, nor give up
LEMMA WorkerWaits ==
  ASSUME HInv, WInv, NEW w \in Threads, Loop(w) \/ Leave(w) \/ Timeout(w) \/ Take(w)
  PROVE  WInv'
<1>1. PICK p \in WorkerPlaces :
        /\ pc' = [pc EXCEPT ![w] = p] /\ p \notin {"deleted", "run"}
        /\ pc[w] \in {"loop", "lock"}
        /\ p \in LockPlaces => task_mutex = Free /\ task_mutex' = Held
        /\ p = "pop" => tasks # <<>>
        /\ p \notin LockPlaces => UNCHANGED task_mutex
        /\ IF p = "pop" THEN idle_thread_num' = idle_thread_num - 1 ELSE UNCHANGED idle_thread_num
  <2>1. CASE Loop(w) BY <2>1 DEF Loop, Go, WorkerPlaces, LockPlaces, locks, counters
  <2>2. CASE Leave(w) BY <2>2 DEF Leave, Go, WorkerPlaces, LockPlaces, locks, counters
  <2>3. CASE Timeout(w)
    <3>1. \/ pc' = [pc EXCEPT ![w] = "delete"] /\ task_mutex' = Held
          \/ pc' = [pc EXCEPT ![w] = "loop"] /\ UNCHANGED task_mutex
      BY <2>3 DEF Timeout, Go
    <3> QED BY <2>3, <3>1 DEF Timeout, WorkerPlaces, LockPlaces, counters
  <2>4. CASE Take(w) BY <2>4 DEF Take, Go, WorkerPlaces, LockPlaces
  <2> QED BY <2>1, <2>2, <2>3, <2>4
<1>2. UNCHANGED <<tasks, running, waiting, committed, cpc, cur_thread_num>>
  BY DEF Loop, Leave, Timeout, Take, counters, creators
<1>3. TaskLock' /\ HasTask' BY <1>1, <1>2, LockMoves
<1>4. At({"deleted"})' \subseteq At({"deleted"}) BY <1>1 DEF At, HInv, HTypes
<1>5. cur_thread_num \in Int BY DEF HInv, HTypes
<1>6. idle_thread_num' + Cardinality(At(Runs)') = idle_thread_num + Cardinality(At(Runs))
  BY <1>1, Balanced DEF Runs
<1> QED BY <1>2, <1>3, <1>4, <1>5, <1>6, WaitFrame DEF waiting

\* The task that is popped was queued, so it is none that wait() answers for.
LEMMA PopWaits ==
  ASSUME HInv, WInv, NEW w \in Threads, Pop(w)
  PROVE  WInv'
<1>1. /\ pc[w] = "pop" /\ pc' = [pc EXCEPT ![w] = "run"] /\ tasks # <<>>
      /\ running' = [running EXCEPT ![w] = Head(tasks)] /\ tasks' = Tail(tasks)
      /\ task_mutex' = Free
      /\ UNCHANGED <<cpc, cur_thread_num, seen, before, churned, committed>>
  BY DEF Pop, Go, counters, creators, waiting, WInv, TaskLock, LockPlaces
<1>2. /\ pc'[w] = "run" /\ \A v \in Threads : v # w => pc'[v] = pc[v]
      /\ running \in [Threads -> Tasks \cup {0}] /\ tasks \in Seq(Tasks)
  BY <1>1 DEF HInv, HTypes, WInv, WTypes
<1>3. /\ Head(tasks) \in Tasks /\ Tail(tasks) \in Seq(Tasks)
      /\ 1 \in 1 .. Len(tasks) /\ Head(tasks) = tasks[1]
      /\ \A i \in 1 .. Len(tasks') : i + 1 \in 1 .. Len(tasks) /\ tasks'[i] = tasks[i + 1]
  BY <1>1, <1>2
<1>4. Queued(Head(tasks)) /\ \A t : Queued(t)' => Queued(t)
  BY <1>3 DEF Queued
<1>5. /\ running'[w] = Head(tasks) /\ \A v \in Threads : v # w => running'[v] = running[v]
      /\ running' \in [Threads -> Tasks \cup {0}]
  BY <1>1, <1>2, <1>3
<1>6. WTypes' BY <1>1, <1>3, <1>5 DEF WInv, WTypes
<1>7. OnlyCommitted' BY <1>1, <1>4 DEF WInv, OnlyCommitted
<1>8. TaskLock' BY <1>1, <1>2 DEF WInv, TaskLock, LockPlaces
<1>9. HasTask' BY <1>2, <1>5 DEF WInv, HasTask
<1>10. Waiting'
  <2>1. At({"deleted"})' = At({"deleted"}) BY <1>1, <1>2 DEF At
  <2>2. cpc[Owner] \in ReadPlaces /\ Unfinished' => Unfinished
    BY <1>1, <1>4, <1>5 DEF WInv, Waiting, Unfinished
  <2>3. idle_thread_num' + Cardinality(At(Runs)') = idle_thread_num + Cardinality(At(Runs))
    BY <1>1, Balanced DEF Pop, counters, Runs, WorkerPlaces
  <2> QED BY <1>1, <1>4, <2>1, <2>2, <2>3 DEF WInv, Waiting, ReadPlaces, CounterPlaces
<1> QED BY <1>6, <1>7, <1>8, <1>9, <1>10 DEF WInv

\* A task that has been run is nobody's any more.
LEMMA RunWaits ==
  ASSUME HInv, WInv, NEW w \in Threads, Run(w)
  PROVE  WInv'
<1>1. /\ pc[w] = "run" /\ pc' = [pc EXCEPT ![w] = "loop"]
      /\ running' = [running EXCEPT ![w] = 0]
      /\ UNCHANGED <<cpc, cur_thread_num, seen, before, churned, committed, tasks, task_mutex>>
  BY DEF Run, Go, locks, creators, waiting
<1>2. /\ pc'[w] = "loop" /\ \A v \in Threads : v # w => pc'[v] = pc[v]
      /\ running'[w] = 0 /\ \A v \in Threads : v # w => running'[v] = running[v]
      /\ running' \in [Threads -> Tasks \cup {0}]
  BY <1>1 DEF HInv, HTypes, WInv, WTypes
<1>3. \A t : Queued(t)' <=> Queued(t) BY <1>1 DEF Queued
<1>4. WTypes' BY <1>1, <1>2 DEF WInv, WTypes
<1>5. OnlyCommitted' BY <1>1, <1>3 DEF WInv, OnlyCommitted
<1>6. TaskLock' BY <1>1, <1>2 DEF WInv, TaskLock, LockPlaces
<1>7. HasTask' BY <1>2 DEF WInv, HasTask
<1>8. Waiting'
  <2>1. At({"deleted"})' = At({"deleted"}) BY <1>1, <1>2 DEF At
  <2>2. 0 \notin before BY HAssumption DEF WInv, WTypes
  <2>3. Unfinished' => Unfinished BY <1>1, <1>2, <2>2 DEF Unfinished
  <2>4. idle_thread_num' + Cardinality(At(Runs)') = idle_thread_num + Cardinality(At(Runs))
    BY <1>1, Balanced DEF Run, Runs, WorkerPlaces
  <2> QED BY <1>1, <1>3, <2>1, <2>3, <2>4 DEF WInv, Waiting
<1> QED BY <1>4, <1>5, <1>6, <1>7, <1>8 DEF WInv

\* A thread that gives up while wait() reads the counters is recorded in churned.
LEMMA DelThreadWaits ==
  ASSUME HInv, WInv, NEW w \in Threads, DelThread(w)
  PROVE  WInv'
<1>1. /\ pc[w] = "delete" /\ pc' = [pc EXCEPT ![w] = "deleted"]
      /\ churned' = (churned \/ cpc[Owner] \in CounterPlaces)
      /\ UNCHANGED <<cpc, seen, before, committed, tasks, running, task_mutex>>
  BY DEF DelThread, Go, creators
<1>2. (\A t : Queued(t)' <=> Queued(t)) /\ (Unfinished' <=> Unfinished)
  BY <1>1 DEF Queued, Unfinished
<1>3. WTypes' BY <1>1 DEF WInv, WTypes
<1>4. OnlyCommitted' BY <1>1, <1>2 DEF WInv, OnlyCommitted
<1>5. TaskLock' /\ HasTask'
  <2>1. task_mutex = Held BY <1>1 DEF WInv, TaskLock, LockPlaces
  <2> QED BY <1>1, <2>1, LockMoves DEF LockPlaces, WorkerPlaces
<1>6. Waiting'
  BY <1>1, <1>2 DEF WInv, Waiting, ReadPlaces, CounterPlaces
<1> QED BY <1>3, <1>4, <1>5, <1>6 DEF WInv

\* The threads that are joined have given up.
LEMMA ScanWaits ==
  ASSUME HInv, WInv, NEW w \in Threads, Scan(w)
  PROVE  WInv'
<1>1. pc[w] = "deleted" /\ task_mutex' = Free
      /\ UNCHANGED <<tasks, running, waiting, committed, cpc, cur_thread_num>>
  BY DEF Scan, creators
<1>2. PICK old \in SUBSET {v \in Threads : threads[v] = "STOP"} :
        pc' = [v \in Threads |-> IF v = w THEN "retired" ELSE IF v \in old THEN "none" ELSE pc[v]]
  BY DEF Scan
<1>3. \A v \in Threads : pc'[v] = pc[v] \/ (pc'[v] \in {"retired", "none"} /\ pc[v] \in {"deleted", "retired"})
  BY <1>1, <1>2 DEF HInv, Marked
<1>4. \A v \in Threads : pc'[v] \notin LockPlaces
  BY <1>1, <1>2, <1>3 DEF WInv, TaskLock, LockPlaces
<1>5. TaskLock' BY <1>4 DEF TaskLock
<1>6. HasTask' BY <1>1, <1>3 DEF WInv, HasTask
<1>7. At({"deleted"})' \subseteq At({"deleted"}) BY <1>3 DEF At
<1>8. cur_thread_num \in Int BY DEF HInv, HTypes
<1>9. cpc[Owner] = "idle?" => churned
  BY <1>1 DEF WInv, Waiting, CounterPlaces, At
<1>10. cpc[Owner] # "idle?" \/ churned' BY <1>1, <1>9 DEF waiting
<1>11. WInv' BY <1>1, <1>5, <1>6, <1>7, <1>8, <1>10, WaitFrame DEF waiting
<1> QED BY <1>11

\* The threads that are created come to the count, never off it; one that comes to
\* idle_thread_num alone, the other counter being read, is recorded in churned.
LEMMA CreateWaits ==
  ASSUME HInv, WInv, NEW c \in Creators, Create(c)
  PROVE  WInv'
<1>1. /\ UNCHANGED <<tasks, running, seen, before, committed, task_mutex>>
      /\ cpc[c] \in CreatingPlaces /\ (churned => churned')
  <2>1. CASE SetRunning(c) BY <2>1 DEF SetRunning, workers, locks, waiting, CreatingPlaces
  <2>2. CASE CreateThread(c) BY <2>2 DEF CreateThread, locks, waiting, CreatingPlaces
  <2>3. CASE AddThread(c) BY <2>3 DEF AddThread, workers, waiting, CreatingPlaces
  <2>4. CASE ListThread(c) BY <2>4 DEF ListThread, workers, CreatingPlaces
  <2> QED BY <2>1, <2>2, <2>3, <2>4 DEF Create
<1>2. cpc'[Owner] = cpc[Owner] \/ cpc'[Owner] \notin ReadPlaces
  <2>1. PICK q : cpc' = [cpc EXCEPT ![c] = q] /\ q \in {"add", "added", "create", "idle", "need", "push"}
    <3>1. \A n : Onward(c, n) \in {"create", "idle", "need", "push"}
      BY DEF Onward, HInv, HTypes
    <3>2. CASE SetRunning(c) BY <3>1, <3>2 DEF SetRunning, Go
    <3>3. CASE CreateThread(c) BY <3>1, <3>3 DEF CreateThread, Go
    <3>4. CASE AddThread(c) BY <3>4 DEF AddThread, Go
    <3>5. CASE ListThread(c) BY <3>1, <3>5 DEF ListThread, Go
    <3> QED BY <3>2, <3>3, <3>4, <3>5 DEF Create
  <2>2. Owner \in Creators BY DEF Creators
  <2> QED BY <2>1, <2>2 DEF HInv, HTypes, ReadPlaces, CounterPlaces
<1>3. \A v \in Threads : pc'[v] = pc[v] \/ (pc[v] = "none" /\ pc'[v] = "loop")
  <2>1. CASE CreateThread(c)
    <3>1. UNCHANGED pc \/ \E w \in Threads : pc[w] = "none" /\ pc' = [pc EXCEPT ![w] = "loop"]
      BY <2>1 DEF CreateThread, Go
    <3> QED BY <3>1 DEF HInv, HTypes
  <2>2. CASE ~CreateThread(c) BY <2>2 DEF Create, SetRunning, AddThread, ListThread, workers
  <2> QED BY <2>1, <2>2
<1>4. TaskLock' /\ HasTask' BY <1>1, <1>3 DEF WInv, TaskLock, HasTask, LockPlaces
<1>5. At({"deleted"})' \subseteq At({"deleted"}) BY <1>3 DEF At
<1>6. cur_thread_num \in Int /\ cur_thread_num' \in Int /\ cur_thread_num' >= cur_thread_num
  <2>1. cur_thread_num \in Int BY DEF HInv, HTypes
  <2>2. cur_thread_num' \in {cur_thread_num, cur_thread_num + 1}
    BY DEF Create, SetRunning, CreateThread, AddThread, ListThread, counters
  <2> QED BY <2>1, <2>2
<1>7. \/ cpc[Owner] # "idle?" \/ churned'
      \/ idle_thread_num' + Cardinality(At(Runs)') = idle_thread_num + Cardinality(At(Runs))
  <2>1. CASE ListThread(c) BY <2>1 DEF ListThread
  <2>2. CASE ~ListThread(c)
    <3>1. UNCHANGED idle_thread_num
      BY <2>2 DEF Create, SetRunning, CreateThread, AddThread, counters
    <3>2. At(Runs)' = At(Runs) BY <1>3 DEF At, Runs
    <3> QED BY <3>1, <3>2
  <2> QED BY <2>1, <2>2
<1>8. cpc'[Owner] = cpc[Owner] \/ cpc'[Owner] \notin ReadPlaces BY <1>2
<1> QED BY <1>1, <1>4, <1>5, <1>6, <1>7, <1>8, WaitFrame

\* A task that is committed now is none that wait() answers for.
LEMMA CommitWaits ==
  ASSUME HInv, WInv, NEW c \in Committers, Commit(c) \/ Started(c) \/ Push(c)
  PROVE  WInv'
<1>1. c \in Creators /\ c # Owner /\ Owner \in Creators BY HAssumption DEF Creators
<1>2. cpc'[Owner] = cpc[Owner]
  <2>1. \E q : cpc' = [cpc EXCEPT ![c] = q] BY DEF Commit, Started, Push, Need, Go
  <2> QED BY <1>1, <2>1 DEF HInv, HTypes
<1>3. /\ UNCHANGED <<cur_thread_num, idle_thread_num, pc, running, seen, before, churned>>
      /\ cur_thread_num \in Int
  BY DEF Commit, Started, Push, counters, workers, waiting, HInv, HTypes
<1>4. At({"deleted"})' = At({"deleted"}) /\ At(Runs)' = At(Runs) BY <1>3 DEF At
<1>5. CASE Commit(c) \/ Started(c)
  <2>1. UNCHANGED <<tasks, committed, task_mutex>> BY <1>5 DEF Commit, Started, locks
  <2>2. TaskLock' /\ HasTask' BY <1>3, <2>1 DEF WInv, TaskLock, HasTask
  <2> QED BY <1>2, <1>3, <1>4, <2>1, <2>2, WaitFrame
<1>6. CASE Push(c)
  <2>1. PICK t \in Tasks \ committed : tasks' = Append(tasks, t) /\ committed' = committed \cup {t}
    BY <1>6 DEF Push
  <2>2. UNCHANGED task_mutex /\ task_mutex = Free BY <1>6 DEF Push, locks
  <2>3. tasks \in Seq(Tasks) /\ before \subseteq committed
    BY DEF WInv, WTypes
  <2>4. \A u : Queued(u)' => Queued(u) \/ u = t
    <3>1. \A i \in 1 .. Len(tasks') : tasks'[i] = t \/ (i \in 1 .. Len(tasks) /\ tasks'[i] = tasks[i])
      BY <2>1, <2>3
    <3> QED BY <3>1 DEF Queued
  <2>5. WTypes'
    <3>1. tasks' \in Seq(Tasks) BY <2>1, <2>3
    <3> QED BY <1>3, <2>1, <2>3, <3>1 DEF WInv, WTypes
  <2>6. OnlyCommitted' BY <2>1, <2>4 DEF WInv, OnlyCommitted
  <2>7. TaskLock' /\ HasTask' BY <1>3, <2>2 DEF WInv, TaskLock, HasTask, Free, Held
  <2>8. Waiting'
    <3>1. t \notin before BY <2>1, <2>3
    <3>2. Unfinished' <=> Unfinished BY <1>3 DEF Unfinished
    <3> QED BY <1>2, <1>3, <1>4, <2>3, <2>4, <3>1, <3>2 DEF WInv, Waiting
  <2> QED BY <2>5, <2>6, <2>7, <2>8 DEF WInv
<1> QED BY <1>5, <1>6

\* The owner's other calls
LEMMA OwnerWaits ==
  ASSUME HInv, WInv, Start \/ Pause \/ Resume \/ Stop \/ StopJoined
  PROVE  WInv'
<1>1. Owner \in Creators BY DEF Creators
<1>2. /\ UNCHANGED <<tasks, running, waiting, committed, task_mutex>>
      /\ cpc[Owner] \notin ReadPlaces
  BY <1>1 DEF Start, Pause, Resume, Stop, StopJoined, Adding, Idle, workers, locks,
              ReadPlaces, CounterPlaces
<1>3. cpc'[Owner] = cpc[Owner] \/ cpc'[Owner] \notin ReadPlaces
  <2>1. UNCHANGED cpc \/ \E q \in {"start", "idle", "join"} : cpc' = [cpc EXCEPT ![Owner] = q]
    BY DEF Start, Pause, Resume, Stop, StopJoined, Go, creators
  <2> QED BY <1>1, <2>1 DEF HInv, HTypes, ReadPlaces, CounterPlaces
<1>4. \A v \in Threads : pc'[v] = pc[v] \/ (pc'[v] = "none" /\ pc[v] \in {"ended", "retired"})
  <2>1. CASE StopJoined BY <2>1 DEF StopJoined
  <2>2. CASE ~StopJoined BY <2>2 DEF Start, Pause, Resume, Stop, workers
  <2> QED BY <2>1, <2>2
<1>5. TaskLock' /\ HasTask' BY <1>2, <1>4 DEF WInv, TaskLock, HasTask, LockPlaces
<1> QED BY <1>2, <1>3, <1>5, WaitFrame DEF waiting

\* Who runs a task is not idle, and a thread that is not in the list yet is not either.
LEMMA IdleOrBusy ==
  ASSUME HInv, WInv, At({"deleted"}) = {}
  PROVE  /\ idle_thread_num + Cardinality(At(Runs)) <= cur_thread_num
         /\ Unfinished => Cardinality(At(Runs)) > 0
         /\ Cardinality(At(Runs)) \in Nat
<1>1. HTypes /\ Counted BY DEF HInv
<1>2. At({"deleted", "retired"}) = At({"retired"}) BY DEF At
<1>3. Cardinality(Adding({"add"})) <= Cardinality(Adding({"add", "added"}))
  <2>1. Adding({"add"}) \subseteq Adding({"add", "added"}) BY DEF Adding
  <2> QED BY <2>1, CreatorsCounted, FS_Subset
<1>4. /\ Cardinality(Adding({"add"})) \in Nat /\ Cardinality(Adding({"add", "added"})) \in Nat
      /\ {Cardinality(Alive), Cardinality(At({"retired"})), Cardinality(At({"pop", "run"}))} \subseteq Nat
  BY CreatorsCounted, WorkersCounted
<1>5. Unfinished => Cardinality(At({"pop", "run"})) # 0
  <2> SUFFICES ASSUME Unfinished PROVE Cardinality(At({"pop", "run"})) # 0 OBVIOUS
  <2>1. 0 \notin before BY HAssumption DEF WInv, WTypes
  <2>2. PICK w \in Threads : running[w] \in before BY DEF Unfinished
  <2>3. w \in At({"pop", "run"}) BY <2>1, <2>2 DEF WInv, HasTask, At
  <2>4. IsFiniteSet(At({"pop", "run"})) BY HAssumption, FS_Subset DEF At
  <2> QED BY <2>3, <2>4, FS_EmptySet
<1>6. idle_thread_num + Cardinality(At({"pop", "run"})) <= cur_thread_num
  BY <1>1, <1>2, <1>3, <1>4 DEF Counted, HTypes
<1> QED BY <1>4, <1>5, <1>6 DEF Runs

\* The reads of wait()
LEMMA WaitsWaits ==
  ASSUME HInv, WInv, Wait \/ WaitEmpty \/ WaitFirst \/ WaitSecond \/ WaitReturns
  PROVE  WInv'
<1>1. Owner \in Creators /\ \A q : cpc' = [cpc EXCEPT ![Owner] = q] => cpc'[Owner] = q
  BY DEF Creators, HInv, HTypes
<1>2. UNCHANGED <<tasks, running, committed, task_mutex, pc, cur_thread_num, idle_thread_num>>
  BY DEF Wait, WaitEmpty, WaitFirst, WaitSecond, WaitReturns, counters, workers, locks
<1>3. OnlyCommitted' /\ TaskLock' /\ HasTask'
  BY <1>2 DEF WInv, OnlyCommitted, Queued, TaskLock, HasTask
<1>4. (\A t : Queued(t)' <=> Queued(t)) /\ At({"deleted"})' = At({"deleted"})
  BY <1>2 DEF Queued, At
<1>5. WTypes /\ idle_thread_num \in Int /\ cur_thread_num \in Int BY DEF WInv, HInv, HTypes
<1>6. CASE Wait
  <2>1. cpc'[Owner] = "empty?" /\ before' = committed /\ UNCHANGED seen
    BY <1>1, <1>6 DEF Wait, Go
  <2> QED BY <1>2, <1>3, <1>5, <2>1 DEF WInv, WTypes, Waiting, ReadPlaces, CounterPlaces
<1>7. CASE WaitEmpty
  <2>1. /\ cpc'[Owner] = "counters?" /\ tasks = <<>> /\ churned' = (\E w \in Threads : pc[w] = "deleted")
        /\ UNCHANGED <<seen, before>>
    BY <1>1, <1>7 DEF WaitEmpty, Go
  <2>2. \A t : ~Queued(t) BY <2>1 DEF Queued
  <2>3. ~churned' => At({"deleted"}) = {} BY <2>1 DEF At
  <2>4. Waiting' BY <1>4, <2>1, <2>2, <2>3 DEF Waiting, ReadPlaces, CounterPlaces
  <2> QED BY <1>2, <1>3, <1>5, <2>1, <2>4 DEF WInv, WTypes
<1>8. CASE WaitFirst
  <2>1. /\ cpc[Owner] = "counters?" /\ UNCHANGED <<before, churned>>
        /\ \/ cpc'[Owner] = "all?" /\ seen' = idle_thread_num
           \/ cpc'[Owner] = "idle?" /\ seen' = cur_thread_num
    BY <1>1, <1>8 DEF WaitFirst, Go
  <2>2. Unfinished' <=> Unfinished BY <1>2, <2>1 DEF Unfinished
  <2>3. \A t \in before' : ~Queued(t)'
    BY <1>4, <2>1 DEF WInv, Waiting, ReadPlaces, CounterPlaces
  <2>4. ~churned => At({"deleted"}) = {} BY <2>1 DEF WInv, Waiting, CounterPlaces
  <2>5. ~churned => /\ idle_thread_num + Cardinality(At(Runs)) <= cur_thread_num
                    /\ Unfinished => idle_thread_num < cur_thread_num
    BY <1>5, <2>4, IdleOrBusy
  <2>6. At(Runs)' = At(Runs) BY <1>2 DEF At
  <2>7. Waiting' BY <1>2, <1>4, <2>1, <2>2, <2>3, <2>4, <2>5, <2>6 DEF Waiting
  <2> QED BY <1>2, <1>3, <1>5, <2>1, <2>7 DEF WInv, WTypes
<1>9. CASE WaitSecond
  <2>1. /\ cpc[Owner] \in {"all?", "idle?"} /\ seen' = 0 /\ UNCHANGED before
        /\ \/ cpc'[Owner] = "empty?"
           \/ /\ cpc'[Owner] = "waited" /\ UNCHANGED churned
              /\ seen = IF cpc[Owner] = "all?" THEN cur_thread_num ELSE idle_thread_num
    BY <1>1, <1>9 DEF WaitSecond, Go
  <2>2. Unfinished' <=> Unfinished BY <1>2, <2>1 DEF Unfinished
  <2>3. \A t \in before' : ~Queued(t)'
    BY <1>4, <2>1 DEF WInv, Waiting, ReadPlaces, CounterPlaces
  <2>4. cpc'[Owner] = "waited" /\ ~churned => ~Unfinished
    <3> SUFFICES ASSUME cpc'[Owner] = "waited", ~churned PROVE ~Unfinished OBVIOUS
    <3>1. At({"deleted"}) = {} BY <2>1 DEF WInv, Waiting, CounterPlaces
    <3>2. CASE cpc[Owner] = "all?" BY <1>5, <2>1, <3>2 DEF WInv, Waiting
    <3>3. CASE cpc[Owner] = "idle?"
      <4>1. idle_thread_num + Cardinality(At(Runs)) <= seen /\ seen = idle_thread_num
        BY <2>1, <3>3 DEF WInv, Waiting
      <4> QED BY <1>5, <3>1, <4>1, IdleOrBusy
    <3> QED BY <2>1, <3>2, <3>3
  <2>5. Waiting' BY <2>1, <2>2, <2>3, <2>4 DEF Waiting, CounterPlaces
  <2> QED BY <1>2, <1>3, <1>5, <2>1, <2>5 DEF WInv, WTypes
<1>10. CASE WaitReturns
  <2>1. cpc'[Owner] = "idle" /\ before' = {} /\ UNCHANGED seen
    BY <1>1, <1>10 DEF WaitReturns, Go
  <2> QED BY <1>2, <1>3, <1>5, <2>1 DEF WInv, WTypes, Waiting, ReadPlaces, CounterPlaces
<1> QED BY <1>6, <1>7, <1>8, <1>9, <1>10

\* A new pool has no tasks.
LEMMA WaitInitially == Init => WInv
<1> SUFFICES ASSUME Init PROVE WInv OBVIOUS
<1>1. Owner \in Creators BY DEF Creators
<1>2. WTypes /\ OnlyCommitted BY DEF Init, WTypes, OnlyCommitted, Queued
<1>3. TaskLock /\ HasTask BY DEF Init, TaskLock, HasTask, LockPlaces
<1>4. Waiting BY <1>1 DEF Init, Waiting, ReadPlaces, CounterPlaces
<1> QED BY <1>2, <1>3, <1>4 DEF WInv

\* Every step keeps what wait() relies on.
LEMMA WaitInductive == HInv /\ WInv /\ [Next]_vars => WInv'
<1> SUFFICES ASSUME HInv, WInv, [Next]_vars PROVE WInv' OBVIOUS
<1>1. CASE UNCHANGED vars
  <2>1. UNCHANGED <<tasks, running, waiting, committed, task_mutex, pc, cpc, cur_thread_num,
                    idle_thread_num>>
    BY <1>1 DEF vars, counters, locks, workers, creators
  <2>2. TaskLock' /\ HasTask' BY <2>1 DEF WInv, TaskLock, HasTask
  <2>3. At({"deleted"})' = At({"deleted"}) /\ At(Runs)' = At(Runs) BY <2>1 DEF At
  <2>4. cur_thread_num \in Int BY DEF HInv, HTypes
  <2> QED BY <2>1, <2>2, <2>3, <2>4, WaitFrame DEF waiting
<1>2. ASSUME NEW w \in Threads, WorkerStep(w) PROVE WInv'
  BY <1>1, <1>2, WorkerWaits, PopWaits, RunWaits, DelThreadWaits, ScanWaits DEF WorkerStep, Yield
<1>3. ASSUME NEW c \in Committers, Commit(c) \/ Started(c) \/ Push(c) PROVE WInv'
  BY <1>3, CommitWaits
<1>4. ASSUME NEW c \in Creators, Create(c) PROVE WInv' BY <1>4, CreateWaits
<1>5. CASE OwnerStep
  BY <1>1, <1>5, OwnerWaits, WaitsWaits DEF OwnerStep, WaitStep, WaitTurn
<1> QED BY <1>1, <1>2, <1>3, <1>4, <1>5 DEF Next, Crashed

(* When wait() has found the pool idle, every task committed before it was *)
(* called has been run, for any number of threads, committers and tasks    *)
(* and whichever of the counters it reads first: what it reads without a   *)
(* lock is still true, unless a thread gave up while it read them, or was  *)
(* added to the second after it had read the first (wait,                  *)
(* hthreadpool.h:112).                                                     *)
THEOREM HWaitHonest == Spec => []WaitHonest
<1>1. HInv /\ WInv => WaitHonest
  BY DEF WInv, Waiting, WaitHonest, Unfinished, ReadPlaces
<1>2. Init => HInv /\ WInv BY HInitially, WaitInitially
<1>3. (HInv /\ WInv) /\ [Next]_vars => (HInv /\ WInv)' BY HInductive, WaitInductive
<1> QED BY <1>1, <1>2, <1>3, PTL DEF Spec

=============================================================================

-------------------------- MODULE ParallelForProofs --------------------------
(***************************************************************************)
(* Safety of the two parallel loops, for any workers and callers, capacity *)
(* of the queues, ranges, granularities and levels of splitting.           *)
(*                                                                         *)
(* The argument is about what is pending - in the pool or on a stack - and *)
(* not about who has it.  Each part of a fork and join stands for a range  *)
(* of columns; a frame still owns the columns it has not handed out.  Any  *)
(* two parts of a call lie apart or one within what the other has handed   *)
(* out, so no two own the same cell; and a frame that joins has nothing    *)
(* pending within it, for its left part would be on top of it and its      *)
(* right part is finished.  A slice also stands for the notifications that *)
(* its barrier still waits for.                                            *)
(***************************************************************************)
EXTENDS ParallelFor, FiniteSetTheorems, TLAPS

----------------------------------------------------------------------------
(***************************************************************************)
(* The board: what is pending, each task in its place.  A place is a task  *)
(* in the pool or a height in the stack of a thread, counted from below so *)
(* that it stays the same while the thread takes on more; a task in the    *)
(* pool is a frame that has not begun.                                     *)
(***************************************************************************)
Slots(pool, stacks) ==
  {<<"pool", task, 0>> : task \in pool} \cup
  UNION {{<<"stack", t, d>> : d \in 1..Len(stacks[t])} : t \in Threads}

FromBelow(frames, d) == frames[Len(frames) + 1 - d]

Board(pool, stacks) ==
  [s \in Slots(pool, stacks) |->
     IF s[1] = "pool" THEN Frame(s[2]) ELSE FromBelow(stacks[s[2]], s[3])]

Above(s) == <<"stack", s[2], s[3] + 1>>

(***************************************************************************)
(* Frames of a fork and join, the columns they stand for and those among   *)
(* them that are still theirs: all of them, those left of the middle once  *)
(* the right part is handed out, and none while the left part runs.        *)
(***************************************************************************)
Begin(f) == f.task.cols[1]
End(f) == f.task.cols[2]
Middle(f) == ComputeMidpoint(f.task)
OwnEnd(f) == IF f.pc = "run" THEN End(f) ELSE IF f.pc = "forked" THEN Middle(f) ELSE Begin(f)
Owns(f, x) == x \in Grid(f.task.rows, <<Begin(f), OwnEnd(f)>>)

SameCall(f, g) == f.task.call = g.task.call
Joins(f) == f.task.kind # "slice"

InLeft(f, g) == f.pc = "help" /\ Begin(g) >= Begin(f) /\ End(g) <= Middle(f)
InRight(f, g) == f.pc \in {"forked", "help"} /\ Begin(g) >= Middle(f) /\ End(g) <= End(f)
Within(f, g) == InLeft(f, g) \/ InRight(f, g)
Apart(f, g) == End(f) <= Begin(g) \/ End(g) <= Begin(f)

(* A slice stands for as many of the notifications of its barrier as it    *)
(* may still be split into.                                                *)
Parts(f) == f.task.id..(f.task.id + 2^f.task.level - 1)

Tasks == [call : Callers, kind : {"root", "left", "right", "slice"}, id : Int,
          rows : Int \X Int, cols : Int \X Int, level : Nat]

FrameType == [task : Tasks, pc : {"run", "forked", "help"}]

(* What is said of a frame on its own. *)
FrameOK(req, f) ==
  /\ f \in FrameType
  /\ f.task.kind = "slice" <=> req[f.task.call].device
  /\ f.task.kind = "slice" => f.pc = "run"
  /\ Joins(f) => /\ f.task.level > 0 /\ Begin(f) < End(f)
                 /\ f.pc # "run" => (Begin(f) < Middle(f) /\ Middle(f) < End(f))
                 /\ f.task.rows = req[f.task.call].rows
  /\ f.task.kind = "right" => f.task.id = Begin(f)
  /\ f.task.kind = "root" => f.task.cols = req[f.task.call].cols

BoardOK(req, A) ==
  \A s \in DOMAIN A : FrameOK(req, A[s]) /\ (s[1] = "pool" => A[s].pc = "run")

(* Two places of one fork and join. *)
Pair(A, s, r) ==
  /\ s \in DOMAIN A /\ r \in DOMAIN A /\ s # r
  /\ Joins(A[s]) /\ Joins(A[r]) /\ SameCall(A[s], A[r])

(* Two parts of one loop lie apart, or one within what the other has handed *)
(* out.                                                                    *)
Laid(A) ==
  \A s, r \in DOMAIN A : Pair(A, s, r) =>
    Within(A[s], A[r]) \/ Within(A[r], A[s]) \/ Apart(A[s], A[r])

(* A frame works on something of its left part: the left part is on top of *)
(* it, so it is not at its end.                                            *)
LeftOnTop(A) ==
  \A s, r \in DOMAIN A : (Pair(A, s, r) /\ InLeft(A[s], A[r])) =>
    /\ Above(s) \in DOMAIN A /\ Pair(A, s, Above(s))
    /\ Begin(A[Above(s)]) = Begin(A[s]) /\ End(A[Above(s)]) = Middle(A[s])

(* A frame has handed out something that is pending within its right part: *)
(* the right part itself is.                                               *)
RightPending(A) ==
  \A s, r \in DOMAIN A : (Pair(A, s, r) /\ InRight(A[s], A[r])) =>
    \E u \in DOMAIN A : /\ Pair(A, s, u) /\ A[u].task.kind = "right"
                        /\ Begin(A[u]) = Middle(A[s]) /\ End(A[u]) = End(A[s])

(* Right parts are told from each other, and each has a frame that forked  *)
(* it, all of them within the root of the call.                            *)
RightsDiffer(A) ==
  \A s, r \in DOMAIN A :
    (Pair(A, s, r) /\ A[s].task.kind = "right" /\ A[r].task.kind = "right") =>
      A[s].task.id # A[r].task.id

HasParent(A) ==
  \A s \in DOMAIN A : A[s].task.kind = "right" =>
    \E u \in DOMAIN A : /\ Joins(A[u]) /\ SameCall(A[u], A[s]) /\ A[u].pc \in {"forked", "help"}
                        /\ Middle(A[u]) = A[s].task.id

Rooted(A) ==
  \A s \in DOMAIN A : Joins(A[s]) =>
    \E u \in DOMAIN A : /\ A[u].task.kind = "root" /\ SameCall(A[u], A[s])
                        /\ u = s \/ Within(A[u], A[s])

(* What a frame may still fork is not taken for something finished.        *)
Unused(A, F) ==
  \A s \in DOMAIN A : Joins(A[s]) => \A x \in Int : <<A[s].task.call, x>> \in F =>
    /\ ~(Begin(A[s]) < x /\ x < OwnEnd(A[s]))
    /\ A[s].task.kind = "right" => A[s].task.id # x

(* Slices of one loop share neither cells nor notifications.               *)
Sliced(A) ==
  \A s, r \in DOMAIN A :
    (s # r /\ SameCall(A[s], A[r]) /\ ~Joins(A[s]) /\ ~Joins(A[r])) =>
      /\ Parts(A[s]) \cap Parts(A[r]) = {}
      /\ \A x : ~(Owns(A[s], x) /\ Owns(A[r], x))

(* The barrier of a call waits for the root, or for all parts that the     *)
(* slices may still be split into.                                         *)
PartsLeft(A, c) == UNION {Parts(A[s]) : s \in {r \in DOMAIN A : A[r].task.call = c}}
RootLeft(A, c) == \E s \in DOMAIN A : A[s].task.call = c /\ A[s].task.kind = "root"

Counted(req, A, n) ==
  \A c \in Callers :
    IF req[c].device THEN IsFiniteSet(PartsLeft(A, c)) /\ n[c] = Cardinality(PartsLeft(A, c))
                     ELSE n[c] = IF RootLeft(A, c) THEN 1 ELSE 0

(* A cell has been handed to the function when no frame owns it any more.  *)
Owned(A, c, x) == \E s \in DOMAIN A : A[s].task.call = c /\ Owns(A[s], x)

Ran(A, ph, r) ==
  \A c \in Callers : \A x \in DOMAIN r[c] :
    r[c][x] = IF ph[c] = "idle" \/ Owned(A, c, x) THEN 0 ELSE 1

(* Nothing is there of a call that has not begun.                          *)
Fresh(A, F, ph) ==
  \A c \in Callers : ph[c] = "idle" =>
    /\ \A s \in DOMAIN A : A[s].task.call # c
    /\ \A x \in Int : <<c, x>> \notin F

(* A right part that was handed out is pending or finished.                *)
Awaits(A, F) ==
  \A s \in DOMAIN A : A[s].pc # "run" =>
    \/ <<A[s].task.call, Middle(A[s])>> \in F
    \/ \E u \in DOMAIN A : /\ A[u].task.kind = "right" /\ SameCall(A[u], A[s])
                           /\ A[u].task.id = Middle(A[s])

BoardInv(req, A, F) ==
  /\ BoardOK(req, A) /\ Laid(A) /\ LeftOnTop(A) /\ RightPending(A) /\ RightsDiffer(A)
  /\ HasParent(A) /\ Rooted(A) /\ Unused(A, F) /\ Sliced(A)

Whole(req, A, n, F, ph, r) ==
  /\ BoardInv(req, A, F) /\ Awaits(A, F)
  /\ Counted(req, A, n) /\ Ran(A, ph, r) /\ Fresh(A, F, ph)

Stacks == [Threads -> Seq(FrameType)]

(* The values of the variables. *)
TypeInv ==
  /\ request \in Scenarios
  /\ phase \in [Callers -> {"idle", "called", "returned"}]
  /\ count \in [Callers -> Int]
  /\ stack \in Stacks
  /\ DOMAIN ran = Callers
  /\ \A c \in Callers : ran[c] \in [Grid(request[c].rows, request[c].cols) -> Nat]

(* A caller that has not called has nothing on its stack. *)
IdleStacks == \A c \in Callers : phase[c] = "idle" => stack[c] = <<>>

(* The inductive invariant. *)
IInv ==
  /\ TypeInv /\ IdleStacks
  /\ Whole(request, Board(queued, stack), count, finished, phase, ran)

(* A set has twice as many subsets when it gets one more element, *)
(* which says of 2^level what the provers do not know of it.      *)
LEMMA SubsetsOfOneMore ==
  ASSUME NEW A, NEW x, IsFiniteSet(A), x \notin A
  PROVE  Cardinality(SUBSET (A \cup {x})) = Cardinality(SUBSET A) + Cardinality(SUBSET A)
<1> DEFINE Ax == {B \cup {x} : B \in SUBSET A}
<1>1. SUBSET (A \cup {x}) = (SUBSET A) \cup Ax
  <2>1. ASSUME NEW B \in SUBSET (A \cup {x}), x \in B PROVE B \in Ax
    <3>1. B = (B \ {x}) \cup {x} BY <2>1
    <3>2. B \ {x} \in SUBSET A BY <2>1
    <3> QED BY <3>1, <3>2
  <2>2. ASSUME NEW B \in SUBSET (A \cup {x}), x \notin B PROVE B \in SUBSET A
    BY <2>2
  <2>3. ASSUME NEW B \in Ax PROVE B \in SUBSET (A \cup {x})
    BY <2>3
  <2> QED BY <2>1, <2>2, <2>3
<1>2. ExistsBijection(SUBSET A, Ax)
  <2> DEFINE f == [B \in SUBSET A |-> B \cup {x}]
  <2>1. f \in [SUBSET A -> Ax] BY Zenon
  <2>2. ASSUME NEW B \in SUBSET A, NEW C \in SUBSET A, f[B] = f[C] PROVE B = C
    BY <2>2, Zenon
  <2>3. f \in Injection(SUBSET A, Ax) BY <2>1, <2>2, Zenon DEF Injection, IsInjective
  <2>4. f \in Surjection(SUBSET A, Ax) BY <2>1, Zenon DEF Surjection
  <2> QED BY <2>3, <2>4, Zenon DEF Bijection, ExistsBijection
<1>3. IsFiniteSet(SUBSET A) BY FS_SUBSET
<1>4. IsFiniteSet(Ax) /\ Cardinality(Ax) = Cardinality(SUBSET A)
  BY <1>2, <1>3, FS_Bijection
<1>5. (SUBSET A) \cap Ax = {} OBVIOUS
<1>6. Cardinality((SUBSET A) \cup Ax) =
        Cardinality(SUBSET A) + Cardinality(Ax) - Cardinality((SUBSET A) \cap Ax)
  BY <1>3, <1>4, FS_Union
<1>7. Cardinality((SUBSET A) \cap Ax) = 0 BY <1>5, FS_EmptySet, Zenon
<1>8. Cardinality(SUBSET A) \in Nat BY <1>3, FS_CardinalityType
<1>9. Cardinality((SUBSET A) \cup Ax) = Cardinality(SUBSET A) + Cardinality(SUBSET A)
  <2> HIDE DEF Ax
  <2> QED BY <1>4, <1>6, <1>7, <1>8
<1> QED BY <1>1, <1>9, Zenon

(* 1 << level, by what it is for one more level. *)
LEMMA PowerOfTwo ==
  /\ 2^0 = 1
  /\ \A n \in Nat : 2^n \in Nat \ {0} /\ 2^(n + 1) = 2^n + 2^n
<1>1. ASSUME NEW n \in Nat
      PROVE IsFiniteSet(1..n) /\ Cardinality(1..n) = n
  BY FS_Interval
<1>2. ASSUME NEW n \in Nat
      PROVE Cardinality(SUBSET (1..n)) = 2^n
  <2>1. Cardinality(SUBSET (1..n)) = 2^Cardinality(1..n) BY <1>1, FS_SUBSET
  <2> QED BY <2>1, <1>1
<1>3. 2^0 = 1 OBVIOUS
<1>4. ASSUME NEW n \in Nat PROVE 2^(n + 1) = 2^n + 2^n
  <2>1. 1..(n + 1) = (1..n) \cup {n + 1} OBVIOUS
  <2>2. n + 1 \notin 1..n OBVIOUS
  <2>3. Cardinality(SUBSET (1..(n + 1))) = Cardinality(SUBSET (1..n)) + Cardinality(SUBSET (1..n))
    BY <2>1, <2>2, <1>1, SubsetsOfOneMore
  <2>4. Cardinality(SUBSET (1..(n + 1))) = 2^(n + 1) BY <1>2, n + 1 \in Nat
  <2> QED BY <2>3, <2>4, <1>2
<1>5. ASSUME NEW n \in Nat PROVE 2^n \in Nat \ {0}
  <2>1. IsFiniteSet(SUBSET (1..n)) BY <1>1, FS_SUBSET
  <2>2. Cardinality(SUBSET (1..n)) \in Nat BY <2>1, FS_CardinalityType
  <2>3. SUBSET (1..n) # {} OBVIOUS
  <2>4. Cardinality(SUBSET (1..n)) # 0 BY <2>1, <2>3, FS_EmptySet
  <2> QED BY <2>2, <2>4, <1>2
<1> QED BY <1>3, <1>4, <1>5

(***************************************************************************)
(* The middle of a part, and what a frame owns, as integers.               *)
(***************************************************************************)
LEMMA RoundDown ==
  ASSUME NEW n \in Nat, NEW k \in Nat \ {0}
  PROVE  k * (n \div k) \in Nat /\ k * (n \div k) <= n
<1>1. n \div k \in Nat OBVIOUS
<1>2. n % k \in 0..(k - 1) OBVIOUS
<1>3. n = k * (n \div k) + (n % k) OBVIOUS
<1>4. k * (n \div k) \in Nat BY <1>1
<1> QED BY <1>2, <1>3, <1>4

LEMMA MiddleBounds ==
  ASSUME NEW task \in Tasks, task.level > 0, task.cols[1] < task.cols[2]
  PROVE  /\ ComputeMidpoint(task) \in Int
         /\ task.cols[1] <= ComputeMidpoint(task) /\ ComputeMidpoint(task) <= task.cols[2]
<1> DEFINE n == (9 * (task.cols[2] - task.cols[1] + 1)) \div 16
<1>1. task.level \in Nat \ {0} /\ task.cols[1] \in Int /\ task.cols[2] \in Int
  BY DEF Tasks
<1>2. n \in Nat /\ n <= task.cols[2] - task.cols[1] BY <1>1
<1>3. ComputeMidpoint(task) = task.cols[1] + task.level * (n \div task.level)
  BY DEF ComputeMidpoint
<1> HIDE DEF n
<1>4. task.level * (n \div task.level) \in Nat /\ task.level * (n \div task.level) <= n
  BY <1>1, <1>2, RoundDown
<1> DEFINE off == task.level * (n \div task.level)
<1>5. off \in Nat /\ off <= n /\ ComputeMidpoint(task) = task.cols[1] + off
  BY <1>3, <1>4
<1> HIDE DEF off
<1> QED BY <1>1, <1>2, <1>5

LEMMA FrameFacts ==
  ASSUME NEW req, NEW f, FrameOK(req, f), Joins(f)
  PROVE  /\ Begin(f) \in Int /\ End(f) \in Int /\ Middle(f) \in Int
         /\ Begin(f) < End(f) /\ Begin(f) <= Middle(f) /\ Middle(f) <= End(f)
         /\ f.pc # "run" => Begin(f) < Middle(f) /\ Middle(f) < End(f)
         /\ f.pc \in {"run", "forked", "help"}
         /\ f.pc = "run" => OwnEnd(f) = End(f)
         /\ f.pc = "forked" => OwnEnd(f) = Middle(f)
         /\ f.pc = "help" => OwnEnd(f) = Begin(f)
<1>1. f.task \in Tasks /\ f.pc \in {"run", "forked", "help"} BY DEF FrameOK, FrameType
<1>2. f.task.level > 0 /\ Begin(f) < End(f)
  BY DEF FrameOK
<1>3. Begin(f) \in Int /\ End(f) \in Int BY <1>1 DEF Tasks, Begin, End
<1>4. /\ Middle(f) \in Int /\ Begin(f) <= Middle(f) /\ Middle(f) <= End(f)
  BY <1>1, <1>2, MiddleBounds DEF Middle, Begin, End
<1>5. f.pc # "run" => Begin(f) < Middle(f) /\ Middle(f) < End(f) BY DEF FrameOK
<1> QED BY <1>1, <1>2, <1>3, <1>4, <1>5 DEF OwnEnd

(* A part of a frame that has not begun, or of the left of one that has    *)
(* forked, lies as that frame does relative to any other.                  *)
LEMMA Narrower ==
  ASSUME NEW req, NEW f, NEW g, NEW h,
         FrameOK(req, f), FrameOK(req, g), Joins(f), Joins(g),
         Begin(h) \in Int, End(h) \in Int,
         Begin(f) <= Begin(h), Begin(h) < End(h), End(h) <= End(f),
         f.pc = "run" \/ (f.pc = "forked" /\ End(h) <= Middle(f)),
         Within(f, g) \/ Within(g, f) \/ Apart(f, g)
  PROVE  /\ Within(g, h) \/ Apart(h, g)
         /\ InLeft(g, h) => InLeft(g, f)
         /\ InRight(g, h) => InRight(g, f)
         /\ Within(g, f) => Within(g, h)
<1>1. /\ Begin(f) \in Int /\ End(f) \in Int /\ Middle(f) \in Int /\ Begin(f) < End(f)
      /\ f.pc # "run" => Begin(f) < Middle(f) /\ Middle(f) < End(f)
  BY FrameFacts
<1>2. /\ Begin(g) \in Int /\ End(g) \in Int /\ Middle(g) \in Int /\ Begin(g) < End(g)
      /\ g.pc # "run" => Begin(g) < Middle(g) /\ Middle(g) < End(g)
      /\ g.pc \in {"run", "forked", "help"}
  BY FrameFacts
<1>3. Within(f, g) => Begin(g) >= Middle(f) /\ f.pc = "forked"
  BY DEF Within, InLeft, InRight
<1>4. CASE Within(f, g)
  <2>1. Begin(g) >= Middle(f) /\ End(h) <= Middle(f) BY <1>3, <1>4
  <2>2. Apart(h, g) BY <2>1, <1>1, <1>2 DEF Apart
  <2>3. ~Within(g, h) /\ ~Within(g, f)
    BY <2>1, <1>1, <1>2, <1>3, <1>4 DEF Within, InLeft, InRight
  <2> QED BY <2>2, <2>3 DEF Within
<1>5. CASE Within(g, f)
  <2>1. (InLeft(g, f) => InLeft(g, h)) /\ (InRight(g, f) => InRight(g, h))
    BY <1>1, <1>2 DEF InLeft, InRight
  <2>2. InLeft(g, h) => InLeft(g, f)
    BY <1>1, <1>2, <1>5 DEF Within, InLeft, InRight
  <2>3. InRight(g, h) => InRight(g, f)
    BY <1>1, <1>2, <1>5 DEF Within, InLeft, InRight
  <2> QED BY <1>5, <2>1, <2>2, <2>3 DEF Within
<1>6. CASE Apart(f, g)
  <2>1. Apart(h, g) BY <1>1, <1>6, <1>2 DEF Apart
  <2>2. ~Within(g, h) /\ ~Within(g, f)
    BY <1>1, <1>2, <1>6 DEF Within, InLeft, InRight, Apart
  <2> QED BY <2>1, <2>2 DEF Within
<1> QED BY <1>4, <1>5, <1>6

(* A frame becomes g and leaves h in a new place. *)
Grown(A, B, s, n, g, h) ==
  /\ s \in DOMAIN A /\ n \notin DOMAIN A
  /\ DOMAIN B = DOMAIN A \cup {n}
  /\ \A r \in DOMAIN A \ {s} : B[r] = A[r]
  /\ B[s] = g /\ B[n] = h

(***************************************************************************)
(* What a step of ForkJoin does to the board: a frame f becomes g, and h   *)
(* is its right part, in the pool or on top of it, or its left part, on    *)
(* top of it.                                                              *)
(***************************************************************************)
HandsOut(f, g, h) ==
  /\ Joins(g) /\ Joins(h) /\ SameCall(f, g) /\ SameCall(f, h) /\ g.task = f.task
  /\ Begin(g) = Begin(f) /\ End(g) = End(f) /\ Middle(g) = Middle(f)
  /\ Begin(f) < Middle(f) /\ Middle(f) < End(f) /\ h.pc = "run"
  /\ \/ /\ f.pc = "run" /\ g.pc = "forked" /\ Begin(h) = Middle(f) /\ End(h) = End(f)
        /\ h.task.kind = "right" /\ h.task.id = Middle(f)
     \/ /\ f.pc = "forked" /\ g.pc = "help" /\ Begin(h) = Begin(f) /\ End(h) = Middle(f)
        /\ h.task.kind = "left"

LEMMA GrownPairs ==
  ASSUME NEW A, NEW B, NEW s, NEW n, NEW f, NEW g, NEW h,
         Grown(A, B, s, n, g, h), f = A[s], HandsOut(f, g, h), Joins(f)
  PROVE  /\ \A q, r \in DOMAIN A : Pair(A, q, r) <=> Pair(B, q, r)
         /\ \A r \in DOMAIN A \ {s} : Pair(B, n, r) => Pair(A, s, r)
         /\ \A r \in DOMAIN A \ {s} : Pair(B, r, n) => Pair(A, s, r)
         /\ Pair(B, s, n) /\ Pair(B, n, s)
         /\ \A q, r : Pair(B, q, r) => Pair(B, r, q)
<1>1. \A q \in DOMAIN A : (Joins(B[q]) <=> Joins(A[q])) /\ B[q].task.call = A[q].task.call
  BY DEF Grown, HandsOut
<1>2. \A q, r \in DOMAIN A : Pair(A, q, r) <=> Pair(B, q, r)
  BY <1>1 DEF Pair, Grown, SameCall
<1>3. s # n /\ n \in DOMAIN B /\ s \in DOMAIN B /\ B[n] = h /\ B[s] = g BY DEF Grown
<1>4. h.task.call = A[s].task.call /\ g.task.call = A[s].task.call /\ Joins(h) /\ Joins(g)
  BY DEF HandsOut, SameCall
<1>5. ASSUME NEW r \in DOMAIN A \ {s}, Pair(B, n, r) \/ Pair(B, r, n) PROVE Pair(A, s, r)
  BY <1>1, <1>3, <1>4, <1>5 DEF Pair, SameCall, Grown
<1>6. Pair(B, s, n) /\ Pair(B, n, s) BY <1>3, <1>4 DEF Pair, SameCall
<1>7. \A q, r : Pair(B, q, r) => Pair(B, r, q) BY DEF Pair, SameCall
<1> QED BY <1>2, <1>5, <1>6, <1>7

LEMMA GrownLaid ==
  ASSUME NEW req, NEW A, NEW B, NEW s, NEW n, NEW f, NEW g, NEW h,
         BoardOK(req, A), Laid(A), Joins(f), f = A[s],
         Grown(A, B, s, n, g, h), HandsOut(f, g, h)
  PROVE  \A r \in DOMAIN A \ {s} : Pair(A, s, r) =>
           /\ Within(A[r], h) \/ Apart(h, A[r])
           /\ InLeft(A[r], h) => InLeft(A[r], f)
           /\ InRight(A[r], h) => InRight(A[r], f)
           /\ Within(A[r], f) => Within(A[r], h)
<1>1. SUFFICES ASSUME NEW r \in DOMAIN A \ {s}, Pair(A, s, r)
               PROVE /\ Within(A[r], h) \/ Apart(h, A[r])
                     /\ InLeft(A[r], h) => InLeft(A[r], f)
                     /\ InRight(A[r], h) => InRight(A[r], f)
                     /\ Within(A[r], f) => Within(A[r], h)
  BY Zenon
<1>2. FrameOK(req, f) /\ FrameOK(req, A[r]) /\ Joins(A[r])
  BY <1>1, Zenon DEF BoardOK, Pair, Grown
<1>3. Within(f, A[r]) \/ Within(A[r], f) \/ Apart(f, A[r])
  BY <1>1 DEF Laid, Pair
<1>5. /\ Begin(f) \in Int /\ End(f) \in Int /\ Middle(f) \in Int BY <1>2, FrameFacts
<1>6. /\ Begin(h) \in Int /\ End(h) \in Int
      /\ Begin(f) <= Begin(h) /\ Begin(h) < End(h) /\ End(h) <= End(f)
      /\ f.pc = "run" \/ (f.pc = "forked" /\ End(h) <= Middle(f))
  BY <1>5 DEF HandsOut
<1> DEFINE o == A[r]
<1> HIDE DEF o
<1>4. /\ Within(o, h) \/ Apart(h, o)
      /\ InLeft(o, h) => InLeft(o, f)
      /\ InRight(o, h) => InRight(o, f)
      /\ Within(o, f) => Within(o, h)
  BY <1>2, <1>3, <1>6, Narrower, Zenon DEF o
<1> QED BY <1>4 DEF o

LEMMA GrownInv ==
  ASSUME NEW req, NEW F, NEW A, NEW B, NEW s, NEW n, NEW f, NEW g, NEW h,
         BoardInv(req, A, F), f = A[s], Joins(f), HandsOut(f, g, h),
         FrameOK(req, g), FrameOK(req, h),
         Grown(A, B, s, n, g, h), s[1] = "stack", g.pc = "help" => n = Above(s)
  PROVE  BoardInv(req, B, F)
<1>1. FrameOK(req, f) /\ s \in DOMAIN A BY DEF BoardInv, BoardOK, Grown
<1>2. /\ FrameOK(req, g) /\ FrameOK(req, h) /\ Joins(g) /\ Joins(h)
      /\ SameCall(f, g) /\ SameCall(f, h) /\ g.task = f.task /\ g.pc \in {"forked", "help"}
      /\ Begin(g) = Begin(f) /\ End(g) = End(f) /\ Middle(g) = Middle(f)
      /\ h.pc = "run" /\ Begin(f) < Middle(f) /\ Middle(f) < End(f)
  BY DEF HandsOut
<1>3. Begin(f) \in Int /\ End(f) \in Int /\ Middle(f) \in Int /\ Begin(f) < End(f)
  BY <1>1, FrameFacts
<1>4. \/ /\ f.pc = "run" /\ g.pc = "forked" /\ Begin(h) = Middle(f) /\ End(h) = End(f)
         /\ h.task.kind = "right" /\ h.task.id = Middle(f)
      \/ /\ f.pc = "forked" /\ g.pc = "help" /\ Begin(h) = Begin(f) /\ End(h) = Middle(f)
         /\ h.task.kind = "left"
  BY DEF HandsOut
<1>5. /\ \A q, r \in DOMAIN A : Pair(A, q, r) <=> Pair(B, q, r)
      /\ \A r \in DOMAIN A \ {s} : Pair(B, n, r) => Pair(A, s, r)
      /\ \A r \in DOMAIN A \ {s} : Pair(B, r, n) => Pair(A, s, r)
      /\ Pair(B, s, n) /\ Pair(B, n, s)
      /\ \A q, r : Pair(B, q, r) => Pair(B, r, q)
  BY GrownPairs
<1>6. BoardOK(req, A) /\ Laid(A) BY DEF BoardInv
<1>7. \A r \in DOMAIN A \ {s} : Pair(A, s, r) =>
        /\ Within(A[r], h) \/ Apart(h, A[r])
        /\ InLeft(A[r], h) => InLeft(A[r], f)
        /\ InRight(A[r], h) => InRight(A[r], f)
        /\ Within(A[r], f) => Within(A[r], h)
  BY <1>6, GrownLaid
<1>8. /\ s \in DOMAIN A /\ n \notin DOMAIN A /\ DOMAIN B = DOMAIN A \cup {n}
      /\ \A r \in DOMAIN A \ {s} : B[r] = A[r]
      /\ B[s] = g /\ B[n] = h
  BY DEF Grown
<1>9. \A q, r : Pair(B, q, r) => q \in DOMAIN B /\ r \in DOMAIN B /\ q # r BY DEF Pair
<1>10. \A o : /\ InLeft(o, g) <=> InLeft(o, f)
              /\ InRight(o, g) <=> InRight(o, f)
              /\ Within(o, g) <=> Within(o, f)
              /\ Apart(g, o) <=> Apart(f, o)
              /\ Within(f, o) => Within(g, o)
              /\ ~InLeft(f, o)
              /\ InRight(f, o) => InRight(g, o) /\ f.pc = "forked"
  BY <1>2, <1>4 DEF InLeft, InRight, Within, Apart
<1>11. \A o, p : Apart(o, p) => Apart(p, o) BY DEF Apart
<1>12. Within(g, h) BY <1>2, <1>3, <1>4 DEF InLeft, InRight, Within
<1>13. BoardOK(req, B) BY <1>2, <1>6, <1>8 DEF BoardOK
<1>14. Laid(B)
  <2>1. SUFFICES ASSUME NEW q \in DOMAIN B, NEW r \in DOMAIN B, Pair(B, q, r)
                 PROVE Within(B[q], B[r]) \/ Within(B[r], B[q]) \/ Apart(B[q], B[r])
    BY Zenon DEF Laid
  <2>2. ASSUME NEW p \in DOMAIN A \ {s}, Pair(A, s, p)
        PROVE /\ Within(g, A[p]) \/ Within(A[p], g) \/ Apart(g, A[p])
              /\ Within(A[p], h) \/ Apart(h, A[p])
    <3>1. Within(f, A[p]) \/ Within(A[p], f) \/ Apart(f, A[p])
      BY <1>6, <1>8, <2>2, Zenon DEF Laid
    <3> QED BY <3>1, <2>2, <1>7, <1>10, Zenon
  <2>3. CASE q \in DOMAIN A \ {s} /\ r \in DOMAIN A \ {s}
    BY <2>1, <2>3, <1>5, <1>6, <1>8 DEF Laid
  <2>4. CASE q = s /\ r \in DOMAIN A \ {s}
    BY <2>1, <2>2, <2>4, <1>5, <1>8, Zenon
  <2>5. CASE r = s /\ q \in DOMAIN A \ {s}
    BY <2>1, <2>2, <2>5, <1>5, <1>8, <1>11, Zenon
  <2>6. CASE q = n /\ r \in DOMAIN A \ {s}
    BY <2>1, <2>2, <2>6, <1>5, <1>8, Zenon
  <2>7. CASE r = n /\ q \in DOMAIN A \ {s}
    BY <2>1, <2>2, <2>7, <1>5, <1>8, <1>11, Zenon
  <2>8. CASE (q = s /\ r = n) \/ (q = n /\ r = s)
    BY <2>8, <1>8, <1>12
  <2> QED BY <2>1, <2>3, <2>4, <2>5, <2>6, <2>7, <2>8, <1>8, <1>9
<1>15. LeftOnTop(B)
  <2>1. SUFFICES ASSUME NEW q \in DOMAIN B, NEW r \in DOMAIN B, Pair(B, q, r), InLeft(B[q], B[r])
                 PROVE /\ Above(q) \in DOMAIN B /\ Pair(B, q, Above(q))
                       /\ Begin(B[Above(q)]) = Begin(B[q]) /\ End(B[Above(q)]) = Middle(B[q])
    BY Zenon DEF LeftOnTop
  <2>0. CASE q = s
    <3>1. g.pc = "help" BY <2>0, <2>1, <1>8 DEF InLeft
    <3>2. n = Above(s) /\ Begin(h) = Begin(f) /\ End(h) = Middle(f) BY <3>1, <1>4
    <3> QED BY <2>0, <3>2, <1>2, <1>5, <1>8
  <2> SUFFICES ASSUME q # s PROVE /\ Above(q) \in DOMAIN B /\ Pair(B, q, Above(q))
                                  /\ Begin(B[Above(q)]) = Begin(B[q]) /\ End(B[Above(q)]) = Middle(B[q])
    BY <2>0
  <2>2. q \in DOMAIN A \ {s} /\ B[q] = A[q] BY <2>1, <1>2, <1>8 DEF InLeft
  <2>3. PICK p \in DOMAIN A : Pair(A, q, p) /\ InLeft(A[q], A[p])
    <3>1. CASE r \in DOMAIN A \ {s}
      BY <3>1, <2>1, <2>2, <1>5, <1>8, Zenon
    <3>2. CASE r = s
      BY <3>2, <2>1, <2>2, <1>5, <1>8, <1>10, Zenon
    <3>3. CASE r = n
      <4>1. Pair(A, s, q) BY <3>3, <2>1, <2>2, <1>5
      <4>2. Pair(A, q, s) BY <4>1 DEF Pair, SameCall
      <4> QED BY <3>3, <4>1, <4>2, <2>1, <2>2, <1>7, <1>8, Zenon
    <3> QED BY <3>1, <3>2, <3>3, <1>8
  <2>4. /\ Above(q) \in DOMAIN A /\ Pair(A, q, Above(q))
        /\ Begin(A[Above(q)]) = Begin(A[q]) /\ End(A[Above(q)]) = Middle(A[q])
    BY <2>3, <2>2, Zenon DEF BoardInv, LeftOnTop
  <2>5. Begin(B[Above(q)]) = Begin(A[Above(q)]) /\ End(B[Above(q)]) = End(A[Above(q)])
    BY <2>4, <1>2, <1>8
  <2> QED BY <2>2, <2>4, <2>5, <1>5, <1>8
<1>16. RightPending(B)
  <2>1. SUFFICES ASSUME NEW q \in DOMAIN B, NEW r \in DOMAIN B, Pair(B, q, r), InRight(B[q], B[r])
                 PROVE \E u \in DOMAIN B : /\ Pair(B, q, u) /\ B[u].task.kind = "right"
                                           /\ Begin(B[u]) = Middle(B[q]) /\ End(B[u]) = End(B[q])
    BY Zenon DEF RightPending
  <2>2. CASE q = s
    <3>1. CASE f.pc = "run"
      BY <3>1, <2>2, <1>2, <1>4, <1>5, <1>8
    <3>2. CASE f.pc = "forked"
      <4>1. r # n
        BY <3>2, <2>1, <2>2, <1>2, <1>3, <1>4, <1>8 DEF InRight
      <4>2. r \in DOMAIN A \ {s} /\ Pair(A, s, r) BY <4>1, <2>1, <2>2, <1>5, <1>8, <1>9
      <4>3. InRight(f, A[r])
        BY <4>2, <3>2, <2>1, <2>2, <1>2, <1>8 DEF InRight
      <4>4. PICK u \in DOMAIN A : /\ Pair(A, s, u) /\ A[u].task.kind = "right"
                                  /\ Begin(A[u]) = Middle(A[s]) /\ End(A[u]) = End(A[s])
        BY <4>2, <4>3, <1>8, Zenon DEF BoardInv, RightPending
      <4>5. u # s /\ B[u] = A[u] BY <4>4, <1>8 DEF Pair
      <4> QED BY <4>4, <4>5, <2>2, <1>2, <1>5, <1>8
    <3> QED BY <3>1, <3>2, <1>4
  <2>3. CASE q \in DOMAIN A \ {s}
    <3>1. B[q] = A[q] BY <2>3, <1>8
    <3>2. PICK p \in DOMAIN A : Pair(A, q, p) /\ InRight(A[q], A[p])
      <4>1. CASE r \in DOMAIN A \ {s}
        BY <4>1, <2>1, <2>3, <3>1, <1>5, <1>8, Zenon
      <4>2. CASE r = s
        BY <4>2, <2>1, <2>3, <3>1, <1>5, <1>8, <1>10, Zenon
      <4>3. CASE r = n
        <5>1. Pair(A, s, q) BY <4>3, <2>1, <2>3, <1>5
        <5>2. Pair(A, q, s) BY <5>1 DEF Pair, SameCall
        <5> QED BY <4>3, <5>1, <5>2, <2>1, <2>3, <3>1, <1>7, <1>8, Zenon
      <4> QED BY <4>1, <4>2, <4>3, <1>8
    <3>3. PICK u \in DOMAIN A : /\ Pair(A, q, u) /\ A[u].task.kind = "right"
                                /\ Begin(A[u]) = Middle(A[q]) /\ End(A[u]) = End(A[q])
      BY <3>2, <2>3, Zenon DEF BoardInv, RightPending
    <3>4. Begin(B[u]) = Begin(A[u]) /\ End(B[u]) = End(A[u]) /\ B[u].task.kind = A[u].task.kind
      BY <1>2, <1>8
    <3> QED BY <3>1, <3>3, <3>4, <2>3, <1>5, <1>8
  <2>4. q # n BY <2>1, <1>2, <1>8 DEF InRight
  <2> QED BY <2>2, <2>3, <2>4, <1>8
<1>17. RightsDiffer(B)
  <2>1. \A r \in DOMAIN A : B[r].task = A[r].task BY <1>2, <1>8
  <2>2. ASSUME NEW r \in DOMAIN A, Pair(B, n, r), A[r].task.kind = "right", h.task.kind = "right"
        PROVE A[r].task.id # h.task.id
    <3>0. h.task.id = Middle(f) /\ f.pc = "run" BY <2>2, <1>4
    <3>1. FrameOK(req, A[r]) BY <1>6 DEF BoardOK
    <3>2. A[r].task.id = Begin(A[r]) BY <2>2, <3>1 DEF FrameOK
    <3>3. CASE r = s BY <3>0, <3>2, <3>3, <1>2, <1>3
    <3>4. CASE r # s
      <4>1. Pair(A, s, r) BY <3>4, <2>2, <1>5
      <4>2. Within(A[r], f) \/ Apart(f, A[r]) BY <3>0, <4>1, <1>6, <1>8, <1>10 DEF Laid, Within
      <4>3. /\ Begin(A[r]) \in Int /\ End(A[r]) \in Int /\ Middle(A[r]) \in Int
            /\ Begin(A[r]) < End(A[r]) /\ Begin(A[r]) <= Middle(A[r])
        BY <3>1, <4>1, FrameFacts DEF Pair
      <4> DEFINE o == A[r]
      <4>5. /\ Begin(o) \in Int /\ End(o) \in Int /\ Middle(o) \in Int
            /\ Begin(o) < End(o) /\ Begin(o) <= Middle(o)
            /\ Within(o, f) \/ Apart(f, o)
        BY <4>2, <4>3
      <4>6. A[r].task.id = Begin(o) BY <3>2
      <4> HIDE DEF o
      <4>7. Begin(o) # Middle(f) BY <4>5, <1>2, <1>3 DEF Within, InLeft, InRight, Apart
      <4> QED BY <3>0, <4>6, <4>7
    <3> QED BY <3>3, <3>4
  <2>3. SUFFICES ASSUME NEW q \in DOMAIN B, NEW r \in DOMAIN B, Pair(B, q, r),
                        B[q].task.kind = "right", B[r].task.kind = "right"
                 PROVE B[q].task.id # B[r].task.id
    BY Zenon DEF RightsDiffer
  <2>4. CASE q \in DOMAIN A /\ r \in DOMAIN A
    BY <2>1, <2>3, <2>4, <1>5 DEF BoardInv, RightsDiffer
  <2>5. CASE q = n /\ r \in DOMAIN A
    BY <2>1, <2>2, <2>3, <2>5, <1>2, <1>8
  <2>6. CASE r = n /\ q \in DOMAIN A
    BY <2>1, <2>2, <2>3, <2>6, <1>2, <1>5, <1>8
  <2> QED BY <2>3, <2>4, <2>5, <2>6, <1>8, <1>9
<1>18. HasParent(B)
  <2>1. SUFFICES ASSUME NEW r \in DOMAIN B, B[r].task.kind = "right"
                 PROVE \E u \in DOMAIN B : /\ Joins(B[u]) /\ SameCall(B[u], B[r])
                                           /\ B[u].pc \in {"forked", "help"}
                                           /\ Middle(B[u]) = B[r].task.id
    BY Zenon DEF HasParent
  <2>2. CASE r = n BY <2>1, <2>2, <1>2, <1>4, <1>8 DEF SameCall
  <2>3. CASE r \in DOMAIN A
    <3>1. B[r].task = A[r].task BY <2>3, <1>2, <1>8
    <3>2. PICK u \in DOMAIN A : /\ Joins(A[u]) /\ SameCall(A[u], A[r])
                                /\ A[u].pc \in {"forked", "help"}
                                /\ Middle(A[u]) = A[r].task.id
      BY <2>1, <2>3, <3>1 DEF BoardInv, HasParent
    <3>4. /\ Joins(B[u]) /\ B[u].task.call = A[u].task.call
          /\ B[u].pc \in {"forked", "help"} /\ Middle(B[u]) = Middle(A[u])
      BY <3>2, <1>2, <1>8 DEF SameCall
    <3> QED BY <3>1, <3>2, <3>4, <1>8 DEF SameCall
  <2> QED BY <2>2, <2>3, <1>8
<1>19. Rooted(B)
  <2>1. SUFFICES ASSUME NEW r \in DOMAIN B, Joins(B[r])
                 PROVE \E u \in DOMAIN B : /\ B[u].task.kind = "root" /\ SameCall(B[u], B[r])
                                           /\ u = r \/ Within(B[u], B[r])
    BY Zenon DEF Rooted
  <2>2. ASSUME NEW p \in DOMAIN A, Joins(A[p])
        PROVE \E u \in DOMAIN A : /\ A[u].task.kind = "root" /\ SameCall(A[u], A[p])
                                  /\ u = p \/ Within(A[u], A[p])
    BY <2>2, Zenon DEF BoardInv, Rooted
  <2>3. PICK us \in DOMAIN A : /\ A[us].task.kind = "root" /\ SameCall(A[us], f)
                               /\ us = s \/ Within(A[us], f)
    BY <2>2, <1>8
  <2>4. CASE r = n
    <3>1. CASE us = s
      BY <3>1, <2>3, <2>4, <1>2, <1>8, <1>12 DEF SameCall
    <3>2. CASE us # s
      <4>1. Pair(A, s, us) BY <3>2, <2>3, <1>8 DEF Pair, Joins, SameCall
      <4>2. Within(A[us], h) BY <4>1, <3>2, <2>3, <1>7
      <4>3. B[us] = A[us] /\ us \in DOMAIN B BY <3>2, <1>8
      <4> QED BY <4>2, <4>3, <2>3, <2>4, <1>2, <1>8 DEF SameCall
    <3> QED BY <3>1, <3>2
  <2>5. CASE r = s
    <3>1. CASE us = s
      BY <3>1, <2>3, <2>5, <1>2, <1>8 DEF SameCall
    <3>2. CASE us # s
      <4>1. B[us] = A[us] /\ us \in DOMAIN B BY <3>2, <1>8
      <4>2. Within(A[us], g) BY <3>2, <2>3, <1>10
      <4> QED BY <4>1, <4>2, <2>3, <2>5, <1>2, <1>8 DEF SameCall
    <3> QED BY <3>1, <3>2
  <2>6. CASE r \in DOMAIN A \ {s}
    <3>1. B[r] = A[r] BY <2>6, <1>8
    <3>2. PICK u \in DOMAIN A : /\ A[u].task.kind = "root" /\ SameCall(A[u], A[r])
                                /\ u = r \/ Within(A[u], A[r])
      BY <2>1, <2>2, <2>6, <3>1
    <3>3. CASE u = s BY <3>1, <3>2, <3>3, <2>6, <1>2, <1>8, <1>10 DEF SameCall
    <3>4. CASE u # s
      <4>1. B[u] = A[u] /\ u \in DOMAIN B BY <3>4, <1>8
      <4> QED BY <3>1, <3>2, <4>1
    <3> QED BY <3>3, <3>4
  <2> QED BY <2>4, <2>5, <2>6, <1>8
<1>20. Unused(B, F)
  <2>1. SUFFICES ASSUME NEW r \in DOMAIN B, Joins(B[r]), NEW x \in Int, <<B[r].task.call, x>> \in F
                 PROVE /\ ~(Begin(B[r]) < x /\ x < OwnEnd(B[r]))
                       /\ B[r].task.kind = "right" => B[r].task.id # x
    BY Zenon DEF Unused
  <2>2. ASSUME NEW p \in DOMAIN A, Joins(A[p]), <<A[p].task.call, x>> \in F
        PROVE /\ ~(Begin(A[p]) < x /\ x < OwnEnd(A[p]))
              /\ A[p].task.kind = "right" => A[p].task.id # x
    BY <2>2, Zenon DEF BoardInv, Unused
  <2>3. /\ OwnEnd(g) <= OwnEnd(f) /\ OwnEnd(h) = End(h) /\ End(h) <= OwnEnd(f)
        /\ OwnEnd(f) \in Int /\ OwnEnd(g) \in Int
        /\ f.pc = "run" => OwnEnd(f) = End(f)
    BY <1>2, <1>3, <1>4 DEF OwnEnd
  <2>4. CASE r \in DOMAIN A \ {s} BY <2>1, <2>2, <2>4, <1>8
  <2>5. CASE r = s \/ r = n
    <3>1. <<f.task.call, x>> \in F BY <2>1, <2>5, <1>2, <1>8 DEF SameCall
    <3>2. /\ ~(Begin(f) < x /\ x < OwnEnd(f))
          /\ f.task.kind = "right" => f.task.id # x
      BY <3>1, <2>2, <2>3, <1>8
    <3>3. CASE r = s BY <3>2, <3>3, <2>3, <1>2, <1>3, <1>8
    <3>4. CASE r = n BY <3>2, <3>4, <2>3, <1>2, <1>3, <1>4, <1>8
    <3> QED BY <2>5, <3>3, <3>4
  <2> QED BY <2>4, <2>5, <1>8
<1>21. Sliced(B)
  <2>1. \A r \in DOMAIN B : ~Joins(B[r]) => r \in DOMAIN A /\ B[r] = A[r] BY <1>2, <1>8
  <2> QED BY <2>1 DEF BoardInv, Sliced
<1> QED BY <1>13, <1>14, <1>15, <1>16, <1>17, <1>18, <1>19, <1>20, <1>21, Zenon DEF BoardInv

(* The frames of a fork: that of the task itself and that of its right     *)
(* part, ...                                                               *)
RightOf(task) ==
  Task(task.call, "right", ComputeMidpoint(task), task.rows,
       <<ComputeMidpoint(task), task.cols[2]>>, task.level)
Forked(task) == [task |-> task, pc |-> "forked"]

LEMMA RightFrame ==
  ASSUME NEW req, NEW f, FrameOK(req, f), Joins(f), f.pc = "run", ~IsLeaf(f.task),
         NEW g, g = Forked(f.task), NEW h, h = Frame(RightOf(f.task))
  PROVE  FrameOK(req, g) /\ FrameOK(req, h) /\ HandsOut(f, g, h)
<1>1. f.task \in Tasks BY DEF FrameOK, FrameType
<1>2. /\ Begin(f) \in Int /\ Middle(f) \in Int /\ End(f) \in Int
      /\ Begin(f) <= Middle(f) /\ Middle(f) <= End(f)
  BY FrameFacts
<1>3. Middle(f) # Begin(f) /\ Middle(f) # End(f) BY DEF IsLeaf, Middle, Begin, End
<1>4. Begin(f) < Middle(f) /\ Middle(f) < End(f) BY <1>2, <1>3
<1>5. g.task = f.task /\ g.pc = "forked" /\ h.pc = "run" /\ h.task = RightOf(f.task)
  BY DEF Forked, Frame
<1>6. /\ h.task.call = f.task.call /\ h.task.kind = "right" /\ h.task.id = Middle(f)
      /\ h.task.rows = f.task.rows /\ h.task.cols = <<Middle(f), End(f)>>
      /\ h.task.level = f.task.level
  BY <1>5 DEF RightOf, Task, Middle, End
<1>7. h.task \in Tasks
  BY <1>1, <1>2, <1>5, <1>6 DEF Tasks, RightOf, Task, Middle, End
<1>8. g \in FrameType /\ h \in FrameType
  BY <1>1, <1>7, <1>5 DEF FrameType, Forked, Frame
<1>9. Begin(g) = Begin(f) /\ End(g) = End(f) /\ Middle(g) = Middle(f) /\ Joins(g) /\ SameCall(f, g)
  BY <1>5 DEF Begin, End, Middle, Joins, SameCall
<1>10. Begin(h) = Middle(f) /\ End(h) = End(f) /\ Joins(h) /\ SameCall(f, h)
  BY <1>6 DEF Begin, End, Joins, SameCall
<1>11. FrameOK(req, g)
  BY <1>4, <1>5, <1>8, <1>9 DEF FrameOK, Joins
<1>12. FrameOK(req, h)
  BY <1>4, <1>5, <1>6, <1>8, <1>10 DEF FrameOK, Joins
<1> QED BY <1>4, <1>5, <1>6, <1>9, <1>10, <1>11, <1>12 DEF HandsOut

(* ... and those of its left part. *)
LeftOf(task) == [task EXCEPT !.kind = "left", !.cols = <<@[1], ComputeMidpoint(task)>>]
Helps(task) == [task |-> task, pc |-> "help"]

LEMMA LeftFrame ==
  ASSUME NEW req, NEW f, FrameOK(req, f), Joins(f), f.pc = "forked",
         NEW g, g = Helps(f.task), NEW h, h = Frame(LeftOf(f.task))
  PROVE  FrameOK(req, g) /\ FrameOK(req, h) /\ HandsOut(f, g, h)
<1>1. f.task \in Tasks BY DEF FrameOK, FrameType
<1>2. /\ Begin(f) \in Int /\ Middle(f) \in Int /\ End(f) \in Int
      /\ Begin(f) < Middle(f) /\ Middle(f) < End(f)
  BY FrameFacts
<1>5. g.task = f.task /\ g.pc = "help" /\ h.pc = "run" /\ h.task = LeftOf(f.task)
  BY DEF Helps, Frame
<1>6. /\ h.task.call = f.task.call /\ h.task.kind = "left" /\ h.task.rows = f.task.rows
      /\ h.task.cols = <<Begin(f), Middle(f)>> /\ h.task.level = f.task.level
      /\ h.task \in Tasks
  <2>1. PICK task \in Tasks : task = f.task BY <1>1
  <2>2. PICK m \in Int : m = ComputeMidpoint(task) BY <1>2, <2>1 DEF Middle
  <2>3. h.task = [task EXCEPT !.kind = "left", !.cols = <<task.cols[1], m>>]
    BY <1>5, <2>1, <2>2 DEF LeftOf
  <2>4. task.cols[1] \in Int BY DEF Tasks
  <2>5. PICK l : l = [task EXCEPT !.kind = "left"] OBVIOUS
  <2>6. /\ l \in Tasks /\ l.kind = "left" /\ l.call = task.call /\ l.rows = task.rows
        /\ l.level = task.level
    BY <2>5 DEF Tasks
  <2>7. PICK cols \in Int \X Int : cols = <<task.cols[1], m>> BY <2>4
  <2>8. PICK k : k = [l EXCEPT !.cols = cols] OBVIOUS
  <2>9. /\ k \in Tasks /\ k.kind = l.kind /\ k.call = l.call /\ k.rows = l.rows
        /\ k.level = l.level /\ k.cols = cols
    BY <2>6, <2>8 DEF Tasks
  <2>10. h.task = k
    BY <2>3, <2>5, <2>7, <2>8 DEF Tasks
  <2> QED BY <2>1, <2>2, <2>6, <2>7, <2>9, <2>10 DEF Middle, Begin
<1>8. g \in FrameType /\ h \in FrameType
  BY <1>1, <1>6, <1>5 DEF FrameType, Helps, Frame
<1>9. Begin(g) = Begin(f) /\ End(g) = End(f) /\ Middle(g) = Middle(f) /\ Joins(g) /\ SameCall(f, g)
  BY <1>5 DEF Begin, End, Middle, Joins, SameCall
<1>10. Begin(h) = Begin(f) /\ End(h) = Middle(f) /\ Joins(h) /\ SameCall(f, h)
  BY <1>6 DEF Begin, End, Joins, SameCall
<1>11. FrameOK(req, g)
  BY <1>2, <1>5, <1>8, <1>9 DEF FrameOK, Joins
<1>12. FrameOK(req, h)
  BY <1>2, <1>5, <1>6, <1>8, <1>10 DEF FrameOK, Joins
<1> QED BY <1>2, <1>5, <1>6, <1>9, <1>10, <1>11, <1>12 DEF HandsOut

(* What is still to be run stays so, and the barrier's tasks with it. *)
LEMMA GrownRest ==
  ASSUME NEW req, NEW A, NEW B, NEW s, NEW n, NEW f, NEW g, NEW h,
         BoardOK(req, A), f = A[s], Joins(f), HandsOut(f, g, h),
         FrameOK(req, g), FrameOK(req, h), Grown(A, B, s, n, g, h)
  PROVE  /\ \A c : c # f.task.call => PartsLeft(B, c) = PartsLeft(A, c)
         /\ \A c : RootLeft(B, c) <=> RootLeft(A, c)
         /\ \A c, x : Owned(B, c, x) <=> Owned(A, c, x)
         /\ \A F, ph : Fresh(A, F, ph) => Fresh(B, F, ph)
<1>1. /\ s \in DOMAIN A /\ n \notin DOMAIN A /\ DOMAIN B = DOMAIN A \cup {n}
      /\ \A r \in DOMAIN A \ {s} : B[r] = A[r]
      /\ B[s] = g /\ B[n] = h
  BY DEF Grown
<1>2. /\ g.task = f.task /\ h.task.call = f.task.call /\ h.task.kind \in {"left", "right"}
      /\ FrameOK(req, f) /\ Joins(g) /\ Joins(h)
  BY <1>1 DEF HandsOut, SameCall, BoardOK
<1>3. ASSUME NEW c, c # f.task.call PROVE PartsLeft(B, c) = PartsLeft(A, c)
  <2>1. {r \in DOMAIN B : B[r].task.call = c} = {r \in DOMAIN A : A[r].task.call = c}
    BY <1>1, <1>2, <1>3
  <2>2. \A r \in {q \in DOMAIN A : A[q].task.call = c} : B[r] = A[r] BY <1>1, <1>3
  <2> QED BY <2>1, <2>2 DEF PartsLeft
<1>4. ASSUME NEW c PROVE RootLeft(B, c) <=> RootLeft(A, c)
  <2>1. \A r \in DOMAIN A : B[r].task = A[r].task BY <1>1, <1>2
  <2> QED BY <2>1, <1>1, <1>2 DEF RootLeft
<1>5. ASSUME NEW x PROVE Owns(f, x) <=> Owns(g, x) \/ Owns(h, x)
  <2>1. /\ Begin(f) \in Int /\ Middle(f) \in Int /\ End(f) \in Int
        /\ Begin(f) < Middle(f) /\ Middle(f) < End(f)
    BY <1>2, FrameFacts DEF HandsOut
  <2>2. h.task.rows = f.task.rows /\ g.task.rows = f.task.rows
    BY <1>2 DEF FrameOK
  <2>3. /\ f.pc = "run" => OwnEnd(f) = End(f)
        /\ f.pc = "forked" => OwnEnd(f) = Middle(f)
        /\ g.pc = "forked" => OwnEnd(g) = Middle(g)
        /\ g.pc = "help" => OwnEnd(g) = Begin(g)
        /\ OwnEnd(h) = End(h)
    BY DEF OwnEnd, HandsOut
  <2>4. Begin(g) = Begin(f) /\ End(g) = End(f) /\ Middle(g) = Middle(f) BY DEF HandsOut
  <2>5. CASE f.pc = "run"
    <3>1. g.pc = "forked" /\ Begin(h) = Middle(f) /\ End(h) = End(f) BY <2>5 DEF HandsOut
    <3>2. Begin(f)..(End(f) - 1) = (Begin(f)..(Middle(f) - 1)) \cup (Middle(f)..(End(f) - 1))
      BY <2>1
    <3> QED BY <2>2, <2>3, <2>4, <2>5, <3>1, <3>2 DEF Owns, Grid
  <2>6. CASE f.pc = "forked"
    <3>1. g.pc = "help" /\ Begin(h) = Begin(f) /\ End(h) = Middle(f) BY <2>6 DEF HandsOut
    <3>2. Begin(f)..(Begin(f) - 1) = {} BY <2>1
    <3> QED BY <2>2, <2>3, <2>4, <2>6, <3>1, <3>2 DEF Owns, Grid
  <2> QED BY <2>5, <2>6 DEF HandsOut
<1>6. ASSUME NEW c, NEW x PROVE Owned(B, c, x) <=> Owned(A, c, x)
  <2>1. ASSUME NEW r \in DOMAIN B, B[r].task.call = c, Owns(B[r], x) PROVE Owned(A, c, x)
    <3>1. CASE r \in DOMAIN A \ {s} BY <3>1, <2>1, <1>1 DEF Owned
    <3>2. CASE r \in {s, n}
      <4>1. Owns(f, x) /\ f.task.call = c BY <3>2, <2>1, <1>1, <1>2, <1>5
      <4> QED BY <4>1, <1>1 DEF Owned
    <3> QED BY <3>1, <3>2, <1>1
  <2>2. ASSUME NEW r \in DOMAIN A, A[r].task.call = c, Owns(A[r], x) PROVE Owned(B, c, x)
    <3>1. CASE r # s BY <3>1, <2>2, <1>1 DEF Owned
    <3>2. CASE r = s
      <4>1. Owns(g, x) \/ Owns(h, x) BY <3>2, <2>2, <1>5
      <4>2. g.task.call = c /\ h.task.call = c BY <3>2, <2>2, <1>2
      <4> QED BY <4>1, <4>2, <1>1 DEF Owned
    <3> QED BY <3>1, <3>2
  <2> QED BY <2>1, <2>2 DEF Owned
<1>7. ASSUME NEW F, NEW ph, Fresh(A, F, ph) PROVE Fresh(B, F, ph)
  <2>1. \A r \in DOMAIN B : \E q \in DOMAIN A : B[r].task.call = A[q].task.call BY <1>1, <1>2
  <2> QED BY <2>1, <1>7 DEF Fresh
<1> QED BY <1>3, <1>4, <1>6, <1>7

(***************************************************************************)
(* A worker takes a task from the pool: its place changes, nothing else.   *)
(***************************************************************************)
Moved(A, B, s, n) ==
  /\ s \in DOMAIN A /\ s[1] = "pool"
  /\ n \notin DOMAIN A /\ n[1] = "stack"
  /\ DOMAIN B = (DOMAIN A \ {s}) \cup {n}
  /\ B[n] = A[s]
  /\ \A r \in DOMAIN A \ {s} : B[r] = A[r]

(* Every place of the new board is one of the old one with the same frame, *)
(* and the other way round.                                                *)
LEMMA MovedPlaces ==
  ASSUME NEW A, NEW B, NEW s, NEW n, Moved(A, B, s, n)
  PROVE  \E m \in [DOMAIN B -> DOMAIN A] : \E k \in [DOMAIN A -> DOMAIN B] :
           /\ \A r \in DOMAIN B : B[r] = A[m[r]] /\ k[m[r]] = r /\ (r # n => m[r] = r)
           /\ \A r \in DOMAIN A : A[r] = B[k[r]] /\ m[k[r]] = r /\ (r # s => k[r] = r)
<1> DEFINE m == [r \in DOMAIN B |-> IF r = n THEN s ELSE r]
           k == [r \in DOMAIN A |-> IF r = s THEN n ELSE r]
<1>1. m \in [DOMAIN B -> DOMAIN A] BY DEF Moved
<1>2. k \in [DOMAIN A -> DOMAIN B] BY DEF Moved
<1>3. ASSUME NEW r \in DOMAIN B
      PROVE B[r] = A[m[r]] /\ k[m[r]] = r /\ (r # n => m[r] = r)
  BY DEF Moved
<1>4. ASSUME NEW r \in DOMAIN A
      PROVE A[r] = B[k[r]] /\ m[k[r]] = r /\ (r # s => k[r] = r)
  BY DEF Moved
<1> HIDE DEF m, k
<1> QED BY <1>1, <1>2, <1>3, <1>4

LEMMA MovedInv ==
  ASSUME NEW A, NEW B, NEW s, NEW n, NEW req, NEW F,
         BoardInv(req, A, F), Moved(A, B, s, n)
  PROVE  BoardInv(req, B, F)
<1>1. PICK m \in [DOMAIN B -> DOMAIN A] : \E k \in [DOMAIN A -> DOMAIN B] :
           /\ \A r \in DOMAIN B : B[r] = A[m[r]] /\ k[m[r]] = r /\ (r # n => m[r] = r)
           /\ \A r \in DOMAIN A : A[r] = B[k[r]] /\ m[k[r]] = r /\ (r # s => k[r] = r)
  BY MovedPlaces
<1>2. PICK k \in [DOMAIN A -> DOMAIN B] :
           /\ \A r \in DOMAIN B : B[r] = A[m[r]] /\ k[m[r]] = r /\ (r # n => m[r] = r)
           /\ \A r \in DOMAIN A : A[r] = B[k[r]] /\ m[k[r]] = r /\ (r # s => k[r] = r)
  BY <1>1
<1>3. ASSUME NEW r \in DOMAIN B
      PROVE /\ m[r] \in DOMAIN A /\ B[r] = A[m[r]]
            /\ \A q \in DOMAIN B : Pair(B, r, q) => Pair(A, m[r], m[q])
  BY <1>1, <1>2, Zenon DEF Pair
<1>4. ASSUME NEW r \in DOMAIN A
      PROVE /\ k[r] \in DOMAIN B /\ A[r] = B[k[r]] /\ m[k[r]] = r
            /\ \A q \in DOMAIN A : Pair(A, r, q) => Pair(B, k[r], k[q])
  <2>1. k[r] \in DOMAIN B /\ A[r] = B[k[r]] /\ m[k[r]] = r BY <1>2, Zenon
  <2>2. ASSUME NEW q \in DOMAIN A, Pair(A, r, q) PROVE Pair(B, k[r], k[q])
    <3>1. k[q] \in DOMAIN B /\ A[q] = B[k[q]] /\ m[k[q]] = q BY <1>2, Zenon
    <3> QED BY <2>1, <2>2, <3>1, Zenon DEF Pair
  <2> QED BY <2>1, <2>2, Zenon
<1>5. BoardOK(req, B)
  <2>1. ASSUME NEW r \in DOMAIN B, r[1] = "pool" PROVE m[r] = r
    BY <2>1, <1>2 DEF Moved
  <2> QED BY <1>3, <2>1 DEF BoardInv, BoardOK
<1>6. Laid(B) BY <1>3, Zenon DEF BoardInv, Laid
<1>7. RightsDiffer(B) BY <1>3 DEF BoardInv, RightsDiffer
<1>8. Unused(B, F) BY <1>3 DEF BoardInv, Unused
<1>9. Sliced(B) 
  <2>1. ASSUME NEW r \in DOMAIN B, NEW q \in DOMAIN B, r # q PROVE m[r] # m[q]
    BY <1>2, <2>1, Zenon
  <2> QED BY <1>3, <2>1, Zenon DEF BoardInv, Sliced
<1>10. HasParent(B)
  <2>1. SUFFICES ASSUME NEW r \in DOMAIN B, B[r].task.kind = "right"
                 PROVE \E u \in DOMAIN B : /\ Joins(B[u]) /\ SameCall(B[u], B[r])
                                           /\ B[u].pc \in {"forked", "help"}
                                           /\ Middle(B[u]) = B[r].task.id
    BY Zenon DEF HasParent
  <2>2. PICK u \in DOMAIN A : /\ Joins(A[u]) /\ SameCall(A[u], A[m[r]])
                              /\ A[u].pc \in {"forked", "help"}
                              /\ Middle(A[u]) = A[m[r]].task.id
    BY <2>1, <1>3, Zenon DEF BoardInv, HasParent
  <2> QED BY <2>2, <1>3, <1>4
<1>11. Rooted(B)
  <2>1. SUFFICES ASSUME NEW r \in DOMAIN B, Joins(B[r])
                 PROVE \E u \in DOMAIN B : /\ B[u].task.kind = "root" /\ SameCall(B[u], B[r])
                                           /\ u = r \/ Within(B[u], B[r])
    BY Zenon DEF Rooted
  <2>2. PICK u \in DOMAIN A : /\ A[u].task.kind = "root" /\ SameCall(A[u], A[m[r]])
                              /\ u = m[r] \/ Within(A[u], A[m[r]])
    BY <2>1, <1>3, Zenon DEF BoardInv, Rooted
  <2>3. u = m[r] => k[u] = r BY <1>2, Zenon
  <2> QED BY <2>2, <2>3, <1>3, <1>4, Zenon
<1>12. RightPending(B)
  <2>1. SUFFICES ASSUME NEW r \in DOMAIN B, NEW q \in DOMAIN B, Pair(B, r, q), InRight(B[r], B[q])
                 PROVE \E u \in DOMAIN B : /\ Pair(B, r, u) /\ B[u].task.kind = "right"
                                           /\ Begin(B[u]) = Middle(B[r]) /\ End(B[u]) = End(B[r])
    BY Zenon DEF RightPending
  <2>2. PICK u \in DOMAIN A : /\ Pair(A, m[r], u) /\ A[u].task.kind = "right"
                              /\ Begin(A[u]) = Middle(A[m[r]]) /\ End(A[u]) = End(A[m[r]])
    BY <2>1, <1>3, Zenon DEF BoardInv, RightPending
  <2>3. k[m[r]] = r BY <1>2, Zenon
  <2> QED BY <2>2, <2>3, <1>3, <1>4
<1>13. LeftOnTop(B)
  <2>1. SUFFICES ASSUME NEW r \in DOMAIN B, NEW q \in DOMAIN B, Pair(B, r, q), InLeft(B[r], B[q])
                 PROVE /\ Above(r) \in DOMAIN B /\ Pair(B, r, Above(r))
                       /\ Begin(B[Above(r)]) = Begin(B[r]) /\ End(B[Above(r)]) = Middle(B[r])
    BY Zenon DEF LeftOnTop
  <2>2. /\ Above(m[r]) \in DOMAIN A /\ Pair(A, m[r], Above(m[r]))
        /\ Begin(A[Above(m[r])]) = Begin(A[m[r]]) /\ End(A[Above(m[r])]) = Middle(A[m[r]])
    BY <2>1, <1>3, Zenon DEF BoardInv, LeftOnTop
  <2>3. B[r].pc = "help" BY <2>1 DEF InLeft
  <2>4. A[s].pc = "run" BY DEF BoardInv, BoardOK, Moved
  <2>5. r # n BY <2>3, <2>4 DEF Moved
  <2>6. m[r] = r BY <2>5, <1>2, Zenon
  <2>7. Above(r) # s BY DEF Above, Moved
  <2>8. k[Above(r)] = Above(r) /\ k[r] = r BY <2>2, <2>6, <2>7, <1>2, Zenon
  <2>9. Above(r) \in DOMAIN B /\ Pair(B, r, Above(r)) /\ B[Above(r)] = A[Above(r)]
    BY <2>2, <2>6, <2>8, <1>4, Zenon DEF Pair
  <2> QED BY <2>2, <2>6, <2>9, <1>3, Zenon
<1> QED BY <1>5, <1>6, <1>7, <1>8, <1>9, <1>10, <1>11, <1>12, <1>13, Zenon DEF BoardInv

LEMMA MovedRest ==
  ASSUME NEW A, NEW B, NEW s, NEW n, Moved(A, B, s, n)
  PROVE  /\ \A c : PartsLeft(B, c) = PartsLeft(A, c)
         /\ \A c : RootLeft(B, c) <=> RootLeft(A, c)
         /\ \A c, x : Owned(B, c, x) <=> Owned(A, c, x)
         /\ \A F, ph : Fresh(A, F, ph) => Fresh(B, F, ph)
<1>1. PICK m \in [DOMAIN B -> DOMAIN A] : \E k \in [DOMAIN A -> DOMAIN B] :
           /\ \A r \in DOMAIN B : B[r] = A[m[r]] /\ k[m[r]] = r /\ (r # n => m[r] = r)
           /\ \A r \in DOMAIN A : A[r] = B[k[r]] /\ m[k[r]] = r /\ (r # s => k[r] = r)
  BY MovedPlaces
<1>2. PICK k \in [DOMAIN A -> DOMAIN B] :
           /\ \A r \in DOMAIN B : B[r] = A[m[r]] /\ k[m[r]] = r /\ (r # n => m[r] = r)
           /\ \A r \in DOMAIN A : A[r] = B[k[r]] /\ m[k[r]] = r /\ (r # s => k[r] = r)
  BY <1>1
<1>3. \A r \in DOMAIN B : m[r] \in DOMAIN A /\ B[r] = A[m[r]] BY <1>1, <1>2, Zenon
<1>4. \A r \in DOMAIN A : k[r] \in DOMAIN B /\ A[r] = B[k[r]] BY <1>1, <1>2, Zenon
<1>5. ASSUME NEW c PROVE PartsLeft(B, c) = PartsLeft(A, c)
  <2>1. ASSUME NEW x
    PROVE x \in PartsLeft(B, c) <=> \E r \in DOMAIN B : B[r].task.call = c /\ x \in Parts(B[r])
    BY Zenon DEF PartsLeft
  <2>2. ASSUME NEW x
    PROVE x \in PartsLeft(A, c) <=> \E r \in DOMAIN A : A[r].task.call = c /\ x \in Parts(A[r])
    BY Zenon DEF PartsLeft
  <2>3. ASSUME NEW x PROVE x \in PartsLeft(B, c) <=> x \in PartsLeft(A, c)
    BY <2>1, <2>2, <1>3, <1>4
  <2> QED BY <2>3, Zenon
<1>6. ASSUME NEW c PROVE RootLeft(B, c) <=> RootLeft(A, c)
  BY <1>3, <1>4 DEF RootLeft
<1>7. ASSUME NEW c, NEW x PROVE Owned(B, c, x) <=> Owned(A, c, x)
  BY <1>3, <1>4, Zenon DEF Owned
<1>8. ASSUME NEW F, NEW ph, Fresh(A, F, ph) PROVE Fresh(B, F, ph)
  BY <1>8, <1>3, Zenon DEF Fresh
<1> QED BY <1>5, <1>6, <1>7, <1>8, Zenon

(***************************************************************************)
(* A task ends: its frame, the top one of a stack, leaves the board.       *)
(***************************************************************************)
Ended(A, B, s) ==
  /\ s \in DOMAIN A /\ Above(s) \notin DOMAIN A
  /\ DOMAIN B = DOMAIN A \ {s}
  /\ \A r \in DOMAIN B : B[r] = A[r]

MayEnd(f, F) == f.pc = "run" \/ (f.pc = "help" /\ <<f.task.call, Middle(f)>> \in F)
Done(f, F) == IF f.task.kind = "right" THEN F \cup {<<f.task.call, f.task.id>>} ELSE F

(* Nothing of what it stands for is pending any more: the left part would  *)
(* be on top of it, and its right part is finished.                        *)
LEMMA NothingWithin ==
  ASSUME NEW req, NEW F, NEW A, NEW s, BoardInv(req, A, F), s \in DOMAIN A,
         Above(s) \notin DOMAIN A, Joins(A[s]), MayEnd(A[s], F)
  PROVE  \A r \in DOMAIN A : Pair(A, s, r) => ~Within(A[s], A[r])
<1>1. SUFFICES ASSUME NEW r \in DOMAIN A, Pair(A, s, r), Within(A[s], A[r])
               PROVE FALSE
  OBVIOUS
<1>2. A[s].pc # "run" BY <1>1 DEF Within, InLeft, InRight
<1>3. A[s].pc = "help" /\ <<A[s].task.call, Middle(A[s])>> \in F BY <1>2 DEF MayEnd
<1>4. ~InLeft(A[s], A[r]) BY <1>1 DEF BoardInv, LeftOnTop
<1>5. PICK u \in DOMAIN A : /\ Pair(A, s, u) /\ A[u].task.kind = "right"
                            /\ Begin(A[u]) = Middle(A[s]) /\ End(A[u]) = End(A[s])
  BY <1>1, <1>4 DEF BoardInv, RightPending, Within
<1>6. FrameOK(req, A[u]) /\ FrameOK(req, A[s]) BY DEF BoardInv, BoardOK
<1>7. A[u].task.id = Begin(A[u]) BY <1>5, <1>6 DEF FrameOK
<1>8. Middle(A[s]) \in Int BY <1>6, FrameFacts
<1>9. <<A[u].task.call, Middle(A[s])>> \in F /\ Joins(A[u])
  BY <1>3, <1>5 DEF Pair, SameCall
<1> QED BY <1>5, <1>7, <1>8, <1>9 DEF BoardInv, Unused

LEMMA EndedJoins ==
  ASSUME NEW req, NEW F, NEW A, NEW B, NEW s, NEW f,
         BoardInv(req, A, F), f = A[s], Joins(f), MayEnd(f, F), Ended(A, B, s)
  PROVE  BoardInv(req, B, Done(f, F))
<1>1. /\ s \in DOMAIN A /\ Above(s) \notin DOMAIN A /\ DOMAIN B = DOMAIN A \ {s}
      /\ \A r \in DOMAIN B : r \in DOMAIN A /\ r # s /\ B[r] = A[r]
  BY DEF Ended
<1>2. \A q, r : Pair(B, q, r) <=> (Pair(A, q, r) /\ q # s /\ r # s)
  BY <1>1 DEF Pair
<1>3. \A r \in DOMAIN A : Pair(A, s, r) => ~Within(f, A[r])
  BY <1>1, NothingWithin
<1>4. \A r \in DOMAIN A : FrameOK(req, A[r]) BY DEF BoardInv, BoardOK
<1>5. /\ Begin(f) \in Int /\ End(f) \in Int /\ Middle(f) \in Int
      /\ Begin(f) < End(f)
      /\ f.pc # "run" => Begin(f) < Middle(f) /\ Middle(f) < End(f)
  BY <1>1, <1>4, FrameFacts
<1>6. BoardOK(req, B) BY <1>1 DEF BoardInv, BoardOK
<1>7. Laid(B) BY <1>1, <1>2 DEF BoardInv, Laid
<1>8. RightsDiffer(B) BY <1>1, <1>2 DEF BoardInv, RightsDiffer
<1>9. Sliced(B) BY <1>1 DEF BoardInv, Sliced
\* The frame that ends is not what another frame waits for.
<1>10. ASSUME NEW q \in DOMAIN A, NEW r \in DOMAIN A, Pair(A, q, r), Pair(A, q, s), r # s,
              \/ InLeft(A[q], A[r]) /\ Begin(f) = Begin(A[q]) /\ End(f) = Middle(A[q])
              \/ InRight(A[q], A[r]) /\ Begin(f) = Middle(A[q]) /\ End(f) = End(A[q])
       PROVE FALSE
  <2>1. Pair(A, s, r) /\ Joins(A[r]) BY <1>1, <1>10 DEF Pair, SameCall
  <2>2. Within(A[r], f) \/ Apart(f, A[r])
    BY <2>1, <1>1, <1>3 DEF BoardInv, Laid
  <2> DEFINE g == A[r]
  <2>3. /\ Begin(g) \in Int /\ End(g) \in Int /\ Middle(g) \in Int /\ Begin(g) < End(g)
        /\ g.pc # "run" => Begin(g) < Middle(g) /\ Middle(g) < End(g)
    BY <2>1, <1>4, FrameFacts
  <2>4. Begin(g) >= Begin(f) /\ End(g) <= End(f)
    BY <1>10 DEF InLeft, InRight
  <2>5. Within(g, f) \/ Apart(f, g) BY <2>2
  <2> HIDE DEF g
  <2> QED BY <2>3, <2>4, <2>5, <1>5 DEF Within, InLeft, InRight, Apart
<1>11. LeftOnTop(B)
  <2>1. SUFFICES ASSUME NEW q \in DOMAIN B, NEW r \in DOMAIN B, Pair(B, q, r), InLeft(B[q], B[r])
                 PROVE /\ Above(q) \in DOMAIN B /\ Pair(B, q, Above(q))
                       /\ Begin(B[Above(q)]) = Begin(B[q]) /\ End(B[Above(q)]) = Middle(B[q])
    BY Zenon DEF LeftOnTop
  <2>2. /\ q \in DOMAIN A /\ r \in DOMAIN A /\ Pair(A, q, r) /\ InLeft(A[q], A[r])
        /\ B[q] = A[q] /\ q # s /\ r # s
    BY <2>1, <1>1, <1>2
  <2>3. /\ Above(q) \in DOMAIN A /\ Pair(A, q, Above(q))
        /\ Begin(A[Above(q)]) = Begin(A[q]) /\ End(A[Above(q)]) = Middle(A[q])
    BY <2>2, Zenon DEF BoardInv, LeftOnTop
  <2>4. Above(q) # s BY <2>2, <2>3, <1>10
  <2> QED BY <2>2, <2>3, <2>4, <1>1, <1>2
<1>12. RightPending(B)
  <2>1. SUFFICES ASSUME NEW q \in DOMAIN B, NEW r \in DOMAIN B, Pair(B, q, r), InRight(B[q], B[r])
                 PROVE \E u \in DOMAIN B : /\ Pair(B, q, u) /\ B[u].task.kind = "right"
                                           /\ Begin(B[u]) = Middle(B[q]) /\ End(B[u]) = End(B[q])
    BY Zenon DEF RightPending
  <2>2. /\ q \in DOMAIN A /\ r \in DOMAIN A /\ Pair(A, q, r) /\ InRight(A[q], A[r])
        /\ B[q] = A[q] /\ q # s /\ r # s
    BY <2>1, <1>1, <1>2
  <2>3. PICK u \in DOMAIN A : /\ Pair(A, q, u) /\ A[u].task.kind = "right"
                              /\ Begin(A[u]) = Middle(A[q]) /\ End(A[u]) = End(A[q])
    BY <2>2, Zenon DEF BoardInv, RightPending
  <2>4. u # s BY <2>2, <2>3, <1>10
  <2> QED BY <2>2, <2>3, <2>4, <1>1, <1>2
<1>13. HasParent(B)
  <2>1. SUFFICES ASSUME NEW r \in DOMAIN B, B[r].task.kind = "right"
                 PROVE \E u \in DOMAIN B : /\ Joins(B[u]) /\ SameCall(B[u], B[r])
                                           /\ B[u].pc \in {"forked", "help"}
                                           /\ Middle(B[u]) = B[r].task.id
    BY Zenon DEF HasParent
  <2>2. r \in DOMAIN A /\ B[r] = A[r] /\ r # s BY <1>1
  <2>3. PICK u \in DOMAIN A : /\ Joins(A[u]) /\ SameCall(A[u], A[r])
                              /\ A[u].pc \in {"forked", "help"}
                              /\ Middle(A[u]) = A[r].task.id
    BY <2>1, <2>2, Zenon DEF BoardInv, HasParent
  <2>4. u # s
    <3>1. SUFFICES ASSUME u = s PROVE FALSE OBVIOUS
    <3>2. <<f.task.call, Middle(f)>> \in F BY <2>3, <3>1 DEF MayEnd
    <3>3. Joins(A[r]) /\ A[r].task.kind = "right" BY <2>1, <2>2 DEF Joins
    <3>4. <<A[r].task.call, Middle(f)>> \in F BY <3>1, <3>2, <2>3 DEF SameCall
    <3> QED BY <3>1, <3>3, <3>4, <2>2, <2>3, <1>5 DEF BoardInv, Unused
  <2> QED BY <2>2, <2>3, <2>4, <1>1
<1>14. Rooted(B)
  <2>1. SUFFICES ASSUME NEW r \in DOMAIN B, Joins(B[r])
                 PROVE \E u \in DOMAIN B : /\ B[u].task.kind = "root" /\ SameCall(B[u], B[r])
                                           /\ u = r \/ Within(B[u], B[r])
    BY Zenon DEF Rooted
  <2>2. r \in DOMAIN A /\ B[r] = A[r] /\ r # s BY <1>1
  <2>3. PICK u \in DOMAIN A : /\ A[u].task.kind = "root" /\ SameCall(A[u], A[r])
                              /\ u = r \/ Within(A[u], A[r])
    BY <2>1, <2>2, Zenon DEF BoardInv, Rooted
  <2>4. u # s
    <3>1. SUFFICES ASSUME u = s PROVE FALSE OBVIOUS
    <3>2. Pair(A, s, r) BY <3>1, <2>1, <2>2, <2>3, <1>1 DEF Pair
    <3> QED BY <3>1, <3>2, <2>2, <2>3, <1>3
  <2> QED BY <2>2, <2>3, <2>4, <1>1
<1>15. Unused(B, Done(f, F))
  <2>1. SUFFICES ASSUME NEW r \in DOMAIN B, Joins(B[r]), NEW x \in Int,
                        <<B[r].task.call, x>> \in Done(f, F)
                 PROVE /\ ~(Begin(B[r]) < x /\ x < OwnEnd(B[r]))
                       /\ B[r].task.kind = "right" => B[r].task.id # x
    BY Zenon DEF Unused
  <2>2. r \in DOMAIN A /\ B[r] = A[r] /\ r # s BY <1>1
  <2>3. CASE <<A[r].task.call, x>> \in F
    BY <2>1, <2>2, <2>3 DEF BoardInv, Unused
  <2>4. CASE f.task.kind = "right" /\ A[r].task.call = f.task.call /\ x = f.task.id
    <3>1. x = Begin(f) BY <2>4, <1>1, <1>4 DEF FrameOK
    <3>2. Pair(A, s, r) /\ Pair(A, r, s) BY <2>1, <2>2, <2>4, <1>1 DEF Pair, SameCall
    <3>3. Within(A[r], f) \/ Apart(f, A[r]) BY <3>2, <1>1, <1>3, <2>2 DEF BoardInv, Laid
    <3> DEFINE g == A[r]
    <3>4. /\ Begin(g) \in Int /\ End(g) \in Int /\ Middle(g) \in Int /\ Begin(g) < End(g)
          /\ g.pc # "run" => Begin(g) < Middle(g) /\ Middle(g) < End(g)
          /\ g.pc \in {"run", "forked", "help"}
          /\ g.pc = "run" => OwnEnd(g) = End(g)
          /\ g.pc = "forked" => OwnEnd(g) = Middle(g)
          /\ g.pc = "help" => OwnEnd(g) = Begin(g)
      BY <2>1, <2>2, <1>4, FrameFacts
    <3>5. Within(g, f) \/ Apart(f, g) BY <3>3
    <3>6. A[r].task.kind = "right" => A[r].task.id # x
      BY <2>4, <3>2, <2>2, <1>1 DEF BoardInv, RightsDiffer
    <3>7. B[r] = g BY <2>2
    <3>8. g.task.kind = "right" => g.task.id # x BY <3>6
    <3> HIDE DEF g
    <3>9. ~(Begin(g) < x /\ x < OwnEnd(g))
      BY <3>1, <3>4, <3>5, <1>5 DEF Within, InLeft, InRight, Apart
    <3> QED BY <3>7, <3>8, <3>9
  <2> QED BY <2>1, <2>2, <2>3, <2>4 DEF Done
<1> QED BY <1>6, <1>7, <1>8, <1>9, <1>11, <1>12, <1>13, <1>14, <1>15, Zenon DEF BoardInv

LEMMA EndedSlice ==
  ASSUME NEW req, NEW F, NEW A, NEW B, NEW s, NEW f,
         BoardInv(req, A, F), f = A[s], ~Joins(f), Ended(A, B, s)
  PROVE  BoardInv(req, B, F)
<1>1. /\ s \in DOMAIN A /\ DOMAIN B = DOMAIN A \ {s}
      /\ \A r \in DOMAIN B : r \in DOMAIN A /\ r # s /\ B[r] = A[r]
      /\ \A r \in DOMAIN A : Joins(A[r]) => r \in DOMAIN B
  BY DEF Ended
<1>2. \A q, r : Pair(B, q, r) <=> Pair(A, q, r) BY <1>1 DEF Pair
<1>3. \A q, r : Pair(A, q, r) => /\ q \in DOMAIN B /\ r \in DOMAIN B /\ q # r
                                 /\ B[q] = A[q] /\ B[r] = A[r]
  BY <1>1 DEF Pair
<1>4. BoardOK(req, B) BY <1>1 DEF BoardInv, BoardOK
<1>5. Laid(B) BY <1>1, <1>2 DEF BoardInv, Laid
<1>6. RightsDiffer(B) BY <1>1, <1>2 DEF BoardInv, RightsDiffer
<1>7. Sliced(B) BY <1>1 DEF BoardInv, Sliced
<1>8. Unused(B, F) BY <1>1 DEF BoardInv, Unused
<1>9. LeftOnTop(B)
  <2>1. SUFFICES ASSUME NEW q \in DOMAIN B, NEW r \in DOMAIN B, Pair(B, q, r), InLeft(B[q], B[r])
                 PROVE /\ Above(q) \in DOMAIN B /\ Pair(B, q, Above(q))
                       /\ Begin(B[Above(q)]) = Begin(B[q]) /\ End(B[Above(q)]) = Middle(B[q])
    BY Zenon DEF LeftOnTop
  <2>2. /\ Pair(A, q, Above(q))
        /\ Begin(A[Above(q)]) = Begin(A[q]) /\ End(A[Above(q)]) = Middle(A[q])
    BY <2>1, <1>1, <1>2 DEF BoardInv, LeftOnTop
  <2> QED BY <2>2, <1>2, <1>3, Zenon
<1>10. RightPending(B)
  <2>1. SUFFICES ASSUME NEW q \in DOMAIN B, NEW r \in DOMAIN B, Pair(B, q, r), InRight(B[q], B[r])
                 PROVE \E u \in DOMAIN B : /\ Pair(B, q, u) /\ B[u].task.kind = "right"
                                           /\ Begin(B[u]) = Middle(B[q]) /\ End(B[u]) = End(B[q])
    BY Zenon DEF RightPending
  <2>2. PICK u \in DOMAIN A : /\ Pair(A, q, u) /\ A[u].task.kind = "right"
                              /\ Begin(A[u]) = Middle(A[q]) /\ End(A[u]) = End(A[q])
    BY <2>1, <1>1, <1>2 DEF BoardInv, RightPending
  <2> QED BY <2>2, <1>2, <1>3, Zenon
<1>11. HasParent(B)
  <2>1. \A r \in DOMAIN B : B[r].task.kind = "right" => A[r].task.kind = "right" BY <1>1
  <2>2. SUFFICES ASSUME NEW r \in DOMAIN B, B[r].task.kind = "right"
                 PROVE \E u \in DOMAIN B : /\ Joins(B[u]) /\ SameCall(B[u], B[r])
                                           /\ B[u].pc \in {"forked", "help"}
                                           /\ Middle(B[u]) = B[r].task.id
    BY Zenon DEF HasParent
  <2>3. PICK u \in DOMAIN A : /\ Joins(A[u]) /\ SameCall(A[u], A[r])
                              /\ A[u].pc \in {"forked", "help"}
                              /\ Middle(A[u]) = A[r].task.id
    BY <2>1, <2>2, <1>1, Zenon DEF BoardInv, HasParent
  <2> QED BY <2>3, <1>1
<1>12. Rooted(B)
  <2>1. SUFFICES ASSUME NEW r \in DOMAIN B, Joins(B[r])
                 PROVE \E u \in DOMAIN B : /\ B[u].task.kind = "root" /\ SameCall(B[u], B[r])
                                           /\ u = r \/ Within(B[u], B[r])
    BY Zenon DEF Rooted
  <2>2. PICK u \in DOMAIN A : /\ A[u].task.kind = "root" /\ SameCall(A[u], A[r])
                              /\ u = r \/ Within(A[u], A[r])
    BY <2>1, <1>1 DEF BoardInv, Rooted
  <2>3. u \in DOMAIN B /\ B[u] = A[u] BY <2>2, <1>1 DEF Joins
  <2> QED BY <2>2, <2>3, <1>1
<1> QED BY <1>4, <1>5, <1>6, <1>7, <1>8, <1>9, <1>10, <1>11, <1>12, Zenon DEF BoardInv

(* No column of a fork and join, and no cell of a rectangle, is left to    *)
(* two tasks.                                                              *)
LEMMA Exclusive ==
  ASSUME NEW req, NEW F, NEW A, BoardInv(req, A, F), NEW s \in DOMAIN A, NEW r \in DOMAIN A,
         s # r, SameCall(A[s], A[r]), NEW x
  PROVE  ~(Owns(A[s], x) /\ Owns(A[r], x))
<1>1. FrameOK(req, A[s]) /\ FrameOK(req, A[r]) BY DEF BoardInv, BoardOK
<1>2. Joins(A[s]) <=> Joins(A[r]) BY <1>1 DEF FrameOK, SameCall, Joins
<1>3. CASE ~Joins(A[s]) BY <1>2, <1>3 DEF BoardInv, Sliced
<1>4. CASE Joins(A[s])
  <2>1. Within(A[s], A[r]) \/ Within(A[r], A[s]) \/ Apart(A[s], A[r])
    BY <1>2, <1>4 DEF BoardInv, Laid, Pair
  <2> DEFINE f == A[s]
             g == A[r]
  <2>2. /\ Begin(f) \in Int /\ End(f) \in Int /\ Middle(f) \in Int
        /\ Begin(f) < End(f) /\ Begin(f) <= Middle(f) /\ Middle(f) <= End(f)
        /\ f.pc \in {"run", "forked", "help"}
        /\ f.pc = "run" => OwnEnd(f) = End(f)
        /\ f.pc = "forked" => OwnEnd(f) = Middle(f)
        /\ f.pc = "help" => OwnEnd(f) = Begin(f)
    BY <1>1, <1>4, FrameFacts
  <2>3. /\ Begin(g) \in Int /\ End(g) \in Int /\ Middle(g) \in Int
        /\ Begin(g) < End(g) /\ Begin(g) <= Middle(g) /\ Middle(g) <= End(g)
        /\ g.pc \in {"run", "forked", "help"}
        /\ g.pc = "run" => OwnEnd(g) = End(g)
        /\ g.pc = "forked" => OwnEnd(g) = Middle(g)
        /\ g.pc = "help" => OwnEnd(g) = Begin(g)
    BY <1>1, <1>2, <1>4, FrameFacts
  <2>4. Within(f, g) \/ Within(g, f) \/ Apart(f, g) BY <2>1
  <2> HIDE DEF f, g
  <2>5. OwnEnd(f) <= Begin(g) \/ OwnEnd(g) <= Begin(f)
    BY <2>2, <2>3, <2>4 DEF Within, InLeft, InRight, Apart
  <2>6. OwnEnd(f) \in Int /\ OwnEnd(g) \in Int BY <2>2, <2>3
  <2>7. (Begin(f)..(OwnEnd(f) - 1)) \cap (Begin(g)..(OwnEnd(g) - 1)) = {}
    BY <2>2, <2>3, <2>5, <2>6
  <2>8. ~(Owns(f, x) /\ Owns(g, x)) BY <2>7 DEF Owns, Grid
  <2> QED BY <2>8 DEF f, g
<1> QED BY <1>3, <1>4

LEMMA EndedOwned ==
  ASSUME NEW req, NEW F, NEW A, NEW B, NEW s, NEW f,
         BoardInv(req, A, F), f = A[s], Ended(A, B, s)
  PROVE  /\ \A c, x : Owned(B, c, x) <=> (Owned(A, c, x) /\ ~(f.task.call = c /\ Owns(f, x)))
         /\ \A x : Owns(f, x) => Owned(A, f.task.call, x)
<1>1. /\ s \in DOMAIN A /\ DOMAIN B = DOMAIN A \ {s}
      /\ \A r \in DOMAIN B : r \in DOMAIN A /\ r # s /\ B[r] = A[r]
  BY DEF Ended
<1>2. ASSUME NEW c, NEW x, NEW r \in DOMAIN B, B[r].task.call = c, Owns(B[r], x)
      PROVE Owned(A, c, x) /\ ~(f.task.call = c /\ Owns(f, x))
  <2>1. Owned(A, c, x) BY <1>1, <1>2 DEF Owned
  <2>2. f.task.call = c => SameCall(A[s], A[r]) BY <1>1, <1>2 DEF SameCall
  <2> QED BY <2>1, <2>2, <1>1, <1>2, Exclusive
<1>3. ASSUME NEW c, NEW x, NEW r \in DOMAIN A, A[r].task.call = c, Owns(A[r], x),
             ~(f.task.call = c /\ Owns(f, x))
      PROVE Owned(B, c, x)
  <2>1. r # s BY <1>3
  <2> QED BY <2>1, <1>1, <1>3 DEF Owned
<1>4. \A x : Owns(f, x) => Owned(A, f.task.call, x) BY <1>1 DEF Owned
<1> QED BY <1>2, <1>3, <1>4 DEF Owned

LEMMA EndedCounted ==
  ASSUME NEW req, NEW F, NEW A, NEW B, NEW s, NEW f, NEW n, NEW m,
         BoardInv(req, A, F), f = A[s], Ended(A, B, s), Counted(req, A, n),
         ~Joins(f) => f.task.level = 0,
         \A c \in Callers :
           m[c] = IF c = f.task.call /\ f.task.kind \in {"root", "slice"} THEN n[c] - 1 ELSE n[c]
  PROVE  Counted(req, B, m)
<1>1. /\ s \in DOMAIN A /\ DOMAIN B = DOMAIN A \ {s}
      /\ \A r \in DOMAIN B : r \in DOMAIN A /\ r # s /\ B[r] = A[r]
  BY DEF Ended
<1>2. \A r \in DOMAIN A : FrameOK(req, A[r]) BY DEF BoardInv, BoardOK
<1>3. SUFFICES ASSUME NEW c \in Callers
               PROVE IF req[c].device
                       THEN IsFiniteSet(PartsLeft(B, c)) /\ m[c] = Cardinality(PartsLeft(B, c))
                       ELSE m[c] = IF RootLeft(B, c) THEN 1 ELSE 0
  BY DEF Counted
<1>4. CASE c # f.task.call
  <2>1. {r \in DOMAIN B : B[r].task.call = c} = {r \in DOMAIN A : A[r].task.call = c}
    BY <1>1, <1>4
  <2>2. \A r \in {q \in DOMAIN A : A[q].task.call = c} : B[r] = A[r] BY <1>1, <1>4
  <2>3. PartsLeft(B, c) = PartsLeft(A, c) BY <2>1, <2>2 DEF PartsLeft
  <2>4. RootLeft(B, c) <=> RootLeft(A, c) BY <1>1, <1>4 DEF RootLeft
  <2> QED BY <2>3, <2>4, <1>4 DEF Counted
<1>5. CASE c = f.task.call /\ f.task.kind = "slice"
  <2>1. req[c].device BY <1>1, <1>2, <1>5 DEF FrameOK
  <2>2. IsFiniteSet(PartsLeft(A, c)) /\ n[c] = Cardinality(PartsLeft(A, c)) BY <2>1 DEF Counted
  <2>3. ~Joins(f) BY <1>5 DEF Joins
  <2>4. f.task.id \in Int BY <1>1, <1>2 DEF FrameOK, FrameType, Tasks
  <2>5. Parts(f) = {f.task.id}
    <3>1. 2^f.task.level = 1 BY <2>3, PowerOfTwo
    <3> QED BY <3>1, <2>4 DEF Parts
  <2>6. ASSUME NEW r \in DOMAIN B, B[r].task.call = c PROVE Parts(B[r]) \cap Parts(f) = {}
    <3>1. r \in DOMAIN A /\ r # s /\ B[r] = A[r] BY <1>1
    <3>2. ~Joins(A[r]) BY <2>1, <2>6, <3>1, <1>2 DEF FrameOK, Joins
    <3>3. SameCall(A[s], A[r]) BY <2>6, <3>1, <1>5 DEF SameCall
    <3> QED BY <3>1, <3>2, <3>3, <2>3, <1>1 DEF BoardInv, Sliced
  <2>7. ASSUME NEW y PROVE y \in PartsLeft(B, c) <=> y \in PartsLeft(A, c) \ {f.task.id}
    <3>1. y \in PartsLeft(B, c) <=> \E r \in DOMAIN B : B[r].task.call = c /\ y \in Parts(B[r])
      BY Zenon DEF PartsLeft
    <3>2. y \in PartsLeft(A, c) <=> \E r \in DOMAIN A : A[r].task.call = c /\ y \in Parts(A[r])
      BY Zenon DEF PartsLeft
    <3>3. ASSUME NEW r \in DOMAIN B, B[r].task.call = c, y \in Parts(B[r])
          PROVE y \in PartsLeft(A, c) \ {f.task.id}
      BY <3>2, <3>3, <2>5, <2>6, <1>1
    <3>4. ASSUME NEW r \in DOMAIN A, A[r].task.call = c, y \in Parts(A[r]), y # f.task.id
          PROVE y \in PartsLeft(B, c)
      <4>1. r # s BY <3>4, <2>5
      <4> QED BY <4>1, <3>1, <3>4, <1>1
    <3> QED BY <3>1, <3>2, <3>3, <3>4
  <2>8. PartsLeft(B, c) = PartsLeft(A, c) \ {f.task.id} BY <2>7, Zenon
  <2>9. f.task.id \in PartsLeft(A, c) BY <2>5, <1>1, <1>5 DEF PartsLeft
  <2>10. IsFiniteSet(PartsLeft(B, c)) /\ Cardinality(PartsLeft(B, c)) = Cardinality(PartsLeft(A, c)) - 1
    BY <2>2, <2>8, <2>9, FS_RemoveElement
  <2> QED BY <2>1, <2>2, <2>10, <1>5
<1>6. CASE c = f.task.call /\ f.task.kind = "root"
  <2>1. ~req[c].device BY <1>1, <1>2, <1>6 DEF FrameOK
  <2>2. RootLeft(A, c) BY <1>1, <1>6 DEF RootLeft
  <2>3. ~RootLeft(B, c)
    <3>1. SUFFICES ASSUME NEW r \in DOMAIN B, B[r].task.call = c, B[r].task.kind = "root"
      PROVE FALSE
      BY DEF RootLeft
    <3>2. r \in DOMAIN A /\ r # s /\ B[r] = A[r] BY <1>1
    <3>3. Pair(A, s, r) BY <3>1, <3>2, <1>1, <1>6 DEF Pair, Joins, SameCall
    <3>4. Within(f, A[r]) \/ Within(A[r], f) \/ Apart(f, A[r])
      BY <3>2, <3>3, <1>1 DEF BoardInv, Laid
    <3> DEFINE g == A[r]
    <3>5. Begin(g) = Begin(f) /\ End(g) = End(f)
      BY <3>1, <3>2, <1>1, <1>2, <1>6 DEF FrameOK, Begin, End
    <3>6. /\ Begin(f) \in Int /\ End(f) \in Int /\ Middle(f) \in Int /\ Begin(f) < End(f)
          /\ f.pc # "run" => Begin(f) < Middle(f) /\ Middle(f) < End(f)
      BY <3>3, <1>1, <1>2, FrameFacts DEF Pair
    <3>7. /\ Middle(g) \in Int
          /\ g.pc # "run" => Begin(g) < Middle(g) /\ Middle(g) < End(g)
      BY <3>2, <3>3, <1>2, FrameFacts DEF Pair
    <3>8. Within(f, g) \/ Within(g, f) \/ Apart(f, g) BY <3>4
    <3> HIDE DEF g
    <3> QED BY <3>5, <3>6, <3>7, <3>8 DEF Within, InLeft, InRight, Apart
  <2> QED BY <2>1, <2>2, <2>3, <1>6 DEF Counted
<1>7. CASE c = f.task.call /\ f.task.kind \notin {"root", "slice"}
  <2>1. ~req[c].device BY <1>1, <1>2, <1>7 DEF FrameOK
  <2>2. RootLeft(B, c) <=> RootLeft(A, c) BY <1>1, <1>7 DEF RootLeft
  <2> QED BY <2>1, <2>2, <1>7 DEF Counted
<1> QED BY <1>4, <1>5, <1>6, <1>7

LEMMA EndedFresh ==
  ASSUME NEW req, NEW F, NEW A, NEW B, NEW s, NEW f, NEW ph, NEW G,
         f = A[s], Ended(A, B, s), Fresh(A, F, ph), f.task.call \in Callers,
         G \in {F, Done(f, F)}
  PROVE  Fresh(B, G, ph)
<1>1. /\ s \in DOMAIN A
      /\ \A r \in DOMAIN B : r \in DOMAIN A /\ B[r] = A[r]
  BY DEF Ended
<1>2. ph[f.task.call] # "idle" BY <1>1 DEF Fresh
<1>3. ASSUME NEW c \in Callers, ph[c] = "idle", NEW x PROVE <<c, x>> \in G => <<c, x>> \in F
  BY <1>2, <1>3 DEF Done
<1> QED BY <1>1, <1>3 DEF Fresh

(* When the barrier of a call has nothing left to wait for, neither has    *)
(* the pool.                                                               *)
LEMMA NothingLeft ==
  ASSUME NEW req, NEW F, NEW A, NEW n, NEW c \in Callers,
         BoardInv(req, A, F), Counted(req, A, n), n[c] = 0
  PROVE  \A s \in DOMAIN A : A[s].task.call # c
<1>1. SUFFICES ASSUME NEW s \in DOMAIN A, A[s].task.call = c PROVE FALSE OBVIOUS
<1>2. FrameOK(req, A[s]) BY DEF BoardInv, BoardOK
<1>3. CASE req[c].device
  <2>1. IsFiniteSet(PartsLeft(A, c)) /\ Cardinality(PartsLeft(A, c)) = 0 BY <1>3 DEF Counted
  <2>2. PartsLeft(A, c) = {} BY <2>1, FS_EmptySet
  <2>3. A[s].task.id \in Int /\ A[s].task.level \in Nat BY <1>2 DEF FrameOK, FrameType, Tasks
  <2>4. 2^A[s].task.level \in Nat \ {0} BY <2>3, PowerOfTwo
  <2>5. A[s].task.id \in Parts(A[s]) BY <2>3, <2>4 DEF Parts
  <2> QED BY <2>2, <2>5, <1>1 DEF PartsLeft
<1>4. CASE ~req[c].device
  <2>1. ~RootLeft(A, c) BY <1>4 DEF Counted
  <2>2. Joins(A[s]) BY <1>1, <1>2, <1>4 DEF FrameOK, Joins
  <2>3. \E u \in DOMAIN A : A[u].task.kind = "root" /\ SameCall(A[u], A[s])
    BY <2>2 DEF BoardInv, Rooted
  <2> QED BY <2>1, <2>3, <1>1 DEF RootLeft, SameCall
<1> QED BY <1>3, <1>4

(***************************************************************************)
(* A call begins: its only task comes onto the board.                      *)
(***************************************************************************)
Started(A, B, n, h) ==
  /\ n \notin DOMAIN A /\ DOMAIN B = DOMAIN A \cup {n}
  /\ \A r \in DOMAIN A : B[r] = A[r]
  /\ B[n] = h

LEMMA StartedInv ==
  ASSUME NEW req, NEW F, NEW A, NEW B, NEW n, NEW h,
         BoardInv(req, A, F), Started(A, B, n, h), FrameOK(req, h), h.pc = "run",
         h.task.kind \in {"root", "slice"},
         \A s \in DOMAIN A : A[s].task.call # h.task.call,
         \A x \in Int : <<h.task.call, x>> \notin F
  PROVE  BoardInv(req, B, F)
<1>1. /\ n \notin DOMAIN A /\ DOMAIN B = DOMAIN A \cup {n}
      /\ \A r \in DOMAIN A : B[r] = A[r]
      /\ B[n] = h
  BY DEF Started
<1>2. \A r \in DOMAIN A : ~SameCall(B[n], B[r]) /\ ~SameCall(B[r], B[n]) BY <1>1 DEF SameCall
<1>3. \A q, r : Pair(B, q, r) => Pair(A, q, r) BY <1>1, <1>2 DEF Pair
<1>4. \A q, r : Pair(A, q, r) => Pair(B, q, r) BY <1>1 DEF Pair
<1>5. \A q, r : Pair(A, q, r) => /\ q \in DOMAIN A /\ r \in DOMAIN A /\ q \in DOMAIN B
                                 /\ r \in DOMAIN B /\ B[q] = A[q] /\ B[r] = A[r]
  BY <1>1 DEF Pair
<1>6. BoardOK(req, B) BY <1>1 DEF BoardInv, BoardOK
<1>7. Laid(B) BY <1>3, <1>5 DEF BoardInv, Laid
<1>8. RightsDiffer(B) BY <1>3, <1>5 DEF BoardInv, RightsDiffer
<1>9. Sliced(B) BY <1>1, <1>2 DEF BoardInv, Sliced
<1>10. Unused(B, F) BY <1>1 DEF BoardInv, Unused
<1>11. LeftOnTop(B)
  <2>1. SUFFICES ASSUME NEW q \in DOMAIN B, NEW r \in DOMAIN B, Pair(B, q, r), InLeft(B[q], B[r])
                 PROVE /\ Above(q) \in DOMAIN B /\ Pair(B, q, Above(q))
                       /\ Begin(B[Above(q)]) = Begin(B[q]) /\ End(B[Above(q)]) = Middle(B[q])
    BY Zenon DEF LeftOnTop
  <2>2. Pair(A, q, r) /\ B[q] = A[q] /\ B[r] = A[r] BY <2>1, <1>3, <1>5
  <2>3. /\ Pair(A, q, Above(q))
        /\ Begin(A[Above(q)]) = Begin(A[q]) /\ End(A[Above(q)]) = Middle(A[q])
    BY <2>1, <2>2, <1>5 DEF BoardInv, LeftOnTop
  <2> QED BY <2>2, <2>3, <1>4, <1>5, Zenon
<1>12. RightPending(B)
  <2>1. SUFFICES ASSUME NEW q \in DOMAIN B, NEW r \in DOMAIN B, Pair(B, q, r), InRight(B[q], B[r])
                 PROVE \E u \in DOMAIN B : /\ Pair(B, q, u) /\ B[u].task.kind = "right"
                                           /\ Begin(B[u]) = Middle(B[q]) /\ End(B[u]) = End(B[q])
    BY Zenon DEF RightPending
  <2>2. Pair(A, q, r) /\ B[q] = A[q] /\ B[r] = A[r] BY <2>1, <1>3, <1>5
  <2>3. PICK u \in DOMAIN A : /\ Pair(A, q, u) /\ A[u].task.kind = "right"
                              /\ Begin(A[u]) = Middle(A[q]) /\ End(A[u]) = End(A[q])
    BY <2>1, <2>2, <1>5 DEF BoardInv, RightPending
  <2> QED BY <2>2, <2>3, <1>4, <1>5
<1>13. HasParent(B)
  <2>1. SUFFICES ASSUME NEW r \in DOMAIN B, B[r].task.kind = "right"
                 PROVE \E u \in DOMAIN B : /\ Joins(B[u]) /\ SameCall(B[u], B[r])
                                           /\ B[u].pc \in {"forked", "help"}
                                           /\ Middle(B[u]) = B[r].task.id
    BY Zenon DEF HasParent
  <2>2. r \in DOMAIN A /\ B[r] = A[r] BY <2>1, <1>1
  <2>3. PICK u \in DOMAIN A : /\ Joins(A[u]) /\ SameCall(A[u], A[r])
                              /\ A[u].pc \in {"forked", "help"}
                              /\ Middle(A[u]) = A[r].task.id
    BY <2>1, <2>2 DEF BoardInv, HasParent
  <2> QED BY <2>2, <2>3, <1>1
<1>14. Rooted(B)
  <2>1. SUFFICES ASSUME NEW r \in DOMAIN B, Joins(B[r])
                 PROVE \E u \in DOMAIN B : /\ B[u].task.kind = "root" /\ SameCall(B[u], B[r])
                                           /\ u = r \/ Within(B[u], B[r])
    BY Zenon DEF Rooted
  <2>2. CASE r = n BY <2>1, <2>2, <1>1 DEF Joins, SameCall
  <2>3. CASE r \in DOMAIN A
    <3>1. PICK u \in DOMAIN A : /\ A[u].task.kind = "root" /\ SameCall(A[u], A[r])
                                /\ u = r \/ Within(A[u], A[r])
      BY <2>1, <2>3, <1>1 DEF BoardInv, Rooted
    <3> QED BY <2>3, <3>1, <1>1
  <2> QED BY <2>2, <2>3, <1>1
<1> QED BY <1>6, <1>7, <1>8, <1>9, <1>10, <1>11, <1>12, <1>13, <1>14, Zenon DEF BoardInv

LEMMA StartedRest ==
  ASSUME NEW req, NEW A, NEW B, NEW n, NEW h, Started(A, B, n, h),
         \A s \in DOMAIN A : A[s].task.call # h.task.call
  PROVE  /\ \A c : c # h.task.call => PartsLeft(B, c) = PartsLeft(A, c)
         /\ PartsLeft(B, h.task.call) = Parts(h)
         /\ \A c : c # h.task.call => (RootLeft(B, c) <=> RootLeft(A, c))
         /\ RootLeft(B, h.task.call) <=> h.task.kind = "root"
         /\ \A c, x : c # h.task.call => (Owned(B, c, x) <=> Owned(A, c, x))
         /\ \A x : Owned(B, h.task.call, x) <=> Owns(h, x)
<1>1. /\ n \notin DOMAIN A /\ DOMAIN B = DOMAIN A \cup {n}
      /\ \A r \in DOMAIN A : B[r] = A[r]
      /\ B[n] = h
  BY DEF Started
<1>2. ASSUME NEW c, c # h.task.call PROVE PartsLeft(B, c) = PartsLeft(A, c)
  <2>1. {r \in DOMAIN B : B[r].task.call = c} = {r \in DOMAIN A : A[r].task.call = c}
    BY <1>1, <1>2
  <2>2. \A r \in {q \in DOMAIN A : A[q].task.call = c} : B[r] = A[r] BY <1>1
  <2> QED BY <2>1, <2>2 DEF PartsLeft
<1>3. PartsLeft(B, h.task.call) = Parts(h)
  <2>1. {r \in DOMAIN B : B[r].task.call = h.task.call} = {n} BY <1>1
  <2> QED BY <2>1, <1>1 DEF PartsLeft
<1>4. ASSUME NEW c, c # h.task.call PROVE RootLeft(B, c) <=> RootLeft(A, c)
  BY <1>1, <1>4 DEF RootLeft
<1>5. RootLeft(B, h.task.call) <=> h.task.kind = "root" BY <1>1 DEF RootLeft
<1>6. ASSUME NEW c, NEW x, c # h.task.call PROVE Owned(B, c, x) <=> Owned(A, c, x)
  BY <1>1, <1>6 DEF Owned
<1>7. ASSUME NEW x PROVE Owned(B, h.task.call, x) <=> Owns(h, x) BY <1>1 DEF Owned
<1> QED BY <1>2, <1>3, <1>4, <1>5, <1>6, <1>7

(***************************************************************************)
(* parallelForImpl splits a slice.                                         *)
(***************************************************************************)
Splits(f, g, h) ==
  /\ ~Joins(f) /\ ~Joins(g) /\ ~Joins(h) /\ SameCall(f, g) /\ SameCall(f, h)
  /\ g.pc = "run" /\ h.pc = "run"
  /\ Parts(f) = Parts(g) \cup Parts(h) /\ Parts(g) \cap Parts(h) = {}
  /\ \A x : /\ Owns(f, x) <=> Owns(g, x) \/ Owns(h, x)
            /\ ~(Owns(g, x) /\ Owns(h, x))

LEMMA SplitInv ==
  ASSUME NEW req, NEW F, NEW A, NEW B, NEW s, NEW n, NEW f, NEW g, NEW h,
         BoardInv(req, A, F), f = A[s], Splits(f, g, h),
         FrameOK(req, g), FrameOK(req, h), Grown(A, B, s, n, g, h)
  PROVE  BoardInv(req, B, F)
<1>1. /\ s \in DOMAIN A /\ n \notin DOMAIN A /\ DOMAIN B = DOMAIN A \cup {n}
      /\ \A r \in DOMAIN A \ {s} : B[r] = A[r]
      /\ B[s] = g /\ B[n] = h
  BY DEF Grown
<1>2. ~Joins(B[s]) /\ ~Joins(B[n]) /\ ~Joins(A[s]) BY <1>1 DEF Splits
<1>3. \A r \in DOMAIN B : Joins(B[r]) => r \in DOMAIN A \ {s} /\ B[r] = A[r] BY <1>1, <1>2
<1>4. \A r \in DOMAIN A : Joins(A[r]) => r \in DOMAIN B /\ B[r] = A[r] BY <1>1, <1>2
<1>5. \A q, r : Pair(B, q, r) <=> Pair(A, q, r) BY <1>3, <1>4 DEF Pair
<1>6. \A q, r : Pair(A, q, r) => /\ q \in DOMAIN A /\ r \in DOMAIN A /\ q \in DOMAIN B
                                 /\ r \in DOMAIN B /\ B[q] = A[q] /\ B[r] = A[r]
  BY <1>4 DEF Pair
<1>7. BoardOK(req, B) BY <1>1 DEF BoardInv, BoardOK, Splits
<1>8. Laid(B) BY <1>5, <1>6 DEF BoardInv, Laid
<1>9. RightsDiffer(B) BY <1>5, <1>6 DEF BoardInv, RightsDiffer
<1>10. Unused(B, F) BY <1>3 DEF BoardInv, Unused
<1>11. LeftOnTop(B)
  <2>1. SUFFICES ASSUME NEW q \in DOMAIN B, NEW r \in DOMAIN B, Pair(B, q, r), InLeft(B[q], B[r])
                 PROVE /\ Above(q) \in DOMAIN B /\ Pair(B, q, Above(q))
                       /\ Begin(B[Above(q)]) = Begin(B[q]) /\ End(B[Above(q)]) = Middle(B[q])
    BY Zenon DEF LeftOnTop
  <2>2. Pair(A, q, r) /\ B[q] = A[q] /\ B[r] = A[r] BY <2>1, <1>5, <1>6
  <2>3. /\ Pair(A, q, Above(q))
        /\ Begin(A[Above(q)]) = Begin(A[q]) /\ End(A[Above(q)]) = Middle(A[q])
    BY <2>1, <2>2, <1>6 DEF BoardInv, LeftOnTop
  <2> QED BY <2>2, <2>3, <1>5, <1>6, Zenon
<1>12. RightPending(B)
  <2>1. SUFFICES ASSUME NEW q \in DOMAIN B, NEW r \in DOMAIN B, Pair(B, q, r), InRight(B[q], B[r])
                 PROVE \E u \in DOMAIN B : /\ Pair(B, q, u) /\ B[u].task.kind = "right"
                                           /\ Begin(B[u]) = Middle(B[q]) /\ End(B[u]) = End(B[q])
    BY Zenon DEF RightPending
  <2>2. Pair(A, q, r) /\ B[q] = A[q] /\ B[r] = A[r] BY <2>1, <1>5, <1>6
  <2>3. PICK u \in DOMAIN A : /\ Pair(A, q, u) /\ A[u].task.kind = "right"
                              /\ Begin(A[u]) = Middle(A[q]) /\ End(A[u]) = End(A[q])
    BY <2>1, <2>2, <1>6 DEF BoardInv, RightPending
  <2> QED BY <2>2, <2>3, <1>5, <1>6
<1>13. HasParent(B)
  <2>1. SUFFICES ASSUME NEW r \in DOMAIN B, B[r].task.kind = "right"
                 PROVE \E u \in DOMAIN B : /\ Joins(B[u]) /\ SameCall(B[u], B[r])
                                           /\ B[u].pc \in {"forked", "help"}
                                           /\ Middle(B[u]) = B[r].task.id
    BY Zenon DEF HasParent
  <2>2. Joins(B[r]) BY <2>1 DEF Joins
  <2>3. r \in DOMAIN A /\ B[r] = A[r] BY <2>2, <1>3
  <2>4. PICK u \in DOMAIN A : /\ Joins(A[u]) /\ SameCall(A[u], A[r])
                              /\ A[u].pc \in {"forked", "help"}
                              /\ Middle(A[u]) = A[r].task.id
    BY <2>1, <2>3 DEF BoardInv, HasParent
  <2> QED BY <2>3, <2>4, <1>4
<1>14. Rooted(B)
  <2>1. SUFFICES ASSUME NEW r \in DOMAIN B, Joins(B[r])
                 PROVE \E u \in DOMAIN B : /\ B[u].task.kind = "root" /\ SameCall(B[u], B[r])
                                           /\ u = r \/ Within(B[u], B[r])
    BY Zenon DEF Rooted
  <2>2. r \in DOMAIN A /\ B[r] = A[r] BY <2>1, <1>3
  <2>3. PICK u \in DOMAIN A : /\ A[u].task.kind = "root" /\ SameCall(A[u], A[r])
                              /\ u = r \/ Within(A[u], A[r])
    BY <2>1, <2>2 DEF BoardInv, Rooted
  <2>4. Joins(A[u]) BY <2>3 DEF Joins
  <2> QED BY <2>2, <2>3, <2>4, <1>4
<1>15. Sliced(B)
  <2>1. SUFFICES ASSUME NEW q \in DOMAIN B, NEW r \in DOMAIN B, q # r,
                        SameCall(B[q], B[r]), ~Joins(B[q]), ~Joins(B[r])
                 PROVE /\ Parts(B[q]) \cap Parts(B[r]) = {}
                       /\ \A x : ~(Owns(B[q], x) /\ Owns(B[r], x))
    BY Zenon DEF Sliced
  <2>2. ASSUME NEW p \in DOMAIN A, p # s, f.task.call = A[p].task.call, ~Joins(A[p])
        PROVE /\ Parts(f) \cap Parts(A[p]) = {}
              /\ \A x : ~(Owns(f, x) /\ Owns(A[p], x))
    BY <2>2, <1>1, <1>2 DEF BoardInv, Sliced, SameCall
  <2>3. ASSUME NEW p \in DOMAIN A \ {s}, f.task.call = A[p].task.call, ~Joins(A[p]), NEW o \in {g, h}
        PROVE /\ Parts(o) \cap Parts(A[p]) = {}
              /\ \A x : ~(Owns(o, x) /\ Owns(A[p], x))
    BY <2>2, <2>3 DEF Splits
  <2>4. g.task.call = f.task.call /\ h.task.call = f.task.call BY DEF Splits, SameCall
  <2>5. CASE q \in DOMAIN A \ {s} /\ r \in DOMAIN A \ {s}
    BY <2>1, <2>5, <1>1 DEF BoardInv, Sliced
  <2>6. CASE q \in {s, n} /\ r \in DOMAIN A \ {s}
    <3>1. B[q] \in {g, h} /\ B[r] = A[r] BY <2>6, <1>1
    <3> QED BY <2>1, <2>3, <2>4, <2>6, <3>1 DEF SameCall
  <2>7. CASE r \in {s, n} /\ q \in DOMAIN A \ {s}
    <3>1. B[r] \in {g, h} /\ B[q] = A[q] BY <2>7, <1>1
    <3>2. Parts(B[r]) \cap Parts(B[q]) = {} /\ \A x : ~(Owns(B[r], x) /\ Owns(B[q], x))
      BY <2>1, <2>3, <2>4, <2>7, <3>1 DEF SameCall
    <3> QED BY <3>2
  <2>8. CASE (q = s /\ r = n) \/ (q = n /\ r = s)
    <3>1. Parts(g) \cap Parts(h) = {} /\ \A x : ~(Owns(g, x) /\ Owns(h, x)) BY DEF Splits
    <3> QED BY <2>8, <3>1, <1>1
  <2> QED BY <2>1, <2>5, <2>6, <2>7, <2>8, <1>1
<1> QED BY <1>7, <1>8, <1>9, <1>10, <1>11, <1>12, <1>13, <1>14, <1>15, Zenon DEF BoardInv

LEMMA SplitRest ==
  ASSUME NEW A, NEW B, NEW s, NEW n, NEW f, NEW g, NEW h,
         f = A[s], Splits(f, g, h), Grown(A, B, s, n, g, h)
  PROVE  /\ \A c : PartsLeft(B, c) = PartsLeft(A, c)
         /\ \A c : RootLeft(B, c) <=> RootLeft(A, c)
         /\ \A c, x : Owned(B, c, x) <=> Owned(A, c, x)
         /\ \A F, ph : Fresh(A, F, ph) => Fresh(B, F, ph)
<1>1. /\ s \in DOMAIN A /\ n \notin DOMAIN A /\ DOMAIN B = DOMAIN A \cup {n}
      /\ \A r \in DOMAIN A \ {s} : B[r] = A[r]
      /\ B[s] = g /\ B[n] = h
  BY DEF Grown
<1>2. /\ g.task.call = f.task.call /\ h.task.call = f.task.call
      /\ f.task.kind = "slice" /\ g.task.kind = "slice" /\ h.task.kind = "slice"
  BY DEF Splits, SameCall, Joins
<1>3. Parts(f) = Parts(g) \cup Parts(h) /\ \A x : Owns(f, x) <=> Owns(g, x) \/ Owns(h, x)
  BY DEF Splits
<1>4. ASSUME NEW c PROVE PartsLeft(B, c) = PartsLeft(A, c)
  <2>1. ASSUME NEW y
    PROVE y \in PartsLeft(B, c) <=> \E r \in DOMAIN B : B[r].task.call = c /\ y \in Parts(B[r])
    BY Zenon DEF PartsLeft
  <2>2. ASSUME NEW y
    PROVE y \in PartsLeft(A, c) <=> \E r \in DOMAIN A : A[r].task.call = c /\ y \in Parts(A[r])
    BY Zenon DEF PartsLeft
  <2>3. ASSUME NEW y, NEW r \in DOMAIN B, B[r].task.call = c, y \in Parts(B[r])
    PROVE y \in PartsLeft(A, c)
    <3>1. CASE r \in DOMAIN A \ {s} BY <3>1, <2>2, <2>3, <1>1
    <3>2. CASE r \in {s, n}
      <4>1. A[s].task.call = c /\ y \in Parts(A[s]) BY <3>2, <2>3, <1>1, <1>2, <1>3
      <4> QED BY <4>1, <2>2, <1>1
    <3> QED BY <3>1, <3>2, <1>1
  <2>4. ASSUME NEW y, NEW r \in DOMAIN A, A[r].task.call = c, y \in Parts(A[r])
    PROVE y \in PartsLeft(B, c)
    <3>1. CASE r # s BY <3>1, <2>1, <2>4, <1>1
    <3>2. CASE r = s
      <4>1. B[s].task.call = c /\ B[n].task.call = c BY <3>2, <2>4, <1>1, <1>2
      <4>2. y \in Parts(B[s]) \/ y \in Parts(B[n]) BY <3>2, <2>4, <1>1, <1>3
      <4> QED BY <4>1, <4>2, <2>1, <1>1
    <3> QED BY <3>1, <3>2
  <2>5. \A y : y \in PartsLeft(B, c) <=> y \in PartsLeft(A, c) BY <2>1, <2>2, <2>3, <2>4
  <2> QED BY <2>5, Zenon
<1>5. ASSUME NEW c PROVE RootLeft(B, c) <=> RootLeft(A, c)
  BY <1>1, <1>2 DEF RootLeft
<1>6. ASSUME NEW c, NEW x PROVE Owned(B, c, x) <=> Owned(A, c, x)
  <2>1. ASSUME NEW r \in DOMAIN B, B[r].task.call = c, Owns(B[r], x) PROVE Owned(A, c, x)
    <3>1. CASE r \in DOMAIN A \ {s} BY <3>1, <2>1, <1>1 DEF Owned
    <3>2. CASE r \in {s, n}
      <4>1. Owns(f, x) /\ f.task.call = c BY <3>2, <2>1, <1>1, <1>2, <1>3
      <4> QED BY <4>1, <1>1 DEF Owned
    <3> QED BY <3>1, <3>2, <1>1
  <2>2. ASSUME NEW r \in DOMAIN A, A[r].task.call = c, Owns(A[r], x) PROVE Owned(B, c, x)
    <3>1. CASE r # s BY <3>1, <2>2, <1>1 DEF Owned
    <3>2. CASE r = s
      <4>1. Owns(g, x) \/ Owns(h, x) BY <3>2, <2>2, <1>3
      <4>2. g.task.call = c /\ h.task.call = c BY <3>2, <2>2, <1>2
      <4> QED BY <4>1, <4>2, <1>1 DEF Owned
    <3> QED BY <3>1, <3>2
  <2> QED BY <2>1, <2>2 DEF Owned
<1>7. ASSUME NEW F, NEW ph, Fresh(A, F, ph) PROVE Fresh(B, F, ph)
  <2>1. \A r \in DOMAIN B : \E q \in DOMAIN A : B[r].task.call = A[q].task.call BY <1>1, <1>2
  <2> QED BY <2>1, <1>7 DEF Fresh
<1> QED BY <1>4, <1>5, <1>6, <1>7

(* The two parts of a slice, as Split makes them. *)
ByRows(task) == task.rows[2] - task.rows[1] > 1
SliceMiddle(task) == Halve(IF ByRows(task) THEN task.rows ELSE task.cols)
SlicePart(task, id, rows, cols) == Task(task.call, "slice", id, rows, cols, task.level - 1)
RightSlice(task) ==
  IF ByRows(task)
    THEN SlicePart(task, task.id + 2^(task.level - 1), <<SliceMiddle(task), task.rows[2]>>, task.cols)
    ELSE SlicePart(task, task.id + 2^(task.level - 1), task.rows, <<SliceMiddle(task), task.cols[2]>>)
RestSlice(task) ==
  IF ByRows(task)
    THEN SlicePart(task, task.id, <<task.rows[1], SliceMiddle(task)>>, task.cols)
    ELSE SlicePart(task, task.id, task.rows, <<task.cols[1], SliceMiddle(task)>>)

LEMMA HalveSplits ==
  ASSUME NEW b \in Int, NEW e \in Int
  PROVE  /\ Halve(<<b, e>>) \in Int
         /\ b..(e - 1) = (b..(Halve(<<b, e>>) - 1)) \cup (Halve(<<b, e>>)..(e - 1))
         /\ (b..(Halve(<<b, e>>) - 1)) \cap (Halve(<<b, e>>)..(e - 1)) = {}
<1>1. Halve(<<b, e>>) = b + ((e - b) \div 2) BY DEF Halve
<1>2. PICK m \in Int : m = Halve(<<b, e>>) BY <1>1
<1>3. (b <= e => b <= m /\ m <= e) /\ (e <= b => e <= m /\ m <= b) BY <1>1, <1>2
<1>4. b..(e - 1) = (b..(m - 1)) \cup (m..(e - 1)) BY <1>3
<1> QED BY <1>2, <1>4

IsSlice(o, task, l, id, rows, cols) == o = Frame(Task(task.call, "slice", id, rows, cols, l))

IsWidth(p, l) == p = 2^l

LEMMA ProductSplits ==
  ASSUME NEW R, NEW S, NEW T, NEW C, R = S \cup T, S \cap T = {}
  PROVE  \A x : /\ (x \in R \X C <=> x \in S \X C \/ x \in T \X C)
                /\ (x \in C \X R <=> x \in C \X S \/ x \in C \X T)
                /\ ~(x \in S \X C /\ x \in T \X C)
                /\ ~(x \in C \X S /\ x \in C \X T)
OBVIOUS

SliceFacts(req, task, o, id, p, rows, cols) ==
  /\ o.pc = "run" /\ o.task.call = task.call /\ FrameOK(req, o) /\ ~Joins(o)
  /\ Parts(o) = id..(id + p - 1)
  /\ \A x : Owns(o, x) <=> x \in Grid(rows, cols)

LEMMA SliceFrame ==
  ASSUME NEW req, NEW task \in Tasks, req[task.call].device, NEW l \in Nat, NEW o,
         NEW id \in Int, NEW rows \in Int \X Int, NEW cols \in Int \X Int,
         IsSlice(o, task, l, id, rows, cols), NEW p \in Nat, IsWidth(p, l)
  PROVE  SliceFacts(req, task, o, id, p, rows, cols)
<1>1. /\ o.pc = "run" /\ o.task.kind = "slice" /\ o.task.id = id /\ o.task.level = l
      /\ o.task.rows = rows /\ o.task.cols = cols /\ o.task.call = task.call
  BY DEF IsSlice, Frame, Task
<1>2. task.call \in Callers BY DEF Tasks
<1>3. o \in FrameType BY <1>2 DEF IsSlice, Frame, Task, FrameType, Tasks
<1>4. FrameOK(req, o) /\ ~Joins(o) BY <1>1, <1>3 DEF FrameOK, Joins
<1>5. Parts(o) = id..(id + p - 1) BY <1>1 DEF Parts, IsWidth
<1>6. ASSUME NEW x PROVE Owns(o, x) <=> x \in Grid(rows, cols)
  BY <1>1 DEF Owns, Grid, Begin, End, OwnEnd
<1> QED BY <1>1, <1>4, <1>5, <1>6 DEF SliceFacts

LEMMA SplitFrames ==
  ASSUME NEW req, NEW f, FrameOK(req, f), f.task.kind = "slice", f.task.level > 0,
         NEW g, g = Frame(RestSlice(f.task)), NEW h, h = Frame(RightSlice(f.task))
  PROVE  FrameOK(req, g) /\ FrameOK(req, h) /\ Splits(f, g, h)
<1>1. PICK task \in Tasks : task = f.task BY DEF FrameOK, FrameType
<1>2. f.pc = "run" /\ task.kind = "slice" /\ task.call \in Callers /\ task.id \in Int
  BY <1>1 DEF FrameOK, Tasks
<1>3. PICK l \in Nat : task.level = l + 1
  <2>1. task.level \in Nat /\ task.level > 0 BY <1>1 DEF Tasks
  <2>2. task.level - 1 \in Nat /\ task.level = (task.level - 1) + 1 BY <2>1
  <2> QED BY <2>2
<1>4. PICK rb \in Int, re \in Int : task.rows = <<rb, re>> BY DEF Tasks
<1>5. PICK cb \in Int, ce \in Int : task.cols = <<cb, ce>> BY DEF Tasks
<1>6. PICK p \in Nat \ {0} : p = 2^l /\ 2^(l + 1) = p + p BY PowerOfTwo
<1>7. task.level - 1 = l /\ IsWidth(p, l) /\ p \in Nat BY <1>3, <1>6 DEF IsWidth
<1>8. req[task.call].device BY <1>1, <1>2 DEF FrameOK
<1>9. /\ Parts(f) = task.id..(task.id + (p + p) - 1)
      /\ \A x : Owns(f, x) <=> x \in (rb..(re - 1)) \X (cb..(ce - 1))
      /\ ~Joins(f)
  <2>1. ASSUME NEW x PROVE Owns(f, x) <=> x \in (rb..(re - 1)) \X (cb..(ce - 1))
    BY <1>1, <1>2, <1>4, <1>5 DEF Owns, Grid, Begin, End, OwnEnd
  <2> QED BY <2>1, <1>1, <1>2, <1>3, <1>6 DEF Parts, Joins
<1>10. task.id + p \in Int BY <1>2
<1>11. /\ task.id..(task.id + (p + p) - 1) =
            (task.id..(task.id + p - 1)) \cup ((task.id + p)..((task.id + p) + p - 1))
       /\ (task.id..(task.id + p - 1)) \cap ((task.id + p)..((task.id + p) + p - 1)) = {}
  BY <1>2
<1>12. CASE ByRows(task)
  <2>1. PICK m \in Int : /\ m = Halve(<<rb, re>>)
                         /\ rb..(re - 1) = (rb..(m - 1)) \cup (m..(re - 1))
                         /\ (rb..(m - 1)) \cap (m..(re - 1)) = {}
    BY HalveSplits
  <2>2. SliceMiddle(task) = m BY <2>1, <1>4, <1>12 DEF SliceMiddle
  <2>3. PICK gr \in Int \X Int, gc \in Int \X Int : gr = <<rb, m>> /\ gc = <<cb, ce>> BY <2>1
  <2>4. PICK hr \in Int \X Int, hc \in Int \X Int : hr = <<m, re>> /\ hc = <<cb, ce>> BY <2>1
  <2>5. IsSlice(g, task, l, task.id, gr, gc)
    BY <2>2, <2>3, <1>1, <1>4, <1>5, <1>7, <1>12 DEF IsSlice, RestSlice, SlicePart
  <2>6. IsSlice(h, task, l, task.id + p, hr, hc)
    BY <2>2, <2>4, <1>1, <1>4, <1>5, <1>6, <1>7, <1>12 DEF IsSlice, RightSlice, SlicePart
  <2>7. SliceFacts(req, task, g, task.id, p, gr, gc)
    BY ONLY <2>5, <1>1, <1>2, <1>7, <1>8, SliceFrame, Zenon
  <2>8. SliceFacts(req, task, h, task.id + p, p, hr, hc)
    BY ONLY <2>6, <1>1, <1>7, <1>8, <1>10, SliceFrame, Zenon
  <2>9. /\ Grid(gr, gc) = (rb..(m - 1)) \X (cb..(ce - 1))
        /\ Grid(hr, hc) = (m..(re - 1)) \X (cb..(ce - 1))
    BY <2>3, <2>4 DEF Grid
  <2>10. ASSUME NEW x
         PROVE /\ x \in (rb..(re - 1)) \X (cb..(ce - 1)) <=> x \in Grid(gr, gc) \/ x \in Grid(hr, hc)
               /\ ~(x \in Grid(gr, gc) /\ x \in Grid(hr, hc))
    BY ONLY <2>1, <2>9, ProductSplits, Zenon
  <2>11. ASSUME NEW x PROVE /\ Owns(f, x) <=> Owns(g, x) \/ Owns(h, x)
                            /\ ~(Owns(g, x) /\ Owns(h, x))
    BY <2>7, <2>8, <2>10, <1>9, Zenon DEF SliceFacts
  <2> QED BY <2>7, <2>8, <2>11, <1>1, <1>2, <1>6, <1>9, <1>11 DEF Splits, SameCall, SliceFacts
<1>13. CASE ~ByRows(task)
  <2>1. PICK m \in Int : /\ m = Halve(<<cb, ce>>)
                         /\ cb..(ce - 1) = (cb..(m - 1)) \cup (m..(ce - 1))
                         /\ (cb..(m - 1)) \cap (m..(ce - 1)) = {}
    BY HalveSplits
  <2>2. SliceMiddle(task) = m BY <2>1, <1>5, <1>13 DEF SliceMiddle
  <2>3. PICK gr \in Int \X Int, gc \in Int \X Int : gr = <<rb, re>> /\ gc = <<cb, m>> BY <2>1
  <2>4. PICK hr \in Int \X Int, hc \in Int \X Int : hr = <<rb, re>> /\ hc = <<m, ce>> BY <2>1
  <2>5. IsSlice(g, task, l, task.id, gr, gc)
    BY <2>2, <2>3, <1>1, <1>4, <1>5, <1>7, <1>13 DEF IsSlice, RestSlice, SlicePart
  <2>6. IsSlice(h, task, l, task.id + p, hr, hc)
    BY <2>2, <2>4, <1>1, <1>4, <1>5, <1>6, <1>7, <1>13 DEF IsSlice, RightSlice, SlicePart
  <2>7. SliceFacts(req, task, g, task.id, p, gr, gc)
    BY ONLY <2>5, <1>1, <1>2, <1>7, <1>8, SliceFrame, Zenon
  <2>8. SliceFacts(req, task, h, task.id + p, p, hr, hc)
    BY ONLY <2>6, <1>1, <1>7, <1>8, <1>10, SliceFrame, Zenon
  <2>9. /\ Grid(gr, gc) = (rb..(re - 1)) \X (cb..(m - 1))
        /\ Grid(hr, hc) = (rb..(re - 1)) \X (m..(ce - 1))
    BY <2>3, <2>4 DEF Grid
  <2>10. ASSUME NEW x
         PROVE /\ x \in (rb..(re - 1)) \X (cb..(ce - 1)) <=> x \in Grid(gr, gc) \/ x \in Grid(hr, hc)
               /\ ~(x \in Grid(gr, gc) /\ x \in Grid(hr, hc))
    BY ONLY <2>1, <2>9, ProductSplits, Zenon
  <2>11. ASSUME NEW x PROVE /\ Owns(f, x) <=> Owns(g, x) \/ Owns(h, x)
                            /\ ~(Owns(g, x) /\ Owns(h, x))
    BY <2>7, <2>8, <2>10, <1>9, Zenon DEF SliceFacts
  <2> QED BY <2>7, <2>8, <2>11, <1>1, <1>2, <1>6, <1>9, <1>11 DEF Splits, SameCall, SliceFacts
<1> QED BY <1>12, <1>13

(***************************************************************************)
(* Stacks, counted from below.                                             *)
(***************************************************************************)
LEMMA StackTail ==
  ASSUME NEW S, NEW frames \in Seq(S), frames # <<>>
  PROVE  /\ Len(frames) \in Nat \ {0} /\ Tail(frames) \in Seq(S)
         /\ Len(Tail(frames)) = Len(frames) - 1
         /\ FromBelow(frames, Len(frames)) = Head(frames) /\ Head(frames) \in S
         /\ \A d \in 1..(Len(frames) - 1) : FromBelow(Tail(frames), d) = FromBelow(frames, d)
<1>1. Len(frames) \in Nat \ {0} /\ Tail(frames) \in Seq(S) /\ Len(Tail(frames)) = Len(frames) - 1
  OBVIOUS
<1>2. FromBelow(frames, Len(frames)) = Head(frames) /\ Head(frames) \in S BY <1>1 DEF FromBelow
<1>3. ASSUME NEW d \in 1..(Len(frames) - 1) PROVE FromBelow(Tail(frames), d) = FromBelow(frames, d)
  <2>1. Len(frames) - 1 + 1 - d \in 1..Len(Tail(frames)) BY <1>1
  <2>2. Tail(frames)[Len(frames) - 1 + 1 - d] = frames[Len(frames) - 1 + 1 - d + 1] BY <2>1, <1>1
  <2> QED BY <2>2, <1>1 DEF FromBelow
<1> QED BY <1>1, <1>2, <1>3

LEMMA StackPush ==
  ASSUME NEW S, NEW frames \in Seq(S), NEW f \in S
  PROVE  /\ Len(frames) \in Nat /\ <<f>> \o frames \in Seq(S)
         /\ Len(<<f>> \o frames) = Len(frames) + 1
         /\ FromBelow(<<f>> \o frames, Len(frames) + 1) = f
         /\ \A d \in 1..Len(frames) : FromBelow(<<f>> \o frames, d) = FromBelow(frames, d)
<1>1. Len(frames) \in Nat /\ <<f>> \in Seq(S) /\ Len(<<f>>) = 1 /\ <<f>>[1] = f OBVIOUS
<1>2. <<f>> \o frames \in Seq(S) /\ Len(<<f>> \o frames) = Len(frames) + 1 BY <1>1
<1>3. (<<f>> \o frames)[1] = f BY <1>1
<1>4. FromBelow(<<f>> \o frames, Len(frames) + 1) = f BY <1>1, <1>2, <1>3 DEF FromBelow
<1>5. ASSUME NEW d \in 1..Len(frames) PROVE FromBelow(<<f>> \o frames, d) = FromBelow(frames, d)
  <2>1. (<<f>> \o frames)[Len(frames) + 2 - d] = frames[Len(frames) + 1 - d] BY <1>1
  <2> QED BY <2>1, <1>1, <1>2 DEF FromBelow
<1> QED BY <1>1, <1>2, <1>4, <1>5

(* What is where on a board. *)
LEMMA BoardPlaces ==
  ASSUME NEW q, NEW st
  PROVE  /\ DOMAIN Board(q, st) = Slots(q, st)
         /\ \A task : <<"pool", task, 0>> \in Slots(q, st) <=> task \in q
         /\ \A t, d : <<"stack", t, d>> \in Slots(q, st) <=> t \in Threads /\ d \in 1..Len(st[t])
         /\ \A s \in Slots(q, st) : \/ \E task \in q : s = <<"pool", task, 0>>
                                    \/ \E t \in Threads : \E d \in 1..Len(st[t]) : s = <<"stack", t, d>>
         /\ \A task \in q : Board(q, st)[<<"pool", task, 0>>] = Frame(task)
         /\ \A t \in Threads : \A d \in 1..Len(st[t]) :
              Board(q, st)[<<"stack", t, d>>] = FromBelow(st[t], d)
<1>1. DOMAIN Board(q, st) = Slots(q, st) BY DEF Board
<1>2. ASSUME NEW task PROVE <<"pool", task, 0>> \in Slots(q, st) <=> task \in q
  BY DEF Slots
<1>3. ASSUME NEW t, NEW d
  PROVE <<"stack", t, d>> \in Slots(q, st) <=> t \in Threads /\ d \in 1..Len(st[t])
  BY DEF Slots
<1>4. ASSUME NEW s \in Slots(q, st)
      PROVE \/ \E task \in q : s = <<"pool", task, 0>>
            \/ \E t \in Threads : \E d \in 1..Len(st[t]) : s = <<"stack", t, d>>
  BY <1>4, Zenon DEF Slots
<1>5. ASSUME NEW task \in q PROVE Board(q, st)[<<"pool", task, 0>>] = Frame(task)
  <2>1. PICK s : s = <<"pool", task, 0>> OBVIOUS
  <2>2. s \in Slots(q, st) /\ s[1] = "pool" /\ s[2] = task BY <2>1, <1>2
  <2> QED BY <2>1, <2>2 DEF Board
<1>6. ASSUME NEW t \in Threads, NEW d \in 1..Len(st[t])
      PROVE Board(q, st)[<<"stack", t, d>>] = FromBelow(st[t], d)
  <2>1. PICK s : s = <<"stack", t, d>> OBVIOUS
  <2>2. s \in Slots(q, st) /\ s[1] = "stack" /\ s[2] = t /\ s[3] = d BY <2>1, <1>3
  <2> QED BY <2>1, <2>2 DEF Board
<1> QED BY <1>1, <1>2, <1>3, <1>4, <1>5, <1>6

(* The top of a stack. *)
TopPlace(st, t) == <<"stack", t, Len(st[t])>>
NextPlace(st, t) == <<"stack", t, Len(st[t]) + 1>>
PoolPlace(task) == <<"pool", task, 0>>

(* What becomes of the stack of t: as high as before, one higher, or one   *)
(* lower; k frames from below stay.                                        *)
Keeps(st, st2, t, k) ==
  /\ \A u \in Threads \ {t} : st2[u] = st[u]
  /\ \A d \in 1..k : FromBelow(st2[t], d) = FromBelow(st[t], d)

LEMMA TopOfBoard ==
  ASSUME NEW q, NEW st \in Stacks, NEW t \in Threads, st[t] # <<>>
  PROVE  /\ TopPlace(st, t) \in DOMAIN Board(q, st)
         /\ Board(q, st)[TopPlace(st, t)] = Head(st[t])
         /\ Above(TopPlace(st, t)) = NextPlace(st, t)
         /\ TopPlace(st, t)[1] = "stack" /\ TopPlace(st, t)[2] = t
<1>1. st[t] \in Seq(FrameType) BY DEF Stacks
<1>2. Len(st[t]) \in Nat \ {0} /\ FromBelow(st[t], Len(st[t])) = Head(st[t]) BY <1>1, StackTail
<1>3. Len(st[t]) \in 1..Len(st[t]) BY <1>2
<1> QED BY <1>2, <1>3, BoardPlaces DEF TopPlace, NextPlace, Above

LEMMA NextIsFree ==
  ASSUME NEW q, NEW st \in Stacks, NEW t \in Threads
  PROVE  NextPlace(st, t) \notin DOMAIN Board(q, st) /\ NextPlace(st, t)[1] = "stack" /\ NextPlace(st, t)[2] = t
<1>1. Len(st[t]) \in Nat BY DEF Stacks
<1>2. Len(st[t]) + 1 \notin 1..Len(st[t]) BY <1>1
<1> QED BY <1>2, BoardPlaces DEF NextPlace

LEMMA PoolFrame ==
  ASSUME NEW q, NEW st, NEW task \in q, NEW A, A = Board(q, st)
  PROVE  PoolPlace(task) \in DOMAIN A /\ A[PoolPlace(task)] = Frame(task)
<1>1. PoolPlace(task) \in DOMAIN Board(q, st) BY BoardPlaces DEF PoolPlace
<1>2. Board(q, st)[PoolPlace(task)] = Frame(task) BY BoardPlaces DEF PoolPlace
<1> QED BY <1>1, <1>2

LEMMA StackFrame ==
  ASSUME NEW q, NEW st, NEW t \in Threads, NEW d \in 1..Len(st[t]), NEW A, A = Board(q, st)
  PROVE  <<"stack", t, d>> \in DOMAIN A /\ A[<<"stack", t, d>>] = FromBelow(st[t], d)
<1>1. <<"stack", t, d>> \in DOMAIN Board(q, st) BY BoardPlaces
<1>2. Board(q, st)[<<"stack", t, d>>] = FromBelow(st[t], d) BY BoardPlaces
<1> QED BY <1>1, <1>2

(* The places that a step of thread t leaves alone. *)
Kept(A, B, q, q2, st, st2, t, k) ==
  /\ \A u \in Threads : \A d \in 1..Len(st[u]) : (u # t \/ d <= k) =>
       <<"stack", u, d>> \in DOMAIN B /\ B[<<"stack", u, d>>] = A[<<"stack", u, d>>]
  /\ \A u \in Threads : \A d \in 1..Len(st2[u]) : (u # t \/ d <= k) =>
       <<"stack", u, d>> \in DOMAIN A
  /\ \A task \in q \cap q2 :
       PoolPlace(task) \in DOMAIN B /\ B[PoolPlace(task)] = A[PoolPlace(task)]

LEMMA KeptPlaces ==
  ASSUME NEW q, NEW q2, NEW st \in Stacks, NEW st2 \in Stacks, NEW t \in Threads, NEW k \in Nat,
         Keeps(st, st2, t, k), k <= Len(st[t]), k <= Len(st2[t])
  PROVE  Kept(Board(q, st), Board(q2, st2), q, q2, st, st2, t, k)
<1>1. ASSUME NEW u \in Threads, NEW d \in 1..Len(st[u]), u # t \/ d <= k
      PROVE /\ <<"stack", u, d>> \in DOMAIN Board(q2, st2)
            /\ Board(q2, st2)[<<"stack", u, d>>] = Board(q, st)[<<"stack", u, d>>]
  <2>1. Len(st[t]) \in Nat /\ Len(st2[t]) \in Nat BY DEF Stacks
  <2>2. d \in 1..Len(st2[u]) /\ FromBelow(st2[u], d) = FromBelow(st[u], d)
    <3>1. CASE u # t BY <3>1 DEF Keeps
    <3>2. CASE u = t
      <4>1. d \in Nat /\ 1 <= d /\ d <= k BY <1>1, <2>1, <3>2
      <4> QED BY <4>1, <3>2, <2>1 DEF Keeps
    <3> QED BY <3>1, <3>2
  <2> QED BY <2>2, BoardPlaces
<1>2. ASSUME NEW u \in Threads, NEW d \in 1..Len(st2[u]), u # t \/ d <= k
      PROVE <<"stack", u, d>> \in DOMAIN Board(q, st)
  <2>1. Len(st[t]) \in Nat /\ Len(st2[t]) \in Nat BY DEF Stacks
  <2>2. d \in 1..Len(st[u])
    <3>1. CASE u # t BY <3>1 DEF Keeps
    <3>2. CASE u = t BY <1>2, <2>1, <3>2
    <3> QED BY <3>1, <3>2
  <2> QED BY <2>2, BoardPlaces
<1>3. ASSUME NEW task \in q \cap q2
      PROVE /\ PoolPlace(task) \in DOMAIN Board(q2, st2)
            /\ Board(q2, st2)[PoolPlace(task)] = Board(q, st)[PoolPlace(task)]
  BY BoardPlaces DEF PoolPlace
<1> QED BY <1>1, <1>2, <1>3, Zenon DEF Kept

(* A place is one in the pool or one in a stack. *)
LEMMA PlaceCases ==
  ASSUME NEW q, NEW st, NEW s \in DOMAIN Board(q, st)
  PROVE  \/ \E task \in q : s = PoolPlace(task)
         \/ \E u \in Threads : \E d \in 1..Len(st[u]) : s = <<"stack", u, d>>
BY BoardPlaces DEF PoolPlace

LEMMA PlacesDiffer ==
  ASSUME NEW task, NEW u, NEW d
  PROVE  /\ PoolPlace(task) # <<"stack", u, d>> /\ PoolPlace(task)[1] = "pool"
         /\ \A other : PoolPlace(task) = PoolPlace(other) => task = other
         /\ \A v, e : <<"stack", u, d>> = <<"stack", v, e>> => u = v /\ d = e
BY DEF PoolPlace

LEMMA TakenBoard ==
  ASSUME NEW q, NEW task \in q, NEW q2, q2 = q \ {task},
         NEW st \in Stacks, NEW st2 \in Stacks, NEW t \in Threads,
         Keeps(st, st2, t, Len(st[t])), Len(st2[t]) = Len(st[t]) + 1,
         FromBelow(st2[t], Len(st[t]) + 1) = Frame(task)
  PROVE  Moved(Board(q, st), Board(q2, st2), PoolPlace(task), NextPlace(st, t))
<1> DEFINE A == Board(q, st)
           B == Board(q2, st2)
           s == PoolPlace(task)
           n == NextPlace(st, t)
<1>1. Len(st[t]) \in Nat BY DEF Stacks
<1>kept. Kept(A, B, q, q2, st, st2, t, Len(st[t]))
  <2>1. Len(st[t]) <= Len(st[t]) /\ Len(st[t]) <= Len(st2[t]) BY <1>1
  <2> QED BY <2>1, <1>1, KeptPlaces, Zenon
<1>2. s \in DOMAIN A /\ s[1] = "pool" /\ A[s] = Frame(task)
  BY BoardPlaces, PlacesDiffer DEF PoolPlace
<1>3. n \notin DOMAIN A /\ n[1] = "stack" BY NextIsFree
<1>4. n \in DOMAIN B /\ B[n] = Frame(task)
  <2>1. Len(st[t]) + 1 \in 1..Len(st2[t]) BY <1>1
  <2> QED BY <2>1, BoardPlaces DEF NextPlace
<1>5. ASSUME NEW r \in DOMAIN A, r # s PROVE r \in DOMAIN B /\ B[r] = A[r]
  <2>1. CASE \E other \in q : r = PoolPlace(other)
    <3>1. PICK other \in q : r = PoolPlace(other) BY <2>1
    <3>2. other \in q \cap q2 BY <3>1, <1>5
    <3> QED BY <3>1, <3>2, <1>kept, Zenon DEF Kept
  <2>2. CASE \E u \in Threads : \E d \in 1..Len(st[u]) : r = <<"stack", u, d>>
    <3>1. PICK u \in Threads : \E d \in 1..Len(st[u]) : r = <<"stack", u, d>> BY <2>2
    <3>place. PICK d \in 1..Len(st[u]) : r = <<"stack", u, d>> BY <3>1
    <3>2. u # t \/ d <= Len(st[t]) BY <1>1
    <3> QED BY <3>place, <3>2, <1>kept, Zenon DEF Kept
  <2> QED BY <2>1, <2>2, PlaceCases
<1>6. ASSUME NEW r \in DOMAIN B, r # n PROVE r \in DOMAIN A /\ r # s
  <2>1. CASE \E other \in q2 : r = PoolPlace(other)
    <3>1. PICK other \in q2 : r = PoolPlace(other) BY <2>1
    <3> QED BY <3>1, BoardPlaces, PlacesDiffer DEF PoolPlace
  <2>2. CASE \E u \in Threads : \E d \in 1..Len(st2[u]) : r = <<"stack", u, d>>
    <3>1. PICK u \in Threads : \E d \in 1..Len(st2[u]) : r = <<"stack", u, d>> BY <2>2
    <3>place. PICK d \in 1..Len(st2[u]) : r = <<"stack", u, d>> BY <3>1
    <3>2. u # t \/ d # Len(st[t]) + 1 BY <3>place, <1>6 DEF NextPlace
    <3>3. u # t \/ d <= Len(st[t]) BY <3>2, <1>1
    <3>4. r \in DOMAIN A BY <3>place, <3>3, <1>kept, Zenon DEF Kept
    <3> QED BY <3>place, <3>4, PlacesDiffer
  <2> QED BY <2>1, <2>2, PlaceCases
<1> HIDE DEF A, B, s, n
<1>7. DOMAIN B = (DOMAIN A \ {s}) \cup {n} BY <1>3, <1>4, <1>5, <1>6, <1>2
<1>8. Moved(A, B, s, n) BY <1>2, <1>3, <1>4, <1>5, <1>7 DEF Moved
<1> QED BY <1>8 DEF A, B, s, n

(* A thread that does not fit its new task into the pool has it on top ... *)
LEMMA PushedBoard ==
  ASSUME NEW q, NEW st \in Stacks, NEW st2 \in Stacks, NEW t \in Threads, NEW f,
         Keeps(st, st2, t, Len(st[t])), Len(st2[t]) = Len(st[t]) + 1,
         FromBelow(st2[t], Len(st[t]) + 1) = f
  PROVE  Started(Board(q, st), Board(q, st2), NextPlace(st, t), f)
<1> DEFINE A == Board(q, st)
           B == Board(q, st2)
           n == NextPlace(st, t)
<1>1. Len(st[t]) \in Nat BY DEF Stacks
<1>kept. Kept(A, B, q, q, st, st2, t, Len(st[t]))
  <2>1. Len(st[t]) <= Len(st[t]) /\ Len(st[t]) <= Len(st2[t]) BY <1>1
  <2> QED BY <2>1, <1>1, KeptPlaces, Zenon
<1>2. n \notin DOMAIN A BY NextIsFree
<1>3. n \in DOMAIN B /\ B[n] = f
  <2>1. Len(st[t]) + 1 \in 1..Len(st2[t]) BY <1>1
  <2> QED BY <2>1, BoardPlaces DEF NextPlace
<1>4. ASSUME NEW r \in DOMAIN A PROVE r \in DOMAIN B /\ B[r] = A[r]
  <2>1. CASE \E other \in q : r = PoolPlace(other)
    <3>1. PICK other \in q : r = PoolPlace(other) BY <2>1
    <3>2. other \in q \cap q OBVIOUS
    <3> QED BY <3>1, <3>2, <1>kept, Zenon DEF Kept
  <2>2. CASE \E u \in Threads : \E d \in 1..Len(st[u]) : r = <<"stack", u, d>>
    <3>1. PICK u \in Threads : \E d \in 1..Len(st[u]) : r = <<"stack", u, d>> BY <2>2
    <3>place. PICK d \in 1..Len(st[u]) : r = <<"stack", u, d>> BY <3>1
    <3>2. u # t \/ d <= Len(st[t]) BY <1>1
    <3> QED BY <3>place, <3>2, <1>kept, Zenon DEF Kept
  <2> QED BY <2>1, <2>2, PlaceCases
<1>5. ASSUME NEW r \in DOMAIN B, r # n PROVE r \in DOMAIN A
  <2>1. CASE \E other \in q : r = PoolPlace(other)
    BY <2>1, BoardPlaces DEF PoolPlace
  <2>2. CASE \E u \in Threads : \E d \in 1..Len(st2[u]) : r = <<"stack", u, d>>
    <3>1. PICK u \in Threads : \E d \in 1..Len(st2[u]) : r = <<"stack", u, d>> BY <2>2
    <3>place. PICK d \in 1..Len(st2[u]) : r = <<"stack", u, d>> BY <3>1
    <3>2. u # t \/ d # Len(st[t]) + 1 BY <3>place, <1>5 DEF NextPlace
    <3>3. u # t \/ d <= Len(st[t]) BY <3>2, <1>1
    <3> QED BY <3>place, <3>3, <1>kept, Zenon DEF Kept
  <2> QED BY <2>1, <2>2, PlaceCases
<1> HIDE DEF A, B, n
<1>6. DOMAIN B = DOMAIN A \cup {n} BY <1>3, <1>4, <1>5
<1>7. Started(A, B, n, f) BY <1>2, <1>3, <1>4, <1>6 DEF Started
<1> QED BY <1>7 DEF A, B, n

(* ... and one that does has it in the pool. *)
LEMMA PooledBoard ==
  ASSUME NEW q, NEW task, task \notin q, NEW q2, q2 = q \cup {task},
         NEW st \in Stacks
  PROVE  Started(Board(q, st), Board(q2, st), PoolPlace(task), Frame(task))
<1> DEFINE A == Board(q, st)
           B == Board(q2, st)
           n == PoolPlace(task)
<1>1. n \notin DOMAIN A BY BoardPlaces DEF PoolPlace
<1>2. n \in DOMAIN B /\ B[n] = Frame(task) BY BoardPlaces DEF PoolPlace
<1>3. ASSUME NEW r \in DOMAIN A PROVE r \in DOMAIN B /\ B[r] = A[r]
  <2>1. CASE \E other \in q : r = PoolPlace(other)
    BY <2>1, BoardPlaces DEF PoolPlace
  <2>2. CASE \E u \in Threads : \E d \in 1..Len(st[u]) : r = <<"stack", u, d>>
    BY <2>2, BoardPlaces
  <2> QED BY <2>1, <2>2, PlaceCases
<1>4. ASSUME NEW r \in DOMAIN B, r # n PROVE r \in DOMAIN A
  <2>1. CASE \E other \in q2 : r = PoolPlace(other)
    <3>1. PICK other \in q2 : r = PoolPlace(other) BY <2>1
    <3>2. other \in q BY <3>1, <1>4
    <3> QED BY <3>1, <3>2, BoardPlaces DEF PoolPlace
  <2>2. CASE \E u \in Threads : \E d \in 1..Len(st[u]) : r = <<"stack", u, d>>
    BY <2>2, BoardPlaces
  <2> QED BY <2>1, <2>2, PlaceCases
<1> HIDE DEF A, B, n
<1>5. DOMAIN B = DOMAIN A \cup {n} BY <1>2, <1>3, <1>4
<1>6. Started(A, B, n, Frame(task)) BY <1>1, <1>2, <1>3, <1>5 DEF Started
<1> QED BY <1>6 DEF A, B, n

(* The top frame is replaced, ... *)
Replaces(A, B, s, g) ==
  /\ s \in DOMAIN A /\ DOMAIN B = DOMAIN A /\ B[s] = g
  /\ \A r \in DOMAIN A \ {s} : B[r] = A[r]

LEMMA ReplacedBoard ==
  ASSUME NEW q, NEW st \in Stacks, NEW st2 \in Stacks, NEW t \in Threads, NEW g, st[t] # <<>>,
         Keeps(st, st2, t, Len(st[t]) - 1), Len(st2[t]) = Len(st[t]),
         FromBelow(st2[t], Len(st[t])) = g
  PROVE  Replaces(Board(q, st), Board(q, st2), TopPlace(st, t), g)
<1> DEFINE A == Board(q, st)
           B == Board(q, st2)
           s == TopPlace(st, t)
           k == Len(st[t]) - 1
<1>1. Len(st[t]) \in Nat \ {0} /\ k \in Nat /\ Len(st[t]) = k + 1
  <2>1. st[t] \in Seq(FrameType) BY DEF Stacks
  <2>2. Len(st[t]) \in Nat \ {0} BY <2>1, StackTail
  <2> QED BY <2>2
<1>2. s \in DOMAIN A BY TopOfBoard
<1>3. B[s] = g
  <2>1. Len(st[t]) \in 1..Len(st2[t]) BY <1>1
  <2> QED BY <2>1, BoardPlaces DEF TopPlace
<1>4. Keeps(st, st2, t, k) /\ k <= Len(st[t]) /\ k <= Len(st2[t]) BY <1>1
<1> HIDE DEF k
<1>kept. Kept(A, B, q, q, st, st2, t, k) BY <1>1, <1>4, KeptPlaces, Zenon
<1>5. ASSUME NEW r \in DOMAIN A, r # s PROVE r \in DOMAIN B /\ B[r] = A[r]
  <2>1. CASE \E other \in q : r = PoolPlace(other)
    <3>1. PICK other \in q : r = PoolPlace(other) BY <2>1
    <3>2. other \in q \cap q OBVIOUS
    <3> QED BY <3>1, <3>2, <1>kept, Zenon DEF Kept
  <2>2. CASE \E u \in Threads : \E d \in 1..Len(st[u]) : r = <<"stack", u, d>>
    <3>1. PICK u \in Threads : \E d \in 1..Len(st[u]) : r = <<"stack", u, d>> BY <2>2
    <3>place. PICK d \in 1..Len(st[u]) : r = <<"stack", u, d>> BY <3>1
    <3>2. u # t \/ d # Len(st[t]) BY <3>place, <1>5 DEF TopPlace
    <3>3. u # t \/ d <= k BY <3>2, <1>1
    <3> QED BY <3>place, <3>3, <1>kept, Zenon DEF Kept
  <2> QED BY <2>1, <2>2, PlaceCases
<1>6. ASSUME NEW r \in DOMAIN B PROVE r \in DOMAIN A
  <2>1. CASE \E other \in q : r = PoolPlace(other)
    BY <2>1, BoardPlaces DEF PoolPlace
  <2>2. CASE \E u \in Threads : \E d \in 1..Len(st2[u]) : r = <<"stack", u, d>>
    <3>1. PICK u \in Threads : \E d \in 1..Len(st2[u]) : r = <<"stack", u, d>> BY <2>2
    <3>place. PICK d \in 1..Len(st2[u]) : r = <<"stack", u, d>> BY <3>1
    <3>2. CASE u = t BY <3>place, <3>2, BoardPlaces
    <3>3. CASE u # t BY <3>place, <3>3, <1>kept, Zenon DEF Kept
    <3> QED BY <3>2, <3>3
  <2> QED BY <2>1, <2>2, PlaceCases
<1>7. s \in DOMAIN B
  <2>1. Len(st[t]) \in 1..Len(st2[t]) BY <1>1
  <2> QED BY <2>1, BoardPlaces DEF TopPlace
<1> HIDE DEF A, B, s
<1>8. DOMAIN B = DOMAIN A BY <1>5, <1>6, <1>7
<1>9. Replaces(A, B, s, g) BY <1>2, <1>3, <1>5, <1>8 DEF Replaces
<1> QED BY <1>9 DEF A, B, s

(* ... a frame or a task comes on top of that, or the frame goes. *)
LEMMA ReplacedAndStarted ==
  ASSUME NEW A, NEW B, NEW C, NEW s, NEW n, NEW g, NEW h,
         Replaces(A, B, s, g), Started(B, C, n, h)
  PROVE  Grown(A, C, s, n, g, h)
BY DEF Replaces, Started, Grown

LEMMA PoppedBoard ==
  ASSUME NEW q, NEW st \in Stacks, NEW st2 \in Stacks, NEW t \in Threads, st[t] # <<>>,
         Keeps(st, st2, t, Len(st[t]) - 1), Len(st2[t]) = Len(st[t]) - 1
  PROVE  Ended(Board(q, st), Board(q, st2), TopPlace(st, t))
<1> DEFINE A == Board(q, st)
           B == Board(q, st2)
           s == TopPlace(st, t)
           k == Len(st[t]) - 1
<1>1. Len(st[t]) \in Nat \ {0} /\ k \in Nat /\ Len(st[t]) = k + 1
  <2>1. st[t] \in Seq(FrameType) BY DEF Stacks
  <2>2. Len(st[t]) \in Nat \ {0} BY <2>1, StackTail
  <2> QED BY <2>2
<1>2. s \in DOMAIN A BY TopOfBoard
<1>3. Above(s) \notin DOMAIN A BY TopOfBoard, NextIsFree
<1>4. Keeps(st, st2, t, k) /\ k <= Len(st[t]) /\ k <= Len(st2[t]) /\ Len(st2[t]) = k BY <1>1
<1> HIDE DEF k
<1>kept. Kept(A, B, q, q, st, st2, t, k) BY <1>1, <1>4, KeptPlaces, Zenon
<1>5. ASSUME NEW r \in DOMAIN A, r # s PROVE r \in DOMAIN B /\ B[r] = A[r]
  <2>1. CASE \E other \in q : r = PoolPlace(other)
    <3>1. PICK other \in q : r = PoolPlace(other) BY <2>1
    <3>2. other \in q \cap q OBVIOUS
    <3> QED BY <3>1, <3>2, <1>kept, Zenon DEF Kept
  <2>2. CASE \E u \in Threads : \E d \in 1..Len(st[u]) : r = <<"stack", u, d>>
    <3>1. PICK u \in Threads : \E d \in 1..Len(st[u]) : r = <<"stack", u, d>> BY <2>2
    <3>place. PICK d \in 1..Len(st[u]) : r = <<"stack", u, d>> BY <3>1
    <3>2. u # t \/ d # Len(st[t]) BY <3>place, <1>5 DEF TopPlace
    <3>3. u # t \/ d <= k BY <3>2, <1>1
    <3> QED BY <3>place, <3>3, <1>kept, Zenon DEF Kept
  <2> QED BY <2>1, <2>2, PlaceCases
<1>6. ASSUME NEW r \in DOMAIN B PROVE r \in DOMAIN A /\ r # s
  <2>1. CASE \E other \in q : r = PoolPlace(other)
    <3>1. r \in DOMAIN A BY <2>1, BoardPlaces DEF PoolPlace
    <3> QED BY <2>1, <3>1, PlacesDiffer DEF TopPlace
  <2>2. CASE \E u \in Threads : \E d \in 1..Len(st2[u]) : r = <<"stack", u, d>>
    <3>1. PICK u \in Threads : \E d \in 1..Len(st2[u]) : r = <<"stack", u, d>> BY <2>2
    <3>place. PICK d \in 1..Len(st2[u]) : r = <<"stack", u, d>> BY <3>1
    <3>2. u # t \/ d <= k BY <1>1, <1>4
    <3>3. r \in DOMAIN A BY <3>place, <3>2, <1>kept, Zenon DEF Kept
    <3>4. u # t \/ d # Len(st[t]) BY <3>2, <1>1
    <3>5. r # s BY <3>place, <3>4, PlacesDiffer DEF TopPlace
    <3> QED BY <3>3, <3>5
  <2> QED BY <2>1, <2>2, PlaceCases
<1> HIDE DEF A, B, s
<1>7. DOMAIN B = DOMAIN A \ {s} BY <1>5, <1>6
<1>8. \A r \in DOMAIN B : B[r] = A[r] BY <1>5, <1>6
<1>9. Ended(A, B, s) BY <1>2, <1>3, <1>7, <1>8 DEF Ended
<1> QED BY <1>9 DEF A, B, s

(***************************************************************************)
(* What a step does to all that is said of the board.                      *)
(***************************************************************************)
LEMMA SameRest ==
  ASSUME NEW req, NEW A, NEW B, NEW n, Counted(req, A, n),
         \A c \in Callers : req[c].device => PartsLeft(B, c) = PartsLeft(A, c),
         \A c : RootLeft(B, c) <=> RootLeft(A, c),
         \A c, x : Owned(B, c, x) <=> Owned(A, c, x)
  PROVE  Counted(req, B, n) /\ \A ph, r : Ran(A, ph, r) => Ran(B, ph, r)
<1>1. Counted(req, B, n) BY DEF Counted
<1>2. ASSUME NEW ph, NEW r, Ran(A, ph, r) PROVE Ran(B, ph, r) BY <1>2 DEF Ran
<1> QED BY <1>1, <1>2

LEMMA MovedWhole ==
  ASSUME NEW req, NEW A, NEW n, NEW F, NEW ph, NEW r, Whole(req, A, n, F, ph, r),
         NEW B, NEW s, NEW p, Moved(A, B, s, p)
  PROVE  Whole(req, B, n, F, ph, r)
<1>1. /\ BoardInv(req, A, F) /\ Awaits(A, F)
      /\ Counted(req, A, n) /\ Ran(A, ph, r) /\ Fresh(A, F, ph)
  BY DEF Whole
<1>2. BoardInv(req, B, F) BY <1>1, MovedInv
<1>3. /\ \A c : PartsLeft(B, c) = PartsLeft(A, c)
      /\ \A c : RootLeft(B, c) <=> RootLeft(A, c)
      /\ \A c, x : Owned(B, c, x) <=> Owned(A, c, x)
      /\ Fresh(B, F, ph)
  BY <1>1, MovedRest, Zenon
<1>4. Counted(req, B, n) /\ Ran(B, ph, r)
  <2>1. \A c \in Callers : req[c].device => PartsLeft(B, c) = PartsLeft(A, c) BY <1>3
  <2> QED BY <2>1, <1>1, <1>3, SameRest, Zenon
<1>5. Awaits(B, F)
  <2>1. PICK m \in [DOMAIN B -> DOMAIN A] : \E k \in [DOMAIN A -> DOMAIN B] :
           /\ \A q \in DOMAIN B : B[q] = A[m[q]] /\ k[m[q]] = q /\ (q # p => m[q] = q)
           /\ \A q \in DOMAIN A : A[q] = B[k[q]] /\ m[k[q]] = q /\ (q # s => k[q] = q)
    BY MovedPlaces
  <2>2. \A q \in DOMAIN B : \E u \in DOMAIN A : B[q] = A[u] BY <2>1
  <2>3. \A q \in DOMAIN A : \E u \in DOMAIN B : A[q] = B[u] BY <2>1
  <2> QED BY <2>2, <2>3, <1>1 DEF Awaits, SameCall
<1> QED BY <1>2, <1>3, <1>4, <1>5 DEF Whole

LEMMA GrownWhole ==
  ASSUME NEW req, NEW A, NEW n, NEW F, NEW ph, NEW r, Whole(req, A, n, F, ph, r),
         NEW B, NEW s, NEW p, NEW f, NEW g, NEW h,
         f = A[s], Joins(f), HandsOut(f, g, h), FrameOK(req, g), FrameOK(req, h),
         Grown(A, B, s, p, g, h), s[1] = "stack", g.pc = "help" => p = Above(s)
  PROVE  Whole(req, B, n, F, ph, r)
<1>1. /\ BoardInv(req, A, F) /\ Awaits(A, F)
      /\ Counted(req, A, n) /\ Ran(A, ph, r) /\ Fresh(A, F, ph)
  BY DEF Whole
<1>2. BoardInv(req, B, F) BY <1>1, GrownInv
<1>3. BoardOK(req, A) BY <1>1 DEF BoardInv
<1>4. /\ \A c : c # f.task.call => PartsLeft(B, c) = PartsLeft(A, c)
      /\ \A c : RootLeft(B, c) <=> RootLeft(A, c)
      /\ \A c, x : Owned(B, c, x) <=> Owned(A, c, x)
      /\ Fresh(B, F, ph)
  <2>1. /\ \A c : c # f.task.call => PartsLeft(B, c) = PartsLeft(A, c)
        /\ \A c : RootLeft(B, c) <=> RootLeft(A, c)
        /\ \A c, x : Owned(B, c, x) <=> Owned(A, c, x)
        /\ \A G, ph2 : Fresh(A, G, ph2) => Fresh(B, G, ph2)
    BY <1>3, GrownRest
  <2> QED BY <2>1, <1>1
<1>5. ~req[f.task.call].device
  <2>1. FrameOK(req, f) BY <1>3 DEF BoardOK, Grown
  <2> QED BY <2>1 DEF FrameOK, Joins
<1>6. \A c \in Callers : req[c].device => PartsLeft(B, c) = PartsLeft(A, c) BY <1>4, <1>5
<1>7. Counted(req, B, n) /\ Ran(B, ph, r) BY <1>1, <1>4, <1>6, SameRest, Zenon
<1>8. Awaits(B, F)
  <2>1. /\ s \in DOMAIN A /\ p \notin DOMAIN A /\ DOMAIN B = DOMAIN A \cup {p}
        /\ \A q \in DOMAIN A \ {s} : B[q] = A[q]
        /\ B[s] = g /\ B[p] = h
    BY DEF Grown
  <2>2. g.task = f.task /\ h.pc = "run" /\ SameCall(f, h) BY DEF HandsOut
  <2>3. \A q \in DOMAIN A : B[q].task = A[q].task BY <2>1, <2>2
  <2>4. ASSUME NEW q \in DOMAIN A, A[q].pc # "run"
        PROVE \/ <<B[q].task.call, Middle(B[q])>> \in F
              \/ \E u \in DOMAIN B : /\ B[u].task.kind = "right" /\ SameCall(B[u], B[q])
                                     /\ B[u].task.id = Middle(B[q])
    BY <2>1, <2>3, <2>4, <1>1 DEF Awaits, SameCall, Middle
  <2>5. ASSUME f.pc = "run"
        PROVE \E u \in DOMAIN B : /\ B[u].task.kind = "right" /\ SameCall(B[u], B[s])
                                  /\ B[u].task.id = Middle(B[s])
    <3>1. h.task.kind = "right" /\ h.task.id = Middle(f) BY <2>5 DEF HandsOut
    <3> QED BY <3>1, <2>1, <2>2 DEF SameCall, Middle
  <2>6. ASSUME NEW q \in DOMAIN B, B[q].pc # "run"
        PROVE \/ <<B[q].task.call, Middle(B[q])>> \in F
              \/ \E u \in DOMAIN B : /\ B[u].task.kind = "right" /\ SameCall(B[u], B[q])
                                     /\ B[u].task.id = Middle(B[q])
    <3>1. q \in DOMAIN A /\ (q # s => A[q].pc # "run") BY <2>1, <2>2, <2>6
    <3>2. CASE A[q].pc # "run" BY <3>1, <3>2, <2>4
    <3>3. CASE q = s /\ f.pc = "run" BY <3>3, <2>5
    <3> QED BY <3>1, <3>2, <3>3
  <2> QED BY <2>6 DEF Awaits
<1> QED BY <1>2, <1>4, <1>7, <1>8 DEF Whole

LEMMA SplitWhole ==
  ASSUME NEW req, NEW A, NEW n, NEW F, NEW ph, NEW r, Whole(req, A, n, F, ph, r),
         NEW B, NEW s, NEW p, NEW f, NEW g, NEW h,
         f = A[s], Splits(f, g, h), FrameOK(req, g), FrameOK(req, h),
         Grown(A, B, s, p, g, h)
  PROVE  Whole(req, B, n, F, ph, r)
<1>1. /\ BoardInv(req, A, F) /\ Awaits(A, F)
      /\ Counted(req, A, n) /\ Ran(A, ph, r) /\ Fresh(A, F, ph)
  BY DEF Whole
<1>2. BoardInv(req, B, F) BY <1>1, SplitInv
<1>3. /\ \A c : PartsLeft(B, c) = PartsLeft(A, c)
      /\ \A c : RootLeft(B, c) <=> RootLeft(A, c)
      /\ \A c, x : Owned(B, c, x) <=> Owned(A, c, x)
      /\ Fresh(B, F, ph)
  BY <1>1, SplitRest, Zenon
<1>4. Counted(req, B, n) /\ Ran(B, ph, r)
  <2>1. \A c \in Callers : req[c].device => PartsLeft(B, c) = PartsLeft(A, c) BY <1>3
  <2> QED BY <2>1, <1>1, <1>3, SameRest, Zenon
<1>5. Awaits(B, F)
  <2>1. /\ s \in DOMAIN A /\ p \notin DOMAIN A /\ DOMAIN B = DOMAIN A \cup {p}
        /\ \A q \in DOMAIN A \ {s} : B[q] = A[q]
        /\ B[s] = g /\ B[p] = h /\ g.pc = "run" /\ h.pc = "run" /\ f.task.kind = "slice"
    BY DEF Grown, Splits, Joins
  <2>2. \A q \in DOMAIN B : B[q].pc # "run" => q \in DOMAIN A /\ B[q] = A[q] BY <2>1
  <2>3. \A q \in DOMAIN A : A[q].task.kind = "right" => q \in DOMAIN B /\ B[q] = A[q] BY <2>1
  <2> QED BY <2>2, <2>3, <1>1 DEF Awaits
<1> QED BY <1>2, <1>3, <1>4, <1>5 DEF Whole

(* The cells that the ended task still owned have been handed to the       *)
(* function.                                                               *)
RanBy(f, r, r2) ==
  \A c \in Callers :
    /\ DOMAIN r2[c] = DOMAIN r[c]
    /\ \A x \in DOMAIN r[c] :
         r2[c][x] = IF c = f.task.call /\ Owns(f, x) THEN r[c][x] + 1 ELSE r[c][x]

CountedBy(f, n, m) ==
  \A c \in Callers :
    m[c] = IF c = f.task.call /\ f.task.kind \in {"root", "slice"} THEN n[c] - 1 ELSE n[c]

LEMMA EndedWhole ==
  ASSUME NEW req, NEW A, NEW n, NEW F, NEW ph, NEW r, Whole(req, A, n, F, ph, r),
         NEW B, NEW s, NEW f, NEW m, NEW r2, f = A[s], Ended(A, B, s),
         IF Joins(f) THEN MayEnd(f, F) ELSE f.task.level = 0,
         CountedBy(f, n, m), RanBy(f, r, r2)
  PROVE  Whole(req, B, m, Done(f, F), ph, r2)
<1>1. /\ BoardInv(req, A, F) /\ Awaits(A, F)
      /\ Counted(req, A, n) /\ Ran(A, ph, r) /\ Fresh(A, F, ph)
  BY DEF Whole
<1>2. FrameOK(req, f) BY <1>1 DEF BoardInv, BoardOK, Ended
<1>3. f.task.call \in Callers BY <1>2 DEF FrameOK, FrameType, Tasks
<1>4. BoardInv(req, B, Done(f, F))
  <2>1. CASE Joins(f) BY <2>1, <1>1, EndedJoins
  <2>2. CASE ~Joins(f)
    <3>1. Done(f, F) = F BY <2>2 DEF Done, Joins
    <3> QED BY <2>2, <3>1, <1>1, EndedSlice
  <2> QED BY <2>1, <2>2
<1>5. Counted(req, B, m)
  <2>1. ~Joins(f) => f.task.level = 0 OBVIOUS
  <2> QED BY <2>1, <1>1, EndedCounted DEF CountedBy
<1>6. Fresh(B, Done(f, F), ph) BY <1>1, <1>3, EndedFresh
<1>7. Ran(B, ph, r2)
  <2>1. /\ \A c, x : Owned(B, c, x) <=> (Owned(A, c, x) /\ ~(f.task.call = c /\ Owns(f, x)))
        /\ \A x : Owns(f, x) => Owned(A, f.task.call, x)
    BY <1>1, EndedOwned, Zenon
  <2>2. ph[f.task.call] # "idle" BY <1>1, <1>3 DEF Fresh, Ended
  <2>3. ASSUME NEW c \in Callers, NEW x \in DOMAIN r2[c]
        PROVE r2[c][x] = IF ph[c] = "idle" \/ Owned(B, c, x) THEN 0 ELSE 1
    <3>1. x \in DOMAIN r[c] BY <2>3 DEF RanBy
    <3>2. r[c][x] = IF ph[c] = "idle" \/ Owned(A, c, x) THEN 0 ELSE 1 BY <3>1, <1>1 DEF Ran
    <3>3. r2[c][x] = IF c = f.task.call /\ Owns(f, x) THEN r[c][x] + 1 ELSE r[c][x]
      BY <3>1 DEF RanBy
    <3>4. CASE c = f.task.call /\ Owns(f, x)
      BY <2>1, <2>2, <3>2, <3>3, <3>4
    <3>5. CASE ~(c = f.task.call /\ Owns(f, x))
      <4>1. Owned(B, c, x) <=> Owned(A, c, x) BY <2>1, <3>5
      <4> QED BY <3>2, <3>3, <3>5, <4>1
    <3> QED BY <3>4, <3>5
  <2> QED BY <2>3 DEF Ran
<1>8. Awaits(B, Done(f, F))
  <2>1. /\ s \in DOMAIN A /\ DOMAIN B = DOMAIN A \ {s}
        /\ \A q \in DOMAIN B : q \in DOMAIN A /\ B[q] = A[q]
    BY DEF Ended
  <2>2. \A y \in F : y \in Done(f, F) BY DEF Done
  <2>3. f.task.kind = "right" => <<f.task.call, f.task.id>> \in Done(f, F) BY DEF Done
  <2>4. ASSUME NEW q \in DOMAIN B, B[q].pc # "run"
        PROVE \/ <<B[q].task.call, Middle(B[q])>> \in Done(f, F)
              \/ \E u \in DOMAIN B : /\ B[u].task.kind = "right" /\ SameCall(B[u], B[q])
                                     /\ B[u].task.id = Middle(B[q])
    <3>1. q \in DOMAIN A /\ B[q] = A[q] /\ A[q].pc # "run" BY <2>1, <2>4
    <3>2. CASE <<A[q].task.call, Middle(A[q])>> \in F BY <3>1, <3>2, <2>2
    <3>3. CASE \E u \in DOMAIN A : /\ A[u].task.kind = "right" /\ SameCall(A[u], A[q])
                                   /\ A[u].task.id = Middle(A[q])
      <4>1. PICK u \in DOMAIN A : /\ A[u].task.kind = "right" /\ SameCall(A[u], A[q])
                                  /\ A[u].task.id = Middle(A[q])
        BY <3>3
      <4>2. CASE u = s BY <4>1, <4>2, <3>1, <2>3 DEF SameCall
      <4>3. CASE u # s
        <5>1. u \in DOMAIN B /\ B[u] = A[u] BY <4>3, <2>1
        <5> QED BY <5>1, <4>1, <3>1
      <4> QED BY <4>2, <4>3
    <3> QED BY <3>1, <3>2, <3>3, <1>1 DEF Awaits
  <2> QED BY <2>4 DEF Awaits
<1> QED BY <1>4, <1>5, <1>6, <1>7, <1>8 DEF Whole

LEMMA StartedWhole ==
  ASSUME NEW req, NEW A, NEW n, NEW F, NEW ph, NEW r, Whole(req, A, n, F, ph, r),
         NEW B, NEW p, NEW h, NEW c \in Callers, NEW m, NEW ph2, h.task.call = c,
         Started(A, B, p, h), FrameOK(req, h), h.pc = "run",
         h.task.kind \in {"root", "slice"}, ph[c] = "idle", ph2[c] # "idle",
         \A d \in Callers \ {c} : m[d] = n[d] /\ ph2[d] = ph[d],
         h.task.kind = "root" => m[c] = 1,
         h.task.kind = "slice" => IsFiniteSet(Parts(h)) /\ m[c] = Cardinality(Parts(h)),
         \A x \in DOMAIN r[c] : Owns(h, x)
  PROVE  Whole(req, B, m, F, ph2, r)
<1>1. /\ BoardInv(req, A, F) /\ Awaits(A, F)
      /\ Counted(req, A, n) /\ Ran(A, ph, r) /\ Fresh(A, F, ph)
  BY DEF Whole
<1>2. (\A s \in DOMAIN A : A[s].task.call # h.task.call) /\ \A x \in Int : <<h.task.call, x>> \notin F
  BY <1>1 DEF Fresh
<1>3. BoardInv(req, B, F) BY <1>1, <1>2, StartedInv
<1>4. /\ \A d : d # c => PartsLeft(B, d) = PartsLeft(A, d)
      /\ PartsLeft(B, c) = Parts(h)
      /\ \A d : d # c => (RootLeft(B, d) <=> RootLeft(A, d))
      /\ RootLeft(B, c) <=> h.task.kind = "root"
      /\ \A d, x : d # c => (Owned(B, d, x) <=> Owned(A, d, x))
      /\ \A x : Owned(B, c, x) <=> Owns(h, x)
  <2>1. \A s \in DOMAIN A : A[s].task.call # h.task.call BY <1>2
  <2> QED BY ONLY <2>1, Started(A, B, p, h), h.task.call = c, StartedRest
<1>5. Counted(req, B, m)
  <2>1. ASSUME NEW d \in Callers, d # c
        PROVE IF req[d].device THEN IsFiniteSet(PartsLeft(B, d)) /\ m[d] = Cardinality(PartsLeft(B, d))
                               ELSE m[d] = IF RootLeft(B, d) THEN 1 ELSE 0
    BY <2>1, <1>1, <1>4 DEF Counted
  <2>2. req[c].device <=> h.task.kind = "slice" BY DEF FrameOK
  <2>3. IF req[c].device THEN IsFiniteSet(PartsLeft(B, c)) /\ m[c] = Cardinality(PartsLeft(B, c))
                         ELSE m[c] = IF RootLeft(B, c) THEN 1 ELSE 0
    BY <2>2, <1>4
  <2> QED BY <2>1, <2>3, Zenon DEF Counted
<1>6. Ran(B, ph2, r)
  <2>1. ASSUME NEW d \in Callers, NEW x \in DOMAIN r[d]
        PROVE r[d][x] = IF ph2[d] = "idle" \/ Owned(B, d, x) THEN 0 ELSE 1
    <3>1. r[d][x] = IF ph[d] = "idle" \/ Owned(A, d, x) THEN 0 ELSE 1 BY <1>1 DEF Ran
    <3>2. CASE d = c BY <3>1, <3>2, <1>4
    <3>3. CASE d # c
      <4>1. ph2[d] = ph[d] /\ (Owned(B, d, x) <=> Owned(A, d, x)) BY <3>3, <1>4
      <4> QED BY <3>1, <4>1
    <3> QED BY <3>2, <3>3
  <2> QED BY <2>1 DEF Ran
<1>7. Fresh(B, F, ph2)
  <2>1. ASSUME NEW d \in Callers, ph2[d] = "idle"
        PROVE /\ \A s \in DOMAIN B : B[s].task.call # d
              /\ \A x \in Int : <<d, x>> \notin F
    <3>1. d # c /\ ph[d] = "idle" BY <2>1
    <3> QED BY <3>1, <1>1 DEF Fresh, Started
  <2> QED BY <2>1 DEF Fresh
<1>8. Awaits(B, F)
  <2>1. /\ p \notin DOMAIN A /\ DOMAIN B = DOMAIN A \cup {p}
        /\ \A q \in DOMAIN A : B[q] = A[q]
        /\ B[p] = h
    BY DEF Started
  <2>2. \A q \in DOMAIN B : B[q].pc # "run" => q \in DOMAIN A BY <2>1
  <2> QED BY <2>1, <2>2, <1>1 DEF Awaits
<1> QED BY <1>3, <1>5, <1>6, <1>7, <1>8 DEF Whole

(***************************************************************************)
(* The steps of a thread on its stack.                                     *)
(***************************************************************************)
Pushed(st, st2, t, h) == st2 = [st EXCEPT ![t] = <<h>> \o st[t]]
Topped(st, st2, t, g) == st2 = [st EXCEPT ![t] = <<g>> \o Tail(st[t])]
PushedOver(st, st2, t, g, h) == st2 = [st EXCEPT ![t] = <<h>> \o (<<g>> \o Tail(st[t]))]

LEMMA Pushes ==
  ASSUME NEW st \in Stacks, NEW t \in Threads, NEW h \in FrameType, NEW st2,
         Pushed(st, st2, t, h)
  PROVE  /\ st2 \in Stacks /\ Keeps(st, st2, t, Len(st[t])) /\ Len(st2[t]) = Len(st[t]) + 1
         /\ FromBelow(st2[t], Len(st[t]) + 1) = h
<1>1. PICK frames \in Seq(FrameType) : frames = st[t] BY DEF Stacks
<1>2. st2[t] = <<h>> \o frames /\ \A u \in Threads \ {t} : st2[u] = st[u]
  BY <1>1 DEF Stacks, Pushed
<1>3. /\ Len(frames) \in Nat /\ <<h>> \o frames \in Seq(FrameType)
      /\ Len(<<h>> \o frames) = Len(frames) + 1
      /\ FromBelow(<<h>> \o frames, Len(frames) + 1) = h
      /\ \A d \in 1..Len(frames) : FromBelow(<<h>> \o frames, d) = FromBelow(frames, d)
  BY StackPush
<1>4. PICK new \in Seq(FrameType) : new = <<h>> \o frames BY <1>3
<1>5. st2 = [st EXCEPT ![t] = new] BY <1>1, <1>4 DEF Pushed
<1>6. st2 \in Stacks BY <1>5 DEF Stacks
<1> QED BY <1>1, <1>2, <1>3, <1>6 DEF Keeps

LEMMA Tops ==
  ASSUME NEW st \in Stacks, NEW t \in Threads, st[t] # <<>>, NEW g \in FrameType, NEW st2,
         Topped(st, st2, t, g)
  PROVE  /\ st2 \in Stacks /\ Keeps(st, st2, t, Len(st[t]) - 1) /\ Len(st2[t]) = Len(st[t])
         /\ FromBelow(st2[t], Len(st[t])) = g /\ st2[t] # <<>>
<1>1. PICK frames \in Seq(FrameType) : frames = st[t] BY DEF Stacks
<1>2. /\ Len(frames) \in Nat \ {0} /\ Tail(frames) \in Seq(FrameType)
      /\ Len(Tail(frames)) = Len(frames) - 1
      /\ \A d \in 1..(Len(frames) - 1) : FromBelow(Tail(frames), d) = FromBelow(frames, d)
  BY <1>1, StackTail
<1>3. PICK tail \in Seq(FrameType) : tail = Tail(frames) BY <1>2
<1>4. /\ Len(tail) \in Nat /\ <<g>> \o tail \in Seq(FrameType)
      /\ Len(<<g>> \o tail) = Len(tail) + 1
      /\ FromBelow(<<g>> \o tail, Len(tail) + 1) = g
      /\ \A d \in 1..Len(tail) : FromBelow(<<g>> \o tail, d) = FromBelow(tail, d)
  BY StackPush
<1>5. PICK new \in Seq(FrameType) : new = <<g>> \o tail BY <1>4
<1>6. st2 = [st EXCEPT ![t] = new] BY <1>1, <1>3, <1>5 DEF Topped
<1>7. st2 \in Stacks /\ st2[t] = new /\ \A u \in Threads \ {t} : st2[u] = st[u]
  BY <1>6 DEF Stacks
<1>8. Len(tail) = Len(frames) - 1 /\ Len(tail) + 1 = Len(frames) BY <1>2, <1>3
<1>9. \A d \in 1..(Len(frames) - 1) : FromBelow(new, d) = FromBelow(frames, d)
  BY <1>2, <1>3, <1>4, <1>5, <1>8
<1>10. Len(new) = Len(frames) /\ FromBelow(new, Len(frames)) = g BY <1>4, <1>5, <1>8
<1>11. st2[t] # <<>> BY <1>2, <1>7, <1>10
<1> QED BY <1>1, <1>7, <1>9, <1>10, <1>11 DEF Keeps

LEMMA Pops ==
  ASSUME NEW st \in Stacks, NEW t \in Threads, st[t] # <<>>, NEW st2,
         st2 = [st EXCEPT ![t] = Tail(st[t])]
  PROVE  st2 \in Stacks /\ Keeps(st, st2, t, Len(st[t]) - 1) /\ Len(st2[t]) = Len(st[t]) - 1
<1>1. PICK frames \in Seq(FrameType) : frames = st[t] BY DEF Stacks
<1>2. /\ Len(frames) \in Nat \ {0} /\ Tail(frames) \in Seq(FrameType)
      /\ Len(Tail(frames)) = Len(frames) - 1
      /\ \A d \in 1..(Len(frames) - 1) : FromBelow(Tail(frames), d) = FromBelow(frames, d)
  BY <1>1, StackTail
<1>3. PICK tail \in Seq(FrameType) : tail = Tail(frames) BY <1>2
<1>4. st2 = [st EXCEPT ![t] = tail] BY <1>1, <1>3
<1>5. st2 \in Stacks /\ st2[t] = tail /\ \A u \in Threads \ {t} : st2[u] = st[u]
  BY <1>4 DEF Stacks
<1> QED BY <1>1, <1>2, <1>3, <1>5 DEF Keeps

(* A step that puts g in the place of the top frame and schedules a task,  *)
(* or begins it on top of g.                                               *)
LEMMA PushedOn ==
  ASSUME NEW q, NEW st \in Stacks, NEW t \in Threads, st[t] # <<>>,
         NEW g \in FrameType, NEW h \in FrameType, NEW st2,
         PushedOver(st, st2, t, g, h)
  PROVE  /\ st2 \in Stacks /\ \A u \in Threads \ {t} : st2[u] = st[u]
         /\ Grown(Board(q, st), Board(q, st2), TopPlace(st, t), NextPlace(st, t), g, h)
<1>1. PICK st1 : st1 = [st EXCEPT ![t] = <<g>> \o Tail(st[t])] OBVIOUS
<1>top. Topped(st, st1, t, g) BY <1>1 DEF Topped
<1>2. /\ st1 \in Stacks /\ Keeps(st, st1, t, Len(st[t]) - 1) /\ Len(st1[t]) = Len(st[t])
      /\ FromBelow(st1[t], Len(st[t])) = g
  BY <1>top, Tops
<1>3. Replaces(Board(q, st), Board(q, st1), TopPlace(st, t), g) BY <1>2, ReplacedBoard
<1>4. Pushed(st1, st2, t, h)
  <2>1. st2 = [st1 EXCEPT ![t] = <<h>> \o st1[t]] BY <1>1 DEF Stacks, PushedOver
  <2> QED BY <2>1 DEF Pushed
<1>5. /\ st2 \in Stacks /\ Keeps(st1, st2, t, Len(st1[t])) /\ Len(st2[t]) = Len(st1[t]) + 1
      /\ FromBelow(st2[t], Len(st1[t]) + 1) = h
  BY <1>2, <1>4, Pushes
<1>6. Started(Board(q, st1), Board(q, st2), NextPlace(st1, t), h) BY <1>2, <1>5, PushedBoard
<1>7. NextPlace(st1, t) = NextPlace(st, t) BY <1>2 DEF NextPlace
<1>8. Grown(Board(q, st), Board(q, st2), TopPlace(st, t), NextPlace(st, t), g, h)
  BY <1>3, <1>6, <1>7, ReplacedAndStarted
<1> QED BY <1>2, <1>5, <1>8 DEF Keeps

Added(q, q2, task) == q2 = q \cup {task}

LEMMA PooledOn ==
  ASSUME NEW q, NEW task, task \notin q, NEW q2, Added(q, q2, task),
         NEW st \in Stacks, NEW t \in Threads, st[t] # <<>>,
         NEW g \in FrameType, NEW st2, Topped(st, st2, t, g),
         NEW h, h = Frame(task)
  PROVE  /\ st2 \in Stacks /\ \A u \in Threads \ {t} : st2[u] = st[u]
         /\ Grown(Board(q, st), Board(q2, st2), TopPlace(st, t), PoolPlace(task), g, h)
<1>1. /\ st2 \in Stacks /\ Keeps(st, st2, t, Len(st[t]) - 1) /\ Len(st2[t]) = Len(st[t])
      /\ FromBelow(st2[t], Len(st[t])) = g
  BY Tops
<1>2. Replaces(Board(q, st), Board(q, st2), TopPlace(st, t), g) BY <1>1, ReplacedBoard
<1>3. Started(Board(q, st2), Board(q2, st2), PoolPlace(task), h)
  BY <1>1, PooledBoard DEF Added
<1>4. Grown(Board(q, st), Board(q2, st2), TopPlace(st, t), PoolPlace(task), g, h)
  BY <1>2, <1>3, ReplacedAndStarted
<1> QED BY <1>1, <1>4 DEF Keeps

Scheduled(q, q2, st, st2, t, task, g) ==
  \/ Added(q, q2, task) /\ Topped(st, st2, t, g)
  \/ q2 = q /\ PushedOver(st, st2, t, g, Frame(task))

GrownOn(q, q2, st, st2, t, g, h) ==
  /\ st2 \in Stacks /\ \A u \in Threads \ {t} : st2[u] = st[u]
  /\ \E p : Grown(Board(q, st), Board(q2, st2), TopPlace(st, t), p, g, h)

LEMMA ScheduledOn ==
  ASSUME NEW q, NEW q2, NEW task, task \notin q, NEW st \in Stacks, NEW t \in Threads, st[t] # <<>>,
         NEW g \in FrameType, NEW h \in FrameType, h = Frame(task), NEW st2,
         Scheduled(q, q2, st, st2, t, task, g)
  PROVE  GrownOn(q, q2, st, st2, t, g, h)
<1>1. CASE Added(q, q2, task) /\ Topped(st, st2, t, g) BY <1>1, PooledOn DEF GrownOn
<1>2. CASE q2 = q /\ PushedOver(st, st2, t, g, h) BY <1>2, PushedOn DEF GrownOn
<1> QED BY <1>1, <1>2 DEF Scheduled

(* What is handed out was not pending before. *)
LEMMA RightIsNew ==
  ASSUME NEW req, NEW A, NEW F, BoardInv(req, A, F), NEW s \in DOMAIN A, NEW f, f = A[s],
         NEW g, NEW h, Joins(f), f.pc = "run", HandsOut(f, g, h), NEW r \in DOMAIN A, A[r] = h
  PROVE  FALSE
<1>1. FrameOK(req, f) BY DEF BoardInv, BoardOK
<1>2. /\ Begin(f) \in Int /\ Middle(f) \in Int /\ End(f) \in Int BY <1>1, FrameFacts
<1>3. /\ Begin(h) = Middle(f) /\ End(h) = End(f) /\ Begin(f) < Middle(f) /\ Middle(f) < End(f)
      /\ h.pc = "run" /\ Joins(h) /\ SameCall(f, h)
  BY DEF HandsOut
<1>4. r # s BY <1>2, <1>3
<1>5. Pair(A, s, r) BY <1>3, <1>4 DEF Pair
<1>6. Within(f, h) \/ Within(h, f) \/ Apart(f, h) BY <1>5 DEF BoardInv, Laid
<1> QED BY <1>2, <1>3, <1>6 DEF Within, InLeft, InRight, Apart

LEMMA SliceIsNew ==
  ASSUME NEW req, NEW A, NEW F, BoardInv(req, A, F), NEW s \in DOMAIN A, NEW f, f = A[s],
         NEW g, NEW h, Splits(f, g, h), FrameOK(req, g), FrameOK(req, h),
         NEW r \in DOMAIN A, A[r] = h
  PROVE  FALSE
<1>1. ASSUME NEW o, FrameOK(req, o) PROVE o.task.id \in Parts(o)
  <2>1. o.task.id \in Int /\ o.task.level \in Nat BY <1>1 DEF FrameOK, FrameType, Tasks
  <2>2. 2^o.task.level \in Nat \ {0} BY <2>1, PowerOfTwo
  <2> QED BY <2>1, <2>2 DEF Parts
<1>2. Parts(g) # {} /\ Parts(h) # {} BY <1>1
<1>3. Parts(f) = Parts(g) \cup Parts(h) /\ Parts(g) \cap Parts(h) = {} BY DEF Splits
<1>4. ~Joins(f) /\ ~Joins(h) /\ SameCall(f, h) BY DEF Splits
<1>5. CASE r = s
  <2>1. Parts(f) = Parts(h) BY <1>5
  <2> QED BY <2>1, <1>2, <1>3
<1>6. CASE r # s
  <2>1. Parts(f) \cap Parts(h) = {} BY <1>4, <1>6 DEF BoardInv, Sliced
  <2> QED BY <2>1, <1>2, <1>3
<1> QED BY <1>5, <1>6

(***************************************************************************)
(* The steps of the program.                                               *)
(***************************************************************************)
LEMMA TopFacts ==
  ASSUME IInv, NEW t \in Threads, stack[t] # <<>>
  PROVE  /\ TopPlace(stack, t) \in DOMAIN Board(queued, stack)
         /\ Board(queued, stack)[TopPlace(stack, t)] = Top(t)
         /\ Above(TopPlace(stack, t)) = NextPlace(stack, t) /\ TopPlace(stack, t)[1] = "stack"
         /\ FrameOK(request, Top(t)) /\ Top(t) \in FrameType /\ Top(t).task \in Tasks
         /\ Top(t).task.call \in Callers /\ stack \in Stacks
<1>1. stack \in Stacks BY DEF IInv, TypeInv
<1>2. /\ TopPlace(stack, t) \in DOMAIN Board(queued, stack)
      /\ Board(queued, stack)[TopPlace(stack, t)] = Top(t)
      /\ Above(TopPlace(stack, t)) = NextPlace(stack, t) /\ TopPlace(stack, t)[1] = "stack"
  BY <1>1, TopOfBoard DEF Top
<1>3. FrameOK(request, Top(t)) BY <1>2 DEF IInv, Whole, BoardInv, BoardOK
<1>4. Top(t) \in FrameType /\ Top(t).task \in Tasks BY <1>3 DEF FrameOK, FrameType
<1>5. Top(t).task.call \in Callers BY <1>4 DEF Tasks
<1> QED BY <1>1, <1>2, <1>3, <1>4, <1>5

LEMMA StillIdle ==
  ASSUME IdleStacks, NEW t \in Threads, stack[t] # <<>> \/ t \in Workers,
         \A u \in Threads \ {t} : stack'[u] = stack[u], phase' = phase
  PROVE  IdleStacks'
<1>1. ASSUME NEW c \in Callers, phase'[c] = "idle" PROVE stack'[c] = <<>>
  <2>1. stack[c] = <<>> BY <1>1 DEF IdleStacks
  <2>2. c # t BY <2>1, PAssumption
  <2> QED BY <2>1, <2>2 DEF Threads
<1> QED BY <1>1 DEF IdleStacks

LEMMA MaybeGetTaskStep ==
  ASSUME IInv, NEW t \in Threads, MaybeGetTask(t)
  PROVE  IInv'
<1>1. PICK task \in queued : /\ queued' = queued \ {task}
                             /\ stack' = [stack EXCEPT ![t] = <<Frame(task)>> \o @]
  BY DEF MaybeGetTask
<1>2. /\ request' = request /\ phase' = phase /\ count' = count /\ finished' = finished
      /\ ran' = ran /\ t \in Workers
  BY DEF MaybeGetTask
<1>3. stack \in Stacks /\ TypeInv /\ IdleStacks BY DEF IInv, TypeInv
<1>4. Frame(task) \in FrameType
  <2>1. /\ PoolPlace(task) \in DOMAIN Board(queued, stack)
        /\ Board(queued, stack)[PoolPlace(task)] = Frame(task)
    BY PoolFrame
  <2> QED BY <2>1 DEF IInv, Whole, BoardInv, BoardOK, FrameOK
<1>5. /\ stack' \in Stacks /\ Keeps(stack, stack', t, Len(stack[t])) /\ Len(stack'[t]) = Len(stack[t]) + 1
      /\ FromBelow(stack'[t], Len(stack[t]) + 1) = Frame(task)
  <2>1. PICK h \in FrameType : h = Frame(task) BY <1>4
  <2>2. Pushed(stack, stack', t, h) BY <1>1, <2>1 DEF Pushed
  <2> QED BY <2>1, <2>2, <1>3, Pushes
<1>6. Moved(Board(queued, stack), Board(queued', stack'), PoolPlace(task), NextPlace(stack, t))
  BY <1>1, <1>3, <1>5, TakenBoard
<1>7. Whole(request, Board(queued', stack'), count, finished, phase, ran)
  BY <1>6, MovedWhole DEF IInv
<1>8. TypeInv' BY <1>2, <1>3, <1>5 DEF TypeInv
<1>9. IdleStacks' BY <1>2, <1>3, <1>5, StillIdle DEF Keeps
<1> QED BY <1>2, <1>7, <1>8, <1>9 DEF IInv

(* The function is called for what the task stands for ... *)
LEMMA Executes ==
  ASSUME IInv, NEW f, f.task \in Tasks, f.pc = "run", Execute(f.task), request' = request
  PROVE  /\ RanBy(f, ran, ran') /\ DOMAIN ran' = Callers
         /\ \A c \in Callers : ran'[c] \in [Grid(request'[c].rows, request'[c].cols) -> Nat]
<1>1. f.task.call \in Callers BY DEF Tasks
<1>2. DOMAIN ran = Callers /\ \A c \in Callers : ran[c] \in [Grid(request[c].rows, request[c].cols) -> Nat]
  BY DEF IInv, TypeInv
<1>3. \A x : Owns(f, x) <=> x \in Grid(f.task.rows, f.task.cols)
  BY DEF Owns, Grid, Begin, End, OwnEnd
<1>4. DOMAIN ran' = Callers /\ \A c \in Callers \ {f.task.call} : ran'[c] = ran[c]
  BY <1>2 DEF Execute
<1>5. ran'[f.task.call] = [x \in DOMAIN ran[f.task.call] |->
         IF x \in Grid(f.task.rows, f.task.cols) THEN ran[f.task.call][x] + 1 ELSE ran[f.task.call][x]]
  BY <1>1, <1>2 DEF Execute
<1>6. ASSUME NEW c \in Callers
      PROVE /\ DOMAIN ran'[c] = DOMAIN ran[c]
            /\ \A x \in DOMAIN ran[c] :
                 ran'[c][x] = IF c = f.task.call /\ Owns(f, x) THEN ran[c][x] + 1 ELSE ran[c][x]
            /\ ran'[c] \in [Grid(request[c].rows, request[c].cols) -> Nat]
  <2>1. CASE c # f.task.call BY <2>1, <1>2, <1>4
  <2>2. CASE c = f.task.call
    <3>1. PICK old : old = ran[c] OBVIOUS
    <3>2. PICK G : G = Grid(request[c].rows, request[c].cols) OBVIOUS
    <3>3. old \in [G -> Nat] BY <1>2, <3>1, <3>2
    <3>4. ran'[c] = [x \in DOMAIN old |-> IF Owns(f, x) THEN old[x] + 1 ELSE old[x]]
      BY <1>3, <1>5, <2>2, <3>1
    <3>5. ran'[c] \in [G -> Nat] BY <3>3, <3>4
    <3> QED BY <2>2, <3>1, <3>2, <3>3, <3>4, <3>5
  <2> QED BY <2>1, <2>2
<1> QED BY <1>4, <1>6 DEF RanBy

(* ... and the task ends. *)
LEMMA Returns ==
  ASSUME IInv, NEW t \in Threads, stack[t] # <<>>, Return(t), request' = request,
         phase' = phase, queued' = queued, NEW f, f = Top(t),
         IF Joins(f) THEN MayEnd(f, finished) ELSE f.task.level = 0,
         RanBy(f, ran, ran'), DOMAIN ran' = Callers,
         \A c \in Callers : ran'[c] \in [Grid(request'[c].rows, request'[c].cols) -> Nat]
  PROVE  IInv'
<1>1. stack \in Stacks /\ f.task.call \in Callers /\ Board(queued, stack)[TopPlace(stack, t)] = f
  BY TopFacts
<1>2. count \in [Callers -> Int] /\ TypeInv /\ IdleStacks BY DEF IInv, TypeInv
<1>3. stack' = [stack EXCEPT ![t] = Tail(stack[t])]
  <2>1. PICK frames \in Seq(FrameType) : frames = stack[t] BY <1>1 DEF Stacks
  <2>2. <<>> \o Tail(frames) = Tail(frames) BY <2>1
  <2>3. stack' = [stack EXCEPT ![t] = <<>> \o Tail(stack[t])] BY DEF Return, Replaced
  <2> QED BY <2>1, <2>2, <2>3
<1>4. stack' \in Stacks /\ Keeps(stack, stack', t, Len(stack[t]) - 1) /\ Len(stack'[t]) = Len(stack[t]) - 1
  BY <1>1, <1>3, Pops
<1>5. Ended(Board(queued, stack), Board(queued', stack'), TopPlace(stack, t))
  BY <1>1, <1>4, PoppedBoard
<1>6. CountedBy(f, count, count') /\ count' \in [Callers -> Int]
  BY <1>1, <1>2 DEF Return, CountedBy
<1>7. finished' = Done(f, finished) BY DEF Return, Done
<1>8. Whole(request, Board(queued, stack), count, finished, phase, ran) BY DEF IInv
<1>9. Whole(request, Board(queued', stack'), count', finished', phase, ran')
  <2>1. PICK r : r = ran OBVIOUS
  <2>2. PICK r2 : r2 = ran' OBVIOUS
  <2> QED BY <1>1, <1>5, <1>6, <1>7, <1>8, <2>1, <2>2, EndedWhole
<1>10. TypeInv' BY <1>2, <1>4, <1>6 DEF TypeInv
<1>11. IdleStacks' BY <1>2, <1>4, StillIdle DEF Keeps
<1> QED BY <1>9, <1>10, <1>11 DEF IInv

LEMMA RunLeafStep ==
  ASSUME IInv, NEW t \in Threads, RunLeaf(t)
  PROVE  IInv'
<1>1. /\ stack[t] # <<>> /\ Top(t).task.kind \in {"root", "left", "right"} /\ Top(t).pc = "run"
      /\ Execute(Top(t).task) /\ Return(t)
      /\ request' = request /\ phase' = phase /\ queued' = queued
  BY DEF RunLeaf, At, ForkJoinKinds
<1>2. Joins(Top(t)) /\ MayEnd(Top(t), finished) BY <1>1 DEF Joins, MayEnd
<1>3. Top(t).task \in Tasks BY <1>1, TopFacts
<1>4. PICK f : f = Top(t) OBVIOUS
<1>5. /\ RanBy(f, ran, ran') /\ DOMAIN ran' = Callers
      /\ \A c \in Callers : ran'[c] \in [Grid(request'[c].rows, request'[c].cols) -> Nat]
  BY <1>1, <1>3, <1>4, Executes
<1> QED BY <1>1, <1>2, <1>4, <1>5, Returns

LEMMA RunSliceStep ==
  ASSUME IInv, NEW t \in Threads, RunSlice(t)
  PROVE  IInv'
<1>1. /\ stack[t] # <<>> /\ Top(t).task.kind = "slice" /\ Top(t).pc = "run" /\ Top(t).task.level = 0
      /\ Execute(Top(t).task) /\ Return(t)
      /\ request' = request /\ phase' = phase /\ queued' = queued
  BY DEF RunSlice, At
<1>2. ~Joins(Top(t)) BY <1>1 DEF Joins
<1>3. Top(t).task \in Tasks BY <1>1, TopFacts
<1>4. PICK f : f = Top(t) OBVIOUS
<1>5. /\ RanBy(f, ran, ran') /\ DOMAIN ran' = Callers
      /\ \A c \in Callers : ran'[c] \in [Grid(request'[c].rows, request'[c].cols) -> Nat]
  BY <1>1, <1>3, <1>4, Executes
<1> QED BY <1>1, <1>2, <1>4, <1>5, Returns

(* A frame that has joined owns no columns any more. *)
LEMMA JoinStep ==
  ASSUME IInv, NEW t \in Threads, Join(t)
  PROVE  IInv'
<1>1. /\ stack[t] # <<>> /\ Top(t).task.kind \in {"root", "left", "right"} /\ Top(t).pc = "help"
      /\ Awaited(Top(t)) \in finished /\ Return(t)
      /\ request' = request /\ phase' = phase /\ queued' = queued /\ ran' = ran
  BY DEF Join, At, ForkJoinKinds
<1>2. Joins(Top(t)) /\ MayEnd(Top(t), finished) BY <1>1 DEF Joins, MayEnd, Awaited, Middle
<1>3. FrameOK(request, Top(t)) BY <1>1, TopFacts
<1>4. PICK f : f = Top(t) OBVIOUS
<1>5. ASSUME NEW x PROVE ~Owns(f, x)
  <2>1. Begin(f) \in Int /\ OwnEnd(f) = Begin(f) BY <1>1, <1>2, <1>3, <1>4, FrameFacts
  <2>2. Begin(f)..(Begin(f) - 1) = {} BY <2>1
  <2> QED BY <2>1, <2>2 DEF Owns, Grid
<1>6. /\ DOMAIN ran = Callers
      /\ \A c \in Callers : ran[c] \in [Grid(request[c].rows, request[c].cols) -> Nat]
  BY DEF IInv, TypeInv
<1>7. RanBy(f, ran, ran') BY <1>1, <1>5 DEF RanBy
<1>8. \A c \in Callers : ran'[c] \in [Grid(request'[c].rows, request'[c].cols) -> Nat] BY <1>1, <1>6
<1> QED BY <1>1, <1>2, <1>4, <1>6, <1>7, <1>8, Returns

(* The right part is handed out, ... *)
LEMMA ForkStep ==
  ASSUME IInv, NEW t \in Threads, Fork(t)
  PROVE  IInv'
<1>1. /\ stack[t] # <<>> /\ Top(t).task.kind \in {"root", "left", "right"} /\ Top(t).pc = "run"
      /\ ~IsLeaf(Top(t).task)
      /\ request' = request /\ phase' = phase /\ count' = count /\ finished' = finished /\ ran' = ran
  BY DEF Fork, At, ForkJoinKinds
<1>2. PICK f : f = Top(t) OBVIOUS
<1>3. PICK g : g = Forked(f.task) OBVIOUS
<1>4. PICK task : task = RightOf(f.task) OBVIOUS
<1>5. PICK h : h = Frame(task) OBVIOUS
<1>6. Scheduled(queued, queued', stack, stack', t, task, g)
  BY <1>2, <1>3, <1>4 DEF Fork, Schedule, Scheduled, Added, Topped, PushedOver, RightOf, Forked
<1>7. /\ TopPlace(stack, t) \in DOMAIN Board(queued, stack)
      /\ Board(queued, stack)[TopPlace(stack, t)] = f /\ TopPlace(stack, t)[1] = "stack"
      /\ FrameOK(request, f) /\ stack \in Stacks
  BY <1>1, <1>2, TopFacts
<1>8. Joins(f) /\ f.pc = "run" BY <1>1, <1>2 DEF Joins
<1>9. FrameOK(request, g) /\ FrameOK(request, h) /\ HandsOut(f, g, h)
  BY <1>1, <1>2, <1>3, <1>4, <1>5, <1>7, <1>8, RightFrame
<1>10. g \in FrameType /\ h \in FrameType BY <1>9 DEF FrameOK
<1>11. Whole(request, Board(queued, stack), count, finished, phase, ran) /\ TypeInv /\ IdleStacks
  BY DEF IInv
<1>12. task \notin queued
  <2>1. SUFFICES ASSUME task \in queued PROVE FALSE OBVIOUS
  <2>2. PICK r \in DOMAIN Board(queued, stack) : Board(queued, stack)[r] = h
    BY <2>1, <1>5, PoolFrame
  <2>3. BoardInv(request, Board(queued, stack), finished) BY <1>11 DEF Whole
  <2> QED BY <2>2, <2>3, <1>7, <1>8, <1>9, RightIsNew
<1>13. /\ stack' \in Stacks /\ \A u \in Threads \ {t} : stack'[u] = stack[u]
       /\ \E p : Grown(Board(queued, stack), Board(queued', stack'), TopPlace(stack, t), p, g, h)
  <2>1. PICK q2 : q2 = queued' OBVIOUS
  <2>2. PICK st2 : st2 = stack' OBVIOUS
  <2>3. Scheduled(queued, q2, stack, st2, t, task, g) BY <1>6, <2>1, <2>2
  <2>4. stack[t] # <<>> /\ stack \in Stacks BY <1>1, <1>7
  <2>5. GrownOn(queued, q2, stack, st2, t, g, h)
    BY ONLY t \in Threads, <2>3, <2>4, <1>10, <1>12, <1>5, ScheduledOn
  <2> QED BY <2>1, <2>2, <2>5 DEF GrownOn
<1>14. PICK p : Grown(Board(queued, stack), Board(queued', stack'), TopPlace(stack, t), p, g, h)
  BY <1>13
<1>15. g.pc # "help" BY <1>3 DEF Forked
<1>16. Whole(request, Board(queued', stack'), count, finished, phase, ran)
  BY <1>7, <1>8, <1>9, <1>11, <1>14, <1>15, GrownWhole
<1>17. TypeInv' BY <1>1, <1>11, <1>13 DEF TypeInv
<1>18. IdleStacks' BY <1>1, <1>11, <1>13, StillIdle
<1> QED BY <1>1, <1>16, <1>17, <1>18 DEF IInv

(* ... and the left part begun. *)
LEMMA RunLeftStep ==
  ASSUME IInv, NEW t \in Threads, RunLeft(t)
  PROVE  IInv'
<1>1. /\ stack[t] # <<>> /\ Top(t).task.kind \in {"root", "left", "right"} /\ Top(t).pc = "forked"
      /\ request' = request /\ phase' = phase /\ count' = count /\ finished' = finished /\ ran' = ran
      /\ queued' = queued
  BY DEF RunLeft, At, ForkJoinKinds
<1>2. PICK f : f = Top(t) OBVIOUS
<1>3. PICK g : g = Helps(f.task) OBVIOUS
<1>4. PICK h : h = Frame(LeftOf(f.task)) OBVIOUS
<1>5. stack' = [stack EXCEPT ![t] = <<h, g>> \o Tail(stack[t])]
  BY <1>2, <1>3, <1>4 DEF RunLeft, Replaced, LeftOf, Helps
<1>6. /\ TopPlace(stack, t) \in DOMAIN Board(queued, stack)
      /\ Board(queued, stack)[TopPlace(stack, t)] = f /\ TopPlace(stack, t)[1] = "stack"
      /\ NextPlace(stack, t) = Above(TopPlace(stack, t))
      /\ FrameOK(request, f) /\ stack \in Stacks
  BY <1>1, <1>2, TopFacts
<1>7. Joins(f) /\ f.pc = "forked" BY <1>1, <1>2 DEF Joins
<1>8. FrameOK(request, g) /\ FrameOK(request, h) /\ HandsOut(f, g, h)
  BY <1>3, <1>4, <1>6, <1>7, LeftFrame
<1>9. g \in FrameType /\ h \in FrameType BY <1>8 DEF FrameOK
<1>10. <<h, g>> \o Tail(stack[t]) = <<h>> \o (<<g>> \o Tail(stack[t]))
  <2>1. PICK frames \in Seq(FrameType) : frames = stack[t] BY <1>6 DEF Stacks
  <2>2. Tail(frames) \in Seq(FrameType) BY <1>1, <2>1, StackTail
  <2>3. PICK tail \in Seq(FrameType) : tail = Tail(frames) BY <2>2
  <2>4. <<h, g>> \o tail = <<h>> \o (<<g>> \o tail) BY <1>9
  <2> QED BY <2>1, <2>3, <2>4
<1>11. Whole(request, Board(queued, stack), count, finished, phase, ran) /\ TypeInv /\ IdleStacks
  BY DEF IInv
<1>top. PushedOver(stack, stack', t, g, h) BY <1>5, <1>10 DEF PushedOver
<1>12. /\ stack' \in Stacks /\ \A u \in Threads \ {t} : stack'[u] = stack[u]
       /\ Grown(Board(queued, stack), Board(queued, stack'), TopPlace(stack, t), NextPlace(stack, t), g, h)
  BY <1>1, <1>top, <1>6, <1>9, PushedOn
<1>13. Whole(request, Board(queued, stack'), count, finished, phase, ran)
  BY <1>6, <1>7, <1>8, <1>11, <1>12, GrownWhole
<1>14. TypeInv' BY <1>1, <1>11, <1>12 DEF TypeInv
<1>15. IdleStacks' BY <1>1, <1>11, <1>12, StillIdle
<1> QED BY <1>1, <1>13, <1>14, <1>15 DEF IInv

(* A slice is split in two. *)
LEMMA SplitStep ==
  ASSUME IInv, NEW t \in Threads, Split(t)
  PROVE  IInv'
<1>1. /\ stack[t] # <<>> /\ Top(t).task.kind = "slice" /\ Top(t).pc = "run" /\ Top(t).task.level > 0
      /\ request' = request /\ phase' = phase /\ count' = count /\ finished' = finished /\ ran' = ran
  BY DEF Split, At
<1>2. PICK f : f = Top(t) OBVIOUS
<1>3. PICK g : g = Frame(RestSlice(f.task)) OBVIOUS
<1>4. PICK task : task = RightSlice(f.task) OBVIOUS
<1>5. PICK h : h = Frame(task) OBVIOUS
<1>6. Scheduled(queued, queued', stack, stack', t, task, g)
  BY <1>2, <1>3, <1>4
     DEF Split, Schedule, Scheduled, Added, Topped, PushedOver, RightSlice, RestSlice, SlicePart, SliceMiddle, ByRows
<1>7. /\ TopPlace(stack, t) \in DOMAIN Board(queued, stack)
      /\ Board(queued, stack)[TopPlace(stack, t)] = f
      /\ FrameOK(request, f) /\ stack \in Stacks
  BY <1>1, <1>2, TopFacts
<1>8. FrameOK(request, g) /\ FrameOK(request, h) /\ Splits(f, g, h)
  BY <1>1, <1>2, <1>3, <1>4, <1>5, <1>7, SplitFrames
<1>9. g \in FrameType /\ h \in FrameType BY <1>8 DEF FrameOK
<1>10. Whole(request, Board(queued, stack), count, finished, phase, ran) /\ TypeInv /\ IdleStacks
  BY DEF IInv
<1>11. task \notin queued
  <2>1. SUFFICES ASSUME task \in queued PROVE FALSE OBVIOUS
  <2>2. PICK r \in DOMAIN Board(queued, stack) : Board(queued, stack)[r] = h
    BY <2>1, <1>5, PoolFrame
  <2>3. BoardInv(request, Board(queued, stack), finished) BY <1>10 DEF Whole
  <2> QED BY <2>2, <2>3, <1>7, <1>8, SliceIsNew
<1>12. /\ stack' \in Stacks /\ \A u \in Threads \ {t} : stack'[u] = stack[u]
       /\ \E p : Grown(Board(queued, stack), Board(queued', stack'), TopPlace(stack, t), p, g, h)
  <2>1. PICK q2 : q2 = queued' OBVIOUS
  <2>2. PICK st2 : st2 = stack' OBVIOUS
  <2>3. Scheduled(queued, q2, stack, st2, t, task, g) BY <1>6, <2>1, <2>2
  <2>4. stack[t] # <<>> /\ stack \in Stacks BY <1>1, <1>7
  <2>5. GrownOn(queued, q2, stack, st2, t, g, h)
    BY ONLY t \in Threads, <2>3, <2>4, <1>9, <1>11, <1>5, ScheduledOn
  <2> QED BY <2>1, <2>2, <2>5 DEF GrownOn
<1>13. PICK p : Grown(Board(queued, stack), Board(queued', stack'), TopPlace(stack, t), p, g, h)
  BY <1>12
<1>14. Whole(request, Board(queued', stack'), count, finished, phase, ran)
  BY <1>7, <1>8, <1>10, <1>13, SplitWhole
<1>15. TypeInv' BY <1>1, <1>10, <1>12 DEF TypeInv
<1>16. IdleStacks' BY <1>1, <1>10, <1>12, StillIdle
<1> QED BY <1>1, <1>14, <1>15, <1>16 DEF IInv

(* What may be called. *)
LEMMA RequestFacts ==
  ASSUME IInv, NEW c \in Callers
  PROVE  /\ request[c].device \in BOOLEAN /\ request[c].parameter \in Nat
         /\ request[c].rows \in Int \X Int /\ request[c].cols \in Int \X Int
         /\ ~request[c].device => request[c].parameter > 0
         /\ ran[c] \in [Grid(request[c].rows, request[c].cols) -> Nat]
         /\ c \in Threads
<1>1. request \in Scenarios BY DEF IInv, TypeInv
<1>2. request \in [Callers -> [device : BOOLEAN, rows : Int \X Int, cols : Int \X Int, parameter : Nat]]
  BY <1>1, RequestsAssumption
<1> QED BY <1>1, <1>2, RequestsAssumption DEF IInv, TypeInv, Threads

(* The first task of a call is all of it. *)
IsFirst(req, c, kind, rows, cols, level, h) ==
  /\ h = Frame(Task(c, kind, 0, rows, cols, level))
  /\ rows = req[c].rows /\ cols = req[c].cols
  /\ IF req[c].device THEN kind = "slice"
                      ELSE kind = "root" /\ level > 0 /\ cols[1] < cols[2]

FirstFacts(req, c, kind, level, h) ==
  /\ FrameOK(req, h) /\ h.pc = "run" /\ h.task.call = c /\ h.task.kind = kind
  /\ Parts(h) = 0..(2^level - 1)
  /\ \A x \in Grid(req[c].rows, req[c].cols) : Owns(h, x)

LEMMA FirstFrame ==
  ASSUME NEW req, NEW c \in Callers, NEW kind, NEW rows \in Int \X Int, NEW cols \in Int \X Int,
         NEW level \in Nat, NEW h, IsFirst(req, c, kind, rows, cols, level, h)
  PROVE  FirstFacts(req, c, kind, level, h)
<1>1. /\ h.pc = "run" /\ h.task.kind = kind /\ h.task.id = 0 /\ h.task.level = level
      /\ h.task.rows = rows /\ h.task.cols = cols /\ h.task.call = c
  BY DEF IsFirst, Frame, Task
<1>2. h \in FrameType /\ kind \in {"root", "slice"} BY DEF IsFirst, Frame, Task, FrameType, Tasks
<1>3. FrameOK(req, h) BY <1>1, <1>2 DEF IsFirst, FrameOK, Joins, Begin, End
<1>4. ASSUME NEW x \in Grid(req[c].rows, req[c].cols) PROVE Owns(h, x)
  BY <1>1 DEF IsFirst, Owns, Grid, Begin, End, OwnEnd
<1>5. Parts(h) = 0..(2^level - 1)
  <2>1. 2^level \in Nat BY PowerOfTwo
  <2>2. PICK w \in Nat : w = 2^level BY <2>1
  <2>3. 0..(0 + w - 1) = 0..(w - 1) OBVIOUS
  <2> QED BY <1>1, <2>2, <2>3 DEF Parts
<1> QED BY <1>1, <1>3, <1>4, <1>5 DEF FirstFacts

(* A call begins. *)
LEMMA ParallelForStep ==
  ASSUME IInv, NEW c \in Callers, ParallelFor(c)
  PROVE  IInv'
<1>1. /\ phase[c] = "idle" /\ ~request[c].device /\ request[c].cols[1] < request[c].cols[2]
      /\ phase' = [phase EXCEPT ![c] = "called"] /\ count' = [count EXCEPT ![c] = 1]
      /\ request' = request /\ finished' = finished /\ ran' = ran
  BY DEF ParallelFor
<1>2. /\ request[c].parameter \in Nat /\ request[c].parameter > 0
      /\ request[c].rows \in Int \X Int /\ request[c].cols \in Int \X Int
      /\ ran[c] \in [Grid(request[c].rows, request[c].cols) -> Nat] /\ c \in Threads
  BY <1>1, RequestFacts
<1>3. PICK task : task = Task(c, "root", 0, request[c].rows, request[c].cols, request[c].parameter)
  OBVIOUS
<1>4. PICK h : h = Frame(task) OBVIOUS
<1>5. /\ FrameOK(request, h) /\ h.pc = "run" /\ h.task.call = c /\ h.task.kind = "root"
      /\ \A x \in Grid(request[c].rows, request[c].cols) : Owns(h, x)
  <2>1. PICK rows \in Int \X Int, cols \in Int \X Int, level \in Nat :
          rows = request[c].rows /\ cols = request[c].cols /\ level = request[c].parameter
    BY <1>2
  <2>2. IsFirst(request, c, "root", rows, cols, level, h)
    BY <2>1, <1>1, <1>2, <1>3, <1>4 DEF IsFirst
  <2>3. FirstFacts(request, c, "root", level, h) BY <2>2, FirstFrame
  <2> QED BY <2>1, <2>3 DEF FirstFacts
<1>6. Whole(request, Board(queued, stack), count, finished, phase, ran) /\ TypeInv /\ IdleStacks
  BY DEF IInv
<1>7. stack \in Stacks /\ phase \in [Callers -> {"idle", "called", "returned"}] /\ count \in [Callers -> Int]
  BY <1>6 DEF TypeInv
<1>8. stack[c] = <<>> BY <1>1, <1>6 DEF IdleStacks
<1>9. h \in FrameType BY <1>5 DEF FrameOK
<1>10. task \notin queued
  <2>1. SUFFICES ASSUME task \in queued PROVE FALSE OBVIOUS
  <2>2. PICK r \in DOMAIN Board(queued, stack) : Board(queued, stack)[r] = h
    BY <2>1, <1>4, PoolFrame
  <2> QED BY <2>2, <1>1, <1>5, <1>6 DEF Whole, Fresh
<1>11. /\ stack' \in Stacks /\ \A u \in Threads \ {c} : stack'[u] = stack[u]
       /\ \E p : Started(Board(queued, stack), Board(queued', stack'), p, h)
  <2>1. CASE queued' = queued \cup {task} /\ stack' = [stack EXCEPT ![c] = <<>>]
    <3>1. stack' = stack BY <2>1, <1>7, <1>8 DEF Stacks
    <3>2. Started(Board(queued, stack), Board(queued', stack), PoolPlace(task), h)
      BY <2>1, <1>4, <1>7, <1>10, PooledBoard
    <3> QED BY <3>1, <3>2, <1>7
  <2>2. CASE queued' = queued /\ stack' = [stack EXCEPT ![c] = <<Frame(task)>> \o <<>>]
    <3>1. Pushed(stack, stack', c, h) BY <2>2, <1>4, <1>8 DEF Pushed
    <3>2. /\ stack' \in Stacks /\ Keeps(stack, stack', c, Len(stack[c]))
          /\ Len(stack'[c]) = Len(stack[c]) + 1 /\ FromBelow(stack'[c], Len(stack[c]) + 1) = h
      BY <3>1, <1>2, <1>7, <1>9, Pushes
    <3>3. Started(Board(queued, stack), Board(queued, stack'), NextPlace(stack, c), h)
      BY <3>2, <1>2, <1>7, PushedBoard
    <3> QED BY <2>2, <3>2, <3>3 DEF Keeps
  <2> QED BY <2>1, <2>2, <1>3 DEF ParallelFor, Schedule
<1>12. PICK p : Started(Board(queued, stack), Board(queued', stack'), p, h) BY <1>11
<1>13. /\ phase'[c] = "called" /\ count'[c] = 1 /\ phase' \in [Callers -> {"idle", "called", "returned"}]
       /\ count' \in [Callers -> Int]
       /\ \A d \in Callers \ {c} : count'[d] = count[d] /\ phase'[d] = phase[d]
  BY <1>1, <1>7
<1>14. \A x \in DOMAIN ran[c] : Owns(h, x) BY <1>2, <1>5
<1>15. Whole(request, Board(queued', stack'), count', finished, phase', ran)
  BY <1>1, <1>5, <1>6, <1>12, <1>13, <1>14, StartedWhole
<1>16. TypeInv' BY <1>1, <1>6, <1>11, <1>13 DEF TypeInv
<1>17. IdleStacks' BY <1>6, <1>11, <1>13 DEF IdleStacks, Threads
<1> QED BY <1>1, <1>15, <1>16, <1>17 DEF IInv

LEMMA DeviceParallelForStep ==
  ASSUME IInv, NEW c \in Callers, DeviceParallelFor(c)
  PROVE  IInv'
<1>1. /\ phase[c] = "idle" /\ request[c].device
      /\ phase' = [phase EXCEPT ![c] = "called"]
      /\ count' = [count EXCEPT ![c] = 2^request[c].parameter]
      /\ request' = request /\ finished' = finished /\ ran' = ran /\ queued' = queued
  BY DEF DeviceParallelFor
<1>2. /\ request[c].parameter \in Nat
      /\ request[c].rows \in Int \X Int /\ request[c].cols \in Int \X Int
      /\ ran[c] \in [Grid(request[c].rows, request[c].cols) -> Nat] /\ c \in Threads
  BY RequestFacts
<1>3. PICK h : h = Frame(Task(c, "slice", 0, request[c].rows, request[c].cols, request[c].parameter))
  OBVIOUS
<1>4. /\ FrameOK(request, h) /\ h.pc = "run" /\ h.task.call = c /\ h.task.kind = "slice"
      /\ Parts(h) = 0..(2^request[c].parameter - 1)
      /\ \A x \in Grid(request[c].rows, request[c].cols) : Owns(h, x)
  <2>1. PICK rows \in Int \X Int, cols \in Int \X Int, level \in Nat :
          rows = request[c].rows /\ cols = request[c].cols /\ level = request[c].parameter
    BY <1>2
  <2>2. IsFirst(request, c, "slice", rows, cols, level, h)
    BY <2>1, <1>1, <1>2, <1>3 DEF IsFirst
  <2>3. FirstFacts(request, c, "slice", level, h) BY <2>2, FirstFrame
  <2> QED BY <2>1, <2>3 DEF FirstFacts
<1>5. Whole(request, Board(queued, stack), count, finished, phase, ran) /\ TypeInv /\ IdleStacks
  BY DEF IInv
<1>6. stack \in Stacks /\ phase \in [Callers -> {"idle", "called", "returned"}] /\ count \in [Callers -> Int]
  BY <1>5 DEF TypeInv
<1>7. stack[c] = <<>> BY <1>1, <1>5 DEF IdleStacks
<1>8. h \in FrameType BY <1>4 DEF FrameOK
<1>9. Pushed(stack, stack', c, h)
  <2>1. stack' = [stack EXCEPT ![c] = <<h>>] BY <1>3 DEF DeviceParallelFor
  <2> QED BY <2>1, <1>7 DEF Pushed
<1>10. /\ stack' \in Stacks /\ Keeps(stack, stack', c, Len(stack[c]))
       /\ Len(stack'[c]) = Len(stack[c]) + 1 /\ FromBelow(stack'[c], Len(stack[c]) + 1) = h
  BY <1>2, <1>6, <1>8, <1>9, Pushes
<1>11. Started(Board(queued, stack), Board(queued, stack'), NextPlace(stack, c), h)
  BY <1>2, <1>6, <1>10, PushedBoard
<1>12. PICK w \in Nat \ {0} : w = 2^request[c].parameter BY <1>2, PowerOfTwo
<1>13. IsFiniteSet(Parts(h)) /\ Cardinality(Parts(h)) = w
  <2>1. Parts(h) = 0..(w - 1) BY <1>4, <1>12
  <2>2. 0 \in Int /\ w - 1 \in Int /\ ~(0 > w - 1) /\ (w - 1) - 0 + 1 = w OBVIOUS
  <2>3. IsFiniteSet(0..(w - 1)) /\ Cardinality(0..(w - 1)) = w BY <2>2, FS_Interval
  <2> QED BY <2>1, <2>3
<1>14. /\ phase'[c] = "called" /\ count'[c] = w /\ phase' \in [Callers -> {"idle", "called", "returned"}]
       /\ count' \in [Callers -> Int]
       /\ \A d \in Callers \ {c} : count'[d] = count[d] /\ phase'[d] = phase[d]
  BY <1>1, <1>6, <1>12
<1>15. \A x \in DOMAIN ran[c] : Owns(h, x) BY <1>2, <1>4
<1>16. Whole(request, Board(queued, stack'), count', finished, phase', ran)
  <2>1. PICK m : m = count' OBVIOUS
  <2>2. PICK ph2 : ph2 = phase' OBVIOUS
  <2>3. h.task.kind \in {"root", "slice"} /\ h.task.kind # "root" BY <1>4
  <2>4. ph2[c] # "idle" /\ m[c] = Cardinality(Parts(h)) BY <1>13, <1>14, <2>1, <2>2
  <2>5. \A d \in Callers \ {c} : m[d] = count[d] /\ ph2[d] = phase[d] BY <1>14, <2>1, <2>2
  <2>6. Whole(request, Board(queued, stack'), m, finished, ph2, ran)
    BY <1>1, <1>4, <1>5, <1>11, <1>13, <1>15, <2>3, <2>4, <2>5, StartedWhole
  <2> QED BY <2>1, <2>2, <2>6
<1>17. TypeInv' BY <1>1, <1>5, <1>10, <1>14 DEF TypeInv
<1>18. IdleStacks' BY <1>5, <1>10, <1>14 DEF IdleStacks, Threads, Keeps
<1> QED BY <1>1, <1>16, <1>17, <1>18 DEF IInv

(* A call returns: nothing to do, or the barrier has let the caller go. *)
LEMMA ReturnStep ==
  ASSUME IInv, NEW c \in Callers, CallEmpty(c) \/ BarrierWait(c)
  PROVE  IInv'
<1>1. /\ request' = request /\ count' = count /\ queued' = queued /\ stack' = stack
      /\ finished' = finished /\ ran' = ran /\ phase' = [phase EXCEPT ![c] = "returned"]
  BY DEF CallEmpty, BarrierWait
<1>2. TypeInv /\ IdleStacks /\ Whole(request, Board(queued, stack), count, finished, phase, ran)
  BY DEF IInv
<1>3. /\ phase'[c] = "returned" /\ phase' \in [Callers -> {"idle", "called", "returned"}]
      /\ \A d \in Callers \ {c} : phase'[d] = phase[d]
  BY <1>1, <1>2 DEF TypeInv
<1>4. phase[c] # "idle" \/ DOMAIN ran[c] = {}
  <2>1. CASE BarrierWait(c) BY <2>1 DEF BarrierWait
  <2>2. CASE CallEmpty(c)
    <3>1. request[c].cols[1] >= request[c].cols[2] /\ request[c].cols \in Int \X Int
          /\ ran[c] \in [Grid(request[c].rows, request[c].cols) -> Nat]
      BY <2>2, RequestFacts DEF CallEmpty
    <3>2. request[c].cols[1]..(request[c].cols[2] - 1) = {} BY <3>1
    <3>3. Grid(request[c].rows, request[c].cols) = {} BY <3>2 DEF Grid
    <3> QED BY <3>1, <3>3
  <2> QED BY <2>1, <2>2
<1>5. Ran(Board(queued, stack), phase', ran)
  <2>1. PICK A : A = Board(queued, stack) OBVIOUS
  <2>2. Ran(A, phase, ran) BY <1>2, <2>1 DEF Whole
  <2>3. ASSUME NEW d \in Callers, NEW x \in DOMAIN ran[d]
        PROVE ran[d][x] = IF phase'[d] = "idle" \/ Owned(A, d, x) THEN 0 ELSE 1
    <3>1. ran[d][x] = IF phase[d] = "idle" \/ Owned(A, d, x) THEN 0 ELSE 1 BY <2>2 DEF Ran
    <3>2. (phase'[d] = "idle") <=> (phase[d] = "idle") BY <1>3, <1>4
    <3> QED BY <3>1, <3>2
  <2> QED BY <2>1, <2>3 DEF Ran
<1>6. Fresh(Board(queued, stack), finished, phase')
  <2>1. \A d \in Callers : phase'[d] = "idle" => phase[d] = "idle" BY <1>3
  <2> QED BY <2>1, <1>2 DEF Whole, Fresh
<1>7. Whole(request, Board(queued, stack), count, finished, phase', ran)
  BY <1>2, <1>5, <1>6 DEF Whole
<1>8. TypeInv' BY <1>1, <1>2, <1>3 DEF TypeInv
<1>9. IdleStacks' BY <1>1, <1>2, <1>3 DEF IdleStacks
<1> QED BY <1>1, <1>7, <1>8, <1>9 DEF IInv

(* The invariant is inductive. *)
LEMMA InitIInv == Init => IInv
<1>1. SUFFICES ASSUME Init PROVE IInv OBVIOUS
<1>2. /\ request \in Scenarios
      /\ phase = [c \in Callers |-> "idle"] /\ count = [c \in Callers |-> 0]
      /\ queued = {} /\ stack = [t \in Threads |-> <<>>] /\ finished = {}
      /\ ran = [c \in Callers |-> [x \in Grid(request[c].rows, request[c].cols) |-> 0]]
  BY <1>1 DEF Init
<1>3. TypeInv BY <1>2 DEF TypeInv, Stacks
<1>4. IdleStacks BY <1>2 DEF IdleStacks, Threads
<1>5. PICK A : A = Board(queued, stack) OBVIOUS
<1>6. DOMAIN A = {}
  <2>1. \A t \in Threads : Len(stack[t]) = 0 BY <1>2
  <2>2. \A t \in Threads : 1..Len(stack[t]) = {} BY <2>1
  <2>3. Slots(queued, stack) = {} BY <2>2, <1>2 DEF Slots
  <2> QED BY <2>3, <1>5, BoardPlaces
<1>7. BoardInv(request, A, finished)
  BY <1>6 DEF BoardInv, BoardOK, Laid, LeftOnTop, RightPending, RightsDiffer, HasParent, Rooted,
              Unused, Sliced
<1>8. Counted(request, A, count)
  <2>1. \A c : PartsLeft(A, c) = {} BY <1>6 DEF PartsLeft
  <2>2. \A c : ~RootLeft(A, c) BY <1>6 DEF RootLeft
  <2> QED BY <2>1, <2>2, <1>2, FS_EmptySet DEF Counted
<1>9. Ran(A, phase, ran) BY <1>2 DEF Ran
<1>10. Fresh(A, finished, phase) BY <1>2, <1>6 DEF Fresh
<1>11. Awaits(A, finished) BY <1>6 DEF Awaits
<1> QED BY <1>3, <1>4, <1>5, <1>7, <1>8, <1>9, <1>10, <1>11 DEF IInv, Whole

LEMMA NextIInv == IInv /\ [Next]_vars => IInv'
<1>1. SUFFICES ASSUME IInv, [Next]_vars PROVE IInv' OBVIOUS
<1>2. ASSUME NEW t \in Threads, ThreadStep(t) PROVE IInv'
  BY <1>1, <1>2, MaybeGetTaskStep, RunLeafStep, ForkStep, RunLeftStep, JoinStep, SplitStep,
     RunSliceStep DEF ThreadStep
<1>3. ASSUME NEW c \in Callers, CallerStep(c) PROVE IInv'
  BY <1>1, <1>3, ParallelForStep, DeviceParallelForStep, ReturnStep DEF CallerStep
<1>4. CASE UNCHANGED vars
  BY <1>1, <1>4
     DEF vars, IInv, TypeInv, IdleStacks, Stacks, Whole, Board, Slots
<1> QED BY <1>1, <1>2, <1>3, <1>4 DEF Next, Finished

(***************************************************************************)
(* The theorems.                                                           *)
(***************************************************************************)

(* The inductive invariant holds of every run: the parts of each loop lie  *)
(* as the forks and splits laid them out, whichever thread has them.       *)
THEOREM PInvariant == Spec => []IInv
BY InitIInv, NextIInv, PTL DEF Spec

(* What is pending is what is on the board. *)
LEMMA PendingPlaces ==
  ASSUME IInv, NEW A, A = Board(queued, stack)
  PROVE  /\ \A task \in Pending : \E s \in DOMAIN A : A[s].task = task
         /\ \A s \in DOMAIN A : A[s].task \in Pending
         /\ \A f \in Frames : \E s \in DOMAIN A : A[s] = f
         /\ \A s \in DOMAIN A : A[s].pc # "run" => A[s] \in Frames
<1>1. stack \in Stacks BY DEF IInv, TypeInv
<1>2. ASSUME NEW task \in queued PROVE \E s \in DOMAIN A : A[s].task = task
  <2>1. PoolPlace(task) \in DOMAIN A /\ A[PoolPlace(task)] = Frame(task) BY PoolFrame
  <2> QED BY <2>1 DEF Frame
<1>3. ASSUME NEW f \in Frames PROVE \E s \in DOMAIN A : A[s] = f
  <2>1. PICK t \in Threads : \E i \in 1..Len(stack[t]) : f = stack[t][i] BY DEF Frames
  <2>2. PICK i \in 1..Len(stack[t]) : f = stack[t][i] BY <2>1
  <2>3. Len(stack[t]) \in Nat BY <1>1 DEF Stacks
  <2>4. PICK d \in 1..Len(stack[t]) : d = Len(stack[t]) + 1 - i BY <2>3
  <2>5. FromBelow(stack[t], d) = f
    <3>1. Len(stack[t]) + 1 - d = i BY <2>3, <2>4
    <3> QED BY <3>1, <2>2 DEF FromBelow
  <2>6. <<"stack", t, d>> \in DOMAIN A BY BoardPlaces
  <2>7. A[<<"stack", t, d>>] = FromBelow(stack[t], d) BY BoardPlaces
  <2> QED BY <2>5, <2>6, <2>7
<1>4. ASSUME NEW s \in DOMAIN A
      PROVE (A[s].pc = "run" /\ A[s].task \in queued) \/ A[s] \in Frames
  <2>1. CASE \E task \in queued : s = <<"pool", task, 0>>
    <3>1. PICK task \in queued : s = PoolPlace(task) BY <2>1 DEF PoolPlace
    <3>2. A[s] = Frame(task) BY <3>1, PoolFrame
    <3> QED BY <3>2 DEF Frame
  <2>2. CASE \E t \in Threads : \E d \in 1..Len(stack[t]) : s = <<"stack", t, d>>
    <3>1. PICK t \in Threads : \E d \in 1..Len(stack[t]) : s = <<"stack", t, d>> BY <2>2
    <3>2. PICK d \in 1..Len(stack[t]) : s = <<"stack", t, d>> BY <3>1
    <3>3. Len(stack[t]) \in Nat BY <1>1 DEF Stacks
    <3>4. A[s] = stack[t][Len(stack[t]) + 1 - d]
      <4>1. A[<<"stack", t, d>>] = FromBelow(stack[t], d) BY StackFrame
      <4> QED BY <4>1, <3>2 DEF FromBelow
    <3>5. Len(stack[t]) + 1 - d \in 1..Len(stack[t]) BY <3>3
    <3> QED BY <3>4, <3>5 DEF Frames
  <2> QED BY <2>1, <2>2, <1>4, BoardPlaces
<1>5. ASSUME NEW task \in Pending PROVE \E s \in DOMAIN A : A[s].task = task
  BY <1>2, <1>3, <1>5 DEF Pending
<1>6. ASSUME NEW s \in DOMAIN A PROVE A[s].task \in Pending BY <1>4 DEF Pending
<1> QED BY <1>3, <1>4, <1>5, <1>6

LEMMA IInvParentWaits == IInv => ParentWaits
<1>1. SUFFICES ASSUME IInv, NEW task \in Pending, task.kind = "right"
               PROVE \E f \in Frames : f.pc \in {"forked", "help"} /\ Awaited(f) = <<task.call, task.id>>
  BY DEF ParentWaits
<1>2. PICK A : A = Board(queued, stack) OBVIOUS
<1>3. PICK s \in DOMAIN A : A[s].task = task BY <1>1, <1>2, PendingPlaces
<1>4. HasParent(A) BY <1>1, <1>2 DEF IInv, Whole, BoardInv
<1>5. PICK u \in DOMAIN A : /\ SameCall(A[u], A[s]) /\ A[u].pc \in {"forked", "help"}
                            /\ Middle(A[u]) = A[s].task.id
  BY <1>1, <1>3, <1>4 DEF HasParent
<1>6. A[u] \in Frames BY <1>1, <1>2, <1>5, PendingPlaces
<1>7. Awaited(A[u]) = <<task.call, task.id>> BY <1>3, <1>5 DEF Awaited, SameCall, Middle
<1> QED BY <1>5, <1>6, <1>7

LEMMA IInvWaitsForWork == IInv => WaitsForWork
<1>1. SUFFICES ASSUME IInv PROVE WaitsForWork OBVIOUS
<1>2. PICK A : A = Board(queued, stack) OBVIOUS
<1>3. BoardInv(request, A, finished) /\ Awaits(A, finished) /\ Counted(request, A, count)
  BY <1>1, <1>2 DEF IInv, Whole
<1>4. \A s \in DOMAIN A : A[s].task \in Pending BY <1>1, <1>2, PendingPlaces
<1>5. \A f \in Frames : \E s \in DOMAIN A : A[s] = f BY <1>1, <1>2, PendingPlaces
<1>6. ASSUME NEW f \in Frames, f.pc \in {"forked", "help"}, Awaited(f) \notin finished
      PROVE \E task \in Pending : task.kind = "right" /\ Awaited(f) = <<task.call, task.id>>
  <2>1. PICK s \in DOMAIN A : A[s] = f BY <1>5
  <2>2. PICK u \in DOMAIN A : /\ A[u].task.kind = "right" /\ SameCall(A[u], A[s])
                              /\ A[u].task.id = Middle(A[s])
    BY <1>3, <1>6, <2>1 DEF Awaits, Awaited, Middle
  <2> QED BY <1>4, <2>1, <2>2 DEF SameCall, Awaited, Middle
<1>7. ASSUME NEW c \in Callers, count[c] # 0
      PROVE \E task \in Pending : task.call = c
  <2>1. CASE request[c].device
    <3>1. count[c] = Cardinality(PartsLeft(A, c)) BY <1>3, <2>1 DEF Counted
    <3>2. PartsLeft(A, c) # {} BY <3>1, <1>7, FS_EmptySet
    <3>3. PICK s \in DOMAIN A : A[s].task.call = c BY <3>2 DEF PartsLeft
    <3> QED BY <3>3, <1>4
  <2>2. CASE ~request[c].device
    <3>1. RootLeft(A, c) BY <1>3, <1>7, <2>2 DEF Counted
    <3> QED BY <3>1, <1>4 DEF RootLeft
  <2> QED BY <2>1, <2>2
<1> QED BY <1>6, <1>7 DEF WaitsForWork

LEMMA IInvEachOnce == IInv => EachOnce
<1>1. SUFFICES ASSUME IInv, NEW c \in Callers
               PROVE /\ \A x \in DOMAIN ran[c] : ran[c][x] <= 1
                     /\ (phase[c] # "idle" /\ count[c] = 0) =>
                          /\ \A x \in DOMAIN ran[c] : ran[c][x] = 1
                          /\ \A task \in Pending : task.call # c
  BY DEF EachOnce
<1>2. PICK A : A = Board(queued, stack) OBVIOUS
<1>3. BoardInv(request, A, finished) /\ Counted(request, A, count) /\ Ran(A, phase, ran)
  BY <1>1, <1>2 DEF IInv, Whole
<1>4. ASSUME NEW x \in DOMAIN ran[c]
      PROVE ran[c][x] = IF phase[c] = "idle" \/ Owned(A, c, x) THEN 0 ELSE 1
  BY <1>3 DEF Ran
<1>5. \A x \in DOMAIN ran[c] : ran[c][x] <= 1 BY <1>4
<1>6. ASSUME phase[c] # "idle", count[c] = 0
      PROVE /\ \A x \in DOMAIN ran[c] : ran[c][x] = 1
            /\ \A task \in Pending : task.call # c
  <2>1. \A s \in DOMAIN A : A[s].task.call # c BY <1>3, <1>6, NothingLeft
  <2>2. \A x : ~Owned(A, c, x) BY <2>1 DEF Owned
  <2>3. \A task \in Pending : task.call # c BY <2>1, <1>1, <1>2, PendingPlaces
  <2> QED BY <2>2, <2>3, <1>4, <1>6
<1> QED BY <1>5, <1>6

(* Every index is handed to the function once and no more, and when the    *)
(* barrier of a call is down nothing of that call is pending (ForkJoin.h,  *)
(* CoreThreadPoolDevice.h), for any workers, callers, loops, granularities *)
(* and levels of splitting.                                                *)
THEOREM PEachOnce == Spec => []EachOnce
BY PInvariant, IInvEachOnce, PTL

(* The frame that right_done and the thunks of a right part live in        *)
(* outlives the right part, whatever its thread runs on top of it.         *)
THEOREM PParentWaits == Spec => []ParentWaits
BY PInvariant, IInvParentWaits, PTL

(* Nobody waits for a right part that is lost, nor at a barrier that       *)
(* nothing pending will let down.                                          *)
THEOREM PWaitsForWork == Spec => []WaitsForWork
BY PInvariant, IInvWaitsForWork, PTL

=============================================================================

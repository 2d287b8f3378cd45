---------------------------- MODULE RunQueueProofs ----------------------------
(***************************************************************************)
(* An element of the run queue is touched by one thread at a time, no item *)
(* is lost or handed out twice, a pop that returns nothing found nothing,  *)
(* Empty() is right unless the front comes round under it, and the queue   *)
(* is an atomic deque: for any capacity, any number of threads at the back *)
(* and any number of items.                                                *)
(***************************************************************************)
EXTENDS RunQueue, FiniteSetTheorems, SequenceTheorems, WellFoundedInduction, TLAPS

-----------------------------------------------------------------------------
(* The inductive invariant.                                                *)

\* Where a thread may be: the owner, a thread behind the lock, one in front of it, any other
FrontPlaces == {"pushfront.index", "pushfront.ready", "popfront.take", "popfront.index"}
AskPlaces == {"idle", "empty.back", "empty.front1"}
Locked == {"pushback.index", "pushback.ready", "popback.take", "popback.index", "size.back",
           "size.front1", "half.scan", "half.take", "half.index"}
Unlocked == {"pop.back", "pop.front1", "half.back", "half.front1", "popback.claim", "half.lock"}

Places ==
  /\ \A t \in Threads : pc[t] \in AskPlaces \cup FrontPlaces \cup Locked \cup Unlocked
  /\ pc[owner] \in AskPlaces \cup FrontPlaces
  /\ \A t \in Threads : t # owner => pc[t] \notin FrontPlaces
  /\ \A t \in Threads : t \notin Remotes => pc[t] \notin Locked \cup Unlocked
  /\ \A r \in Remotes : pc[r] \in Locked <=> mutex_ = r

Types ==
  /\ TypeOK
  /\ DOMAIN pc = Threads
  /\ front \in [Threads -> Nat] /\ back \in [Threads -> Nat]

\* What the thread behind the lock is doing
Behind == IF mutex_ = None THEN "free" ELSE pc[mutex_]

\* PopBackHalf's locals
Halving ==
  /\ Behind \in {"half.scan", "half.take", "half.index"} => mid <= kSize - 2
  /\ Behind = "half.take" => start \in mid .. kSize - 2
  /\ Behind = "half.index" => start \in 0 .. kSize - 2
  /\ Behind \notin {"half.take", "half.index"} => start = -1

(* The ring, counted from back_: o is where the owner is, b the thread behind the lock, n the      *)
(* distance of the two indices, s and m PopBackHalf's locals.  The items are at the positions from *)
(* Lo to Hi, of which the back holds or has emptied those up to Top.                               *)
Lo(b, s) == IF b = "popback.index" THEN 1 ELSE IF b = "half.index" THEN s + 1 ELSE 0
Hi(o, n) == IF o = "popfront.index" THEN n - 1 ELSE n
Top(b, s) == IF b \in {"pushback.ready", "popback.take"} THEN 0
             ELSE IF b = "half.take" THEN s ELSE Lo(b, s) - 1

Bounds(o, b, n, s) ==
  /\ Lo(b, s) <= Hi(o, n) /\ Hi(o, n) <= Lo(b, s) + kSize
  /\ Top(b, s) < Hi(o, n)
  /\ o \in {"pushfront.ready", "popfront.take"} => Top(b, s) < Hi(o, n) - 1
  /\ o = "pushfront.index" => Hi(o, n) < Lo(b, s) + kSize
  /\ b = "pushback.index" => Hi(o, n) < kSize
  /\ o = "pushfront.index" /\ b = "pushback.index" => Hi(o, n) < kSize - 1

\* The state that the element at position i is due to be in
Held(o, b, n, s, m, i) ==
  \/ o \in {"pushfront.ready", "popfront.take"} /\ i = Hi(o, n) - 1
  \/ o = "pushfront.index" /\ i = Hi(o, n)
  \/ b \in {"pushback.ready", "popback.take"} /\ i = 0
  \/ b = "pushback.index" /\ i = kSize - 1
  \/ b = "half.take" /\ i = s /\ m = s
Due(o, b, n, s, m, i) ==
  IF Held(o, b, n, s, m, i) THEN "Busy"
  ELSE IF i < Hi(o, n) /\ ~(b = "half.take" /\ m < i /\ i <= s) THEN "Ready"
  ELSE "Empty"

Place(i) == Elem(back_ + i)
Size == RawSize(front_, back_)

Ring ==
  /\ Bounds(pc[owner], Behind, Size, start)
  /\ \A i \in Lo(Behind, start) .. Lo(Behind, start) + kSize - 1 :
       elemState[Place(i)] = Due(pc[owner], Behind, Size, start, mid, i)

RInv == Types /\ Places /\ Halving /\ Ring

-----------------------------------------------------------------------------
(* Rolling indices.                                                        *)

LEMMA Numbers ==
  /\ kSize \in Nat /\ kSize > 2 /\ Modulus \in Nat /\ Modulus > 0
  /\ Modulus % (2 * kSize) = 0 /\ MaxWork \in Nat
BY RunQueueAssumption

\* Division with remainder, and that it is unique
LEMMA DivMod ==
  ASSUME NEW x \in Nat, NEW n \in Nat, n > 0
  PROVE  x % n \in 0 .. n - 1 /\ \E q \in Nat : x = q * n + (x % n)
<1>1. x % n \in 0 .. n - 1 OBVIOUS
<1>2. x \div n \in Nat /\ x = (x \div n) * n + (x % n) OBVIOUS
<1> QED BY <1>1, <1>2

LEMMA ModUnique ==
  ASSUME NEW n \in Nat, n > 0, NEW q \in Nat, NEW r \in 0 .. n - 1
  PROVE  (q * n + r) % n = r
OBVIOUS

\* A number below 4 * kSize, modulo kSize, and one below 4 * kSize modulo 2 * kSize
Wrap(v) == IF v < kSize THEN v ELSE IF v < 2 * kSize THEN v - kSize
           ELSE IF v < 3 * kSize THEN v - 2 * kSize ELSE v - 3 * kSize
Wrap2(v) == IF v < 2 * kSize THEN v ELSE v - 2 * kSize

LEMMA LowRange == ASSUME NEW x \in Nat PROVE Low(x) \in 0 .. 2 * kSize - 1
<1>1. 2 * kSize \in Nat /\ 2 * kSize > 0 BY Numbers
<1> QED BY <1>1, DivMod DEF Low

\* The index x is that many laps of the ring and Low(x).
LEMMA Laps ==
  ASSUME NEW x \in Nat
  PROVE  \E q \in Nat : x = q * (2 * kSize) + Low(x)
<1>1. 2 * kSize \in Nat /\ 2 * kSize > 0 BY Numbers
<1> QED BY <1>1, DivMod DEF Low

LEMMA ElemWrap ==
  ASSUME NEW q \in Nat, NEW v \in 0 .. 4 * kSize - 1
  PROVE  Elem(q * (2 * kSize) + v) = Wrap(v) /\ Wrap(v) \in 0 .. kSize - 1
<1>0. kSize \in Nat /\ kSize > 0 BY Numbers
<1>1. Wrap(v) \in 0 .. kSize - 1 BY <1>0 DEF Wrap
<1>2. PICK j \in 0 .. 3 : v = j * kSize + Wrap(v) BY <1>0 DEF Wrap
<1>3. q * (2 * kSize) + v = (2 * q + j) * kSize + Wrap(v)
  <2>1. q * (2 * kSize) = (2 * q) * kSize BY <1>0
  <2>2. (2 * q + j) * kSize = (2 * q) * kSize + j * kSize BY <1>0
  <2> QED BY <1>0, <1>1, <1>2, <2>1, <2>2
<1>4. 2 * q + j \in Nat OBVIOUS
<1> QED BY <1>0, <1>1, <1>3, <1>4, ModUnique DEF Elem

LEMMA LowWrap ==
  ASSUME NEW q \in Nat, NEW v \in 0 .. 4 * kSize - 1
  PROVE  Low(q * (2 * kSize) + v) = Wrap2(v) /\ Wrap2(v) \in 0 .. 2 * kSize - 1
<1>0. kSize \in Nat /\ 2 * kSize \in Nat /\ 2 * kSize > 0 BY Numbers
<1>1. Wrap2(v) \in 0 .. 2 * kSize - 1 BY <1>0 DEF Wrap2
<1>2. PICK j \in 0 .. 1 : v = j * (2 * kSize) + Wrap2(v) BY <1>0 DEF Wrap2
<1>3. q * (2 * kSize) + v = (q + j) * (2 * kSize) + Wrap2(v)
  <2>1. (q + j) * (2 * kSize) = q * (2 * kSize) + j * (2 * kSize) BY <1>0
  <2> QED BY <1>0, <1>1, <1>2, <2>1
<1>4. q + j \in Nat OBVIOUS
<1> QED BY <1>0, <1>1, <1>3, <1>4, ModUnique DEF Low

\* The element i positions after x, and the one before it
LEMMA ElemSum ==
  ASSUME NEW x \in Nat, NEW i \in 0 .. 2 * kSize - 1
  PROVE  Elem(x + i) = Wrap(Low(x) + i)
<1>1. PICK q \in Nat : x = q * (2 * kSize) + Low(x) BY Laps
<1>2. Low(x) + i \in 0 .. 4 * kSize - 1 BY LowRange, Numbers
<1>3. x + i = q * (2 * kSize) + (Low(x) + i) BY <1>1, LowRange, Numbers
<1> QED BY <1>2, <1>3, ElemWrap

LEMMA ModulusLaps == \E m \in Nat : m > 0 /\ Modulus = m * (2 * kSize)
<1>1. 2 * kSize \in Nat /\ 2 * kSize > 0 BY Numbers
<1>2. PICK m \in Nat : Modulus = m * (2 * kSize) + (Modulus % (2 * kSize)) BY <1>1, Numbers, DivMod
<1>3. Modulus = m * (2 * kSize) BY <1>1, <1>2, Numbers
<1>4. m > 0 BY <1>1, <1>3, Numbers
<1> QED BY <1>3, <1>4

LEMMA ElemBefore ==
  ASSUME NEW x \in Nat
  PROVE  Elem(x + Modulus - 1) = Wrap(Low(x) + 2 * kSize - 1)
<1>1. PICK q \in Nat : x = q * (2 * kSize) + Low(x) BY Laps
<1>2. PICK m \in Nat : m > 0 /\ Modulus = m * (2 * kSize) BY ModulusLaps
<1>3. Low(x) + 2 * kSize - 1 \in 0 .. 4 * kSize - 1 BY LowRange, Numbers
<1>4. x + Modulus - 1 = (q + (m - 1)) * (2 * kSize) + (Low(x) + 2 * kSize - 1)
  <2>1. (q + (m - 1)) * (2 * kSize) = q * (2 * kSize) + (m * (2 * kSize) - 2 * kSize) BY Numbers
  <2> QED BY <1>1, <1>2, <2>1, LowRange, Numbers
<1>5. q + (m - 1) \in Nat BY <1>2
<1> QED BY <1>3, <1>4, <1>5, ElemWrap

\* Taking an index modulo Modulus does not change what it names.
LEMMA LowModulus ==
  ASSUME NEW x \in Nat
  PROVE  x % Modulus \in 0 .. Modulus - 1 /\ Low(x % Modulus) = Low(x)
<1>1. x % Modulus \in 0 .. Modulus - 1 BY Numbers, DivMod
<1>2. PICK p \in Nat : x = p * Modulus + (x % Modulus) BY Numbers, DivMod
<1>3. PICK m \in Nat : Modulus = m * (2 * kSize) BY ModulusLaps
<1>4. x % Modulus \in Nat BY <1>1, Numbers
<1>5. PICK q \in Nat : x % Modulus = q * (2 * kSize) + Low(x % Modulus) BY <1>4, Laps
<1>6. Low(x % Modulus) \in 0 .. 2 * kSize - 1 BY <1>4, LowRange
<1>7. x = (p * m + q) * (2 * kSize) + Low(x % Modulus)
  <2>1. p * Modulus = (p * m) * (2 * kSize) BY <1>3, Numbers
  <2>2. (p * m + q) * (2 * kSize) = (p * m) * (2 * kSize) + q * (2 * kSize) BY Numbers
  <2> QED BY <1>2, <1>5, <1>6, <2>1, <2>2, Numbers
<1>8. p * m + q \in Nat OBVIOUS
<1>9. 2 * kSize \in Nat /\ 2 * kSize > 0 BY Numbers
<1>10. x % (2 * kSize) = Low(x % Modulus) BY <1>6, <1>7, <1>8, <1>9, ModUnique
<1> QED BY <1>1, <1>10 DEF Low

\* Both ways of moving an index
LEMMA UpSum ==
  ASSUME NEW x \in Nat, NEW i \in 0 .. kSize
  PROVE  Up(x + i) \in 0 .. Modulus - 1 /\ Low(Up(x + i)) = Wrap2(Low(x) + i + 1)
<1>1. PICK q \in Nat : x = q * (2 * kSize) + Low(x) BY Laps
<1>2. x + i + 1 + 2 * kSize \in Nat BY Numbers
<1>3. Low(x) + i + 1 \in 0 .. 4 * kSize - 1 BY LowRange, Numbers
<1>4. x + i + 1 + 2 * kSize = (q + 1) * (2 * kSize) + (Low(x) + i + 1)
  <2>1. (q + 1) * (2 * kSize) = q * (2 * kSize) + 2 * kSize BY Numbers
  <2>2. q * (2 * kSize) \in Int /\ 2 * kSize \in Int /\ i \in Int /\ Low(x) \in Int
    BY LowRange, Numbers
  <2>3. \A p, t, l, j \in Int : (p + l) + j + 1 + t = (p + t) + (l + j + 1) OBVIOUS
  <2>4. (q * (2 * kSize) + Low(x)) + i + 1 + 2 * kSize
          = (q * (2 * kSize) + 2 * kSize) + (Low(x) + i + 1) BY <2>2, <2>3
  <2> QED BY <1>1, <2>1, <2>4
<1>5. Low(x + i + 1 + 2 * kSize) = Wrap2(Low(x) + i + 1) BY <1>3, <1>4, LowWrap
<1> QED BY <1>2, <1>5, LowModulus DEF Up

LEMMA DownLow ==
  ASSUME NEW x \in 0 .. Modulus - 1
  PROVE  Down(x) \in 0 .. Modulus - 1 /\ Low(Down(x)) = Wrap2(Low(x) + 2 * kSize - 1)
<1>0. x \in Nat BY Numbers
<1>1. PICK q \in Nat : x = q * (2 * kSize) + Low(x) BY <1>0, Laps
<1>2. Low(x) \in 0 .. 2 * kSize - 1 BY <1>0, LowRange
<1>3. Low(x) + 2 * kSize - 1 \in 0 .. 4 * kSize - 1 BY <1>2, Numbers
<1>4. Low(x + 2 * kSize - 1) = Wrap2(Low(x) + 2 * kSize - 1)
  <2>1. x + 2 * kSize - 1 = q * (2 * kSize) + (Low(x) + 2 * kSize - 1) BY <1>1, <1>2, Numbers
  <2> QED BY <1>3, <2>1, LowWrap
<1>5. Wrap2(Low(x) + 2 * kSize - 1) \in 0 .. 2 * kSize - 1 BY <1>2, Numbers DEF Wrap2
<1>6. Down(x) = q * (2 * kSize) + Wrap2(Low(x) + 2 * kSize - 1)
  BY <1>1, <1>2, <1>4, <1>5, Numbers DEF Down
<1>7. Low(Down(x)) = Wrap2(Low(x) + 2 * kSize - 1)
  <2>1. 2 * kSize \in Nat /\ 2 * kSize > 0 BY Numbers
  <2> QED BY <1>5, <1>6, <2>1, ModUnique DEF Low
<1>8. Down(x) < Modulus
  <2>1. PICK m \in Nat : Modulus = m * (2 * kSize) BY ModulusLaps
  <2>2. q < m BY <1>1, <1>2, <2>1, Numbers
  <2>3. q * (2 * kSize) + 2 * kSize <= m * (2 * kSize) BY <2>2, Numbers
  <2> QED BY <1>5, <1>6, <2>1, <2>3, Numbers
<1> QED BY <1>5, <1>6, <1>7, <1>8, Numbers

-----------------------------------------------------------------------------
(* Positions, counted from back_.                                          *)

LEMMA WrapTwice ==
  ASSUME NEW v \in 0 .. 4 * kSize - 1
  PROVE  Wrap(Wrap2(v)) = Wrap(v) /\ Wrap2(v) \in 0 .. 2 * kSize - 1
BY Numbers DEF Wrap, Wrap2

\* The two ends, in positions
LEMMA Geometry ==
  ASSUME TypeOK
  PROVE  /\ front_ \in Nat /\ back_ \in Nat
         /\ Low(back_) \in 0 .. 2 * kSize - 1 /\ Low(front_) \in 0 .. 2 * kSize - 1
         /\ Size \in 0 .. 2 * kSize - 1 /\ Low(front_) = Wrap2(Low(back_) + Size)
         /\ \A i \in 0 .. 2 * kSize - 1 : Place(i) = Wrap(Low(back_) + i)
<1>1. front_ \in Nat /\ back_ \in Nat BY Numbers DEF TypeOK
<1>2. Low(back_) \in 0 .. 2 * kSize - 1 /\ Low(front_) \in 0 .. 2 * kSize - 1
  BY <1>1, LowRange
<1>3. Size \in 0 .. 2 * kSize - 1 /\ Low(front_) = Wrap2(Low(back_) + Size)
  BY <1>2, Numbers DEF Size, RawSize, Wrap2
<1>4. \A i \in 0 .. 2 * kSize - 1 : Place(i) = Wrap(Low(back_) + i)
  BY <1>1, ElemSum DEF Place
<1> QED BY <1>1, <1>2, <1>3, <1>4

\* The elements the operations look at, as positions
LEMMA Ends ==
  ASSUME TypeOK
  PROVE  /\ Elem(front_) = Place(Size)
         /\ Size > 0 => Elem(front_ + Modulus - 1) = Place(Size - 1)
         /\ Size = 0 => Elem(front_ + Modulus - 1) = Place(kSize - 1)
         /\ Elem(back_ + Modulus - 1) = Place(kSize - 1)
         /\ Elem(back_) = Place(0)
<1>1. front_ \in Nat /\ back_ \in Nat BY Geometry
<1>2. Elem(front_) = Place(Size)
  <2>1. Elem(front_ + 0) = Wrap(Low(front_) + 0) BY <1>1, ElemSum, Numbers
  <2>2. Elem(front_) = Wrap(Low(front_)) BY <1>1, <2>1, Geometry, Numbers
  <2>3. Low(back_) + Size \in 0 .. 4 * kSize - 1 BY Geometry, Numbers
  <2>4. Wrap(Low(front_)) = Wrap(Low(back_) + Size) BY <2>3, WrapTwice, Geometry
  <2> QED BY <2>2, <2>4, Geometry
<1>3. Size > 0 => Elem(front_ + Modulus - 1) = Place(Size - 1)
  <2>1. Elem(front_ + Modulus - 1) = Wrap(Low(front_) + 2 * kSize - 1) BY <1>1, ElemBefore
  <2>2. ASSUME Size > 0
        PROVE  Wrap(Low(front_) + 2 * kSize - 1) = Wrap(Low(back_) + (Size - 1))
    BY <2>2, Geometry, Numbers DEF Wrap, Wrap2
  <2>3. Size > 0 => Size - 1 \in 0 .. 2 * kSize - 1 BY Geometry, Numbers
  <2> QED BY <2>1, <2>2, <2>3, Geometry
<1>4. Elem(back_ + Modulus - 1) = Place(kSize - 1)
  <2>1. Elem(back_ + Modulus - 1) = Wrap(Low(back_) + 2 * kSize - 1) BY <1>1, ElemBefore
  <2>2. Wrap(Low(back_) + 2 * kSize - 1) = Wrap(Low(back_) + (kSize - 1))
    BY Geometry, Numbers DEF Wrap
  <2>3. kSize - 1 \in 0 .. 2 * kSize - 1 BY Numbers
  <2> QED BY <2>1, <2>2, <2>3, Geometry
<1>5. Elem(back_) = Place(0)
  <2>1. back_ + 0 = back_ BY <1>1
  <2> QED BY <2>1 DEF Place
<1>6. Size = 0 => Elem(front_ + Modulus - 1) = Place(kSize - 1)
  <2>1. Elem(front_ + Modulus - 1) = Wrap(Low(front_) + 2 * kSize - 1) BY <1>1, ElemBefore
  <2>2. ASSUME Size = 0
        PROVE  Wrap(Low(front_) + 2 * kSize - 1) = Wrap(Low(back_) + (kSize - 1))
    BY <2>2, Geometry, Numbers DEF Wrap, Wrap2
  <2>3. kSize - 1 \in 0 .. 2 * kSize - 1 BY Numbers
  <2> QED BY <2>1, <2>2, <2>3, Geometry
<1> QED BY <1>2, <1>3, <1>4, <1>5, <1>6

\* A lap away is the same element, and no other position is.
LEMMA Distinct ==
  ASSUME TypeOK, NEW i \in 0 .. 2 * kSize - 1, NEW j \in 0 .. 2 * kSize - 1
  PROVE  Place(i) = Place(j) <=> i = j \/ i = j + kSize \/ j = i + kSize
<1>1. Place(i) = Wrap(Low(back_) + i) /\ Place(j) = Wrap(Low(back_) + j) BY Geometry
<1> QED BY <1>1, Geometry, Numbers DEF Wrap

\* A window of kSize positions holds every element.
LEMMA Cover ==
  ASSUME TypeOK, NEW lo \in 0 .. kSize
  PROVE  /\ \A i \in lo .. lo + kSize - 1 : i \in 0 .. 2 * kSize - 1 /\ Place(i) \in Elements
         /\ \A e \in Elements : \E i \in lo .. lo + kSize - 1 : Place(i) = e
<1>1. \A i \in lo .. lo + kSize - 1 : i \in 0 .. 2 * kSize - 1 BY Numbers
<1>2. ASSUME NEW i \in lo .. lo + kSize - 1 PROVE Place(i) \in Elements
  <2>1. Place(i) = Wrap(Low(back_) + i) /\ i \in 0 .. 2 * kSize - 1 BY <1>1, Geometry
  <2> QED BY <2>1, Geometry, Numbers DEF Wrap, Elements
<1>3. ASSUME NEW e \in Elements PROVE \E i \in lo .. lo + kSize - 1 : Place(i) = e
  <2>1. PICK i \in lo .. lo + kSize - 1 : Wrap(Low(back_) + i) = e
    <3> DEFINE L == Low(back_)
    <3>1. L \in 0 .. 2 * kSize - 1 /\ kSize \in Nat /\ kSize > 2 /\ e \in 0 .. kSize - 1
      BY Geometry, Numbers DEF Elements
    <3> HIDE DEF L
    <3>2. e - L \in lo .. lo + kSize - 1 => Wrap(L + (e - L)) = e BY <3>1 DEF Wrap
    <3>3. e + kSize - L \in lo .. lo + kSize - 1 => Wrap(L + (e + kSize - L)) = e
      BY <3>1 DEF Wrap
    <3>4. e + 2 * kSize - L \in lo .. lo + kSize - 1 => Wrap(L + (e + 2 * kSize - L)) = e
      BY <3>1 DEF Wrap
    <3>5. e + 3 * kSize - L \in lo .. lo + kSize - 1 => Wrap(L + (e + 3 * kSize - L)) = e
      BY <3>1 DEF Wrap
    <3>6. \/ e - L \in lo .. lo + kSize - 1 \/ e + kSize - L \in lo .. lo + kSize - 1
          \/ e + 2 * kSize - L \in lo .. lo + kSize - 1
          \/ e + 3 * kSize - L \in lo .. lo + kSize - 1 BY <3>1
    <3>7. \E i \in lo .. lo + kSize - 1 : Wrap(L + i) = e BY <3>2, <3>3, <3>4, <3>5, <3>6
    <3> QED BY <3>7 DEF L
  <2>2. i \in 0 .. 2 * kSize - 1 BY <1>1
  <2> QED BY <2>1, <2>2, Geometry
<1> QED BY <1>1, <1>2, <1>3

\* The ends move: what that does to the size and to the positions
LEMMA FrontUp ==
  ASSUME TypeOK, Size < 2 * kSize - 1, front_' = Up(front_), back_' = back_
  PROVE  front_' \in 0 .. Modulus - 1 /\ Size' = Size + 1
<1>1. front_ \in Nat /\ front_ + 0 = front_ BY Geometry
<1>2. front_' \in 0 .. Modulus - 1 /\ Low(front_') = Wrap2(Low(front_) + 0 + 1)
  BY <1>1, UpSum, Numbers
<1>3. Size' = Size + 1
  <2>1. Size' = RawSize(front_', back_) BY DEF Size
  <2> QED BY <1>2, <2>1, Geometry, Numbers DEF RawSize, Wrap2
<1> QED BY <1>2, <1>3

LEMMA FrontDown ==
  ASSUME TypeOK, Size > 0, front_' = Down(front_), back_' = back_
  PROVE  front_' \in 0 .. Modulus - 1 /\ Size' = Size - 1
<1>1. front_ \in 0 .. Modulus - 1 BY DEF TypeOK
<1>2. front_' \in 0 .. Modulus - 1 /\ Low(front_') = Wrap2(Low(front_) + 2 * kSize - 1)
  BY <1>1, DownLow
<1>3. Size' = Size - 1
  <2>1. Size' = RawSize(front_', back_) BY DEF Size
  <2> QED BY <1>2, <2>1, Geometry, Numbers DEF RawSize, Wrap2
<1> QED BY <1>2, <1>3

LEMMA BackUp ==
  ASSUME TypeOK, NEW s \in 0 .. kSize - 1, s < Size, back_' = Up(back_ + s), front_' = front_
  PROVE  /\ back_' \in 0 .. Modulus - 1 /\ Size' = Size - s - 1
         /\ \A i \in 0 .. kSize - 1 : Place(i)' = Place(i + s + 1)
<1>1. back_ \in Nat BY Geometry
<1>2. back_' \in 0 .. Modulus - 1 /\ Low(back_') = Wrap2(Low(back_) + s + 1)
  <2>1. s \in 0 .. kSize BY Numbers
  <2>2. Up(back_ + s) \in 0 .. Modulus - 1 /\ Low(Up(back_ + s)) = Wrap2(Low(back_) + s + 1)
    BY <1>1, <2>1, UpSum
  <2> QED BY <2>2
<1>3. Size' = Size - s - 1
  <2>1. Size' = RawSize(front_, back_') BY DEF Size
  <2> QED BY <1>2, <2>1, Geometry, Numbers DEF RawSize, Wrap2
<1>4. ASSUME NEW i \in 0 .. kSize - 1 PROVE Place(i)' = Place(i + s + 1)
  <2>1. Place(i)' = Wrap(Low(back_') + i) BY <1>2, ElemSum, Numbers DEF Place
  <2>2. Place(i + s + 1) = Wrap(Low(back_) + (i + s + 1)) BY Geometry, Numbers
  <2> QED BY <1>2, <2>1, <2>2, Geometry, Numbers DEF Wrap, Wrap2
<1> QED BY <1>2, <1>3, <1>4

LEMMA BackDown ==
  ASSUME TypeOK, Size < 2 * kSize - 1, back_' = Down(back_), front_' = front_
  PROVE  /\ back_' \in 0 .. Modulus - 1 /\ Size' = Size + 1
         /\ Place(0)' = Place(kSize - 1)
         /\ \A i \in 1 .. kSize - 1 : Place(i)' = Place(i - 1)
<1>1. back_ \in 0 .. Modulus - 1 BY DEF TypeOK
<1>2. back_' \in 0 .. Modulus - 1 /\ Low(back_') = Wrap2(Low(back_) + 2 * kSize - 1)
  BY <1>1, DownLow
<1>3. Size' = Size + 1
  <2>1. Size' = RawSize(front_, back_') BY DEF Size
  <2> QED BY <1>2, <2>1, Geometry, Numbers DEF RawSize, Wrap2
<1>4. ASSUME NEW i \in 0 .. kSize - 1 PROVE Place(i)' = Wrap(Low(back_') + i)
  BY <1>2, ElemSum, Numbers DEF Place
<1>5. Place(0)' = Place(kSize - 1)
  <2>1. Place(kSize - 1) = Wrap(Low(back_) + (kSize - 1)) BY Geometry, Numbers
  <2>2. Place(0)' = Wrap(Low(back_') + 0) BY <1>4, Numbers
  <2> QED BY <1>2, <2>1, <2>2, Geometry, Numbers DEF Wrap, Wrap2
<1>6. ASSUME NEW i \in 1 .. kSize - 1 PROVE Place(i)' = Place(i - 1)
  <2>1. Place(i - 1) = Wrap(Low(back_) + (i - 1)) BY Geometry, Numbers
  <2>2. Place(i)' = Wrap(Low(back_') + i) BY <1>4
  <2> QED BY <1>2, <2>1, <2>2, Geometry, Numbers DEF Wrap, Wrap2
<1> QED BY <1>2, <1>3, <1>5, <1>6

-----------------------------------------------------------------------------
(* A thread moves on: where that leaves the others.                        *)

LEMMA Actors ==
  ASSUME Types, Places
  PROVE  /\ owner \in Threads /\ owner \notin Remotes /\ Remotes \subseteq Threads
         /\ None \notin Remotes /\ mutex_ \in Remotes \cup {None}
         /\ Behind \in Locked \cup {"free"} /\ (Behind = "free" <=> mutex_ = None)
         /\ \A r \in Remotes : pc[r] \in Locked => mutex_ = r /\ Behind = pc[r]
<1>1. owner \in Threads /\ Remotes \subseteq Threads BY DEF Threads
<1>2. owner \notin Remotes /\ None \notin Remotes BY RunQueueAssumption
<1>3. mutex_ \in Remotes \cup {None} BY DEF Types, TypeOK
<1>4. \A r \in Remotes : pc[r] \in Locked => mutex_ = r /\ Behind = pc[r]
  BY <1>2 DEF Places, Behind
<1>5. mutex_ = None => Behind = "free" BY DEF Behind
<1>6. mutex_ # None => Behind \in Locked BY <1>3, <1>2 DEF Behind, Places
<1>7. "free" \notin Locked BY DEF Locked
<1> QED BY <1>1, <1>2, <1>3, <1>4, <1>5, <1>6, <1>7

LEMMA OwnerGoto ==
  ASSUME Types, Places, NEW l \in AskPlaces \cup FrontPlaces, Goto(owner, l), mutex_' = mutex_
  PROVE  Places' /\ pc'[owner] = l /\ Behind' = Behind /\ DOMAIN pc' = Threads
<1>1. pc' = [pc EXCEPT ![owner] = l] /\ DOMAIN pc = Threads BY DEF Goto, Types
<1>2. pc'[owner] = l /\ \A t \in Threads : t # owner => pc'[t] = pc[t] BY <1>1, Actors
<1>3. Behind' = Behind BY <1>2, Actors DEF Behind
<1>4. l \notin Locked \cup Unlocked
  BY DEF AskPlaces, FrontPlaces, Locked, Unlocked
<1>5. Places' BY <1>2, <1>4, Actors DEF Places
<1>6. DOMAIN pc' = Threads BY <1>1
<1> QED BY <1>2, <1>3, <1>5, <1>6

LEMMA LockedGoto ==
  ASSUME Types, Places, NEW r \in Remotes, pc[r] \in Locked, NEW l \in Locked, Goto(r, l),
         mutex_' = mutex_
  PROVE  Places' /\ Behind = pc[r] /\ Behind' = l /\ pc'[owner] = pc[owner] /\ DOMAIN pc' = Threads
<1>1. pc' = [pc EXCEPT ![r] = l] /\ DOMAIN pc = Threads BY DEF Goto, Types
<1>2. pc'[r] = l /\ \A t \in Threads : t # r => pc'[t] = pc[t] BY <1>1, Actors
<1>3. Behind = pc[r] /\ Behind' = l BY <1>2, Actors DEF Behind
<1>4. l \notin FrontPlaces BY DEF FrontPlaces, Locked
<1>5. Places' BY <1>2, <1>4, Actors DEF Places
<1>6. DOMAIN pc' = Threads /\ pc'[owner] = pc[owner] BY <1>1, <1>2, Actors
<1> QED BY <1>3, <1>5, <1>6

LEMMA Lock ==
  ASSUME Types, Places, NEW r \in Remotes, mutex_ = None, NEW l \in Locked, Goto(r, l), mutex_' = r
  PROVE  Places' /\ Behind = "free" /\ Behind' = l /\ pc'[owner] = pc[owner] /\ DOMAIN pc' = Threads
<1>1. pc' = [pc EXCEPT ![r] = l] /\ DOMAIN pc = Threads BY DEF Goto, Types
<1>2. pc'[r] = l /\ \A t \in Threads : t # r => pc'[t] = pc[t] BY <1>1, Actors
<1>3. Behind = "free" /\ Behind' = l BY <1>2, Actors DEF Behind
<1>4. l \notin FrontPlaces BY DEF FrontPlaces, Locked
<1>5. Places' BY <1>2, <1>4, Actors DEF Places
<1>6. DOMAIN pc' = Threads /\ pc'[owner] = pc[owner] BY <1>1, <1>2, Actors
<1> QED BY <1>3, <1>5, <1>6

LEMMA Unlock ==
  ASSUME Types, Places, NEW r \in Remotes, pc[r] \in Locked, NEW l \in AskPlaces \cup Unlocked,
         Goto(r, l), mutex_' = None
  PROVE  Places' /\ Behind = pc[r] /\ Behind' = "free" /\ pc'[owner] = pc[owner]
         /\ DOMAIN pc' = Threads
<1>1. pc' = [pc EXCEPT ![r] = l] /\ DOMAIN pc = Threads BY DEF Goto, Types
<1>2. pc'[r] = l /\ \A t \in Threads : t # r => pc'[t] = pc[t] BY <1>1, Actors
<1>3. Behind = pc[r] /\ Behind' = "free" BY Actors DEF Behind
<1>4. l \notin FrontPlaces \cup Locked BY DEF FrontPlaces, AskPlaces, Unlocked, Locked
<1>5. Places' BY <1>2, <1>4, Actors DEF Places
<1>6. DOMAIN pc' = Threads /\ pc'[owner] = pc[owner] BY <1>1, <1>2, Actors
<1> QED BY <1>3, <1>5, <1>6

LEMMA FreeGoto ==
  ASSUME Types, Places, NEW t \in Threads, pc[t] \in AskPlaces \cup Unlocked,
         NEW l \in AskPlaces \cup Unlocked, l \in Unlocked => t \in Remotes,
         Goto(t, l), mutex_' = mutex_
  PROVE  /\ Places' /\ Behind' = Behind /\ DOMAIN pc' = Threads
         /\ pc'[owner] = pc[owner] \/ {pc[owner], pc'[owner]} \subseteq AskPlaces
<1>1. pc' = [pc EXCEPT ![t] = l] /\ DOMAIN pc = Threads BY DEF Goto, Types
<1>2. pc'[t] = l /\ \A u \in Threads : u # t => pc'[u] = pc[u] BY <1>1, Actors
<1>3. {l, pc[t]} \cap (FrontPlaces \cup Locked) = {}
  BY DEF FrontPlaces, AskPlaces, Unlocked, Locked
<1>4. Behind' = Behind BY <1>2, <1>3, Actors DEF Behind, Places
<1>5. t = owner => pc[t] \in AskPlaces /\ l \in AskPlaces BY <1>3, Actors DEF Places
<1>6. Places' BY <1>2, <1>3, <1>5, Actors DEF Places
<1>7. DOMAIN pc' = Threads BY <1>1
<1>8. pc'[owner] = pc[owner] \/ {pc[owner], pc'[owner]} \subseteq AskPlaces
  BY <1>2, <1>5, Actors
<1> QED BY <1>4, <1>6, <1>7, <1>8

-----------------------------------------------------------------------------
(* What the ring needs from a step that leaves the two ends where they are. *)

\* The thread behind the lock, if any, holds no element.
Quiet == {"free", "size.back", "size.front1", "half.scan"}

LEMMA LoRange ==
  ASSUME Types, Halving
  PROVE  /\ Lo(Behind, start) \in 0 .. kSize - 1 /\ mid \in 0 .. kSize /\ start \in -1 .. kSize
         /\ Lo(Behind, start) > 0 => Behind \in {"popback.index", "half.index"}
         /\ kSize \in Nat /\ kSize > 2
BY Numbers DEF Types, TypeOK, Halving, Lo

LEMMA RingKept ==
  ASSUME RInv, UNCHANGED <<front_, back_, elemState, start>>,
         pc'[owner] = pc[owner] \/ {pc[owner], pc'[owner]} \subseteq AskPlaces,
         (Behind' = Behind /\ mid' = mid) \/ {Behind, Behind'} \subseteq Quiet
  PROVE  Ring'
<1>1. Size' = Size /\ \A i : Place(i)' = Place(i) BY DEF Size, Place
<1> DEFINE o == pc[owner]
           o1 == pc'[owner]
           b == Behind
           b1 == Behind'
<1>2. o1 = o \/ {o, o1} \subseteq AskPlaces OBVIOUS
<1>3. (b1 = b /\ mid' = mid) \/ {b, b1} \subseteq Quiet OBVIOUS
<1>4. start' = start OBVIOUS
<1>5. Ring /\ Size \in Int BY Geometry DEF RInv, Types
<1>6. Lo(b1, start) = Lo(b, start) BY <1>3 DEF Lo, Quiet
<1>7. Bounds(o1, b1, Size, start)
  <2>1. Bounds(o, b, Size, start) BY <1>5 DEF Ring
  <2> HIDE DEF o, o1, b, b1
  <2> QED BY <1>2, <1>3, <1>6, <2>1 DEF Bounds, Hi, Top, AskPlaces, Quiet
<1>8. \A i : Due(o1, b1, Size, start, mid', i) = Due(o, b, Size, start, mid, i)
  <2> HIDE DEF o, o1, b, b1
  <2> QED BY <1>2, <1>3 DEF Due, Held, Hi, AskPlaces, Quiet
<1>9. \A i \in Lo(b, start) .. Lo(b, start) + kSize - 1 :
         elemState[Place(i)] = Due(o, b, Size, start, mid, i) BY <1>5 DEF Ring
<1> HIDE DEF o, o1, b, b1
<1>10. \A i \in Lo(b1, start) .. Lo(b1, start) + kSize - 1 :
         elemState[Place(i)] = Due(o1, b1, Size, start, mid', i) BY <1>6, <1>8, <1>9
<1> QED BY <1>1, <1>4, <1>7, <1>10 DEF Ring, o1, b1

\* One element changes, and the window may move up by less than a lap.
LEMMA ChangeOne ==
  ASSUME RInv, UNCHANGED <<front_, back_>>,
         NEW lo \in 0 .. kSize - 1, lo = Lo(Behind, start),
         NEW up \in lo .. kSize - 1, up = Lo(Behind', start'),
         NEW p \in lo .. lo + kSize - 1, NEW v, elemState' = [elemState EXCEPT ![Place(p)] = v],
         Bounds(pc'[owner], Behind', Size, start'),
         \A i \in up .. up + kSize - 1 : \A j \in lo .. lo + kSize - 1 :
           i = j \/ i = j + kSize =>
             Due(pc'[owner], Behind', Size, start', mid', i)
               = IF j = p THEN v ELSE Due(pc[owner], Behind, Size, start, mid, j)
  PROVE  Ring'
<1>0. TypeOK /\ kSize \in Nat BY Numbers DEF RInv, Types
<1>1. Size' = Size /\ \A i : Place(i)' = Place(i) BY DEF Size, Place
<1>2. ASSUME NEW i \in up .. up + kSize - 1
      PROVE  elemState'[Place(i)] = Due(pc'[owner], Behind', Size, start', mid', i)
  <2>1. PICK j \in lo .. lo + kSize - 1 : i = j \/ i = j + kSize
    <3>1. i <= lo + kSize - 1 => i \in lo .. lo + kSize - 1 BY <1>0
    <3>2. i > lo + kSize - 1 => i - kSize \in lo .. lo + kSize - 1 /\ i = (i - kSize) + kSize
      BY <1>0
    <3> QED BY <1>0, <3>1, <3>2
  <2>2. {i, j, p} \subseteq 0 .. 2 * kSize - 1 BY <1>0
  <2>3. Place(i) = Place(j) BY <1>0, <2>1, <2>2, Distinct
  <2>4. Place(j) = Place(p) <=> j = p BY <1>0, <2>2, Distinct
  <2>5. Place(j) \in Elements BY <1>0, Cover
  <2>6. elemState'[Place(j)] = IF j = p THEN v ELSE elemState[Place(j)]
    BY <2>4, <2>5 DEF RInv, Types, TypeOK
  <2>7. elemState[Place(j)] = Due(pc[owner], Behind, Size, start, mid, j) BY DEF RInv, Ring
  <2> QED BY <2>1, <2>3, <2>6, <2>7
<1> QED BY <1>1, <1>2 DEF Ring


LEMMA ChangeUp ==
  ASSUME RInv, UNCHANGED <<front_, back_>>, Lo(Behind', start') \in Lo(Behind, start) .. kSize - 1,
         NEW p \in Lo(Behind, start) .. Lo(Behind, start) + kSize - 1,
         NEW v, elemState' = [elemState EXCEPT ![Place(p)] = v],
         Bounds(pc'[owner], Behind', Size, start'),
         \A i \in Lo(Behind', start') .. Lo(Behind', start') + kSize - 1 :
         \A j \in Lo(Behind, start) .. Lo(Behind, start) + kSize - 1 :
           i = j \/ i = j + kSize =>
             Due(pc'[owner], Behind', Size, start', mid', i)
               = IF j = p THEN v ELSE Due(pc[owner], Behind, Size, start, mid, j)
  PROVE  Ring'
<1>1. Lo(Behind, start) \in 0 .. kSize - 1 BY LoRange DEF RInv
<1> QED BY <1>1, ChangeOne

LEMMA ChangeHere ==
  ASSUME RInv, UNCHANGED <<front_, back_>>, Lo(Behind', start') = Lo(Behind, start),
         NEW p \in Lo(Behind, start) .. Lo(Behind, start) + kSize - 1,
         NEW v, elemState' = [elemState EXCEPT ![Place(p)] = v],
         Bounds(pc'[owner], Behind', Size, start'),
         \A i \in Lo(Behind, start) .. Lo(Behind, start) + kSize - 1 :
           Due(pc'[owner], Behind', Size, start', mid', i)
             = IF i = p THEN v ELSE Due(pc[owner], Behind, Size, start, mid, i)
  PROVE  Ring'
<1> DEFINE lo == Lo(Behind, start)
<1>1. lo \in 0 .. kSize - 1 /\ kSize \in Nat BY LoRange DEF RInv
<1>2. lo \in lo .. kSize - 1 BY <1>1
<1>3. \A i, j \in lo .. lo + kSize - 1 : ~(i = j + kSize) BY <1>1
<1>4. p \in lo .. lo + kSize - 1 /\ lo = Lo(Behind, start) /\ lo = Lo(Behind', start') OBVIOUS
<1>5. \A i \in lo .. lo + kSize - 1 :
        Due(pc'[owner], Behind', Size, start', mid', i)
          = IF i = p THEN v ELSE Due(pc[owner], Behind, Size, start, mid, i) OBVIOUS
<1> HIDE DEF lo
<1>6. \A i \in lo .. lo + kSize - 1 : \A j \in lo .. lo + kSize - 1 :
        i = j \/ i = j + kSize =>
          Due(pc'[owner], Behind', Size, start', mid', i)
            = IF j = p THEN v ELSE Due(pc[owner], Behind, Size, start, mid, j)
  BY <1>3, <1>5
<1> QED BY <1>1, <1>2, <1>4, <1>6, ChangeOne
-----------------------------------------------------------------------------
(* The owner's steps.                                                      *)

\* What the ring says of one position
LEMMA Known ==
  ASSUME RInv
  PROVE  /\ TypeOK /\ Size \in 0 .. 2 * kSize - 1 /\ Bounds(pc[owner], Behind, Size, start)
         /\ Lo(Behind, start) \in 0 .. kSize - 1
         /\ \A i \in Lo(Behind, start) .. Lo(Behind, start) + kSize - 1 :
              /\ i \in 0 .. 2 * kSize - 1
              /\ elemState[Place(i)] = Due(pc[owner], Behind, Size, start, mid, i)
BY Geometry, LoRange, Cover DEF RInv, Types, Ring

LEMMA PushFrontKeeps ==
  ASSUME RInv, PushFront
  PROVE  Places' /\ Halving' /\ Ring'
<1>0. Types /\ Places /\ Halving BY DEF RInv
<1>1. UNCHANGED <<front_, back_, mutex_, mid, start>> BY DEF PushFront, ends, half
<1>2. CASE UNCHANGED <<elemState, pc>>
  <2>1. pc' = pc /\ elemState' = elemState BY <1>2
  <2>2. Behind' = Behind BY <1>1, <2>1 DEF Behind
  <2>3. Ring' BY <1>1, <2>1, <2>2, RingKept
  <2>4. Places' BY <1>0, <1>1, <2>1 DEF Places
  <2>5. Halving' BY <1>0, <1>1, <2>2 DEF Halving
  <2> QED BY <2>3, <2>4, <2>5
<1>3. CASE /\ elemState[Elem(front_)] = "Empty" /\ Goto(owner, "pushfront.index")
           /\ elemState' = [elemState EXCEPT ![Elem(front_)] = "Busy"]
  <2>1. Places' /\ pc'[owner] = "pushfront.index" /\ Behind' = Behind
    BY <1>0, <1>1, <1>3, OwnerGoto DEF FrontPlaces
  <2>2. Halving' BY <1>0, <1>1, <2>1 DEF Halving
  <2>3. pc[owner] = "idle" BY DEF PushFront
  <2> DEFINE b == Behind
             n == Size
             lo == Lo(b, start)
  <2>4. /\ Bounds("idle", b, n, start) /\ n \in 0 .. 2 * kSize - 1 /\ lo \in 0 .. kSize - 1
        /\ mid \in 0 .. kSize /\ start \in -1 .. kSize /\ kSize \in Nat /\ kSize > 2
        /\ b = "half.take" => start \in mid .. kSize - 2
    BY <1>0, <2>3, Known, LoRange DEF Halving
  <2>5. \A i \in lo .. lo + kSize - 1 : elemState[Place(i)] = Due("idle", b, n, start, mid, i)
    BY <2>3, Known
  <2>6. elemState[Place(n)] = "Empty" BY <1>3, Ends, Known
  <2>7. n # lo + kSize
    <3>1. SUFFICES ASSUME n = lo + kSize PROVE FALSE OBVIOUS
    <3>2. lo \in lo .. lo + kSize - 1 /\ {lo, n} \subseteq 0 .. 2 * kSize - 1 BY <2>4, <3>1
    <3>3. Place(lo) = Place(n) BY <3>1, <3>2, Known, Distinct
    <3>4. Due("idle", b, n, start, mid, lo) = "Empty" BY <2>5, <2>6, <3>2, <3>3
    <3>5. Due("idle", b, n, start, mid, lo) # "Empty"
      <4> HIDE DEF b, n
      <4> QED BY <2>4, <3>1, <3>2 DEF Due, Held, Hi, Lo, Bounds
    <3> QED BY <3>4, <3>5
  <2>8. n \in lo .. lo + kSize - 1 BY <2>4, <2>7 DEF Bounds, Hi
  <2>9. Due("idle", b, n, start, mid, n) = "Empty" BY <2>5, <2>6, <2>8
  <2>10. Bounds("pushfront.index", b, n, start)
    <3> HIDE DEF b, n
    <3> QED BY <2>4, <2>8, <2>9 DEF Bounds, Hi, Top, Lo, Due, Held
  <2>11. \A i \in lo .. lo + kSize - 1 :
           Due("pushfront.index", b, n, start, mid, i)
             = IF i = n THEN "Busy" ELSE Due("idle", b, n, start, mid, i)
    <3> HIDE DEF b, n
    <3> QED BY <2>4 DEF Due, Held, Hi
  <2>12. elemState' = [elemState EXCEPT ![Place(n)] = "Busy"] BY <1>3, Ends, Known
  <2>13. Ring' BY <1>1, <2>1, <2>3, <2>8, <2>10, <2>11, <2>12, ChangeHere
  <2> QED BY <2>1, <2>2, <2>13
<1>4. \/ UNCHANGED <<elemState, pc>>
      \/ /\ elemState[Elem(front_)] = "Empty" /\ Goto(owner, "pushfront.index")
         /\ elemState' = [elemState EXCEPT ![Elem(front_)] = "Busy"]
  BY DEF PushFront
<1> QED BY <1>2, <1>3, <1>4


LEMMA PushFrontReadyKeeps ==
  ASSUME RInv, PushFrontReady
  PROVE  Places' /\ Halving' /\ Ring'
<1>0. Types /\ Places /\ Halving BY DEF RInv
<1>1. UNCHANGED <<front_, back_, mutex_, mid, start>> BY DEF PushFrontReady, ends, half
<1>2. pc[owner] = "pushfront.ready" /\ Goto(owner, "idle") BY DEF PushFrontReady
<1>3. Places' /\ pc'[owner] = "idle" /\ Behind' = Behind
  BY <1>0, <1>1, <1>2, OwnerGoto DEF FrontPlaces, AskPlaces
<1>4. Halving' BY <1>0, <1>1, <1>3 DEF Halving
<1> DEFINE b == Behind
           n == Size
           lo == Lo(b, start)
<1>5. /\ Bounds("pushfront.ready", b, n, start) /\ n \in 0 .. 2 * kSize - 1 /\ lo \in 0 .. kSize - 1
      /\ mid \in 0 .. kSize /\ start \in -1 .. kSize /\ kSize \in Nat /\ kSize > 2
      /\ b = "half.take" => start \in mid .. kSize - 2
  BY <1>0, <1>2, Known, LoRange DEF Halving
<1>6. \A i \in lo .. lo + kSize - 1 :
        elemState[Place(i)] = Due("pushfront.ready", b, n, start, mid, i)
  BY <1>2, Known
<1>8. n > 0 /\ n - 1 \in lo .. lo + kSize - 1
  <2> HIDE DEF b, n
  <2> QED BY <1>5 DEF Bounds, Hi, Top, Lo
<1>9. elemState' = [elemState EXCEPT ![Place(n - 1)] = "Ready"]
  BY <1>8, Ends, Known DEF PushFrontReady
<1>10. Bounds("idle", b, n, start)
  <2> HIDE DEF b, n
  <2> QED BY <1>5 DEF Bounds, Hi, Top, Lo
<1>11. \A i \in lo .. lo + kSize - 1 :
         Due("idle", b, n, start, mid, i)
           = IF i = n - 1 THEN "Ready" ELSE Due("pushfront.ready", b, n, start, mid, i)
  <2> HIDE DEF b, n
  <2> QED BY <1>5, <1>8, <1>10 DEF Due, Held, Hi, Bounds, Top, Lo
<1>12. Ring' BY <1>1, <1>2, <1>3, <1>8, <1>9, <1>10, <1>11, ChangeHere
<1> QED BY <1>3, <1>4, <1>12

LEMMA PopFrontKeeps ==
  ASSUME RInv, PopFront
  PROVE  Places' /\ Halving' /\ Ring'
<1>0. Types /\ Places /\ Halving BY DEF RInv
<1>1. UNCHANGED <<front_, back_, mutex_, mid, start>> BY DEF PopFront, ends, half
<1>2. pc[owner] = "idle" /\ Goto(owner, "popfront.take") BY DEF PopFront
<1>3. Places' /\ pc'[owner] = "popfront.take" /\ Behind' = Behind
  BY <1>0, <1>1, <1>2, OwnerGoto DEF FrontPlaces, AskPlaces
<1>4. Halving' BY <1>0, <1>1, <1>3 DEF Halving
<1> DEFINE b == Behind
           n == Size
           lo == Lo(b, start)
<1>5. /\ Bounds("idle", b, n, start) /\ n \in 0 .. 2 * kSize - 1 /\ lo \in 0 .. kSize - 1
      /\ mid \in 0 .. kSize /\ start \in -1 .. kSize /\ kSize \in Nat /\ kSize > 2
      /\ b = "half.take" => start \in mid .. kSize - 2
  BY <1>0, <1>2, Known, LoRange DEF Halving
<1>6. \A i \in lo .. lo + kSize - 1 : elemState[Place(i)] = Due("idle", b, n, start, mid, i)
  BY <1>2, Known
<1>7. elemState[Elem(front_ + Modulus - 1)] = "Ready" BY DEF PopFront
<1>8. n > 0 /\ n - 1 \in lo .. lo + kSize - 1
  <2>1. n # 0
    <3>1. SUFFICES ASSUME n = 0 PROVE FALSE OBVIOUS
    <3>2. lo = 0 /\ Due("idle", b, n, start, mid, kSize - 1) # "Ready"
      <4> HIDE DEF b, n
      <4> QED BY <1>5, <3>1 DEF Bounds, Due, Held, Hi, Top, Lo
    <3>3. kSize - 1 \in lo .. lo + kSize - 1 BY <1>5, <3>2
    <3>4. elemState[Place(kSize - 1)] = "Ready" BY <1>7, <3>1, Ends, Known
    <3> QED BY <1>6, <3>2, <3>3, <3>4
  <2>2. n # lo
    <3>1. SUFFICES ASSUME n = lo PROVE FALSE OBVIOUS
    <3> DEFINE j == lo + kSize - 1
    <3>2. j \in lo .. lo + kSize - 1 /\ {j, n - 1} \subseteq 0 .. 2 * kSize - 1
          /\ j = (n - 1) + kSize BY <1>5, <2>1, <3>1
    <3>3. Due("idle", b, n, start, mid, j) # "Ready"
      <4> HIDE DEF b, n, j
      <4> QED BY <1>5, <2>1, <3>1, <3>2 DEF Bounds, Due, Held, Hi, Top, Lo
    <3> HIDE DEF j
    <3>4. Place(j) = Place(n - 1) BY <3>2, Known, Distinct
    <3>5. elemState[Place(n - 1)] = "Ready" BY <1>5, <1>7, <2>1, Ends, Known
    <3> QED BY <1>6, <3>2, <3>3, <3>4, <3>5
  <2> HIDE DEF n
  <2> QED BY <1>5, <2>1, <2>2 DEF Bounds, Hi
<1>9. elemState' = [elemState EXCEPT ![Place(n - 1)] = "Busy"]
  BY <1>8, Ends, Known DEF PopFront
<1>10. Bounds("popfront.take", b, n, start)
  <2>1. elemState[Place(n - 1)] = "Ready" BY <1>7, <1>8, Ends, Known
  <2>2. Due("idle", b, n, start, mid, n - 1) = "Ready" BY <1>6, <1>8, <2>1
  <2> HIDE DEF b, n
  <2> QED BY <1>5, <1>8, <2>2 DEF Bounds, Hi, Top, Lo, Due, Held
<1>11. \A i \in lo .. lo + kSize - 1 :
         Due("popfront.take", b, n, start, mid, i)
           = IF i = n - 1 THEN "Busy" ELSE Due("idle", b, n, start, mid, i)
  <2> HIDE DEF b, n
  <2> QED BY <1>5, <1>8, <1>10 DEF Due, Held, Hi, Bounds, Top, Lo
<1>12. Ring' BY <1>1, <1>2, <1>3, <1>8, <1>9, <1>10, <1>11, ChangeHere
<1> QED BY <1>3, <1>4, <1>12

LEMMA PopFrontTakeKeeps ==
  ASSUME RInv, PopFrontTake
  PROVE  Places' /\ Halving' /\ Ring'
<1>0. Types /\ Places /\ Halving BY DEF RInv
<1>1. UNCHANGED <<front_, back_, mutex_, mid, start>> BY DEF PopFrontTake, ends, half
<1>2. pc[owner] = "popfront.take" /\ Goto(owner, "popfront.index") BY DEF PopFrontTake
<1>3. Places' /\ pc'[owner] = "popfront.index" /\ Behind' = Behind
  BY <1>0, <1>1, <1>2, OwnerGoto DEF FrontPlaces, AskPlaces
<1>4. Halving' BY <1>0, <1>1, <1>3 DEF Halving
<1> DEFINE b == Behind
           n == Size
           lo == Lo(b, start)
<1>5. /\ Bounds("popfront.take", b, n, start) /\ n \in 0 .. 2 * kSize - 1 /\ lo \in 0 .. kSize - 1
      /\ mid \in 0 .. kSize /\ start \in -1 .. kSize /\ kSize \in Nat /\ kSize > 2
      /\ b = "half.take" => start \in mid .. kSize - 2
  BY <1>0, <1>2, Known, LoRange DEF Halving
<1>6. \A i \in lo .. lo + kSize - 1 : elemState[Place(i)] = Due("popfront.take", b, n, start, mid, i)
  BY <1>2, Known
<1>8. n > 0 /\ n - 1 \in lo .. lo + kSize - 1
  <2> HIDE DEF b, n
  <2> QED BY <1>5 DEF Bounds, Hi, Top, Lo
<1>9. elemState' = [elemState EXCEPT ![Place(n - 1)] = "Empty"]
  BY <1>8, Ends, Known DEF PopFrontTake
<1>10. Bounds("popfront.index", b, n, start)
  <2> HIDE DEF b, n
  <2> QED BY <1>5 DEF Bounds, Hi, Top, Lo
<1>11. \A i \in lo .. lo + kSize - 1 :
         Due("popfront.index", b, n, start, mid, i)
           = IF i = n - 1 THEN "Empty" ELSE Due("popfront.take", b, n, start, mid, i)
  <2> HIDE DEF b, n
  <2> QED BY <1>5, <1>8, <1>10 DEF Due, Held, Hi, Bounds, Top, Lo
<1>12. Ring' BY <1>1, <1>2, <1>3, <1>8, <1>9, <1>10, <1>11, ChangeHere
<1> QED BY <1>3, <1>4, <1>12

LEMMA PushFrontIndexKeeps ==
  ASSUME RInv, PushFrontIndex
  PROVE  Places' /\ Halving' /\ Ring' /\ front_' \in 0 .. Modulus - 1
<1>0. Types /\ Places /\ Halving BY DEF RInv
<1>1. UNCHANGED <<back_, elemState, mutex_, mid, start>> /\ front_' = Up(front_)
  BY DEF PushFrontIndex, array, half
<1>2. pc[owner] = "pushfront.index" /\ Goto(owner, "pushfront.ready") BY DEF PushFrontIndex
<1>3. Places' /\ pc'[owner] = "pushfront.ready" /\ Behind' = Behind
  BY <1>0, <1>1, <1>2, OwnerGoto DEF FrontPlaces, AskPlaces
<1>4. Halving' BY <1>0, <1>1, <1>3 DEF Halving
<1> DEFINE b == Behind
           n == Size
           lo == Lo(b, start)
<1>5. /\ Bounds("pushfront.index", b, n, start) /\ n \in 0 .. 2 * kSize - 1 /\ lo \in 0 .. kSize - 1
      /\ mid \in 0 .. kSize /\ start \in -1 .. kSize /\ kSize \in Nat /\ kSize > 2
  BY <1>0, <1>2, Known, LoRange
<1>6. \A i \in lo .. lo + kSize - 1 :
        elemState[Place(i)] = Due("pushfront.index", b, n, start, mid, i)
  BY <1>2, Known
<1>7. n < 2 * kSize - 1
  <2> HIDE DEF b, n
  <2> QED BY <1>5 DEF Bounds, Hi
<1>8. front_' \in 0 .. Modulus - 1 /\ Size' = n + 1 BY <1>1, <1>7, Known, FrontUp
<1>9. Bounds("pushfront.ready", b, n + 1, start)
  <2> HIDE DEF b, n
  <2> QED BY <1>5 DEF Bounds, Hi, Top, Lo
<1>10. \A i \in lo .. lo + kSize - 1 :
         Due("pushfront.ready", b, n + 1, start, mid, i) = Due("pushfront.index", b, n, start, mid, i)
  <2> HIDE DEF b, n
  <2> QED BY <1>5 DEF Due, Held, Hi
<1>11. \A i : Place(i)' = Place(i) BY <1>1 DEF Place
<1>12. Ring' BY <1>1, <1>3, <1>6, <1>8, <1>9, <1>10, <1>11 DEF Ring
<1> QED BY <1>3, <1>4, <1>8, <1>12

LEMMA PopFrontIndexKeeps ==
  ASSUME RInv, PopFrontIndex
  PROVE  Places' /\ Halving' /\ Ring' /\ front_' \in 0 .. Modulus - 1
<1>0. Types /\ Places /\ Halving BY DEF RInv
<1>1. UNCHANGED <<back_, elemState, mutex_, mid, start>> /\ front_' = Down(front_)
  BY DEF PopFrontIndex, array, half
<1>2. pc[owner] = "popfront.index" /\ Goto(owner, "idle") BY DEF PopFrontIndex
<1>3. Places' /\ pc'[owner] = "idle" /\ Behind' = Behind
  BY <1>0, <1>1, <1>2, OwnerGoto DEF FrontPlaces, AskPlaces
<1>4. Halving' BY <1>0, <1>1, <1>3 DEF Halving
<1> DEFINE b == Behind
           n == Size
           lo == Lo(b, start)
<1>5. /\ Bounds("popfront.index", b, n, start) /\ n \in 0 .. 2 * kSize - 1 /\ lo \in 0 .. kSize - 1
      /\ mid \in 0 .. kSize /\ start \in -1 .. kSize /\ kSize \in Nat /\ kSize > 2
  BY <1>0, <1>2, Known, LoRange
<1>6. \A i \in lo .. lo + kSize - 1 : elemState[Place(i)] = Due("popfront.index", b, n, start, mid, i)
  BY <1>2, Known
<1>7. n > 0
  <2> HIDE DEF b, n
  <2> QED BY <1>5 DEF Bounds, Hi
<1>8. front_' \in 0 .. Modulus - 1 /\ Size' = n - 1 BY <1>1, <1>7, Known, FrontDown
<1>9. Bounds("idle", b, n - 1, start)
  <2> HIDE DEF b, n
  <2> QED BY <1>5 DEF Bounds, Hi, Top, Lo
<1>10. \A i \in lo .. lo + kSize - 1 :
         Due("idle", b, n - 1, start, mid, i) = Due("popfront.index", b, n, start, mid, i)
  <2> HIDE DEF b, n
  <2> QED BY <1>5 DEF Due, Held, Hi
<1>11. \A i : Place(i)' = Place(i) BY <1>1 DEF Place
<1>12. Ring' BY <1>1, <1>3, <1>6, <1>8, <1>9, <1>10, <1>11 DEF Ring
<1> QED BY <1>3, <1>4, <1>8, <1>12

-----------------------------------------------------------------------------
(* The steps of the thread behind the lock, and of one that takes it.      *)

LEMMA PushBackKeeps ==
  ASSUME RInv, NEW r \in Remotes, PushBack(r)
  PROVE  Places' /\ Halving' /\ Ring'
<1>0. Types /\ Places /\ Halving BY DEF RInv
<1>1. UNCHANGED <<front_, back_, mid, start>> /\ mutex_ = None BY DEF PushBack, ends, half
<1>3. CASE UNCHANGED <<elemState, pc, mutex_, start, mid>>
  <2>1. pc' = pc /\ elemState' = elemState /\ mutex_' = mutex_ /\ mid' = mid /\ start' = start
    BY <1>3
  <2>2. Behind' = Behind BY <2>1 DEF Behind
  <2>3. Ring' BY <1>1, <2>1, <2>2, RingKept
  <2>4. Places' BY <1>0, <2>1 DEF Places
  <2>5. Halving' BY <1>0, <2>1, <2>2 DEF Halving
  <2> QED BY <2>3, <2>4, <2>5
<1>4. CASE /\ elemState[Elem(back_ + Modulus - 1)] = "Empty" /\ mutex_' = r
           /\ Goto(r, "pushback.index")
           /\ elemState' = [elemState EXCEPT ![Elem(back_ + Modulus - 1)] = "Busy"]
  <2>1. /\ Places' /\ Behind = "free" /\ Behind' = "pushback.index" /\ pc'[owner] = pc[owner]
    BY <1>0, <1>1, <1>4, Lock DEF Locked
  <2>2. Halving' BY <1>0, <1>1, <2>1 DEF Halving
  <2> DEFINE o == pc[owner]
             n == Size
  <2>3. /\ Bounds(o, "free", n, start) /\ n \in 0 .. 2 * kSize - 1 /\ start = -1
        /\ Lo("free", start) = 0 /\ mid \in 0 .. kSize /\ kSize \in Nat /\ kSize > 2
    BY <1>0, <2>1, Known, LoRange DEF Halving, Lo
  <2>4. elemState' = [elemState EXCEPT ![Place(kSize - 1)] = "Busy"] BY <1>4, Ends, Known
  <2>5. kSize - 1 \in Lo("free", start) .. Lo("free", start) + kSize - 1 BY <2>3
  <2>6. Due(o, "free", n, start, mid, kSize - 1) = "Empty"
    BY <1>4, <2>1, <2>5, Ends, Known
  <2>7. Bounds(o, "pushback.index", n, start)
    <3> HIDE DEF o, n
    <3> QED BY <2>3, <2>6 DEF Due, Held, Hi, Bounds, Top, Lo
  <2>8. \A i \in Lo("free", start) .. Lo("free", start) + kSize - 1 :
          Due(o, "pushback.index", n, start, mid, i)
            = IF i = kSize - 1 THEN "Busy" ELSE Due(o, "free", n, start, mid, i)
    <3> HIDE DEF o, n
    <3> QED BY <2>3 DEF Due, Held, Hi
  <2>9. Lo("pushback.index", start) = Lo("free", start) BY DEF Lo
  <2>10. Ring' BY <1>1, <2>1, <2>4, <2>5, <2>7, <2>8, <2>9, ChangeHere
  <2> QED BY <2>1, <2>2, <2>10
<1>5. \/ UNCHANGED <<elemState, pc, mutex_, start, mid>>
      \/ /\ elemState[Elem(back_ + Modulus - 1)] = "Empty" /\ mutex_' = r
         /\ Goto(r, "pushback.index")
         /\ elemState' = [elemState EXCEPT ![Elem(back_ + Modulus - 1)] = "Busy"]
  BY <1>1 DEF PushBack
<1> QED BY <1>3, <1>4, <1>5

LEMMA PopBackClaimKeeps ==
  ASSUME RInv, NEW r \in Remotes, PopBackClaim(r)
  PROVE  Places' /\ Halving' /\ Ring'
<1>0. Types /\ Places /\ Halving BY DEF RInv
<1>1. UNCHANGED <<front_, back_, mid, start>> /\ mutex_ = None BY DEF PopBackClaim, ends, half
<1>2. pc[r] = "popback.claim" /\ r \in Threads BY <1>0, Actors DEF PopBackClaim
<1>3. CASE UNCHANGED <<elemState, mutex_>> /\ Goto(r, "idle")
  <2>1. /\ Places' /\ Behind' = Behind
        /\ pc'[owner] = pc[owner] \/ {pc[owner], pc'[owner]} \subseteq AskPlaces
    BY <1>0, <1>2, <1>3, FreeGoto DEF AskPlaces, Unlocked
  <2>2. Halving' BY <1>0, <1>1, <2>1 DEF Halving
  <2>3. Ring' BY <1>1, <1>3, <2>1, RingKept
  <2> QED BY <2>1, <2>2, <2>3
<1>4. CASE /\ elemState[Elem(back_)] = "Ready" /\ mutex_' = r /\ Goto(r, "popback.take")
           /\ elemState' = [elemState EXCEPT ![Elem(back_)] = "Busy"]
  <2>1. /\ Places' /\ Behind = "free" /\ Behind' = "popback.take" /\ pc'[owner] = pc[owner]
    BY <1>0, <1>1, <1>4, Lock DEF Locked
  <2>2. Halving' BY <1>0, <1>1, <2>1 DEF Halving
  <2> DEFINE o == pc[owner]
             n == Size
  <2>3. /\ Bounds(o, "free", n, start) /\ n \in 0 .. 2 * kSize - 1 /\ start = -1
        /\ Lo("free", start) = 0 /\ mid \in 0 .. kSize /\ kSize \in Nat /\ kSize > 2
    BY <1>0, <2>1, Known, LoRange DEF Halving, Lo
  <2>4. elemState' = [elemState EXCEPT ![Place(0)] = "Busy"] BY <1>4, Ends, Known
  <2>5. 0 \in Lo("free", start) .. Lo("free", start) + kSize - 1 BY <2>3
  <2>6. Due(o, "free", n, start, mid, 0) = "Ready"
    BY <1>4, <2>1, <2>5, Ends, Known
  <2>7. Bounds(o, "popback.take", n, start)
    <3> HIDE DEF o, n
    <3> QED BY <2>3, <2>6 DEF Due, Held, Hi, Bounds, Top, Lo
  <2>8. \A i \in Lo("free", start) .. Lo("free", start) + kSize - 1 :
          Due(o, "popback.take", n, start, mid, i)
            = IF i = 0 THEN "Busy" ELSE Due(o, "free", n, start, mid, i)
    <3> HIDE DEF o, n
    <3> QED BY <2>3 DEF Due, Held, Hi
  <2>9. Lo("popback.take", start) = Lo("free", start) BY DEF Lo
  <2>10. Ring' BY <1>1, <2>1, <2>4, <2>5, <2>7, <2>8, <2>9, ChangeHere
  <2> QED BY <2>1, <2>2, <2>10
<1>5. \/ UNCHANGED <<elemState, mutex_>> /\ Goto(r, "idle")
      \/ /\ elemState[Elem(back_)] = "Ready" /\ mutex_' = r /\ Goto(r, "popback.take")
         /\ elemState' = [elemState EXCEPT ![Elem(back_)] = "Busy"]
  BY DEF PopBackClaim
<1> QED BY <1>3, <1>4, <1>5

LEMMA HalfLockKeeps ==
  ASSUME RInv, NEW r \in Remotes, HalfLock(r)
  PROVE  Places' /\ Halving' /\ Ring'
<1>0. Types /\ Places /\ Halving BY DEF RInv
<1>1. /\ UNCHANGED <<front_, back_, elemState, mid, start>> /\ mutex_ = None /\ mutex_' = r
      /\ Goto(r, "size.back")
  BY DEF HalfLock, ends, half, array
<1>2. /\ Places' /\ Behind = "free" /\ Behind' = "size.back" /\ pc'[owner] = pc[owner]
  BY <1>0, <1>1, Lock DEF Locked
<1>3. Halving' BY <1>0, <1>1, <1>2 DEF Halving
<1>4. Ring' BY <1>1, <1>2, RingKept DEF Quiet
<1> QED BY <1>2, <1>3, <1>4

LEMMA PushBackReadyKeeps ==
  ASSUME RInv, NEW r \in Remotes, PushBackReady(r)
  PROVE  Places' /\ Halving' /\ Ring'
<1>0. Types /\ Places /\ Halving BY DEF RInv
<1>1. /\ UNCHANGED <<front_, back_, mid, start>> /\ mutex_' = None /\ pc[r] = "pushback.ready"
      /\ Goto(r, "idle")
  BY DEF PushBackReady, ends, half
<1>2. /\ Places' /\ Behind = "pushback.ready" /\ Behind' = "free" /\ pc'[owner] = pc[owner]
  BY <1>0, <1>1, Unlock DEF Locked, AskPlaces
<1>3. Halving' BY <1>0, <1>1, <1>2 DEF Halving
<1> DEFINE o == pc[owner]
           n == Size
<1>5. /\ Bounds(o, "pushback.ready", n, start) /\ n \in 0 .. 2 * kSize - 1
      /\ Lo("pushback.ready", start) \in 0 .. kSize - 1
      /\ mid \in 0 .. kSize /\ start \in -1 .. kSize /\ kSize \in Nat /\ kSize > 2
      /\ start = -1
  BY <1>0, <1>2, Known, LoRange DEF Halving
<1>6. \A i \in Lo("pushback.ready", start) .. Lo("pushback.ready", start) + kSize - 1 :
        elemState[Place(i)] = Due(o, "pushback.ready", n, start, mid, i)
  BY <1>2, Known
<1>7. 0 \in Lo("pushback.ready", start) .. Lo("pushback.ready", start) + kSize - 1 BY <1>5 DEF Lo
<1>8. elemState' = [elemState EXCEPT ![Place(0)] = "Ready"] BY Ends, Known DEF PushBackReady
<1>9. Bounds(o, "free", n, start)
  <2> HIDE DEF o, n
  <2> QED BY <1>5 DEF Bounds, Hi, Top, Lo
<1>10. \A i \in Lo("pushback.ready", start) .. Lo("pushback.ready", start) + kSize - 1 :
         Due(o, "free", n, start, mid, i)
           = IF i = 0 THEN "Ready" ELSE Due(o, "pushback.ready", n, start, mid, i)
  <2> HIDE DEF o, n
  <2> QED BY <1>5 DEF Due, Held, Hi, Bounds, Top, Lo
<1>11. Lo("free", start) = Lo("pushback.ready", start) BY DEF Lo
<1>12. Ring' BY <1>1, <1>2, <1>7, <1>8, <1>9, <1>10, <1>11, ChangeHere
<1> QED BY <1>2, <1>3, <1>12

LEMMA PopBackTakeKeeps ==
  ASSUME RInv, NEW r \in Remotes, PopBackTake(r)
  PROVE  Places' /\ Halving' /\ Ring'
<1>0. Types /\ Places /\ Halving BY DEF RInv
<1>1. /\ UNCHANGED <<front_, back_, mutex_, mid, start>> /\ pc[r] = "popback.take"
      /\ Goto(r, "popback.index")
  BY DEF PopBackTake, ends, half
<1>2. /\ Places' /\ Behind = "popback.take" /\ Behind' = "popback.index" /\ pc'[owner] = pc[owner]
  BY <1>0, <1>1, LockedGoto DEF Locked
<1>3. Halving' BY <1>0, <1>1, <1>2 DEF Halving
<1> DEFINE o == pc[owner]
           n == Size
<1>5. /\ Bounds(o, "popback.take", n, start) /\ n \in 0 .. 2 * kSize - 1
      /\ Lo("popback.take", start) \in 0 .. kSize - 1
      /\ mid \in 0 .. kSize /\ start \in -1 .. kSize /\ kSize \in Nat /\ kSize > 2
      /\ start = -1
  BY <1>0, <1>2, Known, LoRange DEF Halving
<1>6. \A i \in Lo("popback.take", start) .. Lo("popback.take", start) + kSize - 1 :
        elemState[Place(i)] = Due(o, "popback.take", n, start, mid, i)
  BY <1>2, Known
<1>7. elemState' = [elemState EXCEPT ![Place(0)] = "Empty"] BY Ends, Known DEF PopBackTake
<1>8. Bounds(o, "popback.index", n, start)
  <2> HIDE DEF o, n
  <2> QED BY <1>5 DEF Bounds, Hi, Top, Lo
<1>9. Lo("popback.take", start) = 0 /\ Lo("popback.index", start) = 1 BY DEF Lo
<1>10. \A i \in Lo("popback.index", start) .. Lo("popback.index", start) + kSize - 1 :
       \A j \in Lo("popback.take", start) .. Lo("popback.take", start) + kSize - 1 :
         i = j \/ i = j + kSize =>
           Due(o, "popback.index", n, start, mid, i)
             = IF j = 0 THEN "Empty" ELSE Due(o, "popback.take", n, start, mid, j)
  <2> HIDE DEF o, n
  <2> QED BY <1>5, <1>9 DEF Due, Held, Hi, Bounds, Top
<1>11. Ring'
  <2>1. 0 \in Lo("popback.take", start) .. Lo("popback.take", start) + kSize - 1 BY <1>5, <1>9
  <2>2. Lo("popback.index", start) \in Lo("popback.take", start) .. kSize - 1 BY <1>5, <1>9
  <2>3. Behind = "popback.take" /\ Behind' = "popback.index" /\ start' = start /\ mid' = mid
        /\ pc'[owner] = o
    BY <1>1, <1>2
  <2>4. \A i \in Lo(Behind', start') .. Lo(Behind', start') + kSize - 1 :
        \A j \in Lo(Behind, start) .. Lo(Behind, start) + kSize - 1 :
          i = j \/ i = j + kSize =>
            Due(pc'[owner], Behind', Size, start', mid', i)
              = IF j = 0 THEN "Empty" ELSE Due(pc[owner], Behind, Size, start, mid, j)
    BY <1>10, <2>3
  <2>5. Bounds(pc'[owner], Behind', Size, start') BY <1>8, <2>3
  <2>6. /\ 0 \in Lo(Behind, start) .. Lo(Behind, start) + kSize - 1
        /\ Lo(Behind', start') \in Lo(Behind, start) .. kSize - 1 BY <2>1, <2>2, <2>3
  <2> QED BY <1>1, <1>7, <2>4, <2>5, <2>6, ChangeUp
<1> QED BY <1>2, <1>3, <1>11


LEMMA PushBackIndexKeeps ==
  ASSUME RInv, NEW r \in Remotes, PushBackIndex(r)
  PROVE  Places' /\ Halving' /\ Ring' /\ back_' \in 0 .. Modulus - 1
<1>0. Types /\ Places /\ Halving BY DEF RInv
<1>1. /\ UNCHANGED <<front_, elemState, mutex_, mid, start>> /\ back_' = Down(back_)
      /\ pc[r] = "pushback.index" /\ Goto(r, "pushback.ready")
  BY DEF PushBackIndex, array, half
<1>2. /\ Places' /\ Behind = "pushback.index" /\ Behind' = "pushback.ready" /\ pc'[owner] = pc[owner]
  BY <1>0, <1>1, LockedGoto DEF Locked
<1>3. Halving' BY <1>0, <1>1, <1>2 DEF Halving
<1> DEFINE o == pc[owner]
           n == Size
<1>5. /\ Bounds(o, "pushback.index", n, start) /\ n \in 0 .. 2 * kSize - 1
      /\ Lo("pushback.index", start) \in 0 .. kSize - 1
      /\ mid \in 0 .. kSize /\ start \in -1 .. kSize /\ kSize \in Nat /\ kSize > 2
      /\ start = -1
  BY <1>0, <1>2, Known, LoRange DEF Halving
<1>6. \A i \in Lo("pushback.index", start) .. Lo("pushback.index", start) + kSize - 1 :
        elemState[Place(i)] = Due(o, "pushback.index", n, start, mid, i)
  BY <1>2, Known
<1>7. n < 2 * kSize - 1
  <2> HIDE DEF o, n
  <2> QED BY <1>5 DEF Bounds, Hi, Lo
<1>8. /\ back_' \in 0 .. Modulus - 1 /\ Size' = n + 1 /\ Place(0)' = Place(kSize - 1)
      /\ \A i \in 1 .. kSize - 1 : Place(i)' = Place(i - 1)
  BY <1>1, <1>7, Known, BackDown
<1>9. Bounds(o, "pushback.ready", n + 1, start)
  <2> HIDE DEF o, n
  <2> QED BY <1>5 DEF Bounds, Hi, Top, Lo
<1>10. /\ Due(o, "pushback.ready", n + 1, start, mid, 0)
            = Due(o, "pushback.index", n, start, mid, kSize - 1)
       /\ \A i \in 1 .. kSize - 1 :
            Due(o, "pushback.ready", n + 1, start, mid, i)
              = Due(o, "pushback.index", n, start, mid, i - 1)
  <2> HIDE DEF o, n
  <2> QED BY <1>5 DEF Due, Held, Hi, Bounds, Top, Lo
<1>11. Lo("pushback.index", start) = 0 /\ Lo("pushback.ready", start) = 0 BY DEF Lo
<1>12. ASSUME NEW i \in 0 .. kSize - 1
       PROVE  elemState[Place(i)'] = Due(o, "pushback.ready", n + 1, start, mid, i)
  <2>1. CASE i = 0
    <3>1. kSize - 1 \in 0 .. 0 + kSize - 1 BY <1>5
    <3> QED BY <1>6, <1>8, <1>10, <1>11, <2>1, <3>1
  <2>2. CASE i # 0
    <3>1. i \in 1 .. kSize - 1 /\ i - 1 \in 0 .. 0 + kSize - 1 BY <1>5, <2>2
    <3> QED BY <1>6, <1>8, <1>10, <1>11, <3>1
  <2> QED BY <2>1, <2>2
<1>13. Ring'
  <2>1. 0 .. 0 + kSize - 1 = 0 .. kSize - 1 BY <1>5
  <2> QED BY <1>1, <1>2, <1>8, <1>9, <1>11, <1>12, <2>1 DEF Ring
<1> QED BY <1>2, <1>3, <1>8, <1>13

LEMMA PopBackIndexKeeps ==
  ASSUME RInv, NEW r \in Remotes, PopBackIndex(r)
  PROVE  Places' /\ Halving' /\ Ring' /\ back_' \in 0 .. Modulus - 1
<1>0. Types /\ Places /\ Halving BY DEF RInv
<1>1. /\ UNCHANGED <<front_, elemState, mid>> /\ back_' = Up(back_) /\ mutex_' = None
      /\ pc[r] = "popback.index" /\ Goto(r, "idle")
  BY DEF PopBackIndex, array, half
<1>2. /\ Places' /\ Behind = "popback.index" /\ Behind' = "free" /\ pc'[owner] = pc[owner]
  BY <1>0, <1>1, Unlock DEF Locked, AskPlaces
<1>3. Halving' /\ start' = start BY <1>0, <1>1, <1>2 DEF Halving, PopBackIndex, half
<1> DEFINE o == pc[owner]
           n == Size
<1>5. /\ Bounds(o, "popback.index", n, start) /\ n \in 0 .. 2 * kSize - 1
      /\ Lo("popback.index", start) \in 0 .. kSize - 1
      /\ mid \in 0 .. kSize /\ start \in -1 .. kSize /\ kSize \in Nat /\ kSize > 2
      /\ start = -1
  BY <1>0, <1>2, Known, LoRange DEF Halving
<1>6. \A i \in Lo("popback.index", start) .. Lo("popback.index", start) + kSize - 1 :
        elemState[Place(i)] = Due(o, "popback.index", n, start, mid, i)
  BY <1>2, Known
<1>7. Lo("popback.index", start) = 1 /\ Lo("free", start) = 0 BY DEF Lo
<1>8. n > 0
  <2> HIDE DEF o, n
  <2> QED BY <1>5, <1>7 DEF Bounds, Hi
<1>9. /\ back_' \in 0 .. Modulus - 1 /\ Size' = n - 1
      /\ \A i \in 0 .. kSize - 1 : Place(i)' = Place(i + 1)
  <2>1. back_ + 0 = back_ /\ 0 \in 0 .. kSize - 1 BY <1>5, Known, Geometry
  <2>2. /\ back_' \in 0 .. Modulus - 1 /\ Size' = n - 0 - 1
        /\ \A i \in 0 .. kSize - 1 : Place(i)' = Place(i + 0 + 1)
    BY <1>1, <1>8, <2>1, Known, BackUp
  <2>3. n - 0 - 1 = n - 1 /\ \A i \in 0 .. kSize - 1 : i + 0 + 1 = i + 1 BY <1>5
  <2> QED BY <2>2, <2>3
<1>10. Bounds(o, "free", n - 1, start)
  <2> HIDE DEF o, n
  <2> QED BY <1>5, <1>7 DEF Bounds, Hi, Top
<1>11. \A i \in 0 .. kSize - 1 :
         Due(o, "free", n - 1, start, mid, i) = Due(o, "popback.index", n, start, mid, i + 1)
  <2> HIDE DEF o, n
  <2> QED BY <1>5 DEF Due, Held, Hi
<1>12. ASSUME NEW i \in 0 .. kSize - 1
       PROVE  elemState[Place(i)'] = Due(o, "free", n - 1, start, mid, i)
  <2>1. i + 1 \in 1 .. 1 + kSize - 1 BY <1>5
  <2> QED BY <1>6, <1>7, <1>9, <1>11, <2>1
<1>13. Ring'
  <2>1. 0 .. 0 + kSize - 1 = 0 .. kSize - 1 BY <1>5
  <2> QED BY <1>1, <1>2, <1>3, <1>7, <1>9, <1>10, <1>12, <2>1 DEF Ring
<1> QED BY <1>2, <1>3, <1>9, <1>13

LEMMA HalfIndexKeeps ==
  ASSUME RInv, NEW r \in Remotes, HalfIndex(r)
  PROVE  Places' /\ Halving' /\ Ring' /\ back_' \in 0 .. Modulus - 1
<1>0. Types /\ Places /\ Halving BY DEF RInv
<1>1. /\ UNCHANGED <<front_, elemState, mid>> /\ back_' = Up(back_ + start) /\ mutex_' = None
      /\ pc[r] = "half.index" /\ Goto(r, "idle") /\ start' = -1
  BY DEF HalfIndex, array, half
<1>2. /\ Places' /\ Behind = "half.index" /\ Behind' = "free" /\ pc'[owner] = pc[owner]
  BY <1>0, <1>1, Unlock DEF Locked, AskPlaces
<1>3. Halving' BY <1>0, <1>1, <1>2 DEF Halving
<1> DEFINE o == pc[owner]
           n == Size
<1>5. /\ Bounds(o, "half.index", n, start) /\ n \in 0 .. 2 * kSize - 1
      /\ Lo("half.index", start) \in 0 .. kSize - 1
      /\ mid \in 0 .. kSize /\ start \in -1 .. kSize /\ kSize \in Nat /\ kSize > 2
      /\ start \in 0 .. kSize - 2
  BY <1>0, <1>2, Known, LoRange DEF Halving
<1>6. \A i \in Lo("half.index", start) .. Lo("half.index", start) + kSize - 1 :
        elemState[Place(i)] = Due(o, "half.index", n, start, mid, i)
  BY <1>2, Known
<1>7. Lo("half.index", start) = start + 1 /\ Lo("free", -1) = 0 BY DEF Lo
<1>8. start < n
  <2> HIDE DEF o, n
  <2> QED BY <1>5, <1>7 DEF Bounds, Hi
<1>9. /\ back_' \in 0 .. Modulus - 1 /\ Size' = n - start - 1
      /\ \A i \in 0 .. kSize - 1 : Place(i)' = Place(i + start + 1)
  <2>1. start \in 0 .. kSize - 1 BY <1>5
  <2> QED BY <1>1, <1>8, <2>1, Known, BackUp
<1>10. Bounds(o, "free", n - start - 1, -1)
  <2> HIDE DEF o, n
  <2> QED BY <1>5, <1>7 DEF Bounds, Hi, Top
<1>11. \A i \in 0 .. kSize - 1 :
         Due(o, "free", n - start - 1, -1, mid, i)
           = Due(o, "half.index", n, start, mid, i + start + 1)
  <2> HIDE DEF o, n
  <2> QED BY <1>5 DEF Due, Held, Hi
<1>12. ASSUME NEW i \in 0 .. kSize - 1
       PROVE  elemState[Place(i)'] = Due(o, "free", n - start - 1, -1, mid, i)
  <2>1. i + start + 1 \in start + 1 .. start + 1 + kSize - 1 BY <1>5
  <2> QED BY <1>6, <1>7, <1>9, <1>11, <2>1
<1>13. Ring'
  <2>1. 0 .. 0 + kSize - 1 = 0 .. kSize - 1 BY <1>5
  <2> QED BY <1>1, <1>2, <1>7, <1>9, <1>10, <1>12, <2>1 DEF Ring
<1> QED BY <1>2, <1>3, <1>9, <1>13


LEMMA HalfSizeKeeps ==
  ASSUME RInv, NEW r \in Remotes, HalfSize(r)
  PROVE  Places' /\ Halving' /\ Ring' /\ mid' \in 0 .. kSize - 2
<1>0. Types /\ Places /\ Halving BY DEF RInv
<1>1. /\ UNCHANGED <<front_, back_, elemState, mutex_, start>> /\ pc[r] = "size.front1"
      /\ Goto(r, "half.scan")
  BY DEF HalfSize, ends, array, Consistent
<1>2. /\ Places' /\ Behind = "size.front1" /\ Behind' = "half.scan" /\ pc'[owner] = pc[owner]
  BY <1>0, <1>1, LockedGoto DEF Locked
<1>3. mid' \in 0 .. kSize - 2
  <2>1. front[r] \in Nat /\ back[r] \in Nat BY <1>0, Actors DEF Types
  <2> DEFINE size == CalculateSize(front[r], back[r])
  <2>2. size \in 0 .. kSize
    BY <2>1, LowRange, Numbers DEF CalculateSize, RawSize
  <2>3. mid' = Mid(size) BY DEF HalfSize
  <2> HIDE DEF size
  <2>4. Mid(size) \in 0 .. kSize - 2 BY <2>2, Numbers DEF Mid
  <2> QED BY <2>3, <2>4
<1>4. Halving' BY <1>0, <1>1, <1>2, <1>3, Numbers DEF Halving
<1>5. Ring' BY <1>1, <1>2, RingKept DEF Quiet
<1> QED BY <1>2, <1>3, <1>4, <1>5

LEMMA HalfScanKeeps ==
  ASSUME RInv, NEW r \in Remotes, HalfScan(r)
  PROVE  Places' /\ Halving' /\ Ring'
<1>0. Types /\ Places /\ Halving BY DEF RInv
<1>1. UNCHANGED <<front_, back_>> /\ pc[r] = "half.scan" /\ Behind = "half.scan"
  BY <1>0, Actors DEF HalfScan, ends, Locked
<1> DEFINE o == pc[owner]
           n == Size
<1>5. /\ Bounds(o, "half.scan", n, start) /\ n \in 0 .. 2 * kSize - 1
      /\ Lo("half.scan", start) \in 0 .. kSize - 1
      /\ mid \in 0 .. kSize /\ start \in -1 .. kSize /\ kSize \in Nat /\ kSize > 2
      /\ start = -1 /\ mid \in 0 .. kSize - 2
  BY <1>0, <1>1, Known, LoRange DEF Halving
<1>6. \A i \in Lo("half.scan", start) .. Lo("half.scan", start) + kSize - 1 :
        elemState[Place(i)] = Due(o, "half.scan", n, start, mid, i)
  BY <1>1, Known
<1>7. CASE /\ elemState[Place(mid)] = "Ready" /\ start' = mid /\ Goto(r, "half.take")
           /\ elemState' = [elemState EXCEPT ![Place(mid)] = "Busy"]
           /\ UNCHANGED <<mutex_, mid>>
  <2>1. /\ Places' /\ Behind' = "half.take" /\ pc'[owner] = pc[owner]
    BY <1>0, <1>1, <1>7, LockedGoto DEF Locked
  <2>2. Halving' BY <1>5, <1>7, <2>1 DEF Halving
  <2>3. Lo("half.scan", start) = 0 /\ Lo("half.take", mid) = 0 BY DEF Lo
  <2>4. mid \in Lo("half.scan", start) .. Lo("half.scan", start) + kSize - 1 BY <1>5, <2>3
  <2>5. Due(o, "half.scan", n, start, mid, mid) = "Ready" BY <1>6, <1>7, <2>4
  <2>6. Bounds(o, "half.take", n, mid)
    <3> HIDE DEF o, n
    <3> QED BY <1>5, <2>5 DEF Bounds, Hi, Top, Lo, Due, Held
  <2>7. \A i \in Lo("half.scan", start) .. Lo("half.scan", start) + kSize - 1 :
          Due(o, "half.take", n, mid, mid, i)
            = IF i = mid THEN "Busy" ELSE Due(o, "half.scan", n, start, mid, i)
    <3> HIDE DEF o, n
    <3> QED BY <1>5, <2>3 DEF Due, Held, Hi
  <2>8. Ring' BY <1>1, <1>7, <2>1, <2>3, <2>4, <2>6, <2>7, ChangeHere
  <2> QED BY <2>1, <2>2, <2>8
<1>8. CASE /\ UNCHANGED <<elemState, mutex_, start, pc>> /\ mid > 0 /\ mid' = mid - 1
  <2>1. pc' = pc /\ mutex_' = mutex_ BY <1>8
  <2>2. Behind' = Behind BY <2>1 DEF Behind
  <2>3. Places' BY <1>0, <2>1 DEF Places
  <2>4. Halving' BY <1>0, <1>1, <1>5, <1>8, <2>2 DEF Halving
  <2>5. Ring' BY <1>1, <1>8, <2>1, <2>2, RingKept DEF Quiet
  <2> QED BY <2>3, <2>4, <2>5
<1>9. CASE UNCHANGED <<elemState, mid, start>> /\ mutex_' = None /\ Goto(r, "idle")
  <2>1. /\ Places' /\ Behind' = "free" /\ pc'[owner] = pc[owner]
    BY <1>0, <1>1, <1>9, Unlock DEF Locked, AskPlaces
  <2>2. Halving' BY <1>0, <1>1, <1>9, <2>1 DEF Halving
  <2>3. Ring' BY <1>1, <1>9, <2>1, RingKept DEF Quiet
  <2> QED BY <2>1, <2>2, <2>3
<1>10. \/ /\ elemState[Place(mid)] = "Ready" /\ start' = mid /\ Goto(r, "half.take")
          /\ elemState' = [elemState EXCEPT ![Place(mid)] = "Busy"]
          /\ UNCHANGED <<mutex_, mid>>
       \/ UNCHANGED <<elemState, mutex_, start, pc>> /\ mid > 0 /\ mid' = mid - 1
       \/ UNCHANGED <<elemState, mid, start>> /\ mutex_' = None /\ Goto(r, "idle")
  BY DEF HalfScan, Place
<1> QED BY <1>7, <1>8, <1>9, <1>10

LEMMA HalfTakeKeeps ==
  ASSUME RInv, NEW r \in Remotes, HalfTake(r)
  PROVE  Places' /\ Halving' /\ Ring'
<1>0. Types /\ Places /\ Halving BY DEF RInv
<1>1. /\ UNCHANGED <<front_, back_, mutex_, start>> /\ pc[r] = "half.take" /\ Behind = "half.take"
      /\ elemState' = [elemState EXCEPT ![Place(mid)] = "Empty"]
  BY <1>0, Actors DEF HalfTake, ends, Locked, Place
<1> DEFINE o == pc[owner]
           n == Size
<1>5. /\ Bounds(o, "half.take", n, start) /\ n \in 0 .. 2 * kSize - 1
      /\ Lo("half.take", start) \in 0 .. kSize - 1
      /\ mid \in 0 .. kSize /\ start \in -1 .. kSize /\ kSize \in Nat /\ kSize > 2
      /\ start \in mid .. kSize - 2
  BY <1>0, <1>1, Known, LoRange DEF Halving
<1>6. \A i \in Lo("half.take", start) .. Lo("half.take", start) + kSize - 1 :
        elemState[Place(i)] = Due(o, "half.take", n, start, mid, i)
  BY <1>1, Known
<1>7. Lo("half.take", start) = 0 /\ Lo("half.index", start) = start + 1 BY DEF Lo
<1>8. mid \in Lo("half.take", start) .. Lo("half.take", start) + kSize - 1 BY <1>5, <1>7
<1>9. CASE mid # 0
  <2>1. mid' = mid - 1 /\ pc' = pc BY <1>9 DEF HalfTake
  <2>2. Behind' = Behind BY <1>1, <2>1 DEF Behind
  <2>3. Places' BY <1>0, <1>1, <2>1 DEF Places
  <2>4. Halving' BY <1>1, <1>5, <2>1, <2>2 DEF Halving
  <2>5. \A i \in Lo("half.take", start) .. Lo("half.take", start) + kSize - 1 :
          Due(o, "half.take", n, start, mid - 1, i)
            = IF i = mid THEN "Empty" ELSE Due(o, "half.take", n, start, mid, i)
    <3> HIDE DEF o, n
    <3> QED BY <1>5, <1>7, <1>9 DEF Due, Held, Hi, Bounds, Top
  <2>6. Ring' BY <1>1, <1>5, <1>8, <2>1, <2>2, <2>5, ChangeHere
  <2> QED BY <2>3, <2>4, <2>6
<1>10. CASE mid = 0
  <2>1. Goto(r, "half.index") /\ mid' = mid BY <1>10 DEF HalfTake
  <2>2. /\ Places' /\ Behind' = "half.index" /\ pc'[owner] = pc[owner]
    BY <1>0, <1>1, <2>1, LockedGoto DEF Locked
  <2>3. Halving' BY <1>1, <1>5, <2>1, <2>2 DEF Halving
  <2>4. Bounds(o, "half.index", n, start)
    <3> HIDE DEF o, n
    <3> QED BY <1>5 DEF Bounds, Hi, Top, Lo
  <2>5. \A i \in Lo("half.index", start) .. Lo("half.index", start) + kSize - 1 :
        \A j \in Lo("half.take", start) .. Lo("half.take", start) + kSize - 1 :
          i = j \/ i = j + kSize =>
            Due(o, "half.index", n, start, mid, i)
              = IF j = mid THEN "Empty" ELSE Due(o, "half.take", n, start, mid, j)
    <3> HIDE DEF o, n
    <3> QED BY <1>5, <1>7, <1>10 DEF Due, Held, Hi, Bounds, Top
  <2>6. Ring'
    <3>1. start' = start /\ mid' = mid BY <1>1, <2>1
    <3>2. \A i \in Lo(Behind', start') .. Lo(Behind', start') + kSize - 1 :
          \A j \in Lo(Behind, start) .. Lo(Behind, start) + kSize - 1 :
            i = j \/ i = j + kSize =>
              Due(pc'[owner], Behind', Size, start', mid', i)
                = IF j = mid THEN "Empty" ELSE Due(pc[owner], Behind, Size, start, mid, j)
      BY <1>1, <2>2, <2>5, <3>1
    <3>3. Bounds(pc'[owner], Behind', Size, start') BY <2>2, <2>4, <3>1
    <3>4. /\ mid \in Lo(Behind, start) .. Lo(Behind, start) + kSize - 1
          /\ Lo(Behind', start') \in Lo(Behind, start) .. kSize - 1
      BY <1>1, <1>5, <1>7, <1>8, <2>2, <3>1
    <3> QED BY <1>1, <3>2, <3>3, <3>4, ChangeUp
  <2> QED BY <2>2, <2>3, <2>6
<1> QED BY <1>9, <1>10

-----------------------------------------------------------------------------
(* The steps that only look, and those in front of the lock.               *)

LEMMA FreeKeeps ==
  ASSUME RInv, NEW t \in Threads, pc[t] \in AskPlaces \cup Unlocked,
         NEW l \in AskPlaces \cup Unlocked, l \in Unlocked => t \in Remotes,
         Goto(t, l), UNCHANGED <<front_, back_, elemState, mutex_, mid, start>>
  PROVE  Places' /\ Halving' /\ Ring'
<1>0. Types /\ Places /\ Halving BY DEF RInv
<1>1. /\ Places' /\ Behind' = Behind
      /\ pc'[owner] = pc[owner] \/ {pc[owner], pc'[owner]} \subseteq AskPlaces
  BY <1>0, FreeGoto
<1>2. Halving' BY <1>0, <1>1 DEF Halving
<1>3. Ring' BY <1>1, RingKept
<1> QED BY <1>1, <1>2, <1>3

LEMMA SnapKeeps ==
  ASSUME RInv, NEW t \in Threads, SnapshotStep(t)
  PROVE  Places' /\ Halving' /\ Ring'
<1>0. Types /\ Places /\ Halving BY DEF RInv
<1>1. UNCHANGED <<front_, back_, elemState, mutex_, mid, start>>
  BY DEF SnapshotStep, SnapBack, SnapRetry, ends, array, half
<1>2. PICK c \in Loads : (pc[t] = c[1] /\ Goto(t, c[2])) \/ (pc[t] = c[2] /\ Goto(t, c[1]))
  BY DEF SnapshotStep, SnapBack, SnapRetry
<1>3. CASE c = <<"size.back", "size.front1">>
  <2>1. PICK l \in {"size.back", "size.front1"} : Goto(t, l) BY <1>2, <1>3
  <2>2. pc[t] \in {"size.back", "size.front1"} BY <1>2, <1>3
  <2>3. pc[t] \in Locked /\ l \in Locked /\ t \in Remotes
    BY <1>0, <2>2 DEF Locked, Places
  <2>4. /\ Places' /\ Behind = pc[t] /\ Behind' = l /\ pc'[owner] = pc[owner]
    BY <1>0, <1>1, <2>1, <2>3, LockedGoto
  <2>5. Halving' BY <1>0, <1>1, <2>2, <2>4 DEF Halving
  <2>6. Ring' BY <1>1, <2>2, <2>4, RingKept DEF Quiet
  <2> QED BY <2>4, <2>5, <2>6
<1>4. CASE c = <<"empty.back", "empty.front1">>
  BY <1>1, <1>2, <1>4, FreeKeeps DEF AskPlaces, Unlocked
<1>5. CASE c \in {<<"pop.back", "pop.front1">>, <<"half.back", "half.front1">>}
  <2>1. PICK l \in Unlocked : Goto(t, l) BY <1>2, <1>5 DEF Unlocked
  <2>2. pc[t] \in Unlocked BY <1>2, <1>5 DEF Unlocked
  <2>3. t \in Remotes BY <1>0, <2>2 DEF Places
  <2> QED BY <1>1, <2>1, <2>2, <2>3, FreeKeeps
<1> QED BY <1>3, <1>4, <1>5 DEF Loads

LEMMA ObserverKeeps ==
  ASSUME RInv, NEW t \in Threads, ObserverStep(t)
  PROVE  Places' /\ Halving' /\ Ring'
<1>1. UNCHANGED <<front_, back_, elemState, mutex_, mid, start>>
  BY DEF ObserverStep, Empty, EmptyReturn, SnapFront, ends, array, half
<1> QED BY <1>1, FreeKeeps
        DEF ObserverStep, Empty, EmptyReturn, SnapFront, Consistent, AskPlaces, Unlocked

LEMMA AskKeeps ==
  ASSUME RInv, NEW r \in Remotes, PopBack(r) \/ PopBackEmpty(r) \/ PopBackHalf(r) \/ HalfEmpty(r)
  PROVE  Places' /\ Halving' /\ Ring'
<1>1. UNCHANGED <<front_, back_, elemState, mutex_, mid, start>> /\ r \in Threads
  BY DEF PopBack, PopBackEmpty, PopBackHalf, HalfEmpty, SnapFront, ends, array, half, Threads
<1>2. CASE PopBack(r) \/ PopBackHalf(r)
  BY <1>1, <1>2, FreeKeeps DEF PopBack, PopBackHalf, SnapFront, AskPlaces, Unlocked
<1>3. CASE PopBackEmpty(r) \/ HalfEmpty(r)
  <2>1. pc[r] \in AskPlaces \cup Unlocked
    BY <1>3 DEF PopBackEmpty, HalfEmpty, Consistent, Unlocked
  <2>2. \E l \in AskPlaces \cup Unlocked : Goto(r, l)
    BY <1>3 DEF PopBackEmpty, HalfEmpty, AskPlaces, Unlocked
  <2> QED BY <1>1, <2>1, <2>2, FreeKeeps
<1> QED BY <1>2, <1>3

-----------------------------------------------------------------------------
(* Types.                                                                  *)

LEMMA WatchType ==
  ASSUME Types, Watch
  PROVE  sawEmpty' \in [Threads -> BOOLEAN] /\ moves' \in [Threads -> Nat]
<1>1. sawEmpty' \in [Threads -> BOOLEAN] BY Zenon DEF Watch
<1>2. \A t \in Threads : moves[t] \in Nat /\ moves[t] + 1 \in Nat /\ 0 \in Nat
  BY DEF Types, TypeOK
<1>3. moves' \in [Threads -> Nat] BY <1>2, Zenon DEF Watch
<1> QED BY <1>1, <1>3

LEMMA GiveType ==
  ASSUME ran \in [1 .. MaxWork -> Nat], NEW w, Give(w)
  PROVE  ran' \in [1 .. MaxWork -> Nat]
<1>1. ran' = [x \in 1 .. MaxWork |-> IF x = w THEN ran[x] + 1 ELSE ran[x]]
  BY DEF Give
<1>2. \A x \in 1 .. MaxWork : ran[x] \in Nat /\ ran[x] + 1 \in Nat OBVIOUS
<1> QED BY <1>1, <1>2

LEMMA StoreType ==
  ASSUME elemWork \in [Elements -> 0 .. MaxWork], NEW e, NEW v \in 0 .. MaxWork,
         elemWork' = [elemWork EXCEPT ![e] = v]
  PROVE  elemWork' \in [Elements -> 0 .. MaxWork]
OBVIOUS

LEMMA GotoType == ASSUME Types, NEW t, NEW l, Goto(t, l) PROVE DOMAIN pc' = Threads
BY DEF Types, Goto

\* A step that moves an index
LEMMA IndexTypes ==
  ASSUME RInv, Watch,
         \/ PushFrontIndex \/ PopFrontIndex
         \/ \E r \in Remotes : PushBackIndex(r) \/ PopBackIndex(r) \/ HalfIndex(r)
  PROVE  Types'
<1>1. Types /\ Places BY DEF RInv
<1>2. sawEmpty' \in [Threads -> BOOLEAN] /\ moves' \in [Threads -> Nat] BY <1>1, WatchType
<1>3. UNCHANGED <<elemWork, arg, front, back, issued, ran>>
  BY DEF PushFrontIndex, PopFrontIndex, PushBackIndex, PopBackIndex, HalfIndex, ends, array,
      half, snap, work
<1>4. elemState' \in [Elements -> {"Empty", "Busy", "Ready"}]
  BY <1>1 DEF Types, TypeOK, PushFrontIndex, PopFrontIndex, PushBackIndex, PopBackIndex,
      HalfIndex, array
<1>5. mutex_' \in Remotes \cup {None}
  BY <1>1 DEF Types, TypeOK, PushFrontIndex, PopFrontIndex, PushBackIndex, PopBackIndex, HalfIndex
<1>6. mid' \in 0 .. kSize /\ start' \in -1 .. kSize
  BY <1>1, Numbers DEF Types, TypeOK, PushFrontIndex, PopFrontIndex, PushBackIndex, PopBackIndex,
      HalfIndex, half
<1>7. DOMAIN pc' = Threads
  BY <1>1, GotoType DEF Types, PushFrontIndex, PopFrontIndex, PushBackIndex, PopBackIndex, HalfIndex
<1>8. front_' \in 0 .. Modulus - 1 /\ back_' \in 0 .. Modulus - 1
  <2>1. /\ PushFrontIndex \/ PopFrontIndex => back_' = back_
        /\ (\E r \in Remotes : PushBackIndex(r) \/ PopBackIndex(r) \/ HalfIndex(r)) => front_' = front_
    BY DEF PushFrontIndex, PopFrontIndex, PushBackIndex, PopBackIndex, HalfIndex
  <2>2. front_ \in 0 .. Modulus - 1 /\ back_ \in 0 .. Modulus - 1 BY <1>1 DEF Types, TypeOK
  <2> QED BY <2>1, <2>2, PushFrontIndexKeeps, PopFrontIndexKeeps, PushBackIndexKeeps,
             PopBackIndexKeeps, HalfIndexKeeps
<1> QED BY <1>1, <1>2, <1>3, <1>4, <1>5, <1>6, <1>7, <1>8 DEF Types, TypeOK

\* A push that claims its element, or gives the item back
LEMMA PushTypes ==
  ASSUME RInv, Watch,
         PushFront \/ \E r \in Remotes : PushBack(r)
  PROVE  Types'
<1>1. Types /\ Places BY DEF RInv
<1>2. sawEmpty' \in [Threads -> BOOLEAN] /\ moves' \in [Threads -> Nat] BY <1>1, WatchType
<1>3. UNCHANGED <<front_, back_, elemWork, front, back>>
  BY DEF PushFront, PushBack, ends, array, half, snap, work
<1>4. elemState' \in [Elements -> {"Empty", "Busy", "Ready"}]
  BY <1>1 DEF Types, TypeOK, PushFront, PushBack, array
<1>5. mutex_' \in Remotes \cup {None} BY <1>1 DEF Types, TypeOK, PushFront, PushBack
<1>6. mid' \in 0 .. kSize /\ start' \in -1 .. kSize
  BY <1>1, Numbers DEF Types, TypeOK, PushFront, PushBack, half
<1>7. DOMAIN pc' = Threads BY <1>1, GotoType DEF Types, PushFront, PushBack
<1>8. ran' \in [1 .. MaxWork -> Nat] BY <1>1, GiveType DEF Types, TypeOK, PushFront, PushBack
<1>9. arg' \in [Threads -> 0 .. MaxWork] /\ issued' \in 0 .. MaxWork
  <2>1. issued' = issued + 1 /\ issued < MaxWork BY DEF PushFront, PushBack
  <2>2. issued' \in 0 .. MaxWork BY <1>1, <2>1, Numbers DEF Types, TypeOK
  <2>3. arg' = arg \/ \E t : arg' = [arg EXCEPT ![t] = issued'] BY <2>1 DEF PushFront, PushBack
  <2>4. arg \in [Threads -> 0 .. MaxWork] BY <1>1 DEF Types, TypeOK
  <2> QED BY <2>2, <2>3, <2>4
<1> QED BY <1>1, <1>2, <1>3, <1>4, <1>5, <1>6, <1>7, <1>8, <1>9 DEF Types, TypeOK

\* A push that stores its item
LEMMA ReadyTypes ==
  ASSUME RInv, Watch,
         PushFrontReady \/ \E r \in Remotes : PushBackReady(r)
  PROVE  Types'
<1>1. Types /\ Places BY DEF RInv
<1>2. sawEmpty' \in [Threads -> BOOLEAN] /\ moves' \in [Threads -> Nat] BY <1>1, WatchType
<1>3. UNCHANGED <<front_, back_, front, back, issued, ran>>
  BY DEF PushFrontReady, PushBackReady, ends, array, half, snap, work
<1>4. elemState' \in [Elements -> {"Empty", "Busy", "Ready"}]
  BY <1>1 DEF Types, TypeOK, PushFrontReady, PushBackReady, array
<1>5. mutex_' \in Remotes \cup {None} BY <1>1 DEF Types, TypeOK, PushFrontReady, PushBackReady
<1>6. mid' \in 0 .. kSize /\ start' \in -1 .. kSize
  BY <1>1, Numbers DEF Types, TypeOK, PushFrontReady, PushBackReady, half
<1>7. DOMAIN pc' = Threads BY <1>1, GotoType DEF Types, PushFrontReady, PushBackReady
<1>8. elemWork' \in [Elements -> 0 .. MaxWork]
  <2>1. owner \in Threads /\ \A t \in Threads : arg[t] \in 0 .. MaxWork
    BY <1>1, Actors DEF Types, TypeOK
  <2> QED BY <1>1, <2>1, StoreType DEF PushFrontReady, PushBackReady, Types, TypeOK, Threads
<1>9. arg' \in [Threads -> 0 .. MaxWork]
  <2>1. \E t : arg' = [arg EXCEPT ![t] = 0] BY DEF PushFrontReady, PushBackReady
  <2>2. arg \in [Threads -> 0 .. MaxWork] /\ 0 \in 0 .. MaxWork
    BY <1>1, Numbers DEF Types, TypeOK
  <2> QED BY <2>1, <2>2
<1> QED BY <1>1, <1>2, <1>3, <1>4, <1>5, <1>6, <1>7, <1>8, <1>9 DEF Types, TypeOK

\* A pop that claims its element
LEMMA ClaimTypes ==
  ASSUME RInv, Watch,
         PopFront \/ \E r \in Remotes : (PopBackClaim(r) \/ HalfScan(r))
  PROVE  Types'
<1>1. Types /\ Places BY DEF RInv
<1>2. sawEmpty' \in [Threads -> BOOLEAN] /\ moves' \in [Threads -> Nat] BY <1>1, WatchType
<1>3. UNCHANGED <<front_, back_, elemWork, arg, front, back, issued, ran>>
  BY DEF PopFront, PopBackClaim, HalfScan, ends, array, half, snap, work
<1>4. elemState' \in [Elements -> {"Empty", "Busy", "Ready"}]
  BY <1>1 DEF Types, TypeOK, PopFront, PopBackClaim, HalfScan, array
<1>5. mutex_' \in Remotes \cup {None} BY <1>1 DEF Types, TypeOK, PopFront, PopBackClaim, HalfScan
<1>6. mid' \in 0 .. kSize /\ start' \in -1 .. kSize
  BY <1>1, Numbers DEF Types, TypeOK, PopFront, PopBackClaim, HalfScan, half
<1>7. DOMAIN pc' = Threads BY <1>1, GotoType DEF Types, PopFront, PopBackClaim, HalfScan
<1> QED BY <1>1, <1>2, <1>3, <1>4, <1>5, <1>6, <1>7 DEF Types, TypeOK

\* A pop that takes an item
LEMMA TakeTypes ==
  ASSUME RInv, Watch,
         PopFrontTake \/ \E r \in Remotes : (PopBackTake(r) \/ HalfTake(r))
  PROVE  Types'
<1>1. Types /\ Places BY DEF RInv
<1>2. sawEmpty' \in [Threads -> BOOLEAN] /\ moves' \in [Threads -> Nat] BY <1>1, WatchType
<1>3. UNCHANGED <<front_, back_, arg, front, back, issued>>
  BY DEF PopFrontTake, PopBackTake, HalfTake, ends, array, half, snap, work
<1>4. elemState' \in [Elements -> {"Empty", "Busy", "Ready"}]
  BY <1>1 DEF Types, TypeOK, PopFrontTake, PopBackTake, HalfTake, array
<1>5. mutex_' \in Remotes \cup {None} BY <1>1 DEF Types, TypeOK, PopFrontTake, PopBackTake, HalfTake
<1>6. mid' \in 0 .. kSize /\ start' \in -1 .. kSize
  BY <1>1, Numbers DEF Types, TypeOK, PopFrontTake, PopBackTake, HalfTake, half
<1>7. DOMAIN pc' = Threads BY <1>1, GotoType DEF Types, PopFrontTake, PopBackTake, HalfTake
<1>8. elemWork' \in [Elements -> 0 .. MaxWork]
  <2>1. 0 \in 0 .. MaxWork BY Numbers
  <2> QED BY <1>1, <2>1, StoreType DEF PopFrontTake, PopBackTake, HalfTake, Types, TypeOK
<1>9. ran' \in [1 .. MaxWork -> Nat]
  BY <1>1, GiveType DEF Types, TypeOK, PopFrontTake, PopBackTake, HalfTake
<1> QED BY <1>1, <1>2, <1>3, <1>4, <1>5, <1>6, <1>7, <1>8, <1>9 DEF Types, TypeOK

\* PopBackHalf asks how long the queue is
LEMMA SizeTypes ==
  ASSUME RInv, Watch,
         \E r \in Remotes : (HalfLock(r) \/ HalfSize(r))
  PROVE  Types'
<1>1. Types /\ Places BY DEF RInv
<1>2. sawEmpty' \in [Threads -> BOOLEAN] /\ moves' \in [Threads -> Nat] BY <1>1, WatchType
<1>3. UNCHANGED <<front_, back_, elemWork, arg, issued, ran>>
  BY DEF HalfLock, HalfSize, ends, array, half, snap, work
<1>4. elemState' \in [Elements -> {"Empty", "Busy", "Ready"}]
  BY <1>1 DEF Types, TypeOK, HalfLock, HalfSize, array
<1>5. mutex_' \in Remotes \cup {None} BY <1>1 DEF Types, TypeOK, HalfLock, HalfSize
<1>6. mid' \in 0 .. kSize /\ start' \in -1 .. kSize
  <2>1. start' = start /\ (mid' = mid \/ \E r \in Remotes : HalfSize(r))
    BY DEF HalfLock, HalfSize, half
  <2>2. mid \in 0 .. kSize /\ start \in -1 .. kSize BY <1>1 DEF Types, TypeOK
  <2>3. (\E r \in Remotes : HalfSize(r)) => mid' \in 0 .. kSize - 2 BY HalfSizeKeeps
  <2> QED BY <2>1, <2>2, <2>3, Numbers
<1>7. DOMAIN pc' = Threads BY <1>1, GotoType DEF Types, HalfLock, HalfSize
<1>8. front' \in [Threads -> Nat] /\ back' \in [Threads -> Nat]
  BY <1>1, Geometry DEF Types, HalfLock, HalfSize, snap, Forget
<1> QED BY <1>1, <1>2, <1>3, <1>4, <1>5, <1>6, <1>7, <1>8 DEF Types, TypeOK

LEMMA LookTypes ==
  ASSUME RInv, Watch, NEW t \in Threads,
         \/ SnapshotStep(t) \/ ObserverStep(t)
         \/ PopBack(t) \/ PopBackEmpty(t) \/ PopBackHalf(t) \/ HalfEmpty(t)
  PROVE  Types'
<1>1. Types BY DEF RInv
<1>2. sawEmpty' \in [Threads -> BOOLEAN] /\ moves' \in [Threads -> Nat] BY <1>1, WatchType
<1>3. UNCHANGED <<front_, back_, elemState, elemWork, mutex_, arg, mid, start, issued, ran>>
  BY DEF SnapshotStep, SnapBack, SnapRetry, ObserverStep, Empty, EmptyReturn, PopBack,
         PopBackEmpty, PopBackHalf, HalfEmpty, SnapFront, ends, array, half, work
<1>4. DOMAIN pc' = Threads
  BY <1>1, GotoType
  DEF SnapshotStep, SnapBack, SnapRetry, ObserverStep, Empty, EmptyReturn, PopBack,
      PopBackEmpty, PopBackHalf, HalfEmpty, SnapFront
<1>5. front' \in [Threads -> Nat] /\ back' \in [Threads -> Nat]
  BY <1>1, Geometry
  DEF Types, SnapshotStep, SnapBack, SnapRetry, ObserverStep, Empty, EmptyReturn, PopBack,
      PopBackEmpty, PopBackHalf, HalfEmpty, SnapFront, Forget
<1> QED BY <1>1, <1>2, <1>3, <1>4, <1>5 DEF Types, TypeOK

-----------------------------------------------------------------------------
(* The invariant is inductive.                                             *)

LEMMA InitRInv == Init => RInv
<1> SUFFICES ASSUME Init PROVE RInv OBVIOUS
<1>1. PICK n \in Prefill :
        /\ front_ = (n * (1 + 2 * kSize)) % Modulus /\ back_ = 0
        /\ elemState = [e \in Elements |-> IF e < n THEN "Ready" ELSE "Empty"]
        /\ elemWork = [e \in Elements |-> IF e < n THEN e + 1 ELSE 0]
        /\ issued = n
  BY DEF Init
<1>2. /\ mutex_ = None /\ pc = [t \in Threads |-> "idle"] /\ arg = [t \in Threads |-> 0]
      /\ front = [t \in Threads |-> 0] /\ back = [t \in Threads |-> 0]
      /\ mid = 0 /\ start = -1 /\ ran = [w \in 1 .. MaxWork |-> 0]
      /\ sawEmpty = [t \in Threads |-> FALSE] /\ moves = [t \in Threads |-> 0]
  BY DEF Init
<1>3. n \in 0 .. kSize /\ n \in 0 .. MaxWork BY RunQueueAssumption
<1>4. owner \in Threads /\ owner \notin Remotes /\ Remotes \subseteq Threads /\ None \notin Remotes
  BY RunQueueAssumption DEF Threads
<1>5. front_ \in 0 .. Modulus - 1 /\ Low(front_) = n
  <2>1. n * (1 + 2 * kSize) = n * (2 * kSize) + n BY <1>3, Numbers
  <2>2. n * (2 * kSize) + n \in Nat BY <1>3, Numbers
  <2>3. n \in Nat /\ n \in 0 .. 4 * kSize - 1 /\ Wrap2(n) = n BY <1>3, Numbers DEF Wrap2
  <2>4. Low(n * (2 * kSize) + n) = n BY <2>3, LowWrap
  <2> QED BY <1>1, <2>1, <2>2, <2>4, LowModulus
<1>6. Low(back_) = 0
  <2>1. 0 * (2 * kSize) + 0 = 0 /\ Wrap2(0) = 0 /\ 0 \in 0 .. 4 * kSize - 1
    BY Numbers DEF Wrap2
  <2>2. Low(0 * (2 * kSize) + 0) = Wrap2(0) BY <2>1, LowWrap
  <2> QED BY <1>1, <2>1, <2>2
<1>7. Types
  <2>1. elemState \in [Elements -> {"Empty", "Busy", "Ready"}] BY <1>1
  <2>2. elemWork \in [Elements -> 0 .. MaxWork]
    <3>1. \A e \in Elements : (IF e < n THEN e + 1 ELSE 0) \in 0 .. MaxWork
      BY <1>3, Numbers DEF Elements
    <3> QED BY <1>1, <3>1
  <2>3. arg \in [Threads -> 0 .. MaxWork] BY <1>2, Numbers
  <2>4. mid \in 0 .. kSize /\ start \in -1 .. kSize /\ 0 \in 0 .. Modulus - 1 BY <1>2, Numbers
  <2>5. ran \in [1 .. MaxWork -> Nat] BY <1>2
  <2> QED BY <1>1, <1>2, <1>3, <1>5, <2>1, <2>2, <2>3, <2>4, <2>5 DEF Types, TypeOK
<1>8. Behind = "free" /\ pc[owner] = "idle" BY <1>2, <1>4 DEF Behind
<1>9. Places BY <1>2, <1>4 DEF Places, AskPlaces, FrontPlaces, Locked, Unlocked
<1>10. Halving BY <1>2, <1>8 DEF Halving
<1>11. Ring
  <2>1. Size = n BY <1>3, <1>5, <1>6, Numbers DEF Size, RawSize
  <2>2. Lo("free", -1) = 0 BY DEF Lo
  <2>3. Bounds("idle", "free", n, -1) BY <1>3, <2>2, Numbers DEF Bounds, Hi, Top
  <2>4. ASSUME NEW i \in 0 .. 0 + kSize - 1
        PROVE  elemState[Place(i)] = Due("idle", "free", n, -1, 0, i)
    <3>1. i \in 0 .. 2 * kSize - 1 /\ Wrap(0 + i) = i /\ i \in Elements
      BY Numbers DEF Wrap, Elements
    <3>2. TypeOK BY <1>7 DEF Types
    <3>3. Place(i) = i BY <1>6, <3>1, <3>2, Geometry
    <3>4. elemState[i] = IF i < n THEN "Ready" ELSE "Empty" BY <1>1, <3>1
    <3>5. Due("idle", "free", n, -1, 0, i) = IF i < n THEN "Ready" ELSE "Empty"
      BY <1>3, <3>1 DEF Due, Held, Hi
    <3> QED BY <3>3, <3>4, <3>5
  <2> QED BY <1>2, <1>8, <2>1, <2>2, <2>3, <2>4 DEF Ring
<1> QED BY <1>7, <1>9, <1>10, <1>11 DEF RInv

LEMMA NextRInv == RInv /\ [Next]_vars => RInv'
<1> SUFFICES ASSUME RInv, [Next]_vars PROVE RInv' OBVIOUS
<1>1. CASE UNCHANGED vars
  <2>1. /\ UNCHANGED <<front_, back_, elemState, elemWork, mutex_, pc, arg, front, back>>
        /\ UNCHANGED <<mid, start, issued, ran, sawEmpty, moves>>
    BY <1>1 DEF vars, ends, array, snap, half, work
  <2>2. Types' BY <2>1 DEF RInv, Types, TypeOK
  <2>3. Behind' = Behind BY <2>1 DEF Behind
  <2>4. Places' /\ Halving' BY <2>1, <2>3 DEF RInv, Places, Halving
  <2>5. Ring' BY <2>1, <2>3, RingKept
  <2> QED BY <2>2, <2>4, <2>5 DEF RInv
<1>2. CASE Watch /\ OwnerStep
  <2>1. Types'
    BY <1>2, PushTypes, IndexTypes, ReadyTypes, ClaimTypes, TakeTypes DEF OwnerStep
  <2>2. Places' /\ Halving' /\ Ring'
    BY <1>2, PushFrontKeeps, PushFrontIndexKeeps, PushFrontReadyKeeps, PopFrontKeeps,
       PopFrontTakeKeeps, PopFrontIndexKeeps DEF OwnerStep
  <2> QED BY <2>1, <2>2 DEF RInv
<1>3. ASSUME NEW r \in Remotes, Watch, RemoteStep(r) PROVE RInv'
  <2>1. r \in Threads BY DEF Threads
  <2>2. Types'
    BY <1>3, <2>1, PushTypes, IndexTypes, ReadyTypes, ClaimTypes, TakeTypes, SizeTypes, LookTypes
    DEF RemoteStep
  <2>3. Places' /\ Halving' /\ Ring'
    BY <1>3, <2>1, PushBackKeeps, PushBackIndexKeeps, PushBackReadyKeeps, PopBackClaimKeeps,
       PopBackTakeKeeps, PopBackIndexKeeps, HalfLockKeeps, HalfSizeKeeps, HalfScanKeeps,
       HalfTakeKeeps, HalfIndexKeeps, AskKeeps DEF RemoteStep
  <2> QED BY <2>2, <2>3 DEF RInv
<1>4. ASSUME NEW t \in Threads, Watch, SnapshotStep(t) \/ ObserverStep(t) PROVE RInv'
  <2>1. Types' BY <1>4, LookTypes
  <2>2. SnapshotStep(t) => Places' /\ Halving' /\ Ring' BY SnapKeeps
  <2>3. ObserverStep(t) => Places' /\ Halving' /\ Ring' BY ObserverKeeps
  <2> QED BY <1>4, <2>1, <2>2, <2>3 DEF RInv
<1>5. Observers \subseteq Threads BY DEF Threads
<1> QED BY <1>1, <1>2, <1>3, <1>4, <1>5 DEF Next

LEMMA RInvHolds == Spec => []RInv
BY InitRInv, NextRInv, PTL DEF Spec

-----------------------------------------------------------------------------
(* What follows.                                                           *)

\* Every variable keeps its type; PopBackHalf's position stays inside the queue's capacity.
THEOREM TypeCorrect == Spec => []TypeOK
<1>1. RInv => TypeOK BY DEF RInv, Types
<1> QED BY <1>1, RInvHolds, PTL

LEMMA RInvNothing == RInv => NothingToPop
<1> SUFFICES ASSUME RInv PROVE NothingToPop OBVIOUS
<1>0. Types /\ Places /\ Halving BY DEF RInv
<1> DEFINE o == pc[owner]
           b == Behind
           n == Size
           lo == Lo(b, start)
<1>1. /\ Bounds(o, b, n, start) /\ n \in 0 .. 2 * kSize - 1 /\ lo \in 0 .. kSize - 1
      /\ mid \in 0 .. kSize /\ start \in -1 .. kSize /\ kSize \in Nat /\ kSize > 2
      /\ b = "half.take" => start \in mid .. kSize - 2
      /\ b \notin {"half.take", "half.index"} => start = -1
  BY <1>0, Known, LoRange DEF Halving
<1>2. \A i \in lo .. lo + kSize - 1 :
        elemState[Place(i)] = Due(o, b, n, start, mid, i) /\ i \in 0 .. 2 * kSize - 1
  BY Known
<1>3. InFront = (IF o \in {"popfront.take", "popfront.index"} THEN 1 ELSE 0) BY DEF InFront
<1>4. InBack = IF b \in {"popback.take", "popback.index"} THEN 1 ELSE start + 1
  <2>1. (\E r \in Remotes : pc[r] \in {"popback.take", "popback.index"})
          <=> b \in {"popback.take", "popback.index"}
    <3>1. ASSUME NEW r \in Remotes, pc[r] \in {"popback.take", "popback.index"}
          PROVE  b = pc[r] BY <1>0, <3>1, Actors DEF Locked
    <3>2. b \in {"popback.take", "popback.index"} => mutex_ \in Remotes /\ pc[mutex_] = b
      BY <1>0, Actors DEF Behind
    <3> QED BY <3>1, <3>2
  <2> QED BY <2>1 DEF InBack
<1>5. NoneQueued <=> \A i \in InBack .. n - InFront - 1 : elemState[Place(i)] # "Ready"
  BY DEF NoneQueued, Positions, ReadyAt, Place, Size
<1>6. ASSUME o = "idle", elemState[Elem(front_ + Modulus - 1)] # "Ready" PROVE NoneQueued
  <2>1. CASE n = 0 \/ n = lo
    <3>1. InBack .. n - InFront - 1 = {}
      <4> HIDE DEF o, b, n
      <4> QED BY <1>1, <1>3, <1>4, <2>1 DEF Lo, Bounds, Hi, Top
    <3> QED BY <1>5, <3>1
  <2>2. CASE n > 0 /\ n # lo
    <3>1. n - 1 \in lo .. lo + kSize - 1
      <4> HIDE DEF o, b, n, lo
      <4> QED BY <1>1, <1>6, <2>2 DEF Bounds, Hi, lo
    <3>2. Due("idle", b, n, start, mid, n - 1) # "Ready"
      BY <1>2, <1>6, <2>2, <3>1, Ends, Known
    <3>3. ASSUME NEW i \in InBack .. n - InFront - 1 PROVE Place(i) = Place(0) /\ b = "pushback.ready"
      <4>1. i = 0 /\ b = "pushback.ready"
        <5> HIDE DEF o, b, n
        <5> QED BY <1>1, <1>3, <1>4, <1>6, <2>2, <3>1, <3>2, <3>3 DEF Lo, Bounds, Hi, Top, Due, Held
      <4> QED BY <4>1
    <3>4. b = "pushback.ready" => elemState[Place(0)] # "Ready"
      <4>1. SUFFICES ASSUME b = "pushback.ready" PROVE elemState[Place(0)] # "Ready" OBVIOUS
      <4>2. 0 \in lo .. lo + kSize - 1 BY <1>1, <4>1 DEF Lo
      <4>3. Due(o, "pushback.ready", n, start, mid, 0) = "Busy" BY DEF Due, Held
      <4> QED BY <1>2, <4>1, <4>2, <4>3
    <3> QED BY <1>5, <3>3, <3>4
  <2> QED BY <1>1, <2>1, <2>2
<1>7. ASSUME NEW r \in Remotes, mutex_ = None, elemState[Elem(back_)] # "Ready" PROVE NoneQueued
  <2>1. b = "free" BY <1>7 DEF Behind
  <2>2. 0 \in lo .. lo + kSize - 1 BY <1>1, <2>1 DEF Lo
  <2>3. Due(o, "free", n, start, mid, 0) # "Ready" BY <1>2, <1>7, <2>1, <2>2, Ends, Known
  <2>4. ASSUME NEW i \in InBack .. n - InFront - 1 PROVE i = 0
    <3> HIDE DEF o, b, n
    <3> QED BY <1>1, <1>3, <1>4, <2>1, <2>3, <2>4 DEF Lo, Bounds, Hi, Top, Due, Held
  <2>5. \A i \in InBack .. n - InFront - 1 : elemState[Place(i)] # "Ready"
    BY <1>7, <2>4, Ends, Known
  <2> QED BY <1>5, <2>5
<1> QED BY <1>6, <1>7 DEF NothingToPop

\* A pop that returns nothing found nothing: the element at its end is not ready only when no item
\* is queued at all.
THEOREM PopsFindWhatIsThere == Spec => []NothingToPop
BY RInvHolds, RInvNothing, PTL

LEMMA RInvExclusive == RInv => Exclusive
<1> SUFFICES ASSUME RInv PROVE Exclusive OBVIOUS
<1>0. Types /\ Places /\ Halving BY DEF RInv
<1> DEFINE o == pc[owner]
           b == Behind
           n == Size
           lo == Lo(b, start)
           window == lo .. lo + kSize - 1
           \* the positions the owner holds, and the thread behind the lock
           mine(i) == \/ o \in {"pushfront.ready", "popfront.take"} /\ i = n - 1
                      \/ o = "pushfront.index" /\ i = n
           theirs(i) == \/ b \in {"pushback.ready", "popback.take"} /\ i = 0
                        \/ b = "pushback.index" /\ i = kSize - 1
                        \/ b = "half.take" /\ i \in 0 .. mid
<1>1. /\ Bounds(o, b, n, start) /\ n \in 0 .. 2 * kSize - 1 /\ lo \in 0 .. kSize - 1
      /\ mid \in 0 .. kSize /\ start \in -1 .. kSize /\ kSize \in Nat /\ kSize > 2
      /\ b = "half.take" => start \in mid .. kSize - 2
  BY <1>0, Known, LoRange DEF Halving
<1>2. \A i \in window :
        elemState[Place(i)] = Due(o, b, n, start, mid, i) /\ i \in 0 .. 2 * kSize - 1
        /\ Place(i) \in Elements
  BY <1>1, Known, Cover
<1>3. \A i, j \in window : Place(i) = Place(j) => i = j
  <2>1. ASSUME NEW i \in window, NEW j \in window, Place(i) = Place(j) PROVE i = j
    <3>1. i = j \/ i = j + kSize \/ j = i + kSize BY <1>2, <2>1, Known, Distinct
    <3> HIDE DEF lo
    <3> QED BY <1>1, <3>1
  <2> QED BY <2>1
<1>4. \A i : mine(i) => i \in window /\ (n > 0 \/ o = "pushfront.index")
  <2> HIDE DEF o, b, n, lo
  <2>1. lo = Lo(b, start) BY DEF lo
  <2> QED BY <1>1, <2>1 DEF Bounds, Hi, Top, Lo
<1>5. \A i : theirs(i) => i \in window
  <2> HIDE DEF o, b, n, lo
  <2>1. lo = Lo(b, start) BY DEF lo
  <2> QED BY <1>1, <2>1 DEF Lo
<1>6. \A i, j : ~(mine(i) /\ theirs(i))
  <2> HIDE DEF o, b, n, lo
  <2>1. lo = Lo(b, start) BY DEF lo
  <2> QED BY <1>1, <2>1 DEF Bounds, Hi, Top, Lo
<1>7. \A i \in window : Due(o, b, n, start, mid, i) = "Busy" =>
        mine(i) \/ theirs(i)
  <2> HIDE DEF o, b, n, lo
  <2> QED BY <1>1 DEF Due, Held, Hi
<1>8. \A i : mine(i) => Due(o, b, n, start, mid, i) = "Busy"
  <2> HIDE DEF o, b, n, lo
  <2> QED BY <1>1 DEF Due, Held, Hi
<1>9. \A i : theirs(i) /\ ~(b = "half.take" /\ i # start) => Due(o, b, n, start, mid, i) = "Busy"
  <2> HIDE DEF o, b, n, lo
  <2> QED BY <1>1 DEF Due, Held, Hi
<1>10. \A i : theirs(i) /\ b = "half.take" /\ i # start => Due(o, b, n, start, mid, i) = "Ready"
  <2> HIDE DEF o, b, n, lo
  <2> QED BY <1>1 DEF Due, Held, Hi, Bounds, Top, Lo
<1>11. b = "half.take" => start \in window
  <2> HIDE DEF o, b, n, lo
  <2>1. lo = Lo(b, start) BY DEF lo
  <2> QED BY <1>1, <2>1 DEF Lo
<1>12. Claims(owner) = {Place(i) : i \in {j \in window : mine(j)}}
  <2>1. o \notin Locked BY <1>0 DEF Places, AskPlaces, FrontPlaces, Locked
  <2>2. Claims(owner) = {e \in Elements :
          \/ o = "pushfront.index" /\ e = Elem(front_)
          \/ o \in {"pushfront.ready", "popfront.take"} /\ e = Elem(front_ + Modulus - 1)}
    BY <2>1 DEF Claims, Locked
  <2>3. Elem(front_) = Place(n) /\ (n > 0 => Elem(front_ + Modulus - 1) = Place(n - 1))
    BY Ends, Known
  <2>4. o \in {"pushfront.ready", "popfront.take"} => n > 0
    <3> HIDE DEF o, b, n
    <3> QED BY <1>1 DEF Bounds, Hi, Top, Lo
  <2> HIDE DEF o, b, n, window
  <2> QED BY <1>2, <1>4, <2>2, <2>3, <2>4
<1>13. ASSUME NEW t \in Threads, t # owner
       PROVE  Claims(t) = IF t \in Remotes /\ t = mutex_
                          THEN {Place(i) : i \in {j \in window : theirs(j)}} ELSE {}
  <2>1. CASE t \in Remotes /\ t = mutex_
    <3>1. pc[t] = b /\ b \in Locked BY <1>0, <2>1, Actors DEF Behind
    <3>2. Claims(t) = {e \in Elements :
            \/ b = "pushback.index" /\ e = Elem(back_ + Modulus - 1)
            \/ b \in {"pushback.ready", "popback.take"} /\ e = Elem(back_)
            \/ b = "half.take" /\ \E i \in 0 .. mid : e = Place(i)}
      BY <3>1 DEF Claims, Locked, Place
    <3>3. Elem(back_ + Modulus - 1) = Place(kSize - 1) /\ Elem(back_) = Place(0)
      BY Ends, Known
    <3>4. Claims(t) = {e \in Elements : \E i : theirs(i) /\ e = Place(i)}
      <4> HIDE DEF b
      <4> QED BY <3>2, <3>3
    <3> HIDE DEF theirs, window
    <3> QED BY <1>2, <1>5, <2>1, <3>4
  <2>2. CASE ~(t \in Remotes /\ t = mutex_)
    <3>1. pc[t] \notin Locked \cup FrontPlaces BY <1>0, <1>13, <2>2 DEF Places
    <3> QED BY <2>2, <3>1 DEF Claims, Locked, FrontPlaces
  <2> QED BY <2>1, <2>2
<1>14. mutex_ \in Remotes \/ b = "free" BY <1>0, Actors
<1>15. \A s, t \in Threads : s # t => Claims(s) \cap Claims(t) = {}
  <2> HIDE DEF mine, theirs, window
  <2>1. {Place(i) : i \in {j \in window : mine(j)}} \cap {Place(i) : i \in {j \in window : theirs(j)}} = {}
    BY <1>3, <1>6
  <2> QED BY <1>12, <1>13, <2>1
<1>16. {e \in Elements : elemState[e] = "Busy"} \subseteq UNION {Claims(t) : t \in Threads}
  <2>1. SUFFICES ASSUME NEW e \in Elements, elemState[e] = "Busy"
                 PROVE  \E t \in Threads : e \in Claims(t)
    OBVIOUS
  <2>2. PICK i \in window : Place(i) = e
    <3>1. lo \in 0 .. kSize
      <4> HIDE DEF lo
      <4> QED BY <1>1
    <3> QED BY <3>1, Known, Cover
  <2>3. mine(i) \/ theirs(i) BY <1>2, <1>7, <2>1, <2>2
  <2>4. theirs(i) => mutex_ \in Remotes BY <1>14
  <2>5. owner \in Threads /\ Remotes \subseteq Threads /\ owner \notin Remotes BY <1>0, Actors
  <2> HIDE DEF mine, theirs, window
  <2> QED BY <1>12, <1>13, <2>2, <2>3, <2>4, <2>5
<1>17. ASSUME NEW t \in Threads, NEW e \in Claims(t)
       PROVE  IF pc[t] = "half.take" /\ e # Elem(back_ + start)
              THEN elemState[e] = "Ready" ELSE elemState[e] = "Busy"
  <2>1. CASE t = owner
    <3>1. PICK i \in window : mine(i) /\ e = Place(i)
      <4> HIDE DEF mine, window
      <4> QED BY <1>12, <1>17, <2>1
    <3>2. pc[t] # "half.take" BY <1>0, <2>1 DEF Places, AskPlaces, FrontPlaces
    <3>3. elemState[e] = "Busy" BY <1>2, <1>8, <3>1
    <3> QED BY <3>2, <3>3
  <2>2. CASE t # owner
    <3>1. t \in Remotes /\ t = mutex_ BY <1>13, <1>17, <2>2
    <3>2. pc[t] = b BY <3>1, RunQueueAssumption DEF Behind
    <3>3. PICK i \in window : theirs(i) /\ e = Place(i)
      <4> HIDE DEF theirs, window
      <4> QED BY <1>13, <1>17, <2>2, <3>1
    <3>4. elemState[e] = Due(o, b, n, start, mid, i) BY <1>2, <3>3
    <3>5. b = "half.take" => (e = Elem(back_ + start) <=> i = start)
      <4>1. Elem(back_ + start) = Place(start) BY DEF Place
      <4> QED BY <1>3, <1>11, <3>3, <4>1
    <3> HIDE DEF mine, theirs, window, o, b, n
    <3> QED BY <1>9, <1>10, <3>2, <3>3, <3>4, <3>5
  <2> QED BY <2>1, <2>2
<1> QED BY <1>15, <1>16, <1>17 DEF Exclusive

\* An element is touched by one thread at a time, whatever the owner and the threads at the back do.
THEOREM OneHolder == Spec => []Exclusive
BY RInvHolds, RInvExclusive, PTL

-----------------------------------------------------------------------------
(* Empty() is right as long as the front does not come round.              *)

\* From x to y in m moves, u of them up and d down: each up counts a modification, and so does
\* a down that borrows.
Displaced(x, y, m) ==
  \E u, d, c \in Nat, p \in Int :
    /\ u + d = m /\ u <= c /\ c <= m
    /\ y = x + c * (2 * kSize) + u - d - p * Modulus

LEMMA NotMoved == ASSUME NEW x \in Nat PROVE Displaced(x, x, 0)
<1>1. 0 * (2 * kSize) = 0 /\ 0 * Modulus = 0 BY Numbers
<1>2. x = x + 0 * (2 * kSize) + 0 - 0 - 0 * Modulus BY <1>1
<1> QED BY <1>2 DEF Displaced

LEMMA MovedUp ==
  ASSUME NEW x \in Nat, NEW y \in Nat, NEW m \in Nat, Displaced(x, y, m)
  PROVE  Displaced(x, Up(y), m + 1)
<1>0. kSize \in Nat /\ 2 * kSize \in Nat /\ Modulus \in Nat /\ Modulus > 0 BY Numbers
<1>1. PICK u, d, c \in Nat, p \in Int :
        /\ u + d = m /\ u <= c /\ c <= m
        /\ y = x + c * (2 * kSize) + u - d - p * Modulus
  BY DEF Displaced
<1>2. y + 1 + 2 * kSize \in Nat BY <1>0
<1>3. PICK k \in Nat : y + 1 + 2 * kSize = k * Modulus + Up(y)
  BY <1>0, <1>2, DivMod DEF Up
<1>4. (c + 1) * (2 * kSize) = c * (2 * kSize) + 2 * kSize /\ c * (2 * kSize) \in Int BY <1>0
<1>5. (p + k) * Modulus = p * Modulus + k * Modulus /\ p * Modulus \in Int /\ k * Modulus \in Int
  BY <1>0
<1>6. Up(y) = x + (c + 1) * (2 * kSize) + (u + 1) - d - (p + k) * Modulus
  <2>1. Up(y) = y + 1 + 2 * kSize - k * Modulus
    <3>1. Up(y) \in Int BY <1>0, <1>2, DivMod DEF Up
    <3> QED BY <1>0, <1>3, <1>5, <3>1
  <2>2. \A a, b, e, f \in Int : (x + a + u - d - e) + 1 + b - f = x + (a + b) + (u + 1) - d - (e + f)
    OBVIOUS
  <2> QED BY <1>0, <1>1, <1>4, <1>5, <2>1, <2>2
<1>7. u + 1 \in Nat /\ c + 1 \in Nat /\ p + k \in Int /\ (u + 1) + d = m + 1 /\ u + 1 <= c + 1
      /\ c + 1 <= m + 1
  BY <1>1
<1> QED BY <1>6, <1>7 DEF Displaced

\* A step down takes one off the index, or borrows from the low bits alone.
LEMMA DownStep ==
  ASSUME NEW x \in 0 .. Modulus - 1
  PROVE  Down(x) = x - 1 \/ Down(x) = x - 1 + 2 * kSize
<1>0. x \in Nat BY Numbers
<1>1. PICK q \in Nat : x = q * (2 * kSize) + Low(x) BY <1>0, Laps
<1>2. Low(x) \in 0 .. 2 * kSize - 1 BY <1>0, LowRange
<1>3. Low(x) + 2 * kSize - 1 \in 0 .. 4 * kSize - 1 BY <1>2, Numbers
<1>4. Low(x + 2 * kSize - 1) = Wrap2(Low(x) + 2 * kSize - 1)
  <2>1. x + 2 * kSize - 1 = q * (2 * kSize) + (Low(x) + 2 * kSize - 1) BY <1>1, <1>2, Numbers
  <2> QED BY <1>3, <2>1, LowWrap
<1> QED BY <1>0, <1>2, <1>4, Numbers DEF Down, Wrap2

LEMMA MovedDown ==
  ASSUME NEW x \in Nat, NEW y \in 0 .. Modulus - 1, NEW m \in Nat, Displaced(x, y, m)
  PROVE  Displaced(x, Down(y), m + 1)
<1>0. kSize \in Nat /\ 2 * kSize \in Nat /\ Modulus \in Nat /\ Modulus > 0 BY Numbers
<1>1. PICK u, d, c \in Nat, p \in Int :
        /\ u + d = m /\ u <= c /\ c <= m
        /\ y = x + c * (2 * kSize) + u - d - p * Modulus
  BY DEF Displaced
<1>2. (c + 1) * (2 * kSize) = c * (2 * kSize) + 2 * kSize /\ c * (2 * kSize) \in Int
      /\ p * Modulus \in Int
  BY <1>0
<1>3. CASE Down(y) = y - 1
  <2>1. Down(y) = x + c * (2 * kSize) + u - (d + 1) - p * Modulus BY <1>0, <1>1, <1>2, <1>3
  <2>2. d + 1 \in Nat /\ u + (d + 1) = m + 1 /\ c <= m + 1 BY <1>1
  <2> QED BY <1>1, <2>1, <2>2 DEF Displaced
<1>4. CASE Down(y) = y - 1 + 2 * kSize
  <2>1. Down(y) = x + (c + 1) * (2 * kSize) + u - (d + 1) - p * Modulus
    <3>1. \A a, b, e \in Int : (x + a + u - d - e) - 1 + b = x + (a + b) + u - (d + 1) - e OBVIOUS
    <3> QED BY <1>0, <1>1, <1>2, <1>4, <3>1
  <2>2. d + 1 \in Nat /\ c + 1 \in Nat /\ u + (d + 1) = m + 1 /\ u <= c + 1 /\ c + 1 <= m + 1
    BY <1>1
  <2> QED BY <1>1, <2>1, <2>2 DEF Displaced
<1> QED BY <1>3, <1>4, DownStep

\* In less than a round nothing comes back to where it was.
LEMMA ComesRound ==
  ASSUME NEW x \in Nat, NEW m \in Nat, Displaced(x, x, m), m < Round
  PROVE  m = 0
<1>0. kSize \in Nat /\ 2 * kSize \in Nat /\ 2 * kSize > 0 /\ Modulus \in Nat /\ Modulus > 0
  BY Numbers
<1> DEFINE L == 2 * kSize
           k == Modulus \div L
<1>1. k \in Nat /\ Modulus = k * L BY <1>0, Numbers
<1>2. m < L /\ m < k BY <1>0, <1>1 DEF Round
<1>3. PICK u, d, c \in Nat, p \in Int :
        /\ u + d = m /\ u <= c /\ c <= m
        /\ x = x + c * L + u - d - p * Modulus
  BY DEF Displaced
<1>4. L \in Nat /\ L > 0 BY <1>0
<1> HIDE DEF L, k
<1>5. p * Modulus = (p * k) * L BY <1>1, <1>4
<1>6. (p * k - c) * L = u - d
  <2>1. (p * k - c) * L = (p * k) * L - c * L /\ (p * k) * L \in Int /\ c * L \in Int BY <1>1, <1>4
  <2> QED BY <1>3, <1>5, <2>1
<1>7. p * k - c = 0
  <2> DEFINE z == p * k - c
  <2>1. z \in Int /\ z * L = u - d BY <1>1, <1>6
  <2>2. u - d < L /\ u - d > -L BY <1>2, <1>3, <1>4
  <2> HIDE DEF z
  <2>3. z >= 1 => z * L >= L BY <1>4, <2>1
  <2>4. z <= -1 => z * L <= -L BY <1>4, <2>1
  <2>5. z = 0 BY <1>4, <2>1, <2>2, <2>3, <2>4
  <2> QED BY <2>5 DEF z
<1>8. p * k = c /\ c < k BY <1>1, <1>2, <1>3, <1>7
<1>9. p >= 1 => p * k >= k BY <1>1
<1>10. p <= -1 => p * k <= -k BY <1>1
<1>11. p = 0 BY <1>1, <1>3, <1>8, <1>9, <1>10
<1>12. c = 0 /\ u - d = 0
  <2>1. c = 0 BY <1>1, <1>8, <1>11
  <2>2. 0 * L = 0 BY <1>4
  <2>3. u - d = 0 BY <1>6, <1>7, <2>2
  <2> QED BY <2>1, <2>3
<1> QED BY <1>3, <1>12

\* What a thread inside Empty() knows: how far the front is from where it was loaded; and if it
\* has not moved, that the queue was empty if the other end was at it.
AskInv ==
  \A t \in Threads :
    /\ pc[t] \in LoadedFront \cup LoadedBoth =>
         front[t] \in 0 .. Modulus - 1 /\ Displaced(front[t], front_, moves[t])
    /\ pc[t] \in LoadedBoth /\ moves[t] = 0 /\ Low(front_) = Low(back[t]) => sawEmpty[t]

\* What a step means for a thread that is inside Empty() after it
Asking(t) ==
  pc'[t] \in LoadedFront \cup LoadedBoth =>
    \/ /\ pc'[t] \in LoadedFront /\ pc[t] \notin LoadedFront
       /\ front'[t] = front_ /\ front_' = front_
    \/ /\ pc[t] \in LoadedFront /\ pc'[t] \in LoadedBoth /\ front'[t] = front[t] /\ back'[t] = back_
       /\ UNCHANGED ends
    \/ pc'[t] = pc[t] /\ front'[t] = front[t] /\ back'[t] = back[t]

\* How a step changes the copies a thread has of the indices
LocalsOf(a) ==
  \/ UNCHANGED snap
  \/ Forget(a)
  \/ front' = [front EXCEPT ![a] = front_] /\ back' = back
  \/ back' = [back EXCEPT ![a] = back_] /\ front' = front

\* A step of another thread
LEMMA AskOther ==
  ASSUME NEW a, NEW l, DOMAIN pc = Threads, Goto(a, l),
         front \in [Threads -> Nat], back \in [Threads -> Nat],
         LocalsOf(a),
         NEW t \in Threads, t # a
  PROVE  pc'[t] = pc[t] /\ front'[t] = front[t] /\ back'[t] = back[t]
<1>1. pc'[t] = pc[t] BY DEF Goto
<1> QED BY <1>1 DEF LocalsOf, snap, Forget

LEMMA AskSelf ==
  ASSUME NEW a \in Threads, NEW l, DOMAIN pc = Threads, Goto(a, l)
  PROVE  pc'[a] = l
BY DEF Goto

\* Where Empty() is not
AwayFromEmpty(l) == l \notin LoadedFront \cup LoadedBoth

\* A step that is not one of Empty()'s loads
LEMMA AskAway ==
  ASSUME Types, NEW a \in Threads, NEW l, AwayFromEmpty(l), Goto(a, l),
         LocalsOf(a),
         NEW t \in Threads
  PROVE  Asking(t)
<1>1. CASE t = a BY <1>1, AskSelf DEF Types, Asking, AwayFromEmpty
<1>2. CASE t # a BY <1>2, AskOther DEF Types, Asking
<1> QED BY <1>1, <1>2

LEMMA AskUnmoved ==
  ASSUME NEW t, pc' = pc, UNCHANGED snap PROVE Asking(t)
BY DEF Asking, snap

LEMMA OwnerAsks ==
  ASSUME RInv, OwnerStep, NEW t \in Threads PROVE Asking(t)
<1>0. Types /\ owner \in Threads BY Actors DEF RInv
<1>1. UNCHANGED snap /\ LocalsOf(owner)
  BY DEF OwnerStep, PushFront, PushFrontIndex, PushFrontReady, PopFront, PopFrontTake,
         PopFrontIndex, LocalsOf
<1>2. pc' = pc \/ \E l \in {"pushfront.index", "pushfront.ready", "popfront.take",
                            "popfront.index", "idle"} : Goto(owner, l)
  BY DEF OwnerStep, PushFront, PushFrontIndex, PushFrontReady, PopFront, PopFrontTake, PopFrontIndex
<1>3. \A l \in {"pushfront.index", "pushfront.ready", "popfront.take",
                "popfront.index", "idle"} : AwayFromEmpty(l)
  BY DEF AwayFromEmpty, LoadedFront, LoadedBoth
<1> QED BY <1>0, <1>1, <1>2, <1>3, AskUnmoved, AskAway

BackPlaces == {"pushback.index", "pushback.ready", "popback.claim", "popback.take", "popback.index",
               "half.lock", "size.back", "half.scan", "half.take", "half.index", "idle"}

LEMMA LoadAsks ==
  ASSUME Types, NEW a \in Threads, NEW t \in Threads,
         \/ \E l \in LoadedFront : SnapFront(a, l) /\ pc[a] = "idle"
         \/ SnapshotStep(a)
  PROVE  Asking(t)
<1>0. front \in [Threads -> Nat] /\ back \in [Threads -> Nat] /\ DOMAIN pc = Threads BY DEF Types
<1>1. CASE \E l \in LoadedFront : SnapFront(a, l) /\ pc[a] = "idle"
  <2>1. PICK l \in LoadedFront : SnapFront(a, l) /\ pc[a] = "idle" BY <1>1
  <2>2. Goto(a, l) /\ front' = [front EXCEPT ![a] = front_] /\ back' = back /\ front_' = front_
    BY <2>1 DEF SnapFront, ends
  <2>3. CASE t = a
    <3>1. pc'[a] = l /\ front'[a] = front_ BY <1>0, <2>2, AskSelf
    <3>2. "idle" \notin LoadedFront BY DEF LoadedFront
    <3> QED BY <2>1, <2>2, <2>3, <3>1, <3>2 DEF Asking
  <2>4. CASE t # a
    <3>1. LocalsOf(a) BY <2>2 DEF LocalsOf
    <3> QED BY <1>0, <2>2, <2>4, <3>1, AskOther DEF Asking
  <2> QED BY <2>3, <2>4
<1>2. CASE SnapBack(a)
  <2>1. PICK c \in Loads : pc[a] = c[1] /\ Goto(a, c[2]) BY <1>2 DEF SnapBack
  <2>2. back' = [back EXCEPT ![a] = back_] /\ front' = front /\ UNCHANGED ends
    BY <1>2 DEF SnapBack
  <2>3. CASE t = a
    <3>1. pc'[a] = c[2] /\ back'[a] = back_ /\ front'[a] = front[a] BY <1>0, <2>1, <2>2, AskSelf
    <3>2. c[2] \in LoadedFront \cup LoadedBoth => c[1] \in LoadedFront /\ c[2] \in LoadedBoth
      BY <2>1 DEF Loads, LoadedFront, LoadedBoth
    <3> QED BY <2>1, <2>2, <2>3, <3>1, <3>2 DEF Asking
  <2>4. CASE t # a
    <3>1. LocalsOf(a) BY <2>2 DEF LocalsOf
    <3> QED BY <1>0, <2>1, <2>2, <2>4, <3>1, AskOther DEF Asking
  <2> QED BY <2>3, <2>4
<1>3. CASE SnapRetry(a)
  <2>1. PICK c \in Loads : pc[a] = c[2] /\ Goto(a, c[1]) BY <1>3 DEF SnapRetry
  <2>2. front' = [front EXCEPT ![a] = front_] /\ back' = back /\ front_' = front_
    BY <1>3 DEF SnapRetry, ends
  <2>3. CASE t = a
    <3>1. pc'[a] = c[1] /\ front'[a] = front_ BY <1>0, <2>1, <2>2, AskSelf
    <3>2. /\ c[1] \in LoadedFront \cup LoadedBoth => c[1] \in LoadedFront
          /\ c[2] \notin LoadedFront
      BY <2>1 DEF Loads, LoadedFront, LoadedBoth
    <3> QED BY <2>1, <2>2, <2>3, <3>1, <3>2 DEF Asking
  <2>4. CASE t # a
    <3>1. LocalsOf(a) BY <2>2 DEF LocalsOf
    <3> QED BY <1>0, <2>1, <2>2, <2>4, <3>1, AskOther DEF Asking
  <2> QED BY <2>3, <2>4
<1> QED BY <1>1, <1>2, <1>3 DEF SnapshotStep

LEMMA RemoteAsks ==
  ASSUME RInv, NEW r \in Remotes, RemoteStep(r), NEW t \in Threads PROVE Asking(t)
<1>0. Types /\ r \in Threads BY DEF RInv, Threads
<1>1. CASE PopBack(r) \/ PopBackHalf(r)
  <2>1. \E l \in LoadedFront : SnapFront(r, l) /\ pc[r] = "idle"
    BY <1>1 DEF PopBack, PopBackHalf, LoadedFront
  <2> QED BY <1>0, <2>1, LoadAsks
<1>2. CASE ~(PopBack(r) \/ PopBackHalf(r))
  <2>1. LocalsOf(r)
    BY <1>2 DEF RemoteStep, PushBack, PushBackIndex, PushBackReady, PopBackEmpty, PopBackClaim,
       PopBackTake, PopBackIndex, HalfEmpty, HalfLock, HalfSize, HalfScan, HalfTake, HalfIndex, LocalsOf
  <2>2. (pc' = pc /\ UNCHANGED snap) \/ \E l \in BackPlaces : Goto(r, l)
    <3>1. CASE PushBack(r) \/ PopBackClaim(r) \/ HalfScan(r) \/ HalfTake(r)
      BY <3>1 DEF PushBack, PopBackClaim, HalfScan, HalfTake, BackPlaces, snap
    <3>2. CASE ~(PushBack(r) \/ PopBackClaim(r) \/ HalfScan(r) \/ HalfTake(r))
      BY <1>2, <3>2 DEF RemoteStep, PushBackIndex, PushBackReady, PopBackEmpty, PopBackTake,
         PopBackIndex, HalfEmpty, HalfLock, HalfSize, HalfIndex, BackPlaces
    <3> QED BY <3>1, <3>2
  <2>3. \A l \in BackPlaces : AwayFromEmpty(l)
    BY DEF AwayFromEmpty, LoadedFront, LoadedBoth, BackPlaces
  <2> QED BY <1>0, <2>1, <2>2, <2>3, AskUnmoved, AskAway
<1> QED BY <1>1, <1>2

LEMMA ObserverAsks ==
  ASSUME RInv, NEW o \in Observers, ObserverStep(o), NEW t \in Threads PROVE Asking(t)
<1>0. Types /\ o \in Threads BY DEF RInv, Threads
<1>1. CASE Empty(o)
  <2>1. \E l \in LoadedFront : SnapFront(o, l) /\ pc[o] = "idle" BY <1>1 DEF Empty, LoadedFront
  <2> QED BY <1>0, <2>1, LoadAsks
<1>2. CASE EmptyReturn(o)
  <2>1. Goto(o, "idle") /\ LocalsOf(o) BY <1>2 DEF EmptyReturn, LocalsOf
  <2>2. AwayFromEmpty("idle") BY DEF AwayFromEmpty, LoadedFront, LoadedBoth
  <2> QED BY <1>0, <2>1, <2>2, AskAway
<1> QED BY <1>1, <1>2 DEF ObserverStep

\* The front moves by one step.
LEMMA FrontMoves ==
  ASSUME Next PROVE front_' = front_ \/ front_' = Up(front_) \/ front_' = Down(front_)
<1>1. CASE OwnerStep
  BY <1>1 DEF OwnerStep, PushFront, PushFrontIndex, PushFrontReady, PopFront, PopFrontTake,
     PopFrontIndex, ends
<1>2. ASSUME NEW r \in Remotes, RemoteStep(r) PROVE front_' = front_
  BY <1>2 DEF RemoteStep, PushBack, PushBackIndex, PushBackReady, PopBack, PopBackEmpty,
     PopBackClaim, PopBackTake, PopBackIndex, PopBackHalf, HalfEmpty, HalfLock, HalfSize, HalfScan,
     HalfTake, HalfIndex, SnapFront, ends
<1>3. ASSUME NEW t, ObserverStep(t) \/ SnapshotStep(t) PROVE front_' = front_
  BY <1>3 DEF ObserverStep, SnapshotStep, Empty, EmptyReturn, SnapFront, SnapBack, SnapRetry, ends
<1> QED BY <1>1, <1>2, <1>3 DEF Next

\* Two equal indices leave no position.
LEMMA SameIndexEmpty == TypeOK /\ Low(front_) = Low(back_) => NoneQueued
<1> SUFFICES ASSUME TypeOK, Low(front_) = Low(back_) PROVE NoneQueued OBVIOUS
<1>1. RawSize(front_, back_) = 0 BY Geometry DEF RawSize
<1>2. InBack >= 0 /\ InFront >= 0 /\ InBack \in Int /\ InFront \in Int
  BY DEF InBack, InFront, TypeOK
<1>3. Positions = {} BY <1>1, <1>2 DEF Positions
<1> QED BY <1>3 DEF NoneQueued

LEMMA NextAskInv == RInv /\ AskInv /\ [Next]_vars => AskInv'
<1> SUFFICES ASSUME RInv, AskInv, [Next]_vars PROVE AskInv' OBVIOUS
<1>0. Types /\ TypeOK /\ Types' /\ TypeOK' BY NextRInv DEF RInv, Types
<1>1. CASE UNCHANGED vars
  BY <1>1 DEF AskInv, vars, ends, snap
<1>2. CASE Next
  <2> SUFFICES ASSUME NEW t \in Threads
               PROVE  /\ pc'[t] \in LoadedFront \cup LoadedBoth =>
                           /\ front'[t] \in 0 .. Modulus - 1
                           /\ Displaced(front'[t], front_', moves'[t])
                      /\ pc'[t] \in LoadedBoth /\ moves'[t] = 0 /\ Low(front_') = Low(back'[t])
                           => sawEmpty'[t]
    BY Zenon DEF AskInv, Displaced
  <2>1. Asking(t)
    <3>1. Observers \subseteq Threads BY DEF Threads
    <3> QED BY <1>0, <1>2, <3>1, OwnerAsks, RemoteAsks, ObserverAsks, LoadAsks DEF Next
  <2>2. /\ moves'[t] = IF \/ pc'[t] \notin LoadedFront \cup LoadedBoth
                          \/ pc'[t] \in LoadedFront /\ pc[t] \notin LoadedFront
                       THEN 0 ELSE IF front_' # front_ THEN moves[t] + 1 ELSE moves[t]
        /\ sawEmpty'[t] <=> /\ pc'[t] # "idle"
                            /\ NoneQueued' \/ (sawEmpty[t] /\ pc[t] # "idle")
    <3>1. Watch BY <1>2 DEF Next
    <3> QED BY <3>1, Zenon DEF Watch
  <2>3. front_ \in 0 .. Modulus - 1 /\ front_ \in Nat /\ moves[t] \in Nat BY <1>0, Geometry DEF TypeOK
  <2>4. /\ pc[t] \in LoadedFront \cup LoadedBoth =>
             front[t] \in 0 .. Modulus - 1 /\ Displaced(front[t], front_, moves[t])
        /\ pc[t] \in LoadedBoth /\ moves[t] = 0 /\ Low(front_) = Low(back[t]) => sawEmpty[t]
    BY DEF AskInv
  <2>5. "idle" \notin LoadedFront \cup LoadedBoth /\ LoadedFront \cap LoadedBoth = {}
    BY DEF LoadedFront, LoadedBoth
  <2>6. CASE pc'[t] \notin LoadedFront \cup LoadedBoth BY <2>6
  <2>7. CASE /\ pc'[t] \in LoadedFront /\ pc[t] \notin LoadedFront
             /\ front'[t] = front_ /\ front_' = front_
    BY <2>2, <2>3, <2>5, <2>7, NotMoved
  <2>8. CASE /\ pc[t] \in LoadedFront /\ pc'[t] \in LoadedBoth /\ front'[t] = front[t]
             /\ back'[t] = back_ /\ UNCHANGED ends
    <3>1. front_' = front_ /\ back_' = back_ BY <2>8 DEF ends
    <3>2. moves'[t] = moves[t] BY <2>2, <2>5, <2>8, <3>1
    <3>3. Low(front_') = Low(back_') => NoneQueued'
      <4>1. (TypeOK /\ Low(front_) = Low(back_) => NoneQueued)' BY SameIndexEmpty, PTL
      <4> QED BY <1>0, <4>1
    <3> QED BY <2>2, <2>4, <2>5, <2>8, <3>1, <3>2, <3>3
  <2>9. CASE /\ pc'[t] \in LoadedFront \cup LoadedBoth
             /\ pc'[t] = pc[t] /\ front'[t] = front[t] /\ back'[t] = back[t]
    <3>1. front[t] \in Nat /\ front[t] \in 0 .. Modulus - 1 /\ Displaced(front[t], front_, moves[t])
      BY <2>4, <2>9, Numbers
    <3>2. moves'[t] = IF front_' # front_ THEN moves[t] + 1 ELSE moves[t] BY <2>2, <2>9
    <3>3. Displaced(front[t], front_', moves'[t])
      <4>1. CASE front_' = front_ BY <3>1, <3>2, <4>1
      <4>2. CASE front_' # front_ BY <1>2, <2>3, <3>1, <3>2, <4>2, FrontMoves, MovedUp, MovedDown
      <4> QED BY <4>1, <4>2
    <3>4. moves'[t] = 0 => front_' = front_ /\ moves[t] = 0 BY <2>3, <3>2
    <3> QED BY <2>2, <2>4, <2>5, <2>9, <3>1, <3>3, <3>4
  <2> QED BY <2>1, <2>6, <2>7, <2>8, <2>9 DEF Asking
<1> QED BY <1>1, <1>2

\* An Empty() that says so is right: at some moment of the call nothing was queued - unless the
\* front came all the way round since it was loaded.
THEOREM EmptyIsRight == Spec => []EmptyIsTrueInARound
<1>1. Init => AskInv
  <2>1. SUFFICES ASSUME Init, NEW t \in Threads PROVE pc[t] \notin LoadedFront \cup LoadedBoth
    BY DEF AskInv
  <2>2. pc[t] = "idle" BY <2>1 DEF Init
  <2> QED BY <2>2 DEF LoadedFront, LoadedBoth
<1>2. RInv /\ AskInv => EmptyIsTrueInARound
  <2> SUFFICES ASSUME RInv, AskInv, NEW t \in Threads, SaysEmpty(t), moves[t] < Round
               PROVE  sawEmpty[t]
    BY DEF EmptyIsTrueInARound
  <2>1. pc[t] \in LoadedBoth /\ front[t] = front_ /\ Low(front[t]) = Low(back[t])
    BY DEF SaysEmpty, Consistent, MaybeZero
  <2>2. Displaced(front_, front_, moves[t]) /\ front_ \in Nat /\ moves[t] \in Nat
    BY <2>1, Geometry DEF AskInv, RInv, Types, TypeOK
  <2>3. moves[t] = 0 BY <2>2, ComesRound
  <2> QED BY <2>1, <2>3 DEF AskInv
<1> QED BY <1>1, <1>2, InitRInv, NextRInv, NextAskInv, PTL DEF Spec

-----------------------------------------------------------------------------
(* Sequences that are read off an array from hi - 1 down to lo.             *)

View(f, lo, hi) == [j \in 1 .. hi - lo |-> f[hi - j]]

\* A view has the elements of the array.
LEMMA ViewSeq ==
  ASSUME NEW f, NEW lo \in Int, NEW hi \in Int, lo <= hi, NEW S, \A i \in lo .. hi - 1 : f[i] \in S
  PROVE  /\ View(f, lo, hi) \in Seq(S) /\ Len(View(f, lo, hi)) = hi - lo
         /\ \A j \in 1 .. hi - lo : View(f, lo, hi)[j] = f[hi - j]
<1> DEFINE n == hi - lo
           v == [j \in 1 .. n |-> f[hi - j]]
<1>1. n \in Nat OBVIOUS
<1>2. \A j \in 1 .. n : v[j] = f[hi - j] /\ f[hi - j] \in S
  <2>1. \A j \in 1 .. n : hi - j \in lo .. hi - 1 OBVIOUS
  <2> QED BY <2>1
<1>3. v \in [1 .. n -> S] BY <1>2
<1>4. v \in Seq(S) /\ Len(v) = n
  <2> HIDE DEF v, n
  <2> QED BY <1>1, <1>3
<1> QED BY <1>2, <1>4 DEF View

\* The same elements at other positions
Shifted(f, g, lo, hi, d) ==
  lo \in Int /\ hi \in Int /\ d \in Int /\ \A i \in lo .. hi - 1 : g[i - d] = f[i]

LEMMA ViewShift ==
  ASSUME NEW f, NEW g, NEW lo, NEW hi, NEW d, Shifted(f, g, lo, hi, d)
  PROVE  View(g, lo - d, hi - d) = View(f, lo, hi)
<1> USE DEF Shifted
<1>1. (hi - d) - (lo - d) = hi - lo OBVIOUS
<1>2. \A j \in 1 .. hi - lo : g[(hi - d) - j] = f[hi - j]
  <2>1. \A j \in 1 .. hi - lo : hi - j \in lo .. hi - 1 /\ (hi - d) - j = (hi - j) - d OBVIOUS
  <2> QED BY <2>1
<1>3. View(f, lo, hi) = [j \in 1 .. hi - lo |-> f[hi - j]] BY DEF View
<1>4. View(g, lo - d, hi - d) = [j \in 1 .. hi - lo |-> g[(hi - d) - j]] BY <1>1 DEF View
<1> QED BY <1>2, <1>3, <1>4, Zenon

\* One more at the head
AtFront(f, g, lo, hi, S) ==
  /\ lo \in Int /\ hi \in Int /\ lo <= hi
  /\ \A i \in lo .. hi : g[i] \in S
  /\ \A i \in lo .. hi - 1 : g[i] = f[i]

LEMMA ViewFront ==
  ASSUME NEW f, NEW g, NEW lo, NEW hi, NEW S, AtFront(f, g, lo, hi, S)
  PROVE  /\ Len(View(g, lo, hi + 1)) = Len(View(f, lo, hi)) + 1
         /\ View(f, lo, hi) = Tail(View(g, lo, hi + 1))
<1> DEFINE u == View(f, lo, hi)
           v == View(g, lo, hi + 1)
<1> USE DEF AtFront
<1>1. u \in Seq(S) /\ Len(u) = hi - lo /\ \A j \in 1 .. hi - lo : u[j] = f[hi - j]
  <2>1. \A i \in lo .. hi - 1 : f[i] \in S OBVIOUS
  <2> QED BY <2>1, ViewSeq
<1>2. /\ v \in Seq(S) /\ Len(v) = hi + 1 - lo
      /\ \A j \in 1 .. hi + 1 - lo : v[j] = g[hi + 1 - j]
  <2> DEFINE h == hi + 1
  <2>1. h \in Int /\ lo <= h /\ \A i \in lo .. h - 1 : g[i] \in S OBVIOUS
  <2> HIDE DEF h
  <2>2. /\ View(g, lo, h) \in Seq(S) /\ Len(View(g, lo, h)) = h - lo
        /\ \A j \in 1 .. h - lo : View(g, lo, h)[j] = g[h - j] BY <2>1, ViewSeq
  <2>3. v = View(g, lo, h) /\ h = hi + 1 BY DEF h
  <2> HIDE DEF v
  <2> QED BY <2>2, <2>3
<1> HIDE DEF u, v
<1>3. v # <<>> BY <1>2
<1>4. /\ Tail(v) \in Seq(S) /\ Len(Tail(v)) = hi - lo
      /\ \A j \in 1 .. hi - lo : Tail(v)[j] = v[j + 1]
  <2>1. Len(v) - 1 = hi - lo BY <1>2
  <2> QED BY <1>2, <1>3, <2>1, HeadTailProperties
<1>5. ASSUME NEW j \in 1 .. hi - lo PROVE u[j] = Tail(v)[j]
  <2>1. j + 1 \in 1 .. hi + 1 - lo /\ hi + 1 - (j + 1) = hi - j /\ hi - j \in lo .. hi - 1 OBVIOUS
  <2>2. v[j + 1] = g[hi + 1 - (j + 1)] BY <1>2, <2>1
  <2> QED BY <1>1, <1>4, <2>1, <2>2
<1>6. u = Tail(v) BY <1>1, <1>4, <1>5, SeqEqual
<1> QED BY <1>1, <1>2, <1>6 DEF u, v

\* Some more at the end
AtBack(f, g, lo, lo1, hi, S) ==
  /\ lo \in Int /\ lo1 \in Int /\ hi \in Int /\ lo1 <= lo /\ lo <= hi
  /\ \A i \in lo1 .. hi - 1 : g[i] \in S
  /\ \A i \in lo .. hi - 1 : g[i] = f[i]

LEMMA ViewBack ==
  ASSUME NEW f, NEW g, NEW lo, NEW lo1, NEW hi, NEW S, AtBack(f, g, lo, lo1, hi, S)
  PROVE  /\ Len(View(f, lo, hi)) = hi - lo /\ Len(View(g, lo1, hi)) = hi - lo1
         /\ View(f, lo, hi) = SubSeq(View(g, lo1, hi), 1, Len(View(f, lo, hi)))
<1> DEFINE u == View(f, lo, hi)
           v == View(g, lo1, hi)
           n == hi - lo
<1> USE DEF AtBack
<1>1. u \in Seq(S) /\ Len(u) = n /\ \A j \in 1 .. n : u[j] = f[hi - j]
  <2>1. \A i \in lo .. hi - 1 : f[i] \in S OBVIOUS
  <2> QED BY <2>1, ViewSeq
<1>2. v \in Seq(S) /\ Len(v) = hi - lo1 /\ \A j \in 1 .. hi - lo1 : v[j] = g[hi - j]
  BY ViewSeq
<1>3. n \in Nat /\ n <= hi - lo1 OBVIOUS
<1>4. \A j \in 1 .. n : hi - j \in lo .. hi - 1 /\ j \in 1 .. hi - lo1 OBVIOUS
<1>5. \A j \in 1 .. n : v[j] = u[j] BY <1>1, <1>2, <1>4
<1> HIDE DEF u, v, n
<1>6. \A j \in 1 .. n : v[j] \in S BY <1>1, <1>5
<1>7. /\ SubSeq(v, 1, n) \in Seq(S)
      /\ Len(SubSeq(v, 1, n)) = IF 1 <= n THEN n - 1 + 1 ELSE 0
      /\ \A j \in 1 .. n - 1 + 1 : SubSeq(v, 1, n)[j] = v[1 + j - 1]
  BY <1>3, <1>6, SubSeqProperties
<1>8. Len(SubSeq(v, 1, n)) = n /\ n - 1 + 1 = n BY <1>3, <1>7
<1>9. \A j \in 1 .. n : SubSeq(v, 1, n)[j] = u[j]
  <2>1. \A j \in 1 .. n : 1 + j - 1 = j BY <1>3
  <2> QED BY <1>5, <1>7, <1>8, <2>1
<1>10. u = SubSeq(v, 1, n) BY <1>1, <1>7, <1>8, <1>9, SeqEqual
<1>11. n = hi - lo BY DEF n
<1> QED BY <1>1, <1>2, <1>10, <1>11 DEF u, v

LEMMA BehindBack ==
  Types /\ Places => InBack = IF Behind \in {"popback.take", "popback.index"} THEN 1 ELSE start + 1
<1> SUFFICES ASSUME Types, Places
             PROVE  InBack = IF Behind \in {"popback.take", "popback.index"} THEN 1 ELSE start + 1
  OBVIOUS
<1>1. ASSUME NEW r \in Remotes, pc[r] \in {"popback.take", "popback.index"} PROVE Behind = pc[r]
  BY <1>1, Actors DEF Locked
<1>2. Behind \in {"popback.take", "popback.index"} => mutex_ \in Remotes /\ pc[mutex_] = Behind
  BY Actors DEF Behind
<1> QED BY <1>1, <1>2 DEF InBack

-----------------------------------------------------------------------------
(* The items that are queued, read off the ring.                           *)

\* The queued positions: QLo to QHi - 1
QLo(b, s) == IF b \in {"popback.take", "popback.index", "pushback.ready"} THEN 1 ELSE s + 1
QHi(o, n) == IF o \in {"popfront.take", "popfront.index", "pushfront.ready"} THEN n - 1 ELSE n

Items == [i \in 0 .. 2 * kSize - 1 |-> elemWork[Place(i)]]
Low1 == QLo(Behind, start)
High == QHi(pc[owner], Size)

LEMMA QueueBounds ==
  RInv => /\ Low1 \in Lo(Behind, start) .. kSize /\ High \in Low1 .. Lo(Behind, start) + kSize
          /\ High <= Size /\ Size \in 0 .. 2 * kSize - 1 /\ Lo(Behind, start) \in 0 .. kSize - 1
          /\ \A i \in 0 .. Size - 1 : i \in Positions /\ ReadyAt(i) <=> i \in Low1 .. High - 1
<1> SUFFICES ASSUME RInv
             PROVE  /\ Low1 \in Lo(Behind, start) .. kSize
                    /\ High \in Low1 .. Lo(Behind, start) + kSize
                    /\ High <= Size /\ Size \in 0 .. 2 * kSize - 1
                    /\ Lo(Behind, start) \in 0 .. kSize - 1
                    /\ \A i \in 0 .. Size - 1 :
                         i \in Positions /\ ReadyAt(i) <=> i \in Low1 .. High - 1
  OBVIOUS
<1>0. Types /\ Places /\ Halving BY DEF RInv
<1> DEFINE o == pc[owner]
           b == Behind
           n == Size
           lo == Lo(b, start)
<1>1. /\ Bounds(o, b, n, start) /\ n \in 0 .. 2 * kSize - 1 /\ lo \in 0 .. kSize - 1
      /\ mid \in 0 .. kSize /\ start \in -1 .. kSize /\ kSize \in Nat /\ kSize > 2
      /\ b = "half.take" => start \in mid .. kSize - 2
      /\ b = "half.index" => start \in 0 .. kSize - 2
      /\ b \notin {"half.take", "half.index"} => start = -1
  BY <1>0, Known, LoRange DEF Halving
<1>2. \A i \in lo .. lo + kSize - 1 : elemState[Place(i)] = Due(o, b, n, start, mid, i)
  BY Known
<1>3. InFront = (IF o \in {"popfront.take", "popfront.index"} THEN 1 ELSE 0) BY DEF InFront
<1>4. InBack = IF b \in {"popback.take", "popback.index"} THEN 1 ELSE start + 1
  BY <1>0, BehindBack
<1>5. Positions = InBack .. n - InFront - 1 BY DEF Positions, Size
<1>6. Low1 \in lo .. kSize /\ High \in Low1 .. lo + kSize /\ High <= n
  <2>1. Low1 = QLo(b, start) /\ High = QHi(o, n) /\ lo = Lo(b, start) BY DEF Low1, High
  <2> HIDE DEF o, b, n, lo
  <2>2. lo <= Low1 /\ Low1 <= kSize /\ Low1 \in Int BY <1>1, <2>1 DEF Lo, QLo
  <2>3. High <= lo + kSize /\ High <= n /\ High \in Int BY <1>1, <2>1 DEF Lo, QHi, Bounds, Hi
  <2>4. Low1 <= High BY <1>1, <2>1 DEF Lo, QHi, QLo, Bounds, Hi, Top
  <2> QED BY <1>1, <2>2, <2>3, <2>4
<1>7. ASSUME NEW i \in 0 .. n - 1
      PROVE  i \in Positions /\ ReadyAt(i) <=> i \in Low1 .. High - 1
  <2>1. Low1 = QLo(b, start) /\ High = QHi(o, n) /\ lo = Lo(b, start) BY DEF Low1, High
  <2>2. i \in Positions => i \in lo .. lo + kSize - 1
    <3> HIDE DEF o, b, n, lo
    <3> QED BY <1>1, <1>3, <1>4, <1>5, <2>1 DEF Lo, Bounds, Hi
  <2>3. i \in lo .. lo + kSize - 1 => (ReadyAt(i) <=> Due(o, b, n, start, mid, i) = "Ready")
    BY <1>2 DEF ReadyAt, Place
  <2>4. i \in Low1 .. High - 1 => i \in lo .. lo + kSize - 1 BY <1>1, <1>6
  <2>5. i \in lo .. lo + kSize - 1 =>
          (i \in Positions /\ Due(o, b, n, start, mid, i) = "Ready" <=> i \in Low1 .. High - 1)
    <3> HIDE DEF o, b, n, lo
    <3> QED BY <1>1, <1>3, <1>4, <1>5, <2>1 DEF Lo, Bounds, Hi, Top, Due, Held, QLo, QHi
  <2> QED BY <2>2, <2>3, <2>4, <2>5
<1> QED BY <1>1, <1>6, <1>7

\* A view of nothing, and one that is read off one element at a time
LEMMA ViewNone == ASSUME NEW f, NEW lo \in Int PROVE View(f, lo, lo) = <<>>
<1>1. View(f, lo, lo) = [j \in 1 .. 0 |-> f[lo - j]]
  <2>1. lo - lo = 0 OBVIOUS
  <2> QED BY <2>1 DEF View
<1> QED BY <1>1

LEMMA ViewCons ==
  ASSUME NEW f, NEW lo \in Int, NEW hi \in Int, lo <= hi, NEW S, \A i \in lo .. hi : f[i] \in S
  PROVE  View(f, lo, hi + 1) = <<f[hi]>> \o View(f, lo, hi)
<1> DEFINE h == hi + 1
           u == View(f, lo, hi)
           v == View(f, lo, h)
           w == <<f[hi]>>
<1>1. u \in Seq(S) /\ Len(u) = hi - lo /\ \A j \in 1 .. hi - lo : u[j] = f[hi - j]
  <2>1. \A i \in lo .. hi - 1 : f[i] \in S OBVIOUS
  <2> QED BY <2>1, ViewSeq
<1>2. v \in Seq(S) /\ Len(v) = h - lo /\ \A j \in 1 .. h - lo : v[j] = f[h - j]
  <2>1. h \in Int /\ lo <= h /\ \A i \in lo .. h - 1 : f[i] \in S OBVIOUS
  <2> HIDE DEF h
  <2> QED BY <2>1, ViewSeq
<1>3. w \in Seq(S) /\ Len(w) = 1 /\ w[1] = f[hi]
  <2>1. f[hi] \in S OBVIOUS
  <2> QED BY <2>1
<1> HIDE DEF u, v, w
<1>4. /\ w \o u \in Seq(S) /\ Len(w \o u) = 1 + (hi - lo)
      /\ \A j \in 1 .. 1 + (hi - lo) : (w \o u)[j] = IF j <= 1 THEN w[j] ELSE u[j - 1]
  <2>1. /\ w \o u \in Seq(S) /\ Len(w \o u) = Len(w) + Len(u)
        /\ \A j \in 1 .. Len(w) + Len(u) :
             (w \o u)[j] = IF j <= Len(w) THEN w[j] ELSE u[j - Len(w)]
    BY <1>1, <1>3, ConcatProperties
  <2>2. Len(w) = 1 /\ Len(u) = hi - lo BY <1>1, <1>3
  <2> QED BY <2>1, <2>2
<1>5. ASSUME NEW j \in 1 .. h - lo PROVE v[j] = (w \o u)[j]
  <2>1. j \in 1 .. 1 + (hi - lo) /\ j \in Int OBVIOUS
  <2>2. CASE j > 1
    <3>1. j - 1 \in 1 .. hi - lo /\ h - j = hi - (j - 1) /\ ~(j <= 1) BY <2>1, <2>2
    <3>2. v[j] = f[hi - (j - 1)] /\ u[j - 1] = f[hi - (j - 1)] BY <1>1, <1>2, <3>1
    <3> QED BY <1>4, <2>1, <3>1, <3>2
  <2>3. CASE j = 1
    <3>1. h - j = hi /\ j <= 1 BY <2>3
    <3>2. v[j] = f[hi] BY <1>2, <3>1
    <3> QED BY <1>3, <1>4, <2>1, <2>3, <3>1, <3>2
  <2>4. j > 1 \/ j = 1 BY <2>1
  <2> QED BY <2>2, <2>3, <2>4
<1>6. h - lo = 1 + (hi - lo) OBVIOUS
<1> HIDE DEF h
<1>7. v = w \o u BY <1>2, <1>4, <1>5, <1>6, SeqEqual
<1> QED BY <1>7 DEF h, u, v, w

\* A non-empty set of natural numbers has a least one.
LEMMA LeastNatural ==
  ASSUME NEW S, S \subseteq Nat, S # {}
  PROVE  \E m \in S : \A k \in S : m <= k
<1> DEFINE R == OpToRel(<, Nat)
<1>1. IsWellFoundedOn(R, Nat) BY NatLessThanWellFounded, Zenon
<1>2. R = {ss \in Nat \X Nat : ss[1] < ss[2]} BY Zenon DEF OpToRel
<1> HIDE DEF R
<1>3. PICK m \in S : \A k \in S : ~(<<k, m>> \in R) BY <1>1, WFMin, Zenon
<1>4. \A k \in S : ~(k < m)
  <2> TAKE k \in S
  <2>1. k \in Nat /\ m \in Nat OBVIOUS
  <2> QED BY <1>2, <1>3, <2>1
<1> QED BY <1>4

\* What Queued collects up to a position
Step(g) ==
  [i \in 0 .. Size |->
     IF i = 0 THEN <<>>
     ELSE IF i - 1 \in Positions /\ ReadyAt(i - 1)
          THEN <<elemWork[Elem(back_ + i - 1)]>> \o g[i - 1]
          ELSE g[i - 1]]
Upto(i) == IF i < Low1 THEN Low1 ELSE IF i < High THEN i ELSE High

LEMMA QueuedStep ==
  ASSUME RInv
  PROVE  /\ View(Items, Low1, Upto(0)) = <<>>
         /\ \A i \in 1 .. Size : View(Items, Low1, Upto(i)) =
              IF i - 1 \in Positions /\ ReadyAt(i - 1)
              THEN <<elemWork[Elem(back_ + i - 1)]>> \o View(Items, Low1, Upto(i - 1))
              ELSE View(Items, Low1, Upto(i - 1))
<1>0. kSize \in Nat /\ kSize > 2 /\ back_ \in Nat /\ TypeOK BY Numbers, Known, Geometry
<1>1. /\ Low1 \in 0 .. kSize /\ High \in Low1 .. 2 * kSize - 1 /\ High <= Size
      /\ Size \in 0 .. 2 * kSize - 1
      /\ \A i \in 0 .. Size - 1 : i \in Positions /\ ReadyAt(i) <=> i \in Low1 .. High - 1
  BY <1>0, QueueBounds
<1>2. View(Items, Low1, Upto(0)) = <<>>
  <2>1. Upto(0) = Low1 /\ Low1 \in Int BY <1>0, <1>1 DEF Upto
  <2> QED BY <2>1, ViewNone
<1>3. ASSUME NEW i \in 1 .. Size
      PROVE  View(Items, Low1, Upto(i)) =
               IF i - 1 \in Positions /\ ReadyAt(i - 1)
               THEN <<elemWork[Elem(back_ + i - 1)]>> \o View(Items, Low1, Upto(i - 1))
               ELSE View(Items, Low1, Upto(i - 1))
  <2>1. i - 1 \in 0 .. Size - 1 BY <1>1
  <2>2. CASE i - 1 \in Low1 .. High - 1
    <3>1. Upto(i - 1) = i - 1 /\ Upto(i) = (i - 1) + 1 BY <1>1, <2>2 DEF Upto
    <3>2. Items[i - 1] = elemWork[Elem(back_ + i - 1)]
      <4>1. back_ + (i - 1) = back_ + i - 1 BY <1>0
      <4>2. i - 1 \in 0 .. 2 * kSize - 1 BY <1>0, <1>1
      <4> QED BY <4>1, <4>2 DEF Items, Place
    <3>3. View(Items, Low1, (i - 1) + 1) = <<Items[i - 1]>> \o View(Items, Low1, i - 1)
      <4> DEFINE S == {Items[k] : k \in Low1 .. i - 1}
      <4>1. \A k \in Low1 .. i - 1 : Items[k] \in S OBVIOUS
      <4>2. Low1 \in Int /\ i - 1 \in Int /\ Low1 <= i - 1 BY <1>0, <1>1, <2>2
      <4> HIDE DEF S
      <4> QED BY <4>1, <4>2, ViewCons
    <3> QED BY <1>1, <2>1, <2>2, <3>1, <3>2, <3>3
  <2>3. CASE ~(i - 1 \in Low1 .. High - 1)
    <3>1. Upto(i - 1) = Upto(i) BY <1>1, <2>1, <2>3 DEF Upto
    <3> QED BY <1>1, <2>1, <2>3, <3>1
  <2> QED BY <2>2, <2>3
<1> QED BY <1>2, <1>3

\* The recursive definition says what the view says: by the least position at which they differ.
LEMMA QueuedIs == RInv => Queued = View(Items, Low1, High)
<1> SUFFICES ASSUME RInv PROVE Queued = View(Items, Low1, High) OBVIOUS
<1> DEFINE C == [i \in 0 .. Size |-> View(Items, Low1, Upto(i))]
           q == CHOOSE g : g = Step(g)
<1>0. Size \in Nat /\ High <= Size /\ Low1 <= High /\ High \in Int /\ Low1 \in Int
  BY QueueBounds, Numbers
<1>1. C = Step(C)
  <2>1. \A i \in 0 .. Size : i # 0 => i \in 1 .. Size /\ i - 1 \in 0 .. Size BY <1>0
  <2>2. \A i \in 0 .. Size : C[i] = View(Items, Low1, Upto(i)) OBVIOUS
  <2>3. C = [i \in 0 .. Size |-> C[i]] OBVIOUS
  <2> HIDE DEF C
  <2>4. \A i \in 0 .. Size : C[i] =
          IF i = 0 THEN <<>>
          ELSE IF i - 1 \in Positions /\ ReadyAt(i - 1)
               THEN <<elemWork[Elem(back_ + i - 1)]>> \o C[i - 1]
               ELSE C[i - 1]
    BY <2>1, <2>2, QueuedStep
  <2> QED BY <2>3, <2>4, Zenon DEF Step
<1>2. q = Step(q) BY <1>1, Zenon
<1> HIDE DEF q
<1>3. \A i \in 0 .. Size : q[i] =
        IF i = 0 THEN <<>>
        ELSE IF i - 1 \in Positions /\ ReadyAt(i - 1)
             THEN <<elemWork[Elem(back_ + i - 1)]>> \o q[i - 1]
             ELSE q[i - 1]
  <2> DEFINE s == Step(q)
  <2>1. q = s BY <1>2
  <2>2. \A i \in 0 .. Size : s[i] =
          IF i = 0 THEN <<>>
          ELSE IF i - 1 \in Positions /\ ReadyAt(i - 1)
               THEN <<elemWork[Elem(back_ + i - 1)]>> \o q[i - 1]
               ELSE q[i - 1] BY Zenon DEF Step
  <2> HIDE DEF s
  <2> QED BY <2>1, <2>2
<1>4. \A i \in 0 .. Size : q[i] = View(Items, Low1, Upto(i))
  <2> DEFINE D == {i \in 0 .. Size : q[i] # View(Items, Low1, Upto(i))}
  <2>1. SUFFICES ASSUME D # {} PROVE FALSE OBVIOUS
  <2>2. PICK m \in D : \A k \in D : m <= k
    <3>1. D \subseteq Nat OBVIOUS
    <3> HIDE DEF D
    <3> QED BY <2>1, <3>1, LeastNatural
  <2>3. m \in 0 .. Size /\ q[m] # View(Items, Low1, Upto(m)) BY <2>2
  <2>4. m # 0 BY <1>3, <2>3, QueuedStep
  <2>5. m \in 1 .. Size /\ m - 1 \in 0 .. Size /\ ~(m <= m - 1) BY <1>0, <2>3, <2>4
  <2>6. q[m - 1] = View(Items, Low1, Upto(m - 1)) BY <2>2, <2>5
  <2> HIDE DEF D
  <2> QED BY <1>3, <2>3, <2>4, <2>5, <2>6, QueuedStep
<1>5. Upto(Size) = High BY <1>0 DEF Upto
<1>6. Queued = q[Size] BY Zenon DEF Queued, q, Step, Size
<1> QED BY <1>0, <1>4, <1>5, <1>6

-----------------------------------------------------------------------------
(* Where the items are.                                                    *)

Pushing == {"pushfront.index", "pushfront.ready", "pushback.index", "pushback.ready"}

\* The elements a pop has claimed and not emptied yet, at either end
FrontPopped == {e \in Elements : pc[owner] = "popfront.take" /\ e = Elem(front_ + Modulus - 1)}
BackPopped ==
  {e \in Elements :
     \/ Behind = "popback.take" /\ e = Elem(back_)
     \/ Behind = "half.take" /\ \E i \in 0 .. mid : e = Elem(back_ + i)}
Popped == FrontPopped \cup BackPopped

\* A thread has an item in its hand while it pushes; an element has one when it is ready or about
\* to be emptied.
Carrying == \A t \in Threads : arg[t] # 0 <=> pc[t] \in Pushing
Holding == \A e \in Elements : elemWork[e] # 0 <=> elemState[e] = "Ready" \/ e \in Popped

\* An item is in at most one of an element, a hand, and a caller's possession; and in one of them
\* once it was created.
OnePlace ==
  /\ \A e, f \in Elements : elemWork[e] = elemWork[f] /\ elemWork[e] # 0 => e = f
  /\ \A t, u \in Threads : arg[t] = arg[u] /\ arg[t] # 0 => t = u
  /\ \A e \in Elements, t \in Threads : elemWork[e] = arg[t] => arg[t] = 0
  /\ \A e \in Elements : elemWork[e] # 0 => elemWork[e] <= issued /\ ran[elemWork[e]] = 0
  /\ \A t \in Threads : arg[t] # 0 => arg[t] <= issued /\ ran[arg[t]] = 0
  /\ \A w \in 1 .. MaxWork : ran[w] \in {0, 1} /\ (w > issued => ran[w] = 0)
  /\ \A w \in 1 .. MaxWork : w <= issued /\ ran[w] = 0 =>
       (\E e \in Elements : elemWork[e] = w) \/ (\E t \in Threads : arg[t] = w)

ItemInv == Carrying /\ Holding /\ OnePlace

\* An item is created and given back, or taken up.
LEMMA IssueGive ==
  ASSUME Types, OnePlace, issued < MaxWork, issued' = issued + 1, Give(issued'),
         UNCHANGED <<elemWork, arg>>
  PROVE  OnePlace'
<1>1. issued' \in 1 .. MaxWork /\ issued \in Nat /\ MaxWork \in Nat BY Numbers DEF Types, TypeOK
<1>2. ran[issued'] = 0 BY <1>1 DEF OnePlace
<1>3. ran' = [ran EXCEPT ![issued'] = 1] BY <1>1, <1>2 DEF Give, Types, TypeOK
<1>4. \A w \in 1 .. MaxWork : ran'[w] = IF w = issued' THEN 1 ELSE ran[w]
  BY <1>3 DEF Types, TypeOK
<1>5. /\ \A e \in Elements : elemWork[e] \in 0 .. MaxWork
      /\ \A t \in Threads : arg[t] \in 0 .. MaxWork BY DEF Types, TypeOK
<1> QED BY <1>1, <1>4, <1>5 DEF OnePlace

LEMMA IssueTake ==
  ASSUME Types, OnePlace, issued < MaxWork, issued' = issued + 1, NEW t \in Threads, arg[t] = 0,
         arg' = [arg EXCEPT ![t] = issued'], UNCHANGED <<elemWork, ran>>
  PROVE  OnePlace'
<1>1. issued' \in 1 .. MaxWork /\ issued \in Nat /\ MaxWork \in Nat BY Numbers DEF Types, TypeOK
<1>2. ran[issued'] = 0 BY <1>1 DEF OnePlace
<1>4. \A u \in Threads : arg'[u] = IF u = t THEN issued' ELSE arg[u] BY DEF Types, TypeOK
<1>5. /\ \A e \in Elements : elemWork[e] \in 0 .. MaxWork
      /\ \A u \in Threads : arg[u] \in 0 .. MaxWork BY DEF Types, TypeOK
<1> QED BY <1>1, <1>2, <1>4, <1>5 DEF OnePlace

\* An item is put in an element that had none.
LEMMA StoreItem ==
  ASSUME Types, OnePlace, NEW e \in Elements, elemWork[e] = 0, NEW t \in Threads,
         elemWork' = [elemWork EXCEPT ![e] = arg[t]], arg' = [arg EXCEPT ![t] = 0],
         UNCHANGED <<issued, ran>>
  PROVE  OnePlace'
<1>1. \A u \in Threads : arg'[u] = IF u = t THEN 0 ELSE arg[u] BY DEF Types, TypeOK
<1>2. \A f \in Elements : elemWork'[f] = IF f = e THEN arg[t] ELSE elemWork[f]
  BY DEF Types, TypeOK
<1> QED BY <1>1, <1>2 DEF OnePlace

\* The item of an element is given to a caller.
LEMMA TakeItem ==
  ASSUME Types, OnePlace, NEW e \in Elements, elemWork[e] # 0, Give(elemWork[e]),
         elemWork' = [elemWork EXCEPT ![e] = 0], UNCHANGED <<issued, arg>>
  PROVE  OnePlace'
<1> DEFINE v == elemWork[e]
<1>1. /\ \A f \in Elements : elemWork[f] \in 0 .. MaxWork /\ (elemWork[f] # 0 => elemWork[f] \in 1 .. MaxWork)
      /\ \A u \in Threads : arg[u] \in 0 .. MaxWork
      /\ issued \in Nat /\ MaxWork \in Nat BY Numbers DEF Types, TypeOK
<1>2. v \in 1 .. MaxWork /\ ran[v] = 0 /\ v <= issued BY <1>1 DEF OnePlace
<1>3. \A w \in 1 .. MaxWork : ran'[w] = IF w = v THEN 1 ELSE ran[w]
  BY <1>2 DEF Give, Types, TypeOK
<1>4. \A f \in Elements : elemWork'[f] = IF f = e THEN 0 ELSE elemWork[f] BY DEF Types, TypeOK
<1> QED BY <1>1, <1>2, <1>3, <1>4 DEF OnePlace

\* Who is where carries what.
LEMMA CarryGoto ==
  ASSUME Types, Carrying, NEW t \in Threads, NEW l, Goto(t, l), NEW v,
         arg' = [arg EXCEPT ![t] = v], v # 0 <=> l \in Pushing
  PROVE  Carrying'
BY DEF Carrying, Goto, Types, TypeOK

LEMMA CarryKept ==
  ASSUME Types, Carrying, NEW t \in Threads, NEW l, Goto(t, l), arg' = arg,
         pc[t] \in Pushing <=> l \in Pushing
  PROVE  Carrying'
BY DEF Carrying, Goto, Types, TypeOK

\* One element changes.
LEMMA HoldAt ==
  ASSUME Types, Holding, NEW e \in Elements, NEW s, elemState' = [elemState EXCEPT ![e] = s],
         elemWork' = elemWork \/ \E v : elemWork' = [elemWork EXCEPT ![e] = v],
         \A f \in Elements : f # e /\ elemState[f] # "Ready" => (f \in Popped' <=> f \in Popped),
         elemWork'[e] # 0 <=> s = "Ready" \/ e \in Popped'
  PROVE  Holding'
<1>1. \A f \in Elements : elemState'[f] = IF f = e THEN s ELSE elemState[f]
  BY DEF Types, TypeOK
<1>2. \A f \in Elements : f # e => elemWork'[f] = elemWork[f] BY DEF Types, TypeOK
<1> QED BY <1>1, <1>2 DEF Holding

\* A thread is at one end or the other: what the elements it popped are
LEMMA OwnerPops ==
  ASSUME UNCHANGED <<back_, mid>>, Behind' = Behind
  PROVE  BackPopped' = BackPopped
BY DEF BackPopped

LEMMA BackPops ==
  ASSUME UNCHANGED front_, pc'[owner] = pc[owner] \/ {pc[owner], pc'[owner]} \subseteq AskPlaces
  PROVE  FrontPopped' = FrontPopped
BY DEF FrontPopped, AskPlaces

LEMMA NoFrontPops == pc[owner] # "popfront.take" => FrontPopped = {}
BY DEF FrontPopped

LEMMA NoBackPops == Behind \notin {"popback.take", "half.take"} => BackPopped = {}
BY DEF BackPopped

\* What is popped is what is claimed to be popped, and the two ends pop different elements.
LEMMA PoppedClaims ==
  RInv => /\ UNION {Claims(t) : t \in {r \in Threads :
                      pc[r] \in {"popfront.take", "popback.take", "half.take"}}} = Popped
          /\ FrontPopped \cap BackPopped = {}
<1> SUFFICES ASSUME RInv
             PROVE  /\ UNION {Claims(t) : t \in {r \in Threads :
                                pc[r] \in {"popfront.take", "popback.take", "half.take"}}} = Popped
                    /\ FrontPopped \cap BackPopped = {}
  OBVIOUS
<1> DEFINE poppers == {r \in Threads : pc[r] \in {"popfront.take", "popback.take", "half.take"}}
<1>0. Types /\ Places BY DEF RInv
<1>1. /\ owner \in Threads /\ owner \notin Remotes /\ Remotes \subseteq Threads
      /\ \A r \in Remotes : pc[r] \in Locked => mutex_ = r /\ Behind = pc[r]
  BY <1>0, Actors
<1>2. pc[owner] \notin Locked /\ \A t \in Threads : t # owner => pc[t] # "popfront.take"
  BY <1>0 DEF Places, AskPlaces, FrontPlaces, Locked
<1>3. Behind \in {"popback.take", "half.take"} => mutex_ \in Remotes /\ pc[mutex_] = Behind
  BY <1>0, Actors DEF Behind
<1>4. owner \in poppers => Claims(owner) = FrontPopped
  BY <1>2 DEF Claims, FrontPopped, Locked
<1>5. ASSUME NEW r \in poppers, r # owner PROVE Claims(r) = BackPopped /\ r = mutex_
  <2>1. pc[r] \in {"popback.take", "half.take"} BY <1>2, <1>5
  <2>2. r \in Remotes BY <1>0, <2>1 DEF Places, Locked
  <2>3. r = mutex_ /\ Behind = pc[r] BY <1>1, <2>1, <2>2 DEF Locked
  <2> QED BY <2>1, <2>3 DEF Claims, BackPopped
<1>6. FrontPopped # {} => owner \in poppers BY <1>1 DEF FrontPopped
<1>7. BackPopped # {} => mutex_ \in poppers /\ mutex_ # owner BY <1>1, <1>3 DEF BackPopped
<1>8. UNION {Claims(t) : t \in poppers} = Popped
  <2> HIDE DEF poppers
  <2> QED BY <1>4, <1>5, <1>6, <1>7 DEF Popped
<1>9. FrontPopped \cap BackPopped = {}
  <2>1. \A s, t \in Threads : s # t => Claims(s) \cap Claims(t) = {}
    BY RInvExclusive DEF Exclusive
  <2> QED BY <1>4, <1>5, <1>6, <1>7, <2>1
<1> QED BY <1>8, <1>9

-----------------------------------------------------------------------------
(* What a step does to the queue.                                          *)

Contents == View(Items, Low1, High)

LEMMA ItemsAt == ASSUME NEW i \in 0 .. 2 * kSize - 1 PROVE Items[i] = elemWork[Place(i)]
BY DEF Items

\* The window of the ring holds the queued positions, and each has an item.
QueueFacts ==
  /\ Low1 \in Nat /\ High \in Nat /\ Low1 <= High /\ Low1 >= Lo(Behind, start)
  /\ High <= Lo(Behind, start) + kSize /\ Lo(Behind, start) \in 0 .. kSize - 1 /\ kSize \in Nat
  /\ \A i \in Low1 .. High - 1 :
       /\ i \in 0 .. 2 * kSize - 1 /\ i \in Lo(Behind, start) .. Lo(Behind, start) + kSize - 1
       /\ Place(i) \in Elements /\ elemState[Place(i)] = "Ready"
       /\ Items[i] = elemWork[Place(i)] /\ Items[i] \in 1 .. MaxWork

LEMMA Queueing == RInv /\ ItemInv => QueueFacts
<1> SUFFICES ASSUME RInv, ItemInv PROVE QueueFacts OBVIOUS
<1>0. kSize \in Nat /\ kSize > 2 /\ MaxWork \in Nat /\ TypeOK BY Numbers, Known
<1>1. /\ Low1 \in Lo(Behind, start) .. kSize /\ High \in Low1 .. Lo(Behind, start) + kSize
      /\ High <= Size /\ Size \in 0 .. 2 * kSize - 1 /\ Lo(Behind, start) \in 0 .. kSize - 1
      /\ \A i \in 0 .. Size - 1 : i \in Positions /\ ReadyAt(i) <=> i \in Low1 .. High - 1
  BY QueueBounds
<1>2. Low1 \in Nat /\ High \in Nat /\ Low1 <= High /\ Low1 >= Lo(Behind, start)
      /\ High <= Lo(Behind, start) + kSize /\ High <= Size /\ Size <= 2 * kSize - 1
      /\ Lo(Behind, start) \in Nat /\ Size \in Nat BY <1>0, <1>1
<1>3. ASSUME NEW i \in Low1 .. High - 1
      PROVE  /\ i \in 0 .. 2 * kSize - 1 /\ i \in Lo(Behind, start) .. Lo(Behind, start) + kSize - 1
             /\ Place(i) \in Elements /\ elemState[Place(i)] = "Ready"
             /\ Items[i] = elemWork[Place(i)] /\ Items[i] \in 1 .. MaxWork
  <2>1. i \in 0 .. 2 * kSize - 1 /\ i \in Lo(Behind, start) .. Lo(Behind, start) + kSize - 1
        /\ i \in 0 .. Size - 1 BY <1>0, <1>2
  <2>2. Lo(Behind, start) \in 0 .. kSize BY <1>0, <1>1
  <2>3. Place(i) \in Elements BY <1>0, <2>1, <2>2, Cover
  <2>4. elemState[Place(i)] = "Ready" BY <1>1, <2>1 DEF ReadyAt, Place
  <2>5. elemWork[Place(i)] # 0 BY <2>3, <2>4 DEF ItemInv, Holding
  <2>6. elemWork[Place(i)] \in 0 .. MaxWork BY <1>0, <2>3 DEF TypeOK
  <2>7. elemWork[Place(i)] \in 1 .. MaxWork BY <1>0, <2>5, <2>6
  <2> QED BY <2>1, <2>3, <2>4, <2>7, ItemsAt
<1> QED BY <1>0, <1>1, <1>2, <1>3 DEF QueueFacts

\* Positions in the window are different elements.
LEMMA Apart ==
  ASSUME RInv, NEW i \in Lo(Behind, start) .. Lo(Behind, start) + kSize - 1,
         NEW j \in Lo(Behind, start) .. Lo(Behind, start) + kSize - 1, Place(i) = Place(j)
  PROVE  i = j
<1>1. TypeOK /\ kSize \in Nat /\ Lo(Behind, start) \in 0 .. kSize - 1 BY Numbers, Known
<1>2. i \in 0 .. 2 * kSize - 1 /\ j \in 0 .. 2 * kSize - 1 BY <1>1
<1>3. i = j \/ i = j + kSize \/ j = i + kSize BY <1>1, <1>2, Distinct
<1> QED BY <1>1, <1>3

\* The ways the queue may change
QueueStep ==
  \/ Contents' = Contents
  \/ Len(Contents') = Len(Contents) + 1 /\ Contents = Tail(Contents')
  \/ Len(Contents') = Len(Contents) + 1 /\ Contents = SubSeq(Contents', 1, Len(Contents))
  \/ Len(Contents) = Len(Contents') + 1 /\ Contents' = Tail(Contents)
  \/ Len(Contents) > Len(Contents') /\ Contents' = SubSeq(Contents, 1, Len(Contents'))

\* The queued positions keep their items, under other numbers if the back moves.
LEMMA QueueShift ==
  ASSUME QueueFacts, QueueFacts', NEW d \in Int, Low1' = Low1 - d, High' = High - d,
         \A i \in Low1 .. High - 1 : elemWork'[Place(i - d)'] = elemWork[Place(i)]
  PROVE  QueueStep
<1>1. Low1 \in Int /\ High \in Int BY DEF QueueFacts
<1>2. ASSUME NEW i \in Low1 .. High - 1 PROVE Items'[i - d] = Items[i]
  <2>1. i - d \in Low1' .. High' - 1 BY <1>1
  <2>2. Items'[i - d] = elemWork'[Place(i - d)'] BY <2>1 DEF QueueFacts
  <2>3. Items[i] = elemWork[Place(i)] BY DEF QueueFacts
  <2> QED BY <2>2, <2>3
<1>3. Shifted(Items, Items', Low1, High, d) BY <1>1, <1>2 DEF Shifted
<1>4. View(Items', Low1 - d, High - d) = View(Items, Low1, High) BY <1>3, ViewShift
<1>5. Contents' = View(Items', Low1', High') BY DEF Contents, View
<1> QED BY <1>4, <1>5 DEF QueueStep, Contents

\* The back stays where it is.
Still == /\ back_' = back_ /\ QueueFacts /\ QueueFacts'
         /\ \A i \in Low1 .. High - 1 : i \in Low1' .. High' - 1 => elemWork'[Place(i)] = elemWork[Place(i)]

LEMMA StillItems ==
  ASSUME Still
  PROVE  /\ Low1 \in Int /\ High \in Int /\ Low1' \in Int /\ High' \in Int
         /\ Low1 <= High /\ Low1' <= High'
         /\ \A i \in Low1 .. High - 1 : Items[i] \in 1 .. MaxWork
         /\ \A i \in Low1' .. High' - 1 : Items'[i] \in 1 .. MaxWork
         /\ \A i \in Low1 .. High - 1 : i \in Low1' .. High' - 1 => Items'[i] = Items[i]
         /\ Contents' = View(Items', Low1', High')
<1>1. \A i : Place(i)' = Place(i) BY DEF Place, Still
<1>2. /\ Low1 \in Int /\ High \in Int /\ Low1' \in Int /\ High' \in Int
      /\ Low1 <= High /\ Low1' <= High' BY DEF Still, QueueFacts
<1>3. /\ \A i \in Low1 .. High - 1 : Items[i] \in 1 .. MaxWork /\ Items[i] = elemWork[Place(i)]
      /\ \A i \in Low1' .. High' - 1 : Items'[i] \in 1 .. MaxWork /\ Items'[i] = elemWork'[Place(i)']
  BY DEF Still, QueueFacts
<1>4. \A i \in Low1 .. High - 1 : i \in Low1' .. High' - 1 => Items'[i] = Items[i]
  BY <1>1, <1>3 DEF Still
<1>5. Contents' = View(Items', Low1', High') BY DEF Contents, View
<1> QED BY <1>2, <1>3, <1>4, <1>5

LEMMA QueueSame == ASSUME Still, Low1' = Low1, High' = High PROVE QueueStep
<1>1. Low1 - 0 = Low1 /\ High - 0 = High /\ \A i \in Low1 .. High - 1 : i - 0 = i BY StillItems
<1>2. \A i : Place(i)' = Place(i) BY DEF Place, Still
<1>3. \A i \in Low1 .. High - 1 : elemWork'[Place(i - 0)'] = elemWork[Place(i)]
  BY <1>1, <1>2 DEF Still
<1> QED BY <1>1, <1>3, QueueShift DEF Still

LEMMA QueueFrontUp == ASSUME Still, Low1' = Low1, High' = High + 1 PROVE QueueStep
<1>1. High' - 1 = High /\ (\A i \in Low1 .. High : i \in Low1' .. High' - 1)
      /\ \A i \in Low1 .. High - 1 : i \in Low1 .. High BY StillItems
<1>2. AtFront(Items, Items', Low1, High, 1 .. MaxWork) BY <1>1, StillItems DEF AtFront
<1>3. /\ Len(View(Items', Low1, High + 1)) = Len(View(Items, Low1, High)) + 1
      /\ View(Items, Low1, High) = Tail(View(Items', Low1, High + 1))
  BY <1>2, ViewFront
<1> QED BY <1>3, StillItems DEF QueueStep, Contents

LEMMA QueueFrontDown == ASSUME Still, Low1' = Low1, High = High' + 1 PROVE QueueStep
<1>1. High - 1 = High' /\ (\A i \in Low1 .. High' : i \in Low1 .. High - 1)
      /\ \A i \in Low1 .. High' - 1 : i \in Low1 .. High' BY StillItems
<1>2. AtFront(Items', Items, Low1, High', 1 .. MaxWork) BY <1>1, StillItems DEF AtFront
<1>3. /\ Len(View(Items, Low1, High' + 1)) = Len(View(Items', Low1, High')) + 1
      /\ View(Items', Low1, High') = Tail(View(Items, Low1, High' + 1))
  BY <1>2, ViewFront
<1> QED BY <1>3, StillItems DEF QueueStep, Contents

LEMMA QueueBackUp == ASSUME Still, Low1 = Low1' + 1, High' = High PROVE QueueStep
<1>1. \A i \in Low1 .. High - 1 : i \in Low1' .. High' - 1 BY StillItems
<1>2. AtBack(Items, Items', Low1, Low1', High, 1 .. MaxWork) BY <1>1, StillItems DEF AtBack
<1>3. /\ Len(View(Items, Low1, High)) = High - Low1 /\ Len(View(Items', Low1', High)) = High - Low1'
      /\ View(Items, Low1, High) = SubSeq(View(Items', Low1', High), 1, Len(View(Items, Low1, High)))
  BY <1>2, ViewBack
<1>4. High - Low1' = (High - Low1) + 1 BY StillItems
<1> QED BY <1>3, <1>4, StillItems DEF QueueStep, Contents

LEMMA QueueBackDown == ASSUME Still, Low1' > Low1, High' = High PROVE QueueStep
<1>1. \A i \in Low1' .. High - 1 : i \in Low1 .. High - 1 BY StillItems
<1>2. AtBack(Items', Items, Low1', Low1, High, 1 .. MaxWork) BY <1>1, StillItems DEF AtBack
<1>3. /\ Len(View(Items', Low1', High)) = High - Low1' /\ Len(View(Items, Low1, High)) = High - Low1
      /\ View(Items', Low1', High) = SubSeq(View(Items, Low1, High), 1, Len(View(Items', Low1', High)))
  BY <1>2, ViewBack
<1>4. High - Low1 > High - Low1' BY StillItems
<1> QED BY <1>3, <1>4, StillItems DEF QueueStep, Contents

-----------------------------------------------------------------------------
(* What each step of the owner does to the items and to the queue.         *)

\* A claim to push: the element is empty; a claim to pop: it has an item.
LEMMA PushClaim ==
  ASSUME RInv, ItemInv, NEW t \in Threads, NEW e \in Claims(t), pc[t] \in Pushing
  PROVE  e \in Elements /\ elemState[e] = "Busy" /\ e \notin Popped /\ elemWork[e] = 0
<1>1. Exclusive BY RInvExclusive
<1>2. e \in Elements /\ elemState[e] = "Busy" BY <1>1 DEF Claims, Exclusive, Pushing
<1>3. e \notin Popped
  <2>1. SUFFICES ASSUME e \in Popped PROVE FALSE OBVIOUS
  <2>2. PICK u \in Threads : e \in Claims(u) /\ pc[u] \in {"popfront.take", "popback.take", "half.take"}
    BY <2>1, PoppedClaims
  <2>3. u # t BY <2>2 DEF Pushing
  <2> QED BY <1>1, <2>2, <2>3 DEF Exclusive
<1> QED BY <1>2, <1>3 DEF ItemInv, Holding

LEMMA PopClaim ==
  ASSUME RInv, ItemInv, NEW t \in Threads, NEW e \in Claims(t),
         pc[t] \in {"popfront.take", "popback.take", "half.take"}
  PROVE  e \in Elements /\ e \in Popped /\ elemWork[e] # 0
<1>1. e \in Popped BY PoppedClaims
<1>2. e \in Elements BY DEF Claims
<1> QED BY <1>1, <1>2 DEF ItemInv, Holding

LEMMA Elem0 == ASSUME NEW x \in Nat PROVE Elem(x) \in Elements
BY Numbers DEF Elem, Elements

\* The elements at the ends
LEMMA EndElems ==
  ASSUME TypeOK
  PROVE  {Elem(front_), Elem(front_ + Modulus - 1), Elem(back_), Elem(back_ + Modulus - 1)} \subseteq Elements
<1>1. front_ \in Nat /\ back_ \in Nat /\ Modulus \in Nat /\ Modulus > 0 BY Numbers, Geometry
<1>2. front_ + Modulus - 1 \in Nat /\ back_ + Modulus - 1 \in Nat BY <1>1
<1> QED BY <1>1, <1>2, Elem0

\* Nothing is stored, and the ends stay: what the queue is follows from where everybody is.
LEMMA StillStored ==
  ASSUME back_' = back_, elemWork' = elemWork, RInv, ItemInv, RInv', ItemInv'
  PROVE  Still
<1>1. \A i : Place(i)' = Place(i) BY DEF Place
<1>2. QueueFacts BY Queueing
<1>3. QueueFacts' BY Queueing, PTL
<1> QED BY <1>1, <1>2, <1>3 DEF Still

\* Something is stored in an element that is not queued.
LEMMA StillElse ==
  ASSUME back_' = back_, NEW e, NEW v, elemWork' = [elemWork EXCEPT ![e] = v],
         RInv, ItemInv, RInv', ItemInv',
         \A i \in Low1 .. High - 1 : i \in Low1' .. High' - 1 => Place(i) # e
  PROVE  Still
<1>2. QueueFacts BY Queueing
<1>3. QueueFacts' BY Queueing, PTL
<1>4. \A i \in Low1 .. High - 1 : Place(i) \in Elements BY <1>2 DEF QueueFacts
<1>5. DOMAIN elemWork = Elements BY DEF RInv, Types, TypeOK
<1> QED BY <1>2, <1>3, <1>4, <1>5 DEF Still

LEMMA PushFrontItems ==
  ASSUME RInv, RInv', ItemInv, PushFront
  PROVE  ItemInv' /\ QueueStep
<1>0. Types /\ Places /\ TypeOK /\ Carrying /\ Holding /\ OnePlace BY DEF RInv, Types, ItemInv
<1>1. /\ UNCHANGED <<front_, back_, elemWork, mutex_, mid, start>>
      /\ issued < MaxWork /\ issued' = issued + 1 /\ pc[owner] = "idle"
  BY DEF PushFront, ends, half
<1>2. owner \in Threads BY <1>0, Actors
<1>3. CASE Give(issued + 1) /\ UNCHANGED <<elemState, arg, pc>>
  <2>1. Behind' = Behind BY <1>1, <1>3 DEF Behind
  <2>2. Popped' = Popped BY <1>1, <1>3, <2>1 DEF Popped, FrontPopped, BackPopped
  <2>3. Carrying' /\ Holding' BY <1>0, <1>1, <1>3, <2>2 DEF Carrying, Holding
  <2>4. OnePlace' BY <1>0, <1>1, <1>3, IssueGive
  <2>5. Low1' = Low1 /\ High' = High BY <1>1, <1>3, <2>1 DEF Low1, High, Size
  <2>6. ItemInv' BY <2>3, <2>4 DEF ItemInv
  <2> QED BY <1>1, <2>5, <2>6, StillStored, QueueSame
<1>4. CASE /\ elemState[Elem(front_)] = "Empty"
           /\ elemState' = [elemState EXCEPT ![Elem(front_)] = "Busy"]
           /\ arg' = [arg EXCEPT ![owner] = issued + 1]
           /\ Goto(owner, "pushfront.index") /\ UNCHANGED ran
  <2>1. pc'[owner] = "pushfront.index" /\ Behind' = Behind
    BY <1>0, <1>1, <1>4, OwnerGoto DEF FrontPlaces
  <2>2. Popped' = Popped BY <1>1, <2>1, OwnerPops DEF Popped, FrontPopped
  <2>3. issued + 1 # 0 /\ arg[owner] = 0
    <3>1. issued + 1 # 0 BY <1>0, Numbers DEF TypeOK
    <3>2. arg[owner] = 0 BY <1>0, <1>1, <1>2 DEF Carrying, Pushing
    <3> QED BY <3>1, <3>2
  <2>4. Carrying' BY <1>0, <1>2, <1>4, <2>3, CarryGoto DEF Pushing
  <2>5. Holding'
    <3>1. Elem(front_) \in Elements BY <1>0, EndElems
    <3>2. elemWork'[Elem(front_)] # 0 <=> Elem(front_) \in Popped'
      BY <1>0, <1>1, <1>4, <2>2, <3>1 DEF Holding
    <3> QED BY <1>0, <1>1, <1>4, <2>2, <3>1, <3>2, HoldAt
  <2>6. OnePlace' BY <1>0, <1>1, <1>2, <1>4, <2>3, IssueTake
  <2>7. Low1' = Low1 /\ High' = High BY <1>1, <2>1 DEF Low1, High, Size, QHi
  <2>8. ItemInv' BY <2>4, <2>5, <2>6 DEF ItemInv
  <2> QED BY <1>1, <2>7, <2>8, StillStored, QueueSame
<1> QED BY <1>3, <1>4 DEF PushFront

LEMMA PushFrontIndexItems ==
  ASSUME RInv, RInv', ItemInv, PushFrontIndex
  PROVE  ItemInv' /\ QueueStep
<1>0. Types /\ Places /\ TypeOK /\ Carrying /\ Holding /\ OnePlace BY DEF RInv, Types, ItemInv
<1>1. /\ UNCHANGED <<back_, elemState, elemWork, mutex_, arg, mid, start, issued, ran>>
      /\ front_' = Up(front_) /\ pc[owner] = "pushfront.index" /\ Goto(owner, "pushfront.ready")
  BY DEF PushFrontIndex, array, half, work
<1>2. pc'[owner] = "pushfront.ready" /\ Behind' = Behind /\ owner \in Threads
  BY <1>0, <1>1, OwnerGoto, Actors DEF FrontPlaces
<1>3. Popped' = Popped BY <1>1, <1>2, OwnerPops DEF Popped, FrontPopped
<1>4. Carrying' BY <1>0, <1>1, <1>2, CarryKept DEF Pushing
<1>5. Holding' /\ OnePlace' BY <1>0, <1>1, <1>3 DEF Holding, OnePlace
<1>6. ItemInv' BY <1>4, <1>5 DEF ItemInv
<1>7. Size' = Size + 1
  <2>1. Bounds(pc[owner], Behind, Size, start) /\ Size \in 0 .. 2 * kSize - 1 BY Known
  <2>2. Size < 2 * kSize - 1
    <3>1. Lo(Behind, start) \in 0 .. kSize - 1 /\ kSize \in Nat /\ kSize > 2 BY Known, Numbers
    <3> QED BY <1>1, <2>1, <3>1 DEF Bounds, Hi
  <2> QED BY <1>0, <1>1, <2>2, FrontUp
<1>8. Size \in Int BY Known, Numbers
<1>9. Low1' = Low1 /\ High' = High BY <1>1, <1>2, <1>7, <1>8 DEF Low1, High, QHi
<1> QED BY <1>1, <1>6, <1>9, StillStored, QueueSame

LEMMA PushFrontReadyItems ==
  ASSUME RInv, RInv', ItemInv, PushFrontReady
  PROVE  ItemInv' /\ QueueStep
<1>0. Types /\ Places /\ TypeOK /\ Carrying /\ Holding /\ OnePlace BY DEF RInv, Types, ItemInv
<1> DEFINE e == Elem(front_ + Modulus - 1)
<1>1. /\ UNCHANGED <<front_, back_, mutex_, mid, start, issued, ran>>
      /\ pc[owner] = "pushfront.ready" /\ Goto(owner, "idle")
      /\ elemState' = [elemState EXCEPT ![e] = "Ready"]
      /\ elemWork' = [elemWork EXCEPT ![e] = arg[owner]]
      /\ arg' = [arg EXCEPT ![owner] = 0]
  BY DEF PushFrontReady, ends, half, work
<1>2. pc'[owner] = "idle" /\ Behind' = Behind /\ owner \in Threads
  BY <1>0, <1>1, OwnerGoto, Actors DEF AskPlaces
<1>3. e \in Elements /\ elemState[e] = "Busy" /\ e \notin Popped /\ elemWork[e] = 0
  <2>1. e \in Claims(owner) BY <1>0, <1>1, EndElems DEF Claims
  <2> QED BY <1>1, <1>2, <2>1, PushClaim DEF Pushing
<1> HIDE DEF e
<1>4. Popped' = Popped BY <1>1, <1>2, OwnerPops DEF Popped, FrontPopped
<1>5. Carrying' BY <1>0, <1>1, <1>2, CarryGoto DEF Pushing
<1>6. Holding'
  <2>1. arg[owner] # 0 BY <1>0, <1>1, <1>2 DEF Carrying, Pushing
  <2>2. elemWork'[e] # 0 BY <1>0, <1>1, <1>3, <2>1 DEF TypeOK
  <2> QED BY <1>0, <1>1, <1>3, <1>4, <2>2, HoldAt
<1>7. OnePlace' BY <1>0, <1>1, <1>2, <1>3, StoreItem
<1>8. ItemInv' BY <1>5, <1>6, <1>7 DEF ItemInv
<1>9. Still
  <2>1. \A i \in Low1 .. High - 1 : Place(i) # e BY <1>3, Queueing DEF QueueFacts
  <2> QED BY <1>1, <1>8, <2>1, StillElse
<1>10. Size \in Int BY Known, Numbers
<1>11. Low1' = Low1 /\ High' = High + 1 BY <1>1, <1>2, <1>10 DEF Low1, High, QHi, Size
<1> QED BY <1>8, <1>9, <1>11, QueueFrontUp

LEMMA PopFrontItems ==
  ASSUME RInv, RInv', ItemInv, PopFront
  PROVE  ItemInv' /\ QueueStep
<1>0. Types /\ Places /\ TypeOK /\ Carrying /\ Holding /\ OnePlace BY DEF RInv, Types, ItemInv
<1> DEFINE e == Elem(front_ + Modulus - 1)
<1>1. /\ UNCHANGED <<front_, back_, elemWork, mutex_, arg, mid, start, issued, ran>>
      /\ pc[owner] = "idle" /\ Goto(owner, "popfront.take")
      /\ elemState[e] = "Ready" /\ elemState' = [elemState EXCEPT ![e] = "Busy"]
  BY DEF PopFront, ends, half, work
<1>2. pc'[owner] = "popfront.take" /\ Behind' = Behind /\ owner \in Threads
  BY <1>0, <1>1, OwnerGoto, Actors DEF FrontPlaces
<1>3. e \in Elements BY <1>0, EndElems
<1>4. FrontPopped' = {e} /\ FrontPopped = {} /\ BackPopped' = BackPopped
  BY <1>1, <1>2, <1>3, OwnerPops DEF FrontPopped
<1> HIDE DEF e
<1>5. Carrying' BY <1>0, <1>1, <1>2, CarryKept DEF Pushing
<1>6. Holding'
  <2>1. elemWork'[e] # 0 BY <1>0, <1>1, <1>3 DEF Holding
  <2>2. Popped' = Popped \cup {e} BY <1>4 DEF Popped
  <2> QED BY <1>0, <1>1, <1>3, <2>1, <2>2, HoldAt
<1>7. OnePlace' BY <1>0, <1>1 DEF OnePlace
<1>8. ItemInv' BY <1>5, <1>6, <1>7 DEF ItemInv
<1>9. Still BY <1>1, <1>8, StillStored
<1>10. Size \in Int BY Known, Numbers
<1>11. Low1' = Low1 /\ High = High' + 1 BY <1>1, <1>2, <1>10 DEF Low1, High, QHi, Size
<1> QED BY <1>8, <1>9, <1>11, QueueFrontDown

LEMMA PopFrontTakeItems ==
  ASSUME RInv, RInv', ItemInv, PopFrontTake
  PROVE  ItemInv' /\ QueueStep
<1>0. Types /\ Places /\ TypeOK /\ Carrying /\ Holding /\ OnePlace BY DEF RInv, Types, ItemInv
<1> DEFINE e == Elem(front_ + Modulus - 1)
<1>1. /\ UNCHANGED <<front_, back_, mutex_, arg, mid, start, issued>>
      /\ pc[owner] = "popfront.take" /\ Goto(owner, "popfront.index")
      /\ elemState' = [elemState EXCEPT ![e] = "Empty"]
      /\ elemWork' = [elemWork EXCEPT ![e] = 0] /\ Give(elemWork[e])
  BY DEF PopFrontTake, ends, half
<1>2. pc'[owner] = "popfront.index" /\ Behind' = Behind /\ owner \in Threads
  BY <1>0, <1>1, OwnerGoto, Actors DEF FrontPlaces
<1>3. e \in Elements /\ elemWork[e] # 0 /\ elemState[e] = "Busy"
  <2>1. e \in Claims(owner) BY <1>0, <1>1, EndElems DEF Claims
  <2>2. elemState[e] = "Busy" BY <1>1, <1>2, <2>1, RInvExclusive DEF Exclusive
  <2> QED BY <1>1, <1>2, <2>1, <2>2, PopClaim
<1>4. FrontPopped' = {} /\ FrontPopped = {e} /\ BackPopped' = BackPopped
  BY <1>1, <1>2, <1>3, OwnerPops DEF FrontPopped
<1> HIDE DEF e
<1>5. Carrying' BY <1>0, <1>1, <1>2, CarryKept DEF Pushing
<1>6. Holding'
  <2>1. elemWork'[e] = 0 BY <1>0, <1>1, <1>3 DEF TypeOK
  <2>2. Popped' = Popped \ {e} BY <1>4, PoppedClaims DEF Popped
  <2> QED BY <1>0, <1>1, <1>3, <2>1, <2>2, HoldAt
<1>7. OnePlace' BY <1>0, <1>1, <1>3, TakeItem
<1>8. ItemInv' BY <1>5, <1>6, <1>7 DEF ItemInv
<1>9. Still
  <2>1. \A i \in Low1 .. High - 1 : Place(i) # e BY <1>3, Queueing DEF QueueFacts
  <2> QED BY <1>1, <1>8, <2>1, StillElse
<1>10. Low1' = Low1 /\ High' = High BY <1>1, <1>2 DEF Low1, High, QHi, Size
<1> QED BY <1>8, <1>9, <1>10, QueueSame

LEMMA PopFrontIndexItems ==
  ASSUME RInv, RInv', ItemInv, PopFrontIndex
  PROVE  ItemInv' /\ QueueStep
<1>0. Types /\ Places /\ TypeOK /\ Carrying /\ Holding /\ OnePlace BY DEF RInv, Types, ItemInv
<1>1. /\ UNCHANGED <<back_, elemState, elemWork, mutex_, arg, mid, start, issued, ran>>
      /\ front_' = Down(front_) /\ pc[owner] = "popfront.index" /\ Goto(owner, "idle")
  BY DEF PopFrontIndex, array, half, work
<1>2. pc'[owner] = "idle" /\ Behind' = Behind /\ owner \in Threads
  BY <1>0, <1>1, OwnerGoto, Actors DEF AskPlaces
<1>3. Popped' = Popped BY <1>1, <1>2, OwnerPops DEF Popped, FrontPopped
<1>4. Carrying' BY <1>0, <1>1, <1>2, CarryKept DEF Pushing
<1>5. Holding' /\ OnePlace' BY <1>0, <1>1, <1>3 DEF Holding, OnePlace
<1>6. ItemInv' BY <1>4, <1>5 DEF ItemInv
<1>7. Size' = Size - 1
  <2>1. Bounds(pc[owner], Behind, Size, start) /\ Size \in 0 .. 2 * kSize - 1 BY Known
  <2>2. Size > 0
    <3>1. Lo(Behind, start) \in 0 .. kSize - 1 /\ kSize \in Nat /\ kSize > 2 BY Known, Numbers
    <3> QED BY <1>1, <2>1, <3>1 DEF Bounds, Hi
  <2> QED BY <1>0, <1>1, <2>2, FrontDown
<1>8. Size \in Int BY Known, Numbers
<1>9. Low1' = Low1 /\ High' = High BY <1>1, <1>2, <1>7, <1>8 DEF Low1, High, QHi
<1> QED BY <1>1, <1>6, <1>9, StillStored, QueueSame

-----------------------------------------------------------------------------
(* What each step at the back does to the items and to the queue.          *)

\* The owner stays where it is, in what concerns the front.
LEMMA SameHigh ==
  ASSUME front_' = front_, back_' = back_, pc'[owner] = pc[owner] \/ {pc[owner], pc'[owner]} \subseteq AskPlaces
  PROVE  High' = High /\ FrontPopped' = FrontPopped
<1>1. FrontPopped' = FrontPopped BY BackPops
<1>2. Size' = Size BY DEF Size
<1>3. High' = High BY <1>2 DEF High, QHi, AskPlaces
<1> QED BY <1>1, <1>3

LEMMA PushBackItems ==
  ASSUME RInv, RInv', ItemInv, NEW r \in Remotes, PushBack(r)
  PROVE  ItemInv' /\ QueueStep
<1>0. Types /\ Places /\ TypeOK /\ Carrying /\ Holding /\ OnePlace BY DEF RInv, Types, ItemInv
<1> DEFINE e == Elem(back_ + Modulus - 1)
<1>1. /\ UNCHANGED <<front_, back_, elemWork, mid, start>>
      /\ issued < MaxWork /\ issued' = issued + 1 /\ pc[r] = "idle" /\ mutex_ = None
  BY DEF PushBack, ends, half
<1>2. r \in Threads BY <1>0, Actors
<1>3. CASE Give(issued + 1) /\ UNCHANGED <<elemState, arg, pc, mutex_>>
  <2>1. Behind' = Behind BY <1>1, <1>3 DEF Behind
  <2>2. Popped' = Popped BY <1>1, <1>3, <2>1 DEF Popped, FrontPopped, BackPopped
  <2>3. Carrying' /\ Holding' BY <1>0, <1>1, <1>3, <2>2 DEF Carrying, Holding
  <2>4. OnePlace' BY <1>0, <1>1, <1>3, IssueGive
  <2>5. Low1' = Low1 /\ High' = High BY <1>1, <1>3, <2>1 DEF Low1, High, Size
  <2>6. ItemInv' BY <2>3, <2>4 DEF ItemInv
  <2> QED BY <1>1, <2>5, <2>6, StillStored, QueueSame
<1>4. CASE /\ elemState[e] = "Empty" /\ elemState' = [elemState EXCEPT ![e] = "Busy"]
           /\ mutex_' = r /\ arg' = [arg EXCEPT ![r] = issued + 1]
           /\ Goto(r, "pushback.index") /\ UNCHANGED ran
  <2>1. Behind = "free" /\ Behind' = "pushback.index" /\ pc'[owner] = pc[owner]
    BY <1>0, <1>1, <1>4, Lock DEF Locked
  <2>2. FrontPopped' = FrontPopped /\ High' = High BY <1>1, <2>1, SameHigh
  <2>3. BackPopped = {} /\ BackPopped' = {} BY <2>1 DEF BackPopped
  <2>4. Popped' = Popped BY <2>2, <2>3 DEF Popped
  <2>5. issued + 1 # 0 /\ arg[r] = 0
    <3>1. issued + 1 # 0 BY <1>0, Numbers DEF TypeOK
    <3>2. arg[r] = 0 BY <1>0, <1>1, <1>2 DEF Carrying, Pushing
    <3> QED BY <3>1, <3>2
  <2>6. Carrying' BY <1>0, <1>2, <1>4, <2>5, CarryGoto DEF Pushing
  <2>7. Holding'
    <3>1. e \in Elements BY <1>0, EndElems
    <3> HIDE DEF e
    <3>2. elemWork'[e] # 0 <=> e \in Popped' BY <1>0, <1>1, <1>4, <2>4, <3>1 DEF Holding
    <3> QED BY <1>0, <1>1, <1>4, <2>4, <3>1, <3>2, HoldAt
  <2>8. OnePlace' BY <1>0, <1>1, <1>2, <1>4, <2>5, IssueTake
  <2>9. Low1' = Low1 BY <1>1, <2>1 DEF Low1, QLo
  <2>10. ItemInv' BY <2>6, <2>7, <2>8 DEF ItemInv
  <2> QED BY <1>1, <2>2, <2>9, <2>10, StillStored, QueueSame
<1> QED BY <1>3, <1>4 DEF PushBack

LEMMA PushBackIndexItems ==
  ASSUME RInv, RInv', ItemInv, NEW r \in Remotes, PushBackIndex(r)
  PROVE  ItemInv' /\ QueueStep
<1>0. Types /\ Places /\ Halving /\ TypeOK /\ Carrying /\ Holding /\ OnePlace
  BY DEF RInv, Types, ItemInv
<1>1. /\ UNCHANGED <<front_, elemState, elemWork, mutex_, arg, mid, start, issued, ran>>
      /\ back_' = Down(back_) /\ pc[r] = "pushback.index" /\ Goto(r, "pushback.ready")
  BY DEF PushBackIndex, array, half, work
<1>2. /\ Behind = "pushback.index" /\ Behind' = "pushback.ready" /\ pc'[owner] = pc[owner]
      /\ r \in Threads
  BY <1>0, <1>1, LockedGoto, Actors DEF Locked
<1>3. start = -1 BY <1>0, <1>2 DEF Halving
<1>4. FrontPopped' = FrontPopped BY <1>1, <1>2 DEF FrontPopped
<1>5. BackPopped = {} /\ BackPopped' = {} BY <1>2 DEF BackPopped
<1>6. Popped' = Popped BY <1>4, <1>5 DEF Popped
<1>7. Carrying' BY <1>0, <1>1, <1>2, CarryKept DEF Pushing
<1>8. Holding' /\ OnePlace' BY <1>0, <1>1, <1>6 DEF Holding, OnePlace
<1>9. ItemInv' BY <1>7, <1>8 DEF ItemInv
<1>10. Size < 2 * kSize - 1
  <2>1. Bounds(pc[owner], Behind, Size, start) /\ Size \in 0 .. 2 * kSize - 1 BY Known
  <2>2. Lo(Behind, start) = 0 BY <1>2 DEF Lo
  <2> QED BY <2>1, <2>2, Numbers DEF Bounds, Hi
<1>11. Size' = Size + 1 /\ \A i \in 1 .. kSize - 1 : Place(i)' = Place(i - 1)
  BY <1>0, <1>1, <1>10, BackDown
<1>12. Size \in Int BY Known, Numbers
<1>13. Low1 = 0 /\ Low1' = 1 /\ High' = High + 1
  BY <1>1, <1>2, <1>3, <1>11, <1>12 DEF Low1, High, QLo, QHi
<1>14. QueueFacts BY Queueing
<1>15. QueueFacts' BY <1>9, Queueing, PTL
<1>16. ASSUME NEW i \in Low1 .. High - 1 PROVE elemWork'[Place(i - (-1))'] = elemWork[Place(i)]
  <2>1. High + 1 <= kSize + Lo(Behind', start') BY <1>13, <1>15, <1>12 DEF QueueFacts
  <2>2. Lo(Behind', start') = 0 BY <1>2 DEF Lo
  <2>3. i - (-1) \in 1 .. kSize - 1 /\ (i - (-1)) - 1 = i BY <1>13, <1>14, <2>1, <2>2 DEF QueueFacts
  <2>4. Place(i - (-1))' = Place(i) BY <1>11, <2>3
  <2> QED BY <1>1, <2>4
<1>17. Low1' = Low1 - (-1) /\ High' = High - (-1) BY <1>13, <1>14 DEF QueueFacts
<1> QED BY <1>9, <1>14, <1>15, <1>16, <1>17, QueueShift

LEMMA PushBackReadyItems ==
  ASSUME RInv, RInv', ItemInv, NEW r \in Remotes, PushBackReady(r)
  PROVE  ItemInv' /\ QueueStep
<1>0. Types /\ Places /\ Halving /\ TypeOK /\ Carrying /\ Holding /\ OnePlace
  BY DEF RInv, Types, ItemInv
<1> DEFINE e == Elem(back_)
<1>1. /\ UNCHANGED <<front_, back_, mid, start, issued, ran>>
      /\ pc[r] = "pushback.ready" /\ Goto(r, "idle") /\ mutex_' = None
      /\ elemState' = [elemState EXCEPT ![e] = "Ready"]
      /\ elemWork' = [elemWork EXCEPT ![e] = arg[r]]
      /\ arg' = [arg EXCEPT ![r] = 0]
  BY DEF PushBackReady, ends, half, work
<1>2. /\ Behind = "pushback.ready" /\ Behind' = "free" /\ pc'[owner] = pc[owner] /\ r \in Threads
  BY <1>0, <1>1, Unlock, Actors DEF Locked, AskPlaces
<1>3. e \in Elements /\ elemState[e] = "Busy" /\ e \notin Popped /\ elemWork[e] = 0
  <2>1. e \in Claims(r) BY <1>0, <1>1, EndElems DEF Claims
  <2> QED BY <1>1, <1>2, <2>1, PushClaim DEF Pushing
<1> HIDE DEF e
<1>4. FrontPopped' = FrontPopped /\ High' = High BY <1>1, <1>2, SameHigh
<1>5. BackPopped = {} /\ BackPopped' = {} BY <1>2 DEF BackPopped
<1>6. Popped' = Popped BY <1>4, <1>5 DEF Popped
<1>7. Carrying'
  <2>1. 0 # 0 <=> "idle" \in Pushing BY DEF Pushing
  <2> QED BY <1>0, <1>1, <1>2, <2>1, CarryGoto
<1>8. Holding'
  <2>1. arg[r] # 0 BY <1>0, <1>1, <1>2 DEF Carrying, Pushing
  <2>2. elemWork'[e] # 0 BY <1>0, <1>1, <1>3, <2>1 DEF TypeOK
  <2> QED BY <1>0, <1>1, <1>3, <1>6, <2>2, HoldAt
<1>9. OnePlace' BY <1>0, <1>1, <1>2, <1>3, StoreItem
<1>10. ItemInv' BY <1>7, <1>8, <1>9 DEF ItemInv
<1>11. Still
  <2>1. \A i \in Low1 .. High - 1 : Place(i) # e BY <1>3, Queueing DEF QueueFacts
  <2> QED BY <1>1, <1>10, <2>1, StillElse
<1>12. start = -1 BY <1>0, <1>2 DEF Halving
<1>13. Low1 = Low1' + 1 BY <1>1, <1>2, <1>12 DEF Low1, QLo
<1> QED BY <1>4, <1>10, <1>11, <1>13, QueueBackUp

LEMMA PopBackClaimItems ==
  ASSUME RInv, RInv', ItemInv, NEW r \in Remotes, PopBackClaim(r)
  PROVE  ItemInv' /\ QueueStep
<1>0. Types /\ Places /\ Halving /\ TypeOK /\ Carrying /\ Holding /\ OnePlace
  BY DEF RInv, Types, ItemInv
<1> DEFINE e == Elem(back_)
<1>1. /\ UNCHANGED <<front_, back_, elemWork, arg, mid, start, issued, ran>>
      /\ pc[r] = "popback.claim" /\ mutex_ = None
  BY DEF PopBackClaim, ends, half, work
<1>2. r \in Threads BY <1>0, Actors
<1>3. OnePlace' BY <1>0, <1>1 DEF OnePlace
<1>4. CASE UNCHANGED <<elemState, mutex_>> /\ Goto(r, "idle")
  <2>1. /\ Behind' = Behind
        /\ pc'[owner] = pc[owner] \/ {pc[owner], pc'[owner]} \subseteq AskPlaces
    BY <1>0, <1>1, <1>2, <1>4, FreeGoto DEF AskPlaces, Unlocked
  <2>2. FrontPopped' = FrontPopped /\ High' = High BY <1>1, <2>1, SameHigh
  <2>3. BackPopped' = BackPopped BY <1>1, <2>1, OwnerPops
  <2>4. Popped' = Popped BY <2>2, <2>3 DEF Popped
  <2>5. Carrying' BY <1>0, <1>1, <1>2, <1>4, CarryKept DEF Pushing
  <2>6. Holding' BY <1>0, <1>1, <1>4, <2>4 DEF Holding
  <2>7. ItemInv' BY <1>3, <2>5, <2>6 DEF ItemInv
  <2>8. Low1' = Low1 BY <1>1, <2>1 DEF Low1
  <2> QED BY <1>1, <2>2, <2>7, <2>8, StillStored, QueueSame
<1>5. CASE /\ elemState[e] = "Ready" /\ mutex_' = r /\ Goto(r, "popback.take")
           /\ elemState' = [elemState EXCEPT ![e] = "Busy"]
  <2>1. Behind = "free" /\ Behind' = "popback.take" /\ pc'[owner] = pc[owner]
    BY <1>0, <1>1, <1>5, Lock DEF Locked
  <2>2. e \in Elements BY <1>0, EndElems
  <2>3. FrontPopped' = FrontPopped /\ High' = High BY <1>1, <2>1, SameHigh
  <2>4. BackPopped = {} /\ BackPopped' = {e} BY <1>1, <2>1, <2>2 DEF BackPopped
  <2> HIDE DEF e
  <2>5. Popped' = Popped \cup {e} BY <2>3, <2>4 DEF Popped
  <2>6. Carrying' BY <1>0, <1>1, <1>2, <1>5, CarryKept DEF Pushing
  <2>7. Holding'
    <3>1. elemWork'[e] # 0 BY <1>0, <1>1, <1>5, <2>2 DEF Holding
    <3> QED BY <1>0, <1>1, <1>5, <2>2, <2>5, <3>1, HoldAt
  <2>8. ItemInv' BY <1>3, <2>6, <2>7 DEF ItemInv
  <2>9. start = -1 BY <1>0, <2>1 DEF Halving
  <2>10. Low1' > Low1 BY <1>1, <2>1, <2>9 DEF Low1, QLo
  <2> QED BY <1>1, <2>3, <2>8, <2>10, StillStored, QueueBackDown
<1> QED BY <1>4, <1>5 DEF PopBackClaim

LEMMA PopBackTakeItems ==
  ASSUME RInv, RInv', ItemInv, NEW r \in Remotes, PopBackTake(r)
  PROVE  ItemInv' /\ QueueStep
<1>0. Types /\ Places /\ Halving /\ TypeOK /\ Carrying /\ Holding /\ OnePlace
  BY DEF RInv, Types, ItemInv
<1> DEFINE e == Elem(back_)
<1>1. /\ UNCHANGED <<front_, back_, mutex_, arg, mid, start, issued>>
      /\ pc[r] = "popback.take" /\ Goto(r, "popback.index")
      /\ elemState' = [elemState EXCEPT ![e] = "Empty"]
      /\ elemWork' = [elemWork EXCEPT ![e] = 0] /\ Give(elemWork[e])
  BY DEF PopBackTake, ends, half
<1>2. /\ Behind = "popback.take" /\ Behind' = "popback.index" /\ pc'[owner] = pc[owner]
      /\ r \in Threads
  BY <1>0, <1>1, LockedGoto, Actors DEF Locked
<1>3. e \in Elements /\ elemWork[e] # 0 /\ elemState[e] = "Busy"
  <2>1. e \in Claims(r) BY <1>0, <1>1, EndElems DEF Claims
  <2>2. elemState[e] = "Busy" BY <1>1, <1>2, <2>1, RInvExclusive DEF Exclusive
  <2> QED BY <1>1, <1>2, <2>1, <2>2, PopClaim
<1>4. FrontPopped' = FrontPopped /\ High' = High BY <1>1, <1>2, SameHigh
<1>5. BackPopped' = {} /\ BackPopped = {e} BY <1>2, <1>3 DEF BackPopped
<1> HIDE DEF e
<1>6. Popped' = Popped \ {e} BY <1>4, <1>5, PoppedClaims DEF Popped
<1>7. Carrying' BY <1>0, <1>1, <1>2, CarryKept DEF Pushing
<1>8. Holding'
  <2>1. elemWork'[e] = 0 BY <1>0, <1>1, <1>3 DEF TypeOK
  <2> QED BY <1>0, <1>1, <1>3, <1>6, <2>1, HoldAt
<1>9. OnePlace' BY <1>0, <1>1, <1>3, TakeItem
<1>10. ItemInv' BY <1>7, <1>8, <1>9 DEF ItemInv
<1>11. Still
  <2>1. \A i \in Low1 .. High - 1 : Place(i) # e BY <1>3, Queueing DEF QueueFacts
  <2> QED BY <1>1, <1>10, <2>1, StillElse
<1>12. Low1' = Low1 BY <1>1, <1>2 DEF Low1, QLo
<1> QED BY <1>4, <1>10, <1>11, <1>12, QueueSame

LEMMA PopBackIndexItems ==
  ASSUME RInv, RInv', ItemInv, NEW r \in Remotes, PopBackIndex(r)
  PROVE  ItemInv' /\ QueueStep
<1>0. Types /\ Places /\ Halving /\ TypeOK /\ Carrying /\ Holding /\ OnePlace
  BY DEF RInv, Types, ItemInv
<1>1. /\ UNCHANGED <<front_, elemState, elemWork, arg, mid, start, issued, ran>>
      /\ back_' = Up(back_) /\ pc[r] = "popback.index" /\ Goto(r, "idle") /\ mutex_' = None
  BY DEF PopBackIndex, array, half, work
<1>2. /\ Behind = "popback.index" /\ Behind' = "free" /\ pc'[owner] = pc[owner] /\ r \in Threads
  BY <1>0, <1>1, Unlock, Actors DEF Locked, AskPlaces
<1>3. start = -1 BY <1>0, <1>2 DEF Halving
<1>4. FrontPopped' = FrontPopped BY <1>1, <1>2 DEF FrontPopped
<1>5. BackPopped = {} /\ BackPopped' = {} BY <1>2 DEF BackPopped
<1>6. Popped' = Popped BY <1>4, <1>5 DEF Popped
<1>7. Carrying' BY <1>0, <1>1, <1>2, CarryKept DEF Pushing
<1>8. Holding' /\ OnePlace' BY <1>0, <1>1, <1>6 DEF Holding, OnePlace
<1>9. ItemInv' BY <1>7, <1>8 DEF ItemInv
<1>10. 0 < Size /\ Size \in Int
  <2>1. Bounds(pc[owner], Behind, Size, start) /\ Size \in 0 .. 2 * kSize - 1 BY Known
  <2>2. Lo(Behind, start) = 1 BY <1>2 DEF Lo
  <2> QED BY <2>1, <2>2, Numbers DEF Bounds, Hi
<1>11. Size' = Size - 1 /\ \A i \in 0 .. kSize - 1 : Place(i)' = Place(i + 1)
  <2>1. back_ + 0 = back_ /\ 0 \in 0 .. kSize - 1 BY <1>0, Geometry, Numbers
  <2>2. Size' = Size - 0 - 1 /\ \A i \in 0 .. kSize - 1 : Place(i)' = Place(i + 0 + 1)
    BY <1>0, <1>1, <1>10, <2>1, BackUp
  <2>3. Size - 0 - 1 = Size - 1 /\ \A i \in 0 .. kSize - 1 : i + 0 + 1 = i + 1
    BY <1>10, Numbers
  <2> QED BY <2>2, <2>3
<1>12. Low1 = 1 /\ Low1' = 0 /\ High' = High - 1
  BY <1>1, <1>2, <1>3, <1>10, <1>11 DEF Low1, High, QLo, QHi
<1>13. QueueFacts BY Queueing
<1>14. QueueFacts' BY <1>9, Queueing, PTL
<1>15. ASSUME NEW i \in Low1 .. High - 1 PROVE elemWork'[Place(i - 1)'] = elemWork[Place(i)]
  <2>1. Lo(Behind, start) = 1 BY <1>2 DEF Lo
  <2>2. i - 1 \in 0 .. kSize - 1 /\ (i - 1) + 1 = i BY <1>12, <1>13, <2>1 DEF QueueFacts
  <2>3. Place(i - 1)' = Place(i) BY <1>11, <2>2
  <2> QED BY <1>1, <2>3
<1>16. Low1' = Low1 - 1 BY <1>12
<1> QED BY <1>9, <1>12, <1>13, <1>14, <1>15, <1>16, QueueShift

LEMMA HalfIndexItems ==
  ASSUME RInv, RInv', ItemInv, NEW r \in Remotes, HalfIndex(r)
  PROVE  ItemInv' /\ QueueStep
<1>0. Types /\ Places /\ Halving /\ TypeOK /\ Carrying /\ Holding /\ OnePlace
  BY DEF RInv, Types, ItemInv
<1>1. /\ UNCHANGED <<front_, elemState, elemWork, arg, mid, issued, ran>> /\ start' = -1
      /\ back_' = Up(back_ + start) /\ pc[r] = "half.index" /\ Goto(r, "idle") /\ mutex_' = None
  BY DEF HalfIndex, array, half, work
<1>2. /\ Behind = "half.index" /\ Behind' = "free" /\ pc'[owner] = pc[owner] /\ r \in Threads
  BY <1>0, <1>1, Unlock, Actors DEF Locked, AskPlaces
<1>3. start \in 0 .. kSize - 1 /\ start \in Int BY <1>0, <1>2, Numbers DEF Halving
<1>4. FrontPopped' = FrontPopped BY <1>1, <1>2 DEF FrontPopped
<1>5. BackPopped = {} /\ BackPopped' = {} BY <1>2 DEF BackPopped
<1>6. Popped' = Popped BY <1>4, <1>5 DEF Popped
<1>7. Carrying' BY <1>0, <1>1, <1>2, CarryKept DEF Pushing
<1>8. Holding' /\ OnePlace' BY <1>0, <1>1, <1>6 DEF Holding, OnePlace
<1>9. ItemInv' BY <1>7, <1>8 DEF ItemInv
<1>10. start < Size /\ Size \in Int
  <2>1. Bounds(pc[owner], Behind, Size, start) /\ Size \in 0 .. 2 * kSize - 1 BY Known
  <2>2. Lo(Behind, start) = start + 1 BY <1>2 DEF Lo
  <2> QED BY <1>3, <2>1, <2>2, Numbers DEF Bounds, Hi
<1>11. Size' = Size - start - 1 /\ \A i \in 0 .. kSize - 1 : Place(i)' = Place(i + start + 1)
  BY <1>0, <1>1, <1>3, <1>10, BackUp
<1>12. Low1 = start + 1 /\ Low1' = 0 /\ High' = High - (start + 1)
  <2>1. Low1 = start + 1 /\ Low1' = -1 + 1 BY <1>1, <1>2 DEF Low1, QLo
  <2>2. High' = High - (start + 1) BY <1>2, <1>3, <1>10, <1>11 DEF High, QHi
  <2> QED BY <2>1, <2>2
<1>13. QueueFacts BY Queueing
<1>14. QueueFacts' BY <1>9, Queueing, PTL
<1>15. PICK s \in Int : s = start BY <1>3
<1>16. ASSUME NEW i \in Low1 .. High - 1
       PROVE  elemWork'[Place(i - (s + 1))'] = elemWork[Place(i)]
  <2>1. Lo(Behind, start) = s + 1 BY <1>2, <1>15 DEF Lo
  <2>2. i - (s + 1) \in 0 .. kSize - 1 /\ (i - (s + 1)) + s + 1 = i
    BY <1>3, <1>12, <1>13, <1>15, <2>1 DEF QueueFacts
  <2>3. Place(i - (s + 1))' = Place((i - (s + 1)) + s + 1) BY <1>11, <1>15, <2>2
  <2> QED BY <1>1, <2>2, <2>3
<1>17. Low1' = Low1 - (s + 1) /\ High' = High - (s + 1) /\ s + 1 \in Int BY <1>12, <1>15
<1> QED BY <1>9, <1>13, <1>14, <1>16, <1>17, QueueShift

LEMMA HalfScanItems ==
  ASSUME RInv, RInv', ItemInv, NEW r \in Remotes, HalfScan(r)
  PROVE  ItemInv' /\ QueueStep
<1>0. Types /\ Places /\ Halving /\ TypeOK /\ Carrying /\ Holding /\ OnePlace
  BY DEF RInv, Types, ItemInv
<1>1. /\ UNCHANGED <<front_, back_, elemWork, arg, issued, ran>> /\ pc[r] = "half.scan"
      /\ Behind = "half.scan" /\ r \in Threads
  BY <1>0, Actors DEF HalfScan, ends, work, Locked
<1>2. start = -1 /\ mid \in 0 .. kSize - 2
  <2>1. start = -1 /\ mid <= kSize - 2 BY <1>0, <1>1 DEF Halving
  <2> QED BY <1>0, <2>1, Numbers DEF TypeOK
<1>3. BackPopped = {} BY <1>1 DEF BackPopped
<1>4. OnePlace' BY <1>0, <1>1 DEF OnePlace
<1>5. CASE /\ elemState[Place(mid)] = "Ready" /\ start' = mid /\ Goto(r, "half.take")
           /\ elemState' = [elemState EXCEPT ![Place(mid)] = "Busy"]
           /\ UNCHANGED <<mutex_, mid>>
  <2> DEFINE e == Place(mid)
  <2>1. Behind' = "half.take" /\ pc'[owner] = pc[owner] /\ pc'[r] = "half.take"
    <3>1. pc'[r] = "half.take" BY <1>0, <1>1, <1>5 DEF Goto, Types
    <3> QED BY <1>0, <1>1, <1>5, <3>1, LockedGoto DEF Locked
  <2>2. FrontPopped' = FrontPopped /\ High' = High BY <1>1, <2>1, SameHigh
  <2>3. e \in Elements
    <3>1. mid \in 0 .. 0 + kSize - 1 /\ 0 \in 0 .. kSize BY <1>2, Numbers
    <3> QED BY <1>0, <3>1, Cover
  <2>4. e \in BackPopped'
    <3>1. mid \in 0 .. mid BY <1>2
    <3>2. e = Elem(back_' + mid) BY <1>1 DEF Place
    <3> QED BY <1>5, <2>1, <2>3, <3>1, <3>2 DEF BackPopped
  <2>5. ASSUME NEW f \in BackPopped', f # e PROVE elemState[f] = "Ready"
    <3>1. f \in Claims(r)' BY <2>1 DEF BackPopped, Claims
    <3>2. f \in Elements BY DEF BackPopped
    <3>3. Exclusive' BY RInvExclusive, PTL
    <3>4. f # Elem(back_' + start') BY <1>1, <1>5, <2>5 DEF Place
    <3>5. elemState'[f] = "Ready" BY <1>1, <2>1, <3>1, <3>3, <3>4 DEF Exclusive
    <3> QED BY <1>0, <1>5, <2>5, <3>2, <3>5 DEF TypeOK
  <2> HIDE DEF e
  <2>6. Carrying' BY <1>0, <1>1, <1>5, CarryKept DEF Pushing
  <2>7. Holding'
    <3>1. elemWork'[e] # 0 BY <1>0, <1>1, <1>5, <2>3 DEF Holding, e
    <3>2. e \in Popped' BY <2>4 DEF Popped
    <3>3. \A f \in Elements : f # e /\ elemState[f] # "Ready" => (f \in Popped' <=> f \in Popped)
      BY <1>3, <2>2, <2>5 DEF Popped
    <3>4. elemState' = [elemState EXCEPT ![e] = "Busy"] BY <1>5 DEF e
    <3> QED BY <1>0, <1>1, <2>3, <3>1, <3>2, <3>3, <3>4, HoldAt
  <2>8. ItemInv' BY <1>4, <2>6, <2>7 DEF ItemInv
  <2>9. Low1' > Low1
    <3>1. Low1 = -1 + 1 /\ Low1' = mid + 1 BY <1>1, <1>2, <1>5, <2>1 DEF Low1, QLo
    <3> QED BY <1>2, <3>1
  <2> QED BY <1>1, <2>2, <2>8, <2>9, StillStored, QueueBackDown
<1>6. CASE /\ UNCHANGED <<elemState, mutex_, start, pc>> /\ mid' = mid - 1
  <2>1. Behind' = Behind BY <1>6 DEF Behind
  <2>2. FrontPopped' = FrontPopped /\ High' = High BY <1>1, <1>6, SameHigh
  <2>3. BackPopped' = {} BY <1>1, <2>1 DEF BackPopped
  <2>4. Popped' = Popped BY <1>3, <2>2, <2>3 DEF Popped
  <2>5. Carrying' /\ Holding' BY <1>0, <1>1, <1>6, <2>4 DEF Carrying, Holding
  <2>6. ItemInv' BY <1>4, <2>5 DEF ItemInv
  <2>7. Low1' = Low1 BY <1>6, <2>1 DEF Low1
  <2> QED BY <1>1, <2>2, <2>6, <2>7, StillStored, QueueSame
<1>7. CASE UNCHANGED <<elemState, mid, start>> /\ mutex_' = None /\ Goto(r, "idle")
  <2>1. Behind' = "free" /\ pc'[owner] = pc[owner]
    BY <1>0, <1>1, <1>7, Unlock DEF Locked, AskPlaces
  <2>2. FrontPopped' = FrontPopped /\ High' = High BY <1>1, <2>1, SameHigh
  <2>3. BackPopped' = {} BY <2>1 DEF BackPopped
  <2>4. Popped' = Popped BY <1>3, <2>2, <2>3 DEF Popped
  <2>5. Carrying' BY <1>0, <1>1, <1>7, CarryKept DEF Pushing
  <2>6. Holding' BY <1>0, <1>1, <1>7, <2>4 DEF Holding
  <2>7. ItemInv' BY <1>4, <2>5, <2>6 DEF ItemInv
  <2>8. Low1' = Low1 BY <1>1, <1>7, <2>1 DEF Low1, QLo
  <2> QED BY <1>1, <2>2, <2>7, <2>8, StillStored, QueueSame
<1>8. \/ /\ elemState[Place(mid)] = "Ready" /\ start' = mid /\ Goto(r, "half.take")
         /\ elemState' = [elemState EXCEPT ![Place(mid)] = "Busy"]
         /\ UNCHANGED <<mutex_, mid>>
      \/ UNCHANGED <<elemState, mutex_, start, pc>> /\ mid' = mid - 1
      \/ UNCHANGED <<elemState, mid, start>> /\ mutex_' = None /\ Goto(r, "idle")
  BY DEF HalfScan, Place
<1> QED BY <1>5, <1>6, <1>7, <1>8

LEMMA HalfTakeItems ==
  ASSUME RInv, RInv', ItemInv, NEW r \in Remotes, HalfTake(r)
  PROVE  ItemInv' /\ QueueStep
<1>0. Types /\ Places /\ Halving /\ TypeOK /\ Carrying /\ Holding /\ OnePlace
  BY DEF RInv, Types, ItemInv
<1> DEFINE e == Place(mid)
<1>1. /\ UNCHANGED <<front_, back_, mutex_, arg, start, issued>>
      /\ pc[r] = "half.take" /\ Behind = "half.take" /\ r \in Threads
      /\ elemState' = [elemState EXCEPT ![e] = "Empty"]
      /\ elemWork' = [elemWork EXCEPT ![e] = 0] /\ Give(elemWork[e])
  BY <1>0, Actors DEF HalfTake, ends, Locked, Place
<1>2. start \in mid .. kSize - 2 /\ mid \in 0 .. kSize - 2 /\ kSize \in Nat /\ start \in Int
  BY <1>0, <1>1, Numbers DEF Halving, TypeOK
<1>3. Lo(Behind, start) = 0 BY <1>1 DEF Lo
<1>4. /\ \A i \in 0 .. mid : i \in 0 .. kSize - 1 /\ Place(i) \in Elements
      /\ \A i, j \in 0 .. kSize - 1 : Place(i) = Place(j) => i = j
  <2>1. \A i \in 0 .. 0 + kSize - 1 : Place(i) \in Elements
    <3>1. 0 \in 0 .. kSize BY <1>2
    <3> QED BY <1>0, <3>1, Cover
  <2>2. 0 .. 0 + kSize - 1 = 0 .. kSize - 1 /\ \A i \in 0 .. mid : i \in 0 .. kSize - 1 BY <1>2
  <2>3. \A i, j \in 0 .. kSize - 1 : Place(i) = Place(j) => i = j BY <1>3, <2>2, Apart
  <2> QED BY <2>1, <2>2, <2>3
<1>5. BackPopped = {Place(i) : i \in 0 .. mid} BY <1>1, <1>4 DEF BackPopped, Place
<1>6. e \in Elements /\ e \in BackPopped /\ elemWork[e] # 0
  <2>1. mid \in 0 .. mid BY <1>2
  <2>2. e \in Elements /\ e \in BackPopped BY <1>4, <1>5, <2>1
  <2>3. e \in Popped BY <2>2 DEF Popped
  <2> QED BY <1>0, <2>2, <2>3 DEF Holding
<1>7. pc'[owner] = pc[owner] /\ Carrying' /\ BackPopped' = BackPopped \ {e} /\ Low1' = Low1
  <2>1. CASE mid # 0
    <3>1. pc' = pc /\ mid' = mid - 1 BY <2>1 DEF HalfTake
    <3>2. Behind' = "half.take" BY <1>1, <3>1 DEF Behind
    <3>3. BackPopped' = {Place(i) : i \in 0 .. mid - 1}
      <4>1. \A i \in 0 .. mid - 1 : i \in 0 .. mid BY <1>2
      <4>2. \A i \in 0 .. mid - 1 : Place(i) \in Elements BY <1>4, <4>1
      <4>3. BackPopped' = {f \in Elements : \E i \in 0 .. mid - 1 : f = Elem(back_ + i)}
        BY <1>1, <3>1, <3>2 DEF BackPopped
      <4> QED BY <4>2, <4>3 DEF Place
    <3>4. BackPopped' = BackPopped \ {e}
      <4>1. 0 .. mid = (0 .. mid - 1) \cup {mid} /\ mid \notin 0 .. mid - 1 BY <1>2
      <4>2. \A i \in 0 .. mid - 1 : i \in 0 .. kSize - 1 /\ i # mid BY <1>2
      <4>3. mid \in 0 .. kSize - 1 BY <1>2
      <4>4. \A i \in 0 .. mid - 1 : Place(i) # Place(mid) BY <1>4, <4>2, <4>3
      <4> QED BY <1>5, <3>3, <4>1, <4>4
    <3>5. Carrying' BY <1>0, <1>1, <3>1 DEF Carrying
    <3>6. Low1' = Low1 BY <1>1, <3>2 DEF Low1
    <3> QED BY <3>1, <3>4, <3>5, <3>6
  <2>2. CASE mid = 0
    <3>1. Goto(r, "half.index") BY <2>2 DEF HalfTake
    <3>2. Behind' = "half.index" /\ pc'[owner] = pc[owner]
      BY <1>0, <1>1, <3>1, LockedGoto DEF Locked
    <3>3. BackPopped' = {} BY <3>2 DEF BackPopped
    <3>4. BackPopped = {e} BY <1>5, <2>2
    <3>5. Carrying' BY <1>0, <1>1, <3>1, CarryKept DEF Pushing
    <3>6. Low1' = Low1 BY <1>1, <3>2 DEF Low1, QLo
    <3> QED BY <3>2, <3>3, <3>4, <3>5, <3>6
  <2> QED BY <2>1, <2>2
<1>8. FrontPopped' = FrontPopped /\ High' = High BY <1>1, <1>7, SameHigh
<1>9. \A i \in Low1 .. High - 1 : Place(i) # e
  <2>1. QueueFacts BY Queueing
  <2>2. Low1 = start + 1 BY <1>1 DEF Low1, QLo
  <2>3. \A i \in Low1 .. High - 1 : i \in 0 .. kSize - 1 /\ i # mid
    BY <1>2, <1>3, <2>1, <2>2 DEF QueueFacts
  <2>4. mid \in 0 .. kSize - 1 BY <1>2
  <2> QED BY <1>4, <2>3, <2>4
<1> HIDE DEF e
<1>10. Popped' = Popped \ {e} BY <1>6, <1>7, <1>8, PoppedClaims DEF Popped
<1>11. Holding'
  <2>1. elemWork'[e] = 0 BY <1>0, <1>1, <1>6 DEF TypeOK
  <2> QED BY <1>0, <1>1, <1>6, <1>10, <2>1, HoldAt
<1>12. OnePlace' BY <1>0, <1>1, <1>6, TakeItem
<1>13. ItemInv' BY <1>7, <1>11, <1>12 DEF ItemInv
<1>14. Still BY <1>1, <1>9, <1>13, StillElse
<1> QED BY <1>7, <1>8, <1>13, <1>14, QueueSame

-----------------------------------------------------------------------------
(* The steps that only look leave the items and the queue alone.           *)

LEMMA LookItems ==
  ASSUME RInv, RInv', ItemInv, NEW t \in Threads, NEW l, Goto(t, l), pc[t] \notin Pushing,
         l \notin Pushing,
         UNCHANGED <<front_, back_, elemState, elemWork, arg, start, issued, ran>>,
         pc'[owner] = pc[owner] \/ {pc[owner], pc'[owner]} \subseteq AskPlaces,
         (Behind' = Behind /\ mid' = mid) \/ {Behind, Behind'} \subseteq Quiet
  PROVE  ItemInv' /\ QueueStep
<1>0. Types /\ Carrying /\ Holding /\ OnePlace BY DEF RInv, ItemInv
<1>1. FrontPopped' = FrontPopped /\ High' = High BY SameHigh
<1>2. BackPopped' = BackPopped BY DEF BackPopped, Quiet
<1>3. Low1' = Low1 BY DEF Low1, QLo, Quiet
<1>4. Popped' = Popped BY <1>1, <1>2 DEF Popped
<1>5. Carrying' BY <1>0, CarryKept
<1>6. Holding' /\ OnePlace' BY <1>0, <1>4 DEF Holding, OnePlace
<1>7. ItemInv' BY <1>5, <1>6 DEF ItemInv
<1> QED BY <1>1, <1>3, <1>7, StillStored, QueueSame

LEMMA FreeItems ==
  ASSUME RInv, RInv', ItemInv, NEW t \in Threads, pc[t] \in AskPlaces \cup Unlocked,
         NEW l \in AskPlaces \cup Unlocked, l \in Unlocked => t \in Remotes, Goto(t, l),
         UNCHANGED <<front_, back_, elemState, elemWork, mutex_, arg, mid, start, issued, ran>>
  PROVE  ItemInv' /\ QueueStep
<1>0. Types /\ Places BY DEF RInv
<1>1. /\ Behind' = Behind
      /\ pc'[owner] = pc[owner] \/ {pc[owner], pc'[owner]} \subseteq AskPlaces
  BY <1>0, FreeGoto
<1>2. pc[t] \notin Pushing /\ l \notin Pushing BY DEF AskPlaces, Unlocked, Pushing
<1> QED BY <1>1, <1>2, LookItems

LEMMA SnapItems ==
  ASSUME RInv, RInv', ItemInv, NEW t \in Threads, SnapshotStep(t)
  PROVE  ItemInv' /\ QueueStep
<1>0. Types /\ Places BY DEF RInv
<1>1. UNCHANGED <<front_, back_, elemState, elemWork, mutex_, arg, mid, start, issued, ran>>
  BY DEF SnapshotStep, SnapBack, SnapRetry, ends, array, half, work
<1>2. PICK c \in Loads : (pc[t] = c[1] /\ Goto(t, c[2])) \/ (pc[t] = c[2] /\ Goto(t, c[1]))
  BY DEF SnapshotStep, SnapBack, SnapRetry
<1>3. CASE c = <<"size.back", "size.front1">>
  <2>1. PICK l \in {"size.back", "size.front1"} : Goto(t, l) BY <1>2, <1>3
  <2>2. pc[t] \in {"size.back", "size.front1"} BY <1>2, <1>3
  <2>3. pc[t] \in Locked /\ l \in Locked /\ t \in Remotes
    BY <1>0, <2>2 DEF Locked, Places
  <2>4. Behind = pc[t] /\ Behind' = l /\ pc'[owner] = pc[owner]
    BY <1>0, <1>1, <2>1, <2>3, LockedGoto
  <2>5. {Behind, Behind'} \subseteq Quiet BY <2>2, <2>4 DEF Quiet
  <2>6. pc[t] \notin Pushing /\ l \notin Pushing BY <2>2 DEF Pushing
  <2> QED BY <1>1, <2>1, <2>4, <2>5, <2>6, LookItems
<1>4. CASE c = <<"empty.back", "empty.front1">>
  BY <1>1, <1>2, <1>4, FreeItems DEF AskPlaces, Unlocked
<1>5. CASE c \in {<<"pop.back", "pop.front1">>, <<"half.back", "half.front1">>}
  <2>1. PICK l \in Unlocked : Goto(t, l) BY <1>2, <1>5 DEF Unlocked
  <2>2. pc[t] \in Unlocked BY <1>2, <1>5 DEF Unlocked
  <2>3. t \in Remotes BY <1>0, <2>2 DEF Places
  <2> QED BY <1>1, <2>1, <2>2, <2>3, FreeItems
<1> QED BY <1>3, <1>4, <1>5 DEF Loads

LEMMA ObserverItems ==
  ASSUME RInv, RInv', ItemInv, NEW t \in Threads, ObserverStep(t)
  PROVE  ItemInv' /\ QueueStep
<1>1. UNCHANGED <<front_, back_, elemState, elemWork, mutex_, arg, mid, start, issued, ran>>
  BY DEF ObserverStep, Empty, EmptyReturn, SnapFront, ends, array, half, work
<1> QED BY <1>1, FreeItems
        DEF ObserverStep, Empty, EmptyReturn, SnapFront, Consistent, AskPlaces, Unlocked

LEMMA AskItems ==
  ASSUME RInv, RInv', ItemInv, NEW r \in Remotes,
         PopBack(r) \/ PopBackEmpty(r) \/ PopBackHalf(r) \/ HalfEmpty(r)
  PROVE  ItemInv' /\ QueueStep
<1>1. /\ UNCHANGED <<front_, back_, elemState, elemWork, mutex_, arg, mid, start, issued, ran>>
      /\ r \in Threads
  BY DEF PopBack, PopBackEmpty, PopBackHalf, HalfEmpty, SnapFront, ends, array, half, work, Threads
<1>2. CASE PopBack(r) \/ PopBackHalf(r)
  BY <1>1, <1>2, FreeItems DEF PopBack, PopBackHalf, SnapFront, AskPlaces, Unlocked
<1>3. CASE PopBackEmpty(r) \/ HalfEmpty(r)
  <2>1. pc[r] \in AskPlaces \cup Unlocked
    BY <1>3 DEF PopBackEmpty, HalfEmpty, Consistent, Unlocked
  <2>2. \E l \in AskPlaces \cup Unlocked : Goto(r, l)
    BY <1>3 DEF PopBackEmpty, HalfEmpty, AskPlaces, Unlocked
  <2> QED BY <1>1, <2>1, <2>2, FreeItems
<1> QED BY <1>2, <1>3

LEMMA HalfLockItems ==
  ASSUME RInv, RInv', ItemInv, NEW r \in Remotes, HalfLock(r) \/ HalfSize(r)
  PROVE  ItemInv' /\ QueueStep
<1>0. Types /\ Places BY DEF RInv
<1>1. UNCHANGED <<front_, back_, elemState, elemWork, arg, start, issued, ran>> /\ r \in Threads
  BY DEF HalfLock, HalfSize, ends, array, half, work, Threads
<1>2. CASE HalfLock(r)
  <2>1. pc[r] = "half.lock" /\ mutex_ = None /\ mutex_' = r /\ Goto(r, "size.back")
    BY <1>2 DEF HalfLock
  <2>2. Behind = "free" /\ Behind' = "size.back" /\ pc'[owner] = pc[owner]
    BY <1>0, <2>1, Lock DEF Locked
  <2>3. {Behind, Behind'} \subseteq Quiet BY <2>2 DEF Quiet
  <2>4. pc[r] \notin Pushing /\ "size.back" \notin Pushing BY <2>1 DEF Pushing
  <2> QED BY <1>1, <2>1, <2>2, <2>3, <2>4, LookItems
<1>3. CASE HalfSize(r)
  <2>1. pc[r] = "size.front1" /\ mutex_' = mutex_ /\ Goto(r, "half.scan")
    BY <1>3 DEF HalfSize, Consistent
  <2>2. Behind = "size.front1" /\ Behind' = "half.scan" /\ pc'[owner] = pc[owner]
    BY <1>0, <2>1, LockedGoto DEF Locked
  <2>3. {Behind, Behind'} \subseteq Quiet BY <2>2 DEF Quiet
  <2>4. pc[r] \notin Pushing /\ "half.scan" \notin Pushing BY <2>1 DEF Pushing
  <2> QED BY <1>1, <2>1, <2>2, <2>3, <2>4, LookItems
<1> QED BY <1>2, <1>3

-----------------------------------------------------------------------------
(* The items are where they should be, and the queue changes at its ends.  *)

LEMMA InitItemInv == Init => ItemInv
<1> SUFFICES ASSUME Init PROVE ItemInv OBVIOUS
<1>1. PICK n \in Prefill :
        /\ elemState = [e \in Elements |-> IF e < n THEN "Ready" ELSE "Empty"]
        /\ elemWork = [e \in Elements |-> IF e < n THEN e + 1 ELSE 0]
        /\ issued = n
  BY DEF Init
<1>2. /\ mutex_ = None /\ pc = [t \in Threads |-> "idle"] /\ arg = [t \in Threads |-> 0]
      /\ ran = [w \in 1 .. MaxWork |-> 0]
  BY DEF Init
<1>3. n \in 0 .. kSize /\ n \in 0 .. MaxWork /\ n \in Nat /\ kSize \in Nat /\ MaxWork \in Nat
  BY RunQueueAssumption
<1>4. Behind = "free" /\ owner \in Threads BY <1>2 DEF Behind, Threads
<1>5. Popped = {} BY <1>2, <1>4 DEF Popped, FrontPopped, BackPopped
<1>6. Carrying BY <1>2 DEF Carrying, Pushing
<1>7. \A e \in Elements : e \in Nat /\ elemWork[e] = (IF e < n THEN e + 1 ELSE 0)
  BY <1>1 DEF Elements
<1>8. Holding
  <2>1. \A e \in Elements : elemState[e] = IF e < n THEN "Ready" ELSE "Empty" BY <1>1
  <2>2. \A e \in Elements : elemWork[e] # 0 <=> e < n BY <1>7
  <2> QED BY <1>5, <2>1, <2>2 DEF Holding
<1>9. OnePlace
  <2>1. \A e, f \in Elements : elemWork[e] = elemWork[f] /\ elemWork[e] # 0 => e = f BY <1>7
  <2>2. \A t \in Threads : arg[t] = 0 BY <1>2
  <2>3. \A e \in Elements : elemWork[e] # 0 => elemWork[e] <= issued /\ elemWork[e] \in 1 .. MaxWork
    BY <1>1, <1>3, <1>7
  <2>4. \A w \in 1 .. MaxWork : ran[w] = 0 BY <1>2
  <2>5. ASSUME NEW w \in 1 .. MaxWork, w <= issued PROVE \E e \in Elements : elemWork[e] = w
    <3>1. w - 1 \in Elements /\ w - 1 < n /\ (w - 1) + 1 = w BY <1>1, <1>3, <2>5 DEF Elements
    <3> QED BY <1>7, <3>1
  <2> QED BY <2>1, <2>2, <2>3, <2>4, <2>5 DEF OnePlace
<1> QED BY <1>6, <1>8, <1>9 DEF ItemInv

LEMMA NextItemInv == RInv /\ RInv' /\ ItemInv /\ [Next]_vars => ItemInv' /\ QueueStep
<1> SUFFICES ASSUME RInv, RInv', ItemInv, [Next]_vars PROVE ItemInv' /\ QueueStep OBVIOUS
<1>1. CASE UNCHANGED vars
  <2>1. /\ UNCHANGED <<front_, back_, elemState, elemWork, mutex_, pc, arg>>
        /\ UNCHANGED <<mid, start, issued, ran>>
    BY <1>1 DEF vars, ends, array, half, work
  <2>2. Behind' = Behind BY <2>1 DEF Behind
  <2>3. Popped' = Popped BY <2>1, <2>2 DEF Popped, FrontPopped, BackPopped
  <2>4. ItemInv' BY <2>1, <2>3 DEF ItemInv, Carrying, Holding, OnePlace
  <2>5. Low1' = Low1 /\ High' = High BY <2>1, <2>2 DEF Low1, High, Size
  <2> QED BY <2>1, <2>4, <2>5, StillStored, QueueSame
<1>2. CASE OwnerStep
  BY <1>2, PushFrontItems, PushFrontIndexItems, PushFrontReadyItems, PopFrontItems,
     PopFrontTakeItems, PopFrontIndexItems DEF OwnerStep
<1>3. ASSUME NEW r \in Remotes, RemoteStep(r) PROVE ItemInv' /\ QueueStep
  BY <1>3, PushBackItems, PushBackIndexItems, PushBackReadyItems, PopBackClaimItems,
     PopBackTakeItems, PopBackIndexItems, HalfLockItems, HalfScanItems, HalfTakeItems,
     HalfIndexItems, AskItems DEF RemoteStep
<1>4. ASSUME NEW t \in Threads, SnapshotStep(t) \/ ObserverStep(t) PROVE ItemInv' /\ QueueStep
  BY <1>4, SnapItems, ObserverItems
<1>5. Observers \subseteq Threads BY DEF Threads
<1> QED BY <1>1, <1>2, <1>3, <1>4, <1>5 DEF Next

LEMMA ItemInvHolds == Spec => []ItemInv
BY InitRInv, NextRInv, InitItemInv, NextItemInv, PTL DEF Spec

\* An element has an item when it is queued or when a pop has it, and never both.
LEMMA ReadyQueued ==
  ASSUME RInv, NEW i \in Lo(Behind, start) .. Lo(Behind, start) + kSize - 1,
         elemState[Place(i)] = "Ready"
  PROVE  i \in Low1 .. High - 1 \/ (Behind = "half.take" /\ i \in 0 .. mid)
<1>0. Types /\ Places /\ Halving BY DEF RInv
<1> DEFINE o == pc[owner]
           b == Behind
           n == Size
           lo == Lo(b, start)
<1>1. /\ Bounds(o, b, n, start) /\ n \in 0 .. 2 * kSize - 1 /\ lo \in 0 .. kSize - 1
      /\ mid \in 0 .. kSize /\ start \in -1 .. kSize /\ kSize \in Nat /\ kSize > 2
      /\ b = "half.take" => start \in mid .. kSize - 2
      /\ b = "half.index" => start \in 0 .. kSize - 2
      /\ b \notin {"half.take", "half.index"} => start = -1
  BY <1>0, Known, LoRange DEF Halving
<1>2. Due(o, b, n, start, mid, i) = "Ready" /\ i \in lo .. lo + kSize - 1 BY Known
<1>3. Low1 = QLo(b, start) /\ High = QHi(o, n) /\ lo = Lo(b, start) BY DEF Low1, High
<1> HIDE DEF o, b, n, lo
<1>4. i \in Low1 .. High - 1 \/ (b = "half.take" /\ i \in 0 .. mid)
  BY <1>1, <1>2, <1>3 DEF Lo, Bounds, Hi, Top, Due, Held, QLo, QHi
<1> QED BY <1>4 DEF b

LEMMA QueuedOrPopped ==
  RInv /\ ItemInv =>
    /\ \A i \in Low1 .. High - 1 : Place(i) \notin Popped
    /\ \A e \in Elements : elemWork[e] # 0 =>
         e \in Popped \/ \E i \in Low1 .. High - 1 : e = Place(i)
<1> SUFFICES ASSUME RInv, ItemInv
             PROVE  /\ \A i \in Low1 .. High - 1 : Place(i) \notin Popped
                    /\ \A e \in Elements : elemWork[e] # 0 =>
                         e \in Popped \/ \E i \in Low1 .. High - 1 : e = Place(i)
  OBVIOUS
<1>0. Types /\ Places /\ Halving /\ TypeOK /\ Holding BY DEF RInv, Types, ItemInv
<1>1. QueueFacts BY Queueing
<1>2. ASSUME NEW i \in Low1 .. High - 1, Place(i) \in Popped PROVE FALSE
  <2>1. elemState[Place(i)] = "Ready" /\ Place(i) \in Elements
        /\ i \in Lo(Behind, start) .. Lo(Behind, start) + kSize - 1 BY <1>1 DEF QueueFacts
  <2>2. PICK t \in Threads : /\ Place(i) \in Claims(t)
                             /\ pc[t] \in {"popfront.take", "popback.take", "half.take"}
    BY <1>2, PoppedClaims
  <2>3. pc[t] = "half.take" BY <2>1, <2>2, RInvExclusive DEF Exclusive
  <2>4. Behind = "half.take" BY <1>0, <2>3, Actors DEF Locked, Places
  <2>5. PICK j \in 0 .. mid : Place(i) = Place(j) BY <2>2, <2>3 DEF Claims, Place
  <2>6. /\ start \in mid .. kSize - 2 /\ Low1 = start + 1 /\ Lo(Behind, start) = 0
        /\ mid \in 0 .. kSize /\ kSize \in Nat
    BY <1>0, <2>4, Numbers DEF Halving, Low1, QLo, Lo, TypeOK
  <2>7. j \in Lo(Behind, start) .. Lo(Behind, start) + kSize - 1 /\ i # j BY <2>6
  <2> QED BY <2>1, <2>5, <2>7, Apart
<1>3. ASSUME NEW e \in Elements, elemWork[e] # 0, e \notin Popped
      PROVE  \E i \in Low1 .. High - 1 : e = Place(i)
  <2>1. elemState[e] = "Ready" BY <1>0, <1>3 DEF Holding
  <2>2. Lo(Behind, start) \in 0 .. kSize BY <1>1 DEF QueueFacts
  <2>3. PICK i \in Lo(Behind, start) .. Lo(Behind, start) + kSize - 1 : Place(i) = e
    BY <1>0, <2>2, Cover
  <2>4. CASE Behind = "half.take" /\ i \in 0 .. mid
    <3>1. e \in BackPopped BY <2>3, <2>4 DEF BackPopped, Place
    <3> QED BY <1>3, <3>1 DEF Popped
  <2> QED BY <2>1, <2>3, <2>4, ReadyQueued
<1> QED BY <1>2, <1>3

LEMMA QueuedItems ==
  RInv /\ ItemInv =>
    /\ Queued = Contents /\ Contents \in Seq(1 .. MaxWork) /\ Len(Contents) = High - Low1
    /\ \A j \in 1 .. High - Low1 :
         High - j \in Low1 .. High - 1 /\ Contents[j] = elemWork[Place(High - j)]
<1> SUFFICES ASSUME RInv, ItemInv
             PROVE  /\ Queued = Contents /\ Contents \in Seq(1 .. MaxWork)
                    /\ Len(Contents) = High - Low1
                    /\ \A j \in 1 .. High - Low1 :
                         High - j \in Low1 .. High - 1 /\ Contents[j] = elemWork[Place(High - j)]
  OBVIOUS
<1>1. Queued = Contents BY QueuedIs DEF Contents
<1>2. /\ Low1 \in Int /\ High \in Int /\ Low1 <= High
      /\ \A i \in Low1 .. High - 1 : Items[i] \in 1 .. MaxWork /\ Items[i] = elemWork[Place(i)]
  BY Queueing DEF QueueFacts
<1>3. /\ Contents \in Seq(1 .. MaxWork) /\ Len(Contents) = High - Low1
      /\ \A j \in 1 .. High - Low1 : Contents[j] = Items[High - j]
  BY <1>2, ViewSeq DEF Contents
<1>4. \A j \in 1 .. High - Low1 : High - j \in Low1 .. High - 1 BY <1>2
<1> QED BY <1>1, <1>2, <1>3, <1>4

LEMMA ItemsConserved == RInv /\ ItemInv => Conserved
<1> SUFFICES ASSUME RInv, ItemInv PROVE Conserved OBVIOUS
<1> DEFINE queue == Queued
           popped == UNION {Claims(t) : t \in {r \in Threads :
                              pc[r] \in {"popfront.take", "popback.take", "half.take"}}}
           A(w) == {i \in 1 .. Len(queue) : queue[i] = w}
           B(w) == {t \in Threads : arg[t] = w}
           D(w) == {e \in popped : elemWork[e] = w}
<1>0. TypeOK /\ OnePlace BY Known DEF ItemInv
<1>1. ASSUME NEW w \in 1 .. issued
      PROVE  Cardinality(A(w)) + Cardinality(B(w)) + Cardinality(D(w)) + ran[w] = 1
  <2>1. w \in 1 .. MaxWork /\ w # 0 /\ w <= issued BY <1>0, Numbers DEF TypeOK
  <2>2. /\ Len(queue) = High - Low1
        /\ \A j \in 1 .. High - Low1 :
             High - j \in Low1 .. High - 1 /\ queue[j] = elemWork[Place(High - j)]
    BY QueuedItems
  <2>3. Low1 \in Int /\ High \in Int
        /\ \A i \in Low1 .. High - 1 :
             Place(i) \in Elements /\ i \in Lo(Behind, start) .. Lo(Behind, start) + kSize - 1
    BY Queueing DEF QueueFacts
  <2>4. popped = Popped /\ Popped \subseteq Elements
    BY PoppedClaims DEF Popped, FrontPopped, BackPopped
  <2> HIDE DEF queue, popped
  <2>5. \A j \in A(w) : /\ High - j \in Low1 .. High - 1 /\ j = High - (High - j)
                        /\ Place(High - j) \in Elements /\ elemWork[Place(High - j)] = w
    <3>1. \A j \in 1 .. High - Low1 : j = High - (High - j) BY <2>3
    <3> QED BY <2>2, <2>3, <3>1
  <2>6. \A e \in D(w) : e \in Elements /\ e \in Popped /\ elemWork[e] = w BY <2>4
  <2>7. ran[w] \in {0, 1} BY <1>0, <2>1 DEF OnePlace
  <2>8. Cardinality({}) = 0 /\ \A x : Cardinality({x}) = 1 BY FS_EmptySet, FS_Singleton
  <2>9. CASE ran[w] = 1
    <3>1. (\A e \in Elements : elemWork[e] # w) /\ (\A t \in Threads : arg[t] # w)
      BY <1>0, <2>1, <2>9 DEF OnePlace
    <3>2. A(w) = {} /\ B(w) = {} /\ D(w) = {} BY <2>5, <2>6, <3>1
    <3>3. Cardinality(A(w)) = 0 /\ Cardinality(B(w)) = 0 /\ Cardinality(D(w)) = 0
      BY <2>8, <3>2, Zenon
    <3> HIDE DEF A, B, D
    <3> QED BY <2>9, <3>3
  <2>10. ASSUME NEW t \in Threads, arg[t] = w PROVE
           /\ A(w) = {} /\ B(w) = {t} /\ D(w) = {} /\ ran[w] = 0
    <3>1. \A e \in Elements : elemWork[e] # w BY <1>0, <2>1, <2>10 DEF OnePlace
    <3>2. ran[w] = 0 /\ \A u \in Threads : arg[u] = w => u = t
      BY <1>0, <2>1, <2>10 DEF OnePlace
    <3>3. A(w) = {} /\ D(w) = {} BY <2>5, <2>6, <3>1
    <3>4. B(w) = {t} BY <2>10, <3>2
    <3> QED BY <3>2, <3>3, <3>4
  <2>11. ASSUME NEW e \in Elements, elemWork[e] = w
         PROVE  /\ B(w) = {} /\ ran[w] = 0
                /\ (A(w) = {} /\ D(w) = {e}) \/ (D(w) = {} /\ \E j : A(w) = {j})
    <3>1. ran[w] = 0 /\ \A t \in Threads : arg[t] # w BY <1>0, <2>1, <2>11 DEF OnePlace
    <3>2. \A f \in Elements : elemWork[f] = w => f = e BY <1>0, <2>1, <2>11 DEF OnePlace
    <3>3. CASE e \in Popped
      <4>1. A(w) = {} BY <2>5, <3>2, <3>3, QueuedOrPopped
      <4>2. D(w) = {e} BY <2>4, <2>6, <2>11, <3>2, <3>3
      <4> QED BY <3>1, <4>1, <4>2
    <3>4. CASE e \notin Popped
      <4>1. PICK i \in Low1 .. High - 1 : e = Place(i) BY <2>1, <2>11, <3>4, QueuedOrPopped
      <4>2. \A j \in A(w) : High - j = i BY <2>3, <2>5, <3>2, <4>1, Apart
      <4>3. \A j \in A(w) : j = High - i BY <2>5, <4>2
      <4>4. High - i \in 1 .. High - Low1 /\ High - (High - i) = i BY <2>3
      <4>5. High - i \in A(w) BY <2>2, <2>11, <4>1, <4>4
      <4>6. A(w) = {High - i} BY <4>3, <4>5
      <4>7. D(w) = {} BY <2>6, <3>2, <3>4
      <4> QED BY <3>1, <4>6, <4>7
    <3> QED BY <3>3, <3>4
  <2>12. CASE ran[w] = 0
    <3>1. (\E e \in Elements : elemWork[e] = w) \/ (\E t \in Threads : arg[t] = w)
      BY <1>0, <2>1, <2>12 DEF OnePlace
    <3> HIDE DEF A, B, D
    <3>2. CASE \E t \in Threads : arg[t] = w
      <4>1. Cardinality(A(w)) = 0 /\ Cardinality(B(w)) = 1 /\ Cardinality(D(w)) = 0
        BY <2>8, <2>10, <3>2, Zenon
      <4> QED BY <2>12, <4>1
    <3>3. CASE \E e \in Elements : elemWork[e] = w
      <4>1. /\ Cardinality(B(w)) = 0
            /\ \/ Cardinality(A(w)) = 0 /\ Cardinality(D(w)) = 1
               \/ Cardinality(A(w)) = 1 /\ Cardinality(D(w)) = 0
        BY <2>8, <2>11, <3>3, Zenon
      <4> QED BY <2>12, <4>1
    <3> QED BY <3>1, <3>2, <3>3
  <2> QED BY <2>7, <2>9, <2>12
<1> QED BY <1>1 DEF Conserved

\* No item is lost and none is handed out twice, whatever the owner and the other threads do at
\* the two ends: each is queued, or in the hands of one push or one pop, or was given to one caller.
THEOREM NothingLost == Spec => []Conserved
BY ItemsConserved, RInvHolds, ItemInvHolds, PTL

QueueIsContents == Queued = Contents /\ Contents \in Seq(1 .. MaxWork)

LEMMA QueueContents == RInv /\ ItemInv => QueueIsContents
BY QueuedItems DEF QueueIsContents

LEMMA StepDeque == RInv /\ RInv' /\ ItemInv /\ ItemInv' /\ QueueStep => [Deque!NextRQ]_Queued
<1> SUFFICES ASSUME RInv, RInv', ItemInv, ItemInv', QueueStep, Queued' # Queued
             PROVE  Deque!NextRQ
  OBVIOUS
<1>1. Queued = Contents /\ Contents \in Seq(1 .. MaxWork) BY QueuedItems
<1>2. Queued' = Contents' /\ Contents' \in Seq(1 .. MaxWork)
  <2>1. QueueIsContents' BY QueueContents, PTL
  <2> QED BY <2>1 DEF QueueIsContents
<1>3. Queued' \in Seq(1 .. MaxWork) BY <1>2
<1>4. CASE Len(Contents') = Len(Contents) + 1 /\ Contents = Tail(Contents')
  BY <1>1, <1>2, <1>3, <1>4, Zenon DEF Deque!NextRQ, Deque!PushFront, Deque!Grows
<1>5. CASE Len(Contents') = Len(Contents) + 1 /\ Contents = SubSeq(Contents', 1, Len(Contents))
  BY <1>1, <1>2, <1>3, <1>5, Zenon DEF Deque!NextRQ, Deque!PushBack, Deque!Grows
<1>6. CASE Len(Contents) = Len(Contents') + 1 /\ Contents' = Tail(Contents)
  <2>1. Contents # <<>>
    <3>1. Len(Contents') \in Nat BY <1>2
    <3>2. Len(Contents) # 0 BY <1>6, <3>1
    <3> QED BY <3>2
  <2> QED BY <1>1, <1>2, <1>3, <1>6, <2>1, Zenon DEF Deque!NextRQ, Deque!PopFront
<1>7. CASE Len(Contents) > Len(Contents') /\ Contents' = SubSeq(Contents, 1, Len(Contents'))
  BY <1>1, <1>2, <1>3, <1>7, Zenon DEF Deque!NextRQ, Deque!PopBackHalf, Deque!DropBack
<1> QED BY <1>1, <1>2, <1>4, <1>5, <1>6, <1>7 DEF QueueStep

\* The run queue is an atomic deque: an item enters at the moment its element becomes ready and
\* leaves at the moment it is claimed, and only at the ends.
THEOREM ImplementsDeque == Spec => DequeSpec
<1>1. RInv /\ ItemInv => Deque!InitRQ BY QueuedItems DEF Deque!InitRQ
<1> QED BY <1>1, InitRInv, InitItemInv, RInvHolds, ItemInvHolds, NextItemInv, StepDeque, PTL
        DEF Spec, DequeSpec, Deque!SpecRQ
=============================================================================

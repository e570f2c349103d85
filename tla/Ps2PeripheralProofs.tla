------------------------ MODULE Ps2PeripheralProofs -------------------------
(***************************************************************************)
(* The port as the FPGA has it, for every frame size and depth, any bytes, *)
(* and any timing of the device and of the master.                         *)
(*                                                                         *)
(* The FIFO comes first, by itself: every clock edge, with any combination *)
(* of write, read and flush that the flags allow, maps to a step of        *)
(* ByteQueue.  The port keeps to what the FIFO asks of its user, so that   *)
(* the FIFO in it is a bounded queue.                                      *)
(*                                                                         *)
(* Then the frames: what the controller presents as received, and what the *)
(* device acknowledges, are whole frames with the right byte.  The         *)
(* invariant has a part for each direction, which relates the shift        *)
(* register, the parity and the bit counter to what the line has carried   *)
(* of the frame, and a part about the enable signal: that a byte asked for *)
(* is loaded before anything can overwrite it.                             *)
(***************************************************************************)
EXTENDS Ps2Peripheral, SequenceTheorems, FiniteSetTheorems, TLAPS

-----------------------------------------------------------------------------
(* Arithmetic of the pointers.                                             *)
LEMMA Remainder ==
  ASSUME NEW x \in Nat, NEW m \in Nat \ {0}, NEW k \in {0, 1, 2},
         k * m <= x, x < (k + 1) * m
  PROVE  x % m = x - k * m
<1> DEFINE n == x \div m
<1>1. n \in Int /\ x % m \in 0 .. m - 1 /\ x = n * m + (x % m)
  OBVIOUS
<1>2. n = k
  <2> HIDE DEF n
  <2>1. ~(n <= k - 1)
    <3> SUFFICES ASSUME n <= k - 1 PROVE FALSE
      OBVIOUS
    <3>1. n * m <= (k - 1) * m
      BY <1>1
    <3> QED  BY <1>1, <3>1
  <2>2. ~(n >= k + 1)
    <3> SUFFICES ASSUME n >= k + 1 PROVE FALSE
      OBVIOUS
    <3>1. n * m >= (k + 1) * m
      BY <1>1
    <3> QED  BY <1>1, <3>1
  <2> QED  BY <1>1, <2>1, <2>2
<1> QED  BY <1>1, <1>2

LEMMA Once ==
  ASSUME NEW x \in Nat, NEW m \in Nat \ {0}, m <= x, x < 2 * m
  PROVE  x % m = x - m
<1> DEFINE k == 1
<1>1. k \in {0, 1, 2} /\ k * m <= x /\ x < (k + 1) * m
  OBVIOUS
<1>2. x % m = x - k * m
  <2> HIDE DEF k
  <2> QED  BY <1>1, Remainder
<1> QED  BY <1>2

LEMMA Twice ==
  ASSUME NEW x \in Nat, NEW m \in Nat \ {0}, 2 * m <= x, x < 3 * m
  PROVE  x % m = x - 2 * m
<1> DEFINE k == 2
<1>1. k \in {0, 1, 2} /\ k * m <= x /\ x < (k + 1) * m
  OBVIOUS
<1>2. x % m = x - k * m
  <2> HIDE DEF k
  <2> QED  BY <1>1, Remainder
<1> QED  BY <1>2

(* Addresses: a pointer, or one a few places on, without its wrap bit.     *)
LEMMA Address ==
  ASSUME NEW x \in 0 .. 3 * Depth - 1
  PROVE  x % Depth = IF x < Depth THEN x
                     ELSE IF x < 2 * Depth THEN x - Depth ELSE x - 2 * Depth
<1> USE DepthAssumption
<1>1. CASE x < Depth
  BY <1>1
<1>2. CASE x >= Depth /\ x < 2 * Depth
  <2>1. x % Depth = x - Depth
    BY <1>2, Once
  <2> QED  BY <1>2, <2>1
<1>3. CASE x >= 2 * Depth
  <2>1. x \in Nat /\ 2 * Depth <= x /\ x < 3 * Depth
    BY <1>3
  <2>2. x % Depth = x - 2 * Depth
    BY <2>1, Twice
  <2> QED  BY <1>3, <2>2
<1> QED  BY <1>1, <1>2, <1>3

LEMMA Wrap ==
  ASSUME NEW x \in 0 .. 4 * Depth - 1
  PROVE  x % (2 * Depth) = IF x < 2 * Depth THEN x ELSE x - 2 * Depth
<1> USE DepthAssumption
<1> DEFINE m == 2 * Depth
<1>1. m \in Nat \ {0}
  OBVIOUS
<1>2. CASE x < m
  <2> HIDE DEF m
  <2> QED  BY <1>1, <1>2
<1>3. CASE x >= m
  <2>1. x < 2 * m /\ m <= x /\ x \in Nat
    BY <1>3
  <2>2. x % m = x - m
    <3> HIDE DEF m
    <3> QED  BY <1>1, <2>1, Once
  <2> QED  BY <1>3, <2>2
<1> QED  BY <1>2, <1>3

LEMMA Advanced ==
  ASSUME NEW p \in Pointer, NEW by \in BOOLEAN
  PROVE  /\ Advance(p, by) \in Pointer
         /\ Advance(p, FALSE) = p
         /\ Advance(p, TRUE) = IF p = 2 * Depth - 1 THEN 0 ELSE p + 1
<1> USE DepthAssumption DEF Pointer
<1>1. Advance(p, FALSE) = p
  <2>1. p + 0 \in 0 .. 4 * Depth - 1 /\ p + 0 < 2 * Depth
    OBVIOUS
  <2>2. (p + 0) % (2 * Depth) = p
    BY <2>1, Wrap
  <2> QED  BY <2>2 DEF Advance
<1>2. Advance(p, TRUE) = IF p = 2 * Depth - 1 THEN 0 ELSE p + 1
  <2>1. p + 1 \in 0 .. 4 * Depth - 1
    OBVIOUS
  <2>2. (p + 1) % (2 * Depth) = IF p + 1 < 2 * Depth THEN p + 1 ELSE p + 1 - 2 * Depth
    BY <2>1, Wrap
  <2>3. Advance(p, TRUE) = (p + 1) % (2 * Depth)
    BY DEF Advance
  <2>4. CASE p = 2 * Depth - 1
    <3>1. ~(p + 1 < 2 * Depth) /\ p + 1 - 2 * Depth = 0
      BY <2>4
    <3> QED  BY <2>2, <2>3, <2>4, <3>1
  <2>5. CASE p # 2 * Depth - 1
    <3>1. p + 1 < 2 * Depth
      BY <2>5
    <3> QED  BY <2>2, <2>3, <2>5, <3>1
  <2> QED  BY <2>4, <2>5
<1>3. Advance(p, by) \in {Advance(p, FALSE), Advance(p, TRUE)}
  <2>1. by = TRUE \/ by = FALSE
    OBVIOUS
  <2> QED  BY <2>1
<1>4. Advance(p, TRUE) \in Pointer
  <2>1. CASE p = 2 * Depth - 1
    <3>1. Advance(p, TRUE) = 0
      BY <1>2, <2>1, Zenon
    <3>2. 0 \in Pointer
      OBVIOUS
    <3> QED  BY <3>1, <3>2, Zenon
  <2>2. CASE p # 2 * Depth - 1
    <3>1. Advance(p, TRUE) = p + 1
      BY <1>2, <2>2, Zenon
    <3>2. p + 1 \in Pointer
      BY <2>2
    <3> QED  BY <3>1, <3>2, Zenon
  <2> QED  BY <2>1, <2>2
<1>5. Advance(p, by) \in Pointer
  BY <1>1, <1>3, <1>4, Zenon
<1> QED  BY <1>1, <1>2, <1>5

LEMMA OppositeIs ==
  ASSUME NEW p \in Pointer
  PROVE  Opposite(p) = IF p < Depth THEN p + Depth ELSE p - Depth
<1>1. p + Depth \in 0 .. 4 * Depth - 1 /\ p \in Nat
  BY DepthAssumption DEF Pointer
<1>2. (p + Depth) % (2 * Depth) = IF p + Depth < 2 * Depth THEN p + Depth
                                  ELSE (p + Depth) - 2 * Depth
  BY <1>1, Wrap, Zenon
<1>3. Opposite(p) = (p + Depth) % (2 * Depth)
  BY DEF Opposite
<1>4. CASE p < Depth
  <2>1. p + Depth < 2 * Depth
    BY <1>1, <1>4, DepthAssumption
  <2> QED  BY <1>2, <1>3, <1>4, <2>1
<1>5. CASE ~(p < Depth)
  <2>1. ~(p + Depth < 2 * Depth) /\ (p + Depth) - 2 * Depth = p - Depth
    BY <1>1, <1>5, DepthAssumption
  <2> QED  BY <1>2, <1>3, <1>5, <2>1
<1> QED  BY <1>4, <1>5

(* The distance from one pointer to another.                               *)
Distance(r, w) == (w + 2 * Depth - r) % (2 * Depth)

LEMMA DistanceIs ==
  ASSUME NEW r \in Pointer, NEW w \in Pointer
  PROVE  Distance(r, w) = IF r <= w THEN w - r ELSE w + 2 * Depth - r
<1> DEFINE x == w + 2 * Depth - r
<1>1. x \in 0 .. 4 * Depth - 1 /\ w \in Int /\ r \in Int
  BY DepthAssumption DEF Pointer
<1>2. x % (2 * Depth) = IF x < 2 * Depth THEN x ELSE x - 2 * Depth
  BY <1>1, Wrap
<1> QED  BY <1>1, <1>2, DepthAssumption DEF Distance

(* Where a byte is k places behind a pointer.                              *)
Loc(p, k) == (p + k) % Depth

(* The same without remainders.                                            *)
Folded(x) == IF x < Depth THEN x
             ELSE IF x < 2 * Depth THEN x - Depth ELSE x - 2 * Depth

LEMMA LocIs ==
  ASSUME NEW p \in Pointer, NEW k \in 0 .. Depth, p + k < 3 * Depth
  PROVE  Loc(p, k) = Folded(p + k)
<1>1. p + k \in 0 .. 3 * Depth - 1
  BY DepthAssumption DEF Pointer
<1> QED  BY <1>1, Address DEF Loc, Folded

LEMMA LocAddr ==
  ASSUME NEW p \in Pointer, NEW k \in 0 .. Depth - 1
  PROVE  Loc(p, k) \in Addr
<1>1. p + k < 3 * Depth /\ k \in 0 .. Depth
  BY DepthAssumption DEF Pointer
<1>2. Loc(p, k) = Folded(p + k)
  BY <1>1, LocIs
<1> QED  BY <1>1, <1>2, DepthAssumption DEF Folded, Addr, Pointer

LEMMA LocNext ==
  ASSUME NEW p \in Pointer, NEW k \in 0 .. Depth - 1
  PROVE  Loc(Advance(p, TRUE), k) = Loc(p, k + 1)
<1> USE DepthAssumption
<1>1. CASE p = 2 * Depth - 1 /\ k = Depth - 1
  <2>1. Loc(p, k + 1) = (3 * Depth - 1) % Depth
    <3>1. p + (k + 1) = 3 * Depth - 1
      BY <1>1
    <3> QED  BY <3>1 DEF Loc
  <2>2. (3 * Depth - 1) % Depth = Depth - 1
    <3>1. 3 * Depth - 1 \in 0 .. 3 * Depth - 1
      OBVIOUS
    <3> QED  BY <3>1, Address
  <2>3. Advance(p, TRUE) = 0
    BY <1>1, Advanced
  <2>4. Loc(0, k) = Folded(0 + k)
    BY LocIs DEF Pointer
  <2>5. Folded(0 + k) = Depth - 1
    BY <1>1 DEF Folded
  <2> QED  BY <2>1, <2>2, <2>3, <2>4, <2>5
<1>2. CASE ~(p = 2 * Depth - 1 /\ k = Depth - 1)
  <2> DEFINE p1 == Advance(p, TRUE)
  <2>1. p1 \in Pointer /\ p1 = IF p = 2 * Depth - 1 THEN 0 ELSE p + 1
    BY Advanced
  <2>2. p + (k + 1) < 3 * Depth /\ p1 + k < 3 * Depth /\ k \in 0 .. Depth /\ k + 1 \in 0 .. Depth
    <3> HIDE DEF p1
    <3> QED  BY <1>2, <2>1 DEF Pointer
  <2>3. Loc(p, k + 1) = Folded(p + (k + 1)) /\ Loc(p1, k) = Folded(p1 + k)
    <3> HIDE DEF p1
    <3> QED  BY <2>1, <2>2, LocIs
  <2>4. Folded(p1 + k) = Folded(p + (k + 1))
    <3> HIDE DEF p1
    <3> QED  BY <2>1, <2>2 DEF Folded, Pointer
  <2> QED  BY <2>3, <2>4
<1> QED  BY <1>1, <1>2

LEMMA LocApart ==
  ASSUME NEW p \in Pointer, NEW j \in 0 .. Depth - 1, NEW k \in 0 .. Depth - 1, j # k
  PROVE  Loc(p, j) # Loc(p, k)
<1>1. /\ p + j < 3 * Depth /\ j \in 0 .. Depth
      /\ p + k < 3 * Depth /\ k \in 0 .. Depth
  BY DepthAssumption DEF Pointer
<1>2. Loc(p, j) = Folded(p + j) /\ Loc(p, k) = Folded(p + k)
  BY <1>1, LocIs
<1> QED  BY <1>1, <1>2, DepthAssumption DEF Folded, Pointer

(* The place after the last byte is where the next one is written.         *)
LEMMA LocEnd ==
  ASSUME NEW r \in Pointer, NEW w \in Pointer, Distance(r, w) \in 0 .. Depth - 1
  PROVE  Loc(r, Distance(r, w)) = w % Depth
<1> DEFINE n == Distance(r, w)
<1>1. n = IF r <= w THEN w - r ELSE w + 2 * Depth - r
  BY DistanceIs
<1>2. w % Depth = Folded(w)
  <2>1. w \in 0 .. 3 * Depth - 1
    BY DepthAssumption DEF Pointer
  <2> QED  BY <2>1, Address DEF Folded
<1>3. r + n < 3 * Depth /\ n \in 0 .. Depth
  BY DepthAssumption DEF Pointer
<1>4. Loc(r, n) = Folded(r + n)
  <2> HIDE DEF n
  <2> QED  BY <1>3, LocIs
<1>5. Folded(r + n) = Folded(w)
  <2> HIDE DEF n
  <2> QED  BY <1>1, <1>3, DepthAssumption DEF Folded, Pointer
<1> QED  BY <1>2, <1>4, <1>5

LEMMA DistanceNext ==
  ASSUME NEW r \in Pointer, NEW w \in Pointer
  PROVE  /\ Distance(r, w) \in Nat
         /\ Distance(r, w) = 0 <=> w = r
         /\ Distance(r, w) > 0 => Distance(Advance(r, TRUE), w) = Distance(r, w) - 1
         /\ Distance(r, w) < Depth => Distance(r, Advance(w, TRUE)) = Distance(r, w) + 1
<1> USE DepthAssumption
<1> DEFINE r1 == Advance(r, TRUE)
           w1 == Advance(w, TRUE)
<1>1. /\ r1 \in Pointer /\ r1 = IF r = 2 * Depth - 1 THEN 0 ELSE r + 1
      /\ w1 \in Pointer /\ w1 = IF w = 2 * Depth - 1 THEN 0 ELSE w + 1
  BY Advanced
<1>2. Distance(r, w) = IF r <= w THEN w - r ELSE w + 2 * Depth - r
  BY DistanceIs
<1>3. Distance(r1, w) = IF r1 <= w THEN w - r1 ELSE w + 2 * Depth - r1
  <2> HIDE DEF r1
  <2> QED  BY <1>1, DistanceIs
<1>4. Distance(r, w1) = IF r <= w1 THEN w1 - r ELSE w1 + 2 * Depth - r
  <2> HIDE DEF w1
  <2> QED  BY <1>1, DistanceIs
<1> HIDE DEF r1, w1
<1>5. Distance(r, w) \in Nat /\ (Distance(r, w) = 0 <=> w = r)
  BY <1>2 DEF Pointer
<1>6. ASSUME Distance(r, w) > 0 PROVE Distance(r1, w) = Distance(r, w) - 1
  BY <1>1, <1>2, <1>3, <1>6 DEF Pointer
<1>7. ASSUME Distance(r, w) < Depth PROVE Distance(r, w1) = Distance(r, w) + 1
  BY <1>1, <1>2, <1>4, <1>7 DEF Pointer
<1> QED  BY <1>5, <1>6, <1>7 DEF r1, w1

LEMMA FullIs ==
  ASSUME NEW r \in Pointer, NEW w \in Pointer
  PROVE  Opposite(w) = r <=> Distance(r, w) = Depth
<1>1. Distance(r, w) = IF r <= w THEN w - r ELSE w + 2 * Depth - r
  BY DistanceIs
<1>2. Opposite(w) = IF w < Depth THEN w + Depth ELSE w - Depth
  BY OppositeIs
<1> QED  BY <1>1, <1>2, DepthAssumption DEF Pointer

-----------------------------------------------------------------------------
(* The flags speak of the fill level: full exactly, empty one cycle late.  *)
Fill == Distance(rptr, wptr)

FifoInv ==
  /\ FifoTypeOK
  /\ Fill <= Depth
  /\ full = (Fill = Depth)
  /\ ~empty => Fill > 0

LEMMA ZeroPointer == 0 \in Pointer /\ Distance(0, 0) = 0 /\ 0 # Depth
<1>1. 0 \in Pointer
  BY DepthAssumption DEF Pointer
<1> QED  BY <1>1, DistanceNext, DepthAssumption

(* The queue of two pointers and a memory.                                 *)
Queued(r, w, mem) == [i \in 1 .. Distance(r, w) |-> mem[Loc(r, i - 1)]]

LEMMA ContentsIs ==
  /\ Contents = Queued(rptr, wptr, ram)
  /\ Contents' = Queued(rptr', wptr', ram')
BY DEF Contents, Queued, Distance, Loc

LEMMA QueuedIs ==
  ASSUME NEW r \in Pointer, NEW w \in Pointer, NEW mem \in [Addr -> Data],
         Distance(r, w) <= Depth
  PROVE  /\ Queued(r, w, mem) \in Seq(Data)
         /\ Len(Queued(r, w, mem)) = Distance(r, w)
         /\ \A i \in 1 .. Distance(r, w) : Queued(r, w, mem)[i] = mem[Loc(r, i - 1)]
<1>1. Distance(r, w) \in Nat
  BY DistanceNext
<1>2. \A i \in 1 .. Distance(r, w) : mem[Loc(r, i - 1)] \in Data
  <2> TAKE i \in 1 .. Distance(r, w)
  <2>1. i - 1 \in 0 .. Depth - 1
    BY <1>1, DepthAssumption
  <2>2. Loc(r, i - 1) \in Addr
    BY <2>1, LocAddr
  <2> QED  BY <2>2
<1> QED  BY <1>1, <1>2 DEF Queued

LEMMA QueuedNone ==
  ASSUME NEW mem
  PROVE  Queued(0, 0, mem) = <<>>
BY ZeroPointer DEF Queued

LEMMA FifoInitial ==
  ASSUME FifoInit
  PROVE  FifoInv /\ Queue!Init
<1>1. Fill = 0
  BY ZeroPointer DEF FifoInit, Fill
<1>2. FifoTypeOK
  BY ZeroPointer DEF FifoInit, FifoTypeOK
<1>3. FifoInv
  <2>1. full = FALSE /\ Fill # Depth /\ Fill <= Depth
    BY <1>1, DepthAssumption DEF FifoInit
  <2> QED  BY <1>2, <2>1 DEF FifoInit, FifoInv
<1>4. Contents = <<>>
  BY ContentsIs, QueuedNone DEF FifoInit
<1> QED  BY <1>3, <1>4 DEF FifoInit, Queue!Init

(* Everything leaves with a flush, also what is written in its cycle.      *)
LEMMA FlushStep ==
  ASSUME FifoInv, NEW d \in Data, NEW wr \in BOOLEAN, NEW rd \in BOOLEAN,
         FifoStep(TRUE, d, wr, rd)
  PROVE  FifoInv' /\ Queue!Flush
<1> USE DepthAssumption
<1>1. wptr' = 0 /\ rptr' = 0 /\ empty' = TRUE /\ full' = FALSE
  BY DEF FifoStep
<1>2. ram' \in [Addr -> Data]
  <2>1. wptr % Depth \in Addr
    BY DEF FifoInv, FifoTypeOK, Addr, Pointer
  <2> QED  BY <2>1 DEF FifoStep, FifoInv, FifoTypeOK
<1>3. q' \in Data
  <2>1. Advance(rptr, rd) \in Pointer
    BY Advanced DEF FifoInv, FifoTypeOK
  <2>2. Advance(rptr, rd) % Depth \in Addr
    BY <2>1 DEF Addr, Pointer
  <2>3. q' = ram[Advance(rptr, rd) % Depth]
    BY DEF FifoStep
  <2> QED  BY <2>2, <2>3 DEF FifoInv, FifoTypeOK
<1>4. Fill' = 0
  <2>1. Fill' = Distance(0, 0)
    BY <1>1 DEF Fill, Distance
  <2> QED  BY <2>1, ZeroPointer
<1>5. FifoTypeOK'
  BY <1>1, <1>2, <1>3, ZeroPointer DEF FifoTypeOK
<1>6. FifoInv'
  <2>1. Fill' # Depth /\ Fill' <= Depth
    BY <1>4
  <2> QED  BY <1>1, <1>5, <2>1 DEF FifoInv
<1>7. Contents' = <<>>
  BY <1>1, ContentsIs, QueuedNone
<1> QED  BY <1>1, <1>3, <1>6, <1>7 DEF Queue!Flush

(* What is left after an acknowledge is the queue from the next pointer.   *)
LEMMA RestIs ==
  ASSUME NEW r \in Pointer, NEW w \in Pointer, NEW mem \in [Addr -> Data],
         Distance(r, w) \in 1 .. Depth
  PROVE  /\ Queued(r, w, mem) # <<>>
         /\ Tail(Queued(r, w, mem)) = Queued(Advance(r, TRUE), w, mem)
<1> DEFINE s == Queued(r, w, mem)
           r1 == Advance(r, TRUE)
           t == Queued(r1, w, mem)
           n == Distance(r, w)
<1>1. r1 \in Pointer /\ Distance(r1, w) = n - 1
  <2>1. r1 \in Pointer
    BY Advanced
  <2>2. Distance(r, w) > 0
    OBVIOUS
  <2> QED  BY <2>1, <2>2, DistanceNext
<1>2. /\ s \in Seq(Data) /\ Len(s) = n
      /\ \A i \in 1 .. n : s[i] = mem[Loc(r, i - 1)]
  BY QueuedIs
<1>3. /\ t \in Seq(Data) /\ Len(t) = n - 1
      /\ \A i \in 1 .. n - 1 : t[i] = mem[Loc(r1, i - 1)]
  <2>1. n - 1 <= Depth
    BY DepthAssumption
  <2> HIDE DEF n, r1
  <2> QED  BY <1>1, <2>1, QueuedIs
<1>4. s # <<>>
  <2> HIDE DEF s, n
  <2> QED  BY <1>2, EmptySeq DEF n
<1>5. /\ Tail(s) \in Seq(Data) /\ Len(Tail(s)) = n - 1
      /\ \A i \in 1 .. n - 1 : Tail(s)[i] = s[i + 1]
  <2> HIDE DEF s, n
  <2> QED  BY <1>2, <1>4, HeadTailProperties
<1>6. \A i \in 1 .. n - 1 : Tail(s)[i] = t[i]
  <2> TAKE i \in 1 .. n - 1
  <2>1. i - 1 \in 0 .. Depth - 1 /\ i + 1 \in 1 .. n /\ (i + 1) - 1 = (i - 1) + 1
    BY DepthAssumption
  <2>2. Loc(r1, i - 1) = Loc(r, (i - 1) + 1)
    BY <2>1, LocNext
  <2> HIDE DEF s, t, n, r1
  <2>3. Tail(s)[i] = mem[Loc(r, (i + 1) - 1)]
    BY <1>2, <1>5, <2>1
  <2> QED  BY <1>3, <2>1, <2>2, <2>3
<1>7. Tail(s) = t
  <2> HIDE DEF s, t, n, r1
  <2> QED  BY <1>3, <1>5, <1>6, SeqEqual
<1> QED  BY <1>4, <1>7

(* A byte written at the end is appended, and leaves the others alone.     *)
LEMMA PutIs ==
  ASSUME NEW r \in Pointer, NEW w \in Pointer, NEW mem \in [Addr -> Data],
         NEW d \in Data, Distance(r, w) < Depth
  PROVE  Queued(r, Advance(w, TRUE), [mem EXCEPT ![w % Depth] = d])
           = Queued(r, w, mem) \o <<d>>
<1> DEFINE s == Queued(r, w, mem)
           w1 == Advance(w, TRUE)
           n == Distance(r, w)
           mem1 == [mem EXCEPT ![w % Depth] = d]
           t == Queued(r, w1, mem1)
<1>0. n \in 0 .. Depth - 1
  <2>1. n \in Nat
    BY DistanceNext
  <2> HIDE DEF n
  <2>2. n < Depth
    BY DEF n
  <2> QED  BY <2>1, <2>2, DepthAssumption
<1>1. w1 \in Pointer /\ Distance(r, w1) = n + 1
  BY Advanced, DistanceNext
<1>2. Loc(r, n) = w % Depth /\ w % Depth \in Addr
  <2>1. Loc(r, n) = w % Depth
    BY <1>0, LocEnd
  <2>2. Loc(r, n) \in Addr
    <3> HIDE DEF n
    <3> QED  BY <1>0, LocAddr
  <2> QED  BY <2>1, <2>2, Zenon
<1>3. mem1 \in [Addr -> Data]
  BY <1>2
<1>4. /\ s \in Seq(Data) /\ Len(s) = n
      /\ \A i \in 1 .. n : s[i] = mem[Loc(r, i - 1)]
  <2>1. Distance(r, w) <= Depth
    BY <1>0, DepthAssumption
  <2> QED  BY <2>1, QueuedIs
<1>5. /\ t \in Seq(Data) /\ Len(t) = n + 1
      /\ \A i \in 1 .. n + 1 : t[i] = mem1[Loc(r, i - 1)]
  <2>1. n + 1 <= Depth
    BY <1>0, DepthAssumption
  <2> HIDE DEF n, w1, mem1
  <2> QED  BY <1>1, <1>3, <2>1, QueuedIs
<1>6. /\ s \o <<d>> \in Seq(Data) /\ Len(s \o <<d>>) = n + 1
      /\ \A i \in 1 .. n + 1 : (s \o <<d>>)[i] = IF i <= n THEN s[i] ELSE d
  <2>1. <<d>> \in Seq(Data) /\ Len(<<d>>) = 1 /\ <<d>>[1] = d
    OBVIOUS
  <2> HIDE DEF s, n
  <2> QED  BY <1>0, <1>4, <2>1, ConcatProperties
<1>7. \A i \in 1 .. n + 1 : t[i] = (s \o <<d>>)[i]
  <2> TAKE i \in 1 .. n + 1
  <2>1. CASE i <= n
    <3>1. i - 1 \in 0 .. Depth - 1 /\ i - 1 # n
      <4> HIDE DEF n
      <4> QED  BY <1>0, <2>1, DepthAssumption
    <3>2. Loc(r, i - 1) # Loc(r, n) /\ Loc(r, i - 1) \in Addr
      <4> HIDE DEF n
      <4> QED  BY <1>0, <3>1, LocApart, LocAddr
    <3>3. mem1[Loc(r, i - 1)] = mem[Loc(r, i - 1)]
      BY <1>2, <3>2
    <3> HIDE DEF s, t, n, mem1
    <3> QED  BY <1>0, <1>4, <1>5, <1>6, <2>1, <3>3
  <2>2. CASE i = n + 1
    <3>1. i - 1 = n
      BY <1>0, <2>2
    <3>2. mem1[Loc(r, i - 1)] = d
      <4>1. mem1[w % Depth] = d
        BY <1>2
      <4> HIDE DEF n, mem1
      <4> QED  BY <1>2, <3>1, <4>1
    <3> HIDE DEF s, t, n, mem1
    <3> QED  BY <1>0, <1>5, <1>6, <2>2, <3>2
  <2>3. i <= n \/ i = n + 1
    <3> HIDE DEF n
    <3> QED  BY <1>0
  <2> QED  BY <2>1, <2>2, <2>3
<1>8. t = s \o <<d>>
  <2> HIDE DEF s, t, n
  <2> QED  BY <1>5, <1>6, <1>7, SeqEqual
<1> QED  BY <1>8

(* Without a flush the pointers move by what is acknowledged and written.  *)
LEMMA ClockedStep ==
  ASSUME FifoInv, NEW d \in Data, NEW wr \in BOOLEAN, NEW rd \in BOOLEAN,
         wr => ~full, rd => ~empty, FifoStep(FALSE, d, wr, rd)
  PROVE  /\ FifoInv' /\ Queue!Clocked
         /\ Queue!Show(IF rd THEN Tail(Contents) ELSE Contents, IF wr THEN <<d>> ELSE <<>>)
<1> USE DepthAssumption
<1> DEFINE r1 == Advance(rptr, rd)
           rest == IF rd THEN Tail(Contents) ELSE Contents
           put == IF wr THEN <<d>> ELSE <<>>
           left == Distance(r1, wptr)
<1>1. /\ rptr \in Pointer /\ wptr \in Pointer /\ ram \in [Addr -> Data]
      /\ r1 \in Pointer /\ wptr' \in Pointer
  BY Advanced DEF FifoInv, FifoTypeOK, FifoStep
<1>2. wptr' = Advance(wptr, wr) /\ rptr' = r1
  BY DEF FifoStep
<1>3. /\ empty' = (wptr = r1) /\ full' = (Opposite(wptr') = r1)
      /\ q' = ram[r1 % Depth]
  BY <1>2 DEF FifoStep
<1>4. ram' = IF wr THEN [ram EXCEPT ![wptr % Depth] = d] ELSE ram
  BY DEF FifoStep
<1>5. /\ Fill \in Nat /\ Fill <= Depth /\ full = (Fill = Depth)
      /\ rd => Fill > 0
      /\ wr => Fill < Depth
  <2>1. Fill \in Nat
    BY <1>1, DistanceNext DEF Fill
  <2> QED  BY <2>1 DEF FifoInv

(* What is left.                                                           *)
<1>6. rest = Queued(r1, wptr, ram) /\ left = Fill - (IF rd THEN 1 ELSE 0)
  <2>1. CASE rd
    <3>1. Fill \in 1 .. Depth /\ r1 = Advance(rptr, TRUE) /\ rest = Tail(Contents)
      BY <1>5, <2>1
    <3>2. Tail(Contents) = Queued(Advance(rptr, TRUE), wptr, ram)
      BY <1>1, <3>1, ContentsIs, RestIs DEF Fill
    <3>3. Distance(Advance(rptr, TRUE), wptr) = Fill - 1
      <4>1. Distance(rptr, wptr) > 0
        BY <3>1 DEF Fill
      <4> QED  BY <1>1, <4>1, DistanceNext DEF Fill
    <3> HIDE DEF rest, r1
    <3> QED  BY <2>1, <3>1, <3>2, <3>3 DEF left
  <2>2. CASE ~rd
    <3>1. r1 = rptr /\ rest = Contents
      <4>1. rd = FALSE
        BY <2>2
      <4> QED  BY <1>1, <4>1, Advanced
    <3> HIDE DEF rest, r1
    <3> QED  BY <1>5, <2>2, <3>1, ContentsIs DEF Fill, left
  <2> QED  BY <2>1, <2>2
<1> HIDE DEF r1, rest
<1>7. left \in 0 .. Depth /\ (wr => left < Depth) /\ left <= Fill
  BY <1>5, <1>6
<1>8. /\ rest \in Seq(Data) /\ Len(rest) = left
      /\ \A i \in 1 .. left : rest[i] = ram[Loc(r1, i - 1)]
  <2>1. Distance(r1, wptr) <= Depth
    BY <1>7
  <2> QED  BY <1>1, <1>6, <2>1, QueuedIs
<1>9. rest = <<>> <=> left = 0
  <2> HIDE DEF left
  <2> QED  BY <1>7, <1>8, EmptySeq

(* What is added.                                                          *)
<1>10. /\ Contents' = rest \o put /\ ram' \in [Addr -> Data]
       /\ Fill' = left + (IF wr THEN 1 ELSE 0)
  <2>1. Contents' = Queued(r1, wptr', ram') /\ Fill' = Distance(r1, wptr')
    BY <1>2, ContentsIs DEF Fill
  <2>2. CASE wr
    <3>1. wptr' = Advance(wptr, TRUE) /\ ram' = [ram EXCEPT ![wptr % Depth] = d]
      <4>1. wr = TRUE
        BY <2>2
      <4> QED  BY <1>2, <1>4, <4>1
    <3>2. Distance(r1, wptr) < Depth
      BY <1>7, <2>2
    <3>3. Contents' = rest \o <<d>>
      BY <1>1, <1>6, <2>1, <3>1, <3>2, PutIs
    <3>4. Fill' = left + 1
      BY <1>1, <2>1, <3>1, <3>2, DistanceNext
    <3> QED  BY <1>1, <2>2, <3>1, <3>3, <3>4
  <2>3. CASE ~wr
    <3>1. wptr' = wptr /\ ram' = ram
      <4>1. wr = FALSE
        BY <2>3
      <4> QED  BY <1>1, <1>2, <1>4, <4>1, Advanced
    <3>2. Contents' = rest
      BY <1>6, <2>1, <3>1
    <3>3. rest \o <<>> = rest
      BY <1>8, ConcatEmptySeq
    <3>4. Fill' = left + 0
      BY <1>7, <2>1, <3>1
    <3> QED  BY <1>1, <2>3, <3>1, <3>2, <3>3, <3>4
  <2> QED  BY <2>2, <2>3
<1>11. put \in Queue!Put /\ (put # <<>> => ~full)
  BY DEF Queue!Put
<1>12. rptr' = r1 /\ Fill' <= Depth
  <2> HIDE DEF left
  <2> QED  BY <1>2, <1>7, <1>10

(* The flags and the byte on display.                                      *)
<1>13. empty' = (rest = <<>>) /\ (~empty' => Fill' > 0)
  <2>1. left = 0 <=> wptr = r1
    BY <1>1, DistanceNext
  <2>2. empty' = (left = 0)
    <3> HIDE DEF left
    <3> QED  BY <1>3, <2>1
  <2> HIDE DEF left
  <2>3. ~empty' => Fill' > 0
    <3>1. left # 0 => Fill' > 0
      BY <1>7, <1>10
    <3> QED  BY <2>2, <3>1
  <2> QED  BY <1>9, <2>2, <2>3
<1>14. full' = (Fill' = Depth) /\ full' = (Len(Contents') = Depth)
  <2>1. Opposite(wptr') = r1 <=> Fill' = Depth
    BY <1>1, <1>2, FullIs DEF Fill
  <2>2. Len(Contents') = Fill'
    <3>1. Distance(rptr', wptr') <= Depth /\ rptr' \in Pointer
      BY <1>1, <1>12 DEF Fill
    <3> QED  BY <1>1, <1>10, <3>1, ContentsIs, QueuedIs DEF Fill
  <2> QED  BY <1>3, <2>1, <2>2
<1>15. q' \in Data /\ (rest # <<>> => q' = Head(rest))
  <2>1. r1 % Depth = Loc(r1, 0) /\ Loc(r1, 0) \in Addr
    <3>1. r1 + 0 = r1
      BY <1>1 DEF Pointer
    <3>2. Loc(r1, 0) \in Addr
      BY <1>1, LocAddr
    <3> QED  BY <3>1, <3>2 DEF Loc
  <2>2. q' \in Data
    BY <1>1, <1>3, <2>1
  <2>3. ASSUME rest # <<>> PROVE q' = Head(rest)
    <3>1. 1 \in 1 .. left
      <4> HIDE DEF left
      <4> QED  BY <1>7, <1>9, <2>3
    <3>2. rest[1] = ram[Loc(r1, 1 - 1)] /\ Head(rest) = rest[1]
      <4> HIDE DEF left
      <4> QED  BY <1>8, <3>1
    <3> QED  BY <1>3, <2>1, <3>2
  <2> QED  BY <2>2, <2>3
<1>16. FifoTypeOK'
  BY <1>1, <1>3, <1>10, <1>12, <1>15 DEF FifoTypeOK
<1>17. FifoInv'
  BY <1>12, <1>13, <1>14, <1>16 DEF FifoInv
<1>18. Queue!Show(rest, put)
  BY <1>10, <1>13, <1>14, <1>15 DEF Queue!Show
<1>19. rest = Contents \/ (~empty /\ rest = Tail(Contents))
  BY DEF rest
<1>20. Queue!Clocked
  BY <1>11, <1>18, <1>19 DEF Queue!Clocked
<1> QED  BY <1>17, <1>18, <1>20 DEF rest

(* Every edge of the clock, as long as the FIFO is written only when it is *)
(* not full and popped only when it is not empty.                          *)
LEMMA FifoEdge ==
  ASSUME FifoInv, NEW fl \in BOOLEAN, NEW d \in Data, NEW wr \in BOOLEAN,
         NEW rd \in BOOLEAN, wr => ~full, rd => ~empty, FifoStep(fl, d, wr, rd)
  PROVE  /\ FifoInv' /\ Queue!Next
         /\ fl => Queue!Flush
         /\ ~fl => Queue!Show(IF rd THEN Tail(Contents) ELSE Contents, IF wr THEN <<d>> ELSE <<>>)
<1>1. CASE fl
  <2>1. FifoStep(TRUE, d, wr, rd)
    BY <1>1 DEF FifoStep
  <2>2. FifoInv' /\ Queue!Flush
    BY <2>1, FlushStep
  <2> QED  BY <1>1, <2>2 DEF Queue!Next
<1>2. CASE ~fl
  <2>1. FifoStep(FALSE, d, wr, rd)
    BY <1>2 DEF FifoStep
  <2>2. /\ FifoInv' /\ Queue!Clocked
        /\ Queue!Show(IF rd THEN Tail(Contents) ELSE Contents, IF wr THEN <<d>> ELSE <<>>)
    BY <2>1, ClockedStep
  <2> QED  BY <1>2, <2>2 DEF Queue!Next
<1> QED  BY <1>1, <1>2

-----------------------------------------------------------------------------
(* The port around the FIFO.                                               *)

(* What gets into the FIFO is a byte, as is all it is made of.             *)
Bytes ==
  /\ shreg \in Byte /\ rx_data \in Byte /\ tx_data \in Byte
  /\ pbit \in Bit /\ ps2_dat_od \in Bit

LEMMA ZeroByte == Zero \in Byte
  BY DEF Zero, Byte, Bit

(* Shifting a bit in at the end of a byte.                                 *)
LEMMA ShiftByte ==
  ASSUME NEW b \in Byte, NEW bit \in Bit
  PROVE  Append(Tail(b), bit) \in Byte /\ Head(b) \in Bit
<1>1. /\ b \in Seq(Bit) /\ Len(b) = W
  BY PayloadAssumption DEF Byte
<1>2. b # <<>>
  BY <1>1, EmptySeq, PayloadAssumption
<1>3. Head(b) \in Bit /\ Tail(b) \in Seq(Bit) /\ Len(Tail(b)) = W - 1
  BY <1>1, <1>2, HeadTailProperties
<1>4. Append(Tail(b), bit) \in Seq(Bit) /\ Len(Append(Tail(b), bit)) = W
  <2> DEFINE t == Tail(b)
  <2> HIDE DEF t
  <2>1. Append(t, bit) \in Seq(Bit) /\ Len(Append(t, bit)) = Len(t) + 1
    BY <1>3 DEF t
  <2> QED  BY <1>3, <2>1, PayloadAssumption DEF t
<1>5. Append(Tail(b), bit) \in Byte
  BY <1>4, LenProperties DEF Byte
<1> QED  BY <1>3, <1>5

LEMMA BytesInit == Init => Bytes
BY ZeroByte DEF Init, ControllerInit, Bytes, Bit

LEMMA BytesStep ==
  ASSUME Bytes, NEW i \in Input, Cycle(i)
  PROVE  Bytes'
<1>1. i.dat \in Bit
  BY DEF Input
<1>2. rx_data' \in Byte
  BY DEF Bytes, Cycle, ControllerStep, DataPath, DataIn
<1>3. tx_data' \in Byte
  BY ZeroByte, PayloadAssumption DEF Bytes, Cycle, Transfer, Packet
<1>4. Head(shreg) \in Bit
  BY ShiftByte DEF Bytes
<1>5. shreg' \in Byte
  <2>1. Shift(i.dat) \in Byte /\ Shift(ps2_dat_od) \in Byte
    BY <1>1, ShiftByte DEF Bytes, Shift
  <2>2. shreg' \in {tx_data, Shift(i.dat), Shift(ps2_dat_od), shreg}
    BY DEF Cycle, ControllerStep, DataPath, ShiftRegister
  <2> QED  BY <2>1, <2>2 DEF Bytes
<1>6. pbit' \in Bit
  <2>1. Xor(pbit, i.dat) \in Bit /\ Xor(pbit, Head(shreg)) \in Bit
    BY <1>1, <1>4 DEF Bytes, Xor, Bit
  <2>2. pbit' \in {1, Xor(pbit, i.dat), Xor(pbit, Head(shreg)), pbit}
    BY DEF Cycle, ControllerStep, DataPath, Parity
  <2> QED  BY <2>1, <2>2 DEF Bytes, Bit
<1>7. ps2_dat_od' \in Bit
  <2>1. ps2_dat_od' \in {ps2_dat_od, 0, Head(shreg), pbit, 1}
    BY DEF Cycle, ControllerStep, DataPath, DataOut
  <2> QED  BY <1>4, <2>1 DEF Bytes, Bit
<1> QED  BY <1>2, <1>3, <1>5, <1>6, <1>7 DEF Bytes

-----------------------------------------------------------------------------
(* A clock cycle of the port is one of the FIFO, used as it asks to be.    *)
LEMMA PortInit == Init => Bytes /\ FifoInv /\ Queue!Init
<1> SUFFICES ASSUME Init PROVE FifoInv /\ Queue!Init
  BY BytesInit
<1>1. FifoInit
  BY DEF Init
<1> QED  BY <1>1, FifoInitial

LEMMA FifoCycle ==
  ASSUME Bytes, FifoInv, NEW i \in Input, Cycle(i)
  PROVE  /\ FifoInv' /\ Queue!Next
         /\ sclr => Queue!Flush
         /\ ~sclr => Queue!Show(IF ack THEN Tail(Contents) ELSE Contents,
                               IF we THEN <<rx_data>> ELSE <<>>)
<1>1. /\ sclr \in BOOLEAN /\ we \in BOOLEAN /\ ack \in BOOLEAN /\ rx_data \in Data
      /\ we => ~full
      /\ ack => ~empty
  BY WidthAssumption DEF sclr, we, ack, fifo_wr, Bytes
<1>2. FifoStep(sclr, rx_data, we, ack)
  BY DEF Cycle
<1> HIDE DEF sclr, we, ack
<1> QED  BY <1>1, <1>2, FifoEdge

LEMMA PortStep ==
  Bytes /\ FifoInv /\ [Next]_vars => Bytes' /\ FifoInv' /\ [Queue!Next]_(Queue!vars)
<1> SUFFICES ASSUME Bytes, FifoInv, [Next]_vars
             PROVE  Bytes' /\ FifoInv' /\ [Queue!Next]_(Queue!vars)
  OBVIOUS
<1>1. CASE Next
  <2>1. PICK i \in Input : Cycle(i)
    BY <1>1 DEF Next
  <2>2. Bytes'
    BY <2>1, BytesStep
  <2>3. FifoInv' /\ Queue!Next
    BY <2>1, FifoCycle
  <2> QED  BY <2>2, <2>3
<1>2. CASE UNCHANGED vars
  <2>1. Bytes'
    BY <1>2 DEF vars, Bytes
  <2>2. UNCHANGED fifoVars
    BY <1>2 DEF vars, fifoVars
  <2>3. FifoInv'
    BY <2>2 DEF fifoVars, FifoInv, FifoTypeOK, Fill, Distance
  <2>4. UNCHANGED Queue!vars
    BY <2>2, ContentsIs DEF fifoVars, Queue!vars
  <2> QED  BY <2>1, <2>3, <2>4
<1> QED  BY <1>1, <1>2

(* The FIFO of the port is a queue: nothing is lost, repeated or swapped   *)
(* between what the controller writes and what the transfers pop, and full *)
(* and empty say what they promise, for every depth (sa_sc_fifo.sv with    *)
(* the strobes of ps2_peripheral_spi_wrapper.sv).                          *)
THEOREM FifoIsQueue == Spec => FifoSpec
<1> QED  BY PortInit, PortStep, PTL DEF Spec, FifoSpec, Queue!Spec

-----------------------------------------------------------------------------
(* Bits, parity, and the data part of a frame.                             *)
ParityOf(s) == (1 + Ones(s)) % 2

LEMMA OnesAppend ==
  ASSUME NEW s \in Seq(Bit), NEW b \in Bit
  PROVE  Ones(s) \in Nat /\ Ones(Append(s, b)) = Ones(s) + b
<1> DEFINE n == Len(s)
           t == Append(s, b)
           A == {k \in DOMAIN s : s[k] = 1}
           B == {k \in DOMAIN t : t[k] = 1}
<1>1. n \in Nat /\ DOMAIN s = 1 .. n
  BY LenProperties
<1>2. /\ t \in Seq(Bit) /\ Len(t) = n + 1
      /\ \A k \in 1 .. n : t[k] = s[k]
      /\ t[n + 1] = b
  BY AppendProperties
<1>3. DOMAIN t = 1 .. n + 1
  BY <1>2, LenProperties
<1>4. IsFiniteSet(A) /\ Cardinality(A) \in Nat
  <2>1. A \in SUBSET (1 .. n)  BY <1>1
  <2>2. IsFiniteSet(1 .. n)  BY <1>1, FS_Interval
  <2>3. IsFiniteSet(A)  BY <2>1, <2>2, FS_Subset
  <2> QED  BY <2>3, FS_CardinalityType
<1>5. n + 1 \notin A
  BY <1>1
<1>6. B = IF b = 1 THEN A \cup {n + 1} ELSE A
  <2> HIDE DEF t, n
  <2> QED  BY <1>1, <1>2, <1>3
<1>7. Cardinality(A \cup {n + 1}) = Cardinality(A) + 1
  BY <1>4, <1>5, FS_AddElement
<1>8. Ones(s) = Cardinality(A) /\ Ones(t) = Cardinality(B)
  BY DEF Ones
<1> HIDE DEF A, B, t, n
<1>9. CASE b = 1
  BY <1>4, <1>6, <1>7, <1>8, <1>9 DEF t
<1>10. CASE b = 0
  BY <1>4, <1>6, <1>8, <1>10 DEF t
<1> QED  BY <1>9, <1>10 DEF Bit

LEMMA OnesNone == Ones(<<>>) = 0 /\ ParityOf(<<>>) = 1
<1>1. {k \in DOMAIN <<>> : <<>>[k] = 1} = {}
  OBVIOUS
<1>2. Ones(<<>>) = 0  BY <1>1, FS_EmptySet DEF Ones
<1> QED  BY <1>2 DEF ParityOf

(* A bit more.                                                             *)
LEMMA ParityAppend ==
  ASSUME NEW s \in Seq(Bit), NEW b \in Bit
  PROVE  /\ ParityOf(s) \in Bit
         /\ ParityOf(Append(s, b)) = Xor(ParityOf(s), b)
         /\ b = ParityOf(s) => Ones(Append(s, b)) % 2 = 1
<1> DEFINE o == Ones(s)
<1>1. o \in Nat /\ Ones(Append(s, b)) = o + b
  BY OnesAppend
<1> HIDE DEF o
<1>2. (1 + o) % 2 \in Bit /\ (1 + (o + b)) % 2 = (((1 + o) % 2) + b) % 2
  BY <1>1 DEF Bit
<1>3. b = (1 + o) % 2 => (o + b) % 2 = 1
  BY <1>1 DEF Bit
<1> QED  BY <1>1, <1>2, <1>3 DEF ParityOf, Xor, o

(* The data in a frame of which the line has carried the start bit.        *)
LEMMA DataGrows ==
  ASSUME NEW f \in Seq(Bit), NEW b \in Bit, NEW n \in Nat, n >= 1
  PROVE  /\ n <= Len(f) => /\ SubSeq(Append(f, b), 2, n) = SubSeq(f, 2, n)
                           /\ SubSeq(f, 2, n) \in Seq(Bit)
                           /\ Len(SubSeq(f, 2, n)) = n - 1
                           /\ \A k \in 1 .. n - 1 : SubSeq(f, 2, n)[k] = f[k + 1]
         /\ n = Len(f) => SubSeq(Append(f, b), 2, n + 1) = Append(SubSeq(f, 2, n), b)
<1> DEFINE g == Append(f, b)
           s == SubSeq(f, 2, n)
<1>1. /\ g \in Seq(Bit) /\ Len(g) = Len(f) + 1
      /\ \A k \in 1 .. Len(f) : g[k] = f[k]
      /\ g[Len(f) + 1] = b
  BY AppendProperties
<1>2. /\ \A k \in 1 .. Len(f) : f[k] \in Bit
      /\ Len(f) \in Nat
  BY ElementOfSeq, LenProperties
<1>3. \A k \in 1 .. Len(g) : g[k] \in Bit
  BY <1>1, ElementOfSeq
<1>4. ASSUME n <= Len(f)
      PROVE  /\ s \in Seq(Bit) /\ Len(s) = n - 1
             /\ \A k \in 1 .. n - 1 : s[k] = f[k + 1]
  <2>1. \A k \in 2 .. n : f[k] \in Bit  BY <1>2, <1>4
  <2>2. /\ s \in Seq(Bit)
        /\ Len(s) = IF 2 <= n THEN n - 2 + 1 ELSE 0
        /\ \A k \in 1 .. n - 2 + 1 : s[k] = f[2 + k - 1]
    BY <2>1, SubSeqProperties
  <2> QED  BY <2>2
<1>5. ASSUME NEW m \in {n, n + 1}, m <= Len(g)
      PROVE  /\ SubSeq(g, 2, m) \in Seq(Bit) /\ Len(SubSeq(g, 2, m)) = m - 1
             /\ \A k \in 1 .. m - 1 : SubSeq(g, 2, m)[k] = g[k + 1]
  <2> DEFINE h == SubSeq(g, 2, m)
  <2>1. m \in Int /\ \A k \in 2 .. m : g[k] \in Bit
    <3> HIDE DEF g
    <3> QED  BY <1>3, <1>5
  <2>2. /\ h \in Seq(Bit)
        /\ Len(h) = IF 2 <= m THEN m - 2 + 1 ELSE 0
        /\ \A k \in 1 .. m - 2 + 1 : h[k] = g[2 + k - 1]
    <3> HIDE DEF g
    <3> QED  BY <2>1, SubSeqProperties
  <2> HIDE DEF h, g
  <2>3. h \in Seq(Bit) /\ Len(h) = m - 1  BY <2>2, <1>5
  <2>4. \A k \in 1 .. m - 1 : h[k] = g[k + 1]  BY <2>2, <1>5
  <2> QED  BY <2>3, <2>4 DEF h
<1>6. ASSUME n <= Len(f)
      PROVE  SubSeq(g, 2, n) = s
  <2> HIDE DEF g, s
  <2> DEFINE h == SubSeq(g, 2, n)
  <2>1. n <= Len(g)  BY <1>1, <1>2, <1>6
  <2>2. /\ h \in Seq(Bit) /\ Len(h) = n - 1
        /\ \A k \in 1 .. n - 1 : h[k] = g[k + 1]
    BY <1>5, <2>1
  <2> HIDE DEF h
  <2>3. ASSUME NEW k \in 1 .. n - 1 PROVE h[k] = s[k]
    <3>1. k + 1 \in 1 .. Len(f)  BY <1>2, <1>6
    <3>2. h[k] = g[k + 1] /\ s[k] = f[k + 1]  BY <1>4, <1>6, <2>2
    <3> QED  BY <1>1, <3>1, <3>2
  <2>4. h = s  BY <1>4, <1>6, <2>2, <2>3, SeqEqual
  <2> QED  BY <2>4 DEF h
<1>7. ASSUME n = Len(f)
      PROVE  SubSeq(g, 2, n + 1) = Append(s, b)
  <2> HIDE DEF g, s
  <2> DEFINE h == SubSeq(g, 2, n + 1)
             a == Append(s, b)
  <2>1. n + 1 <= Len(g) /\ n <= Len(f)  BY <1>1, <1>2, <1>7
  <2>2. /\ h \in Seq(Bit) /\ Len(h) = n
        /\ \A k \in 1 .. n : h[k] = g[k + 1]
    BY <1>5, <2>1
  <2>3. /\ a \in Seq(Bit) /\ Len(a) = n
        /\ \A k \in 1 .. n - 1 : a[k] = s[k]
        /\ a[n] = b
    BY <1>4, <2>1, AppendProperties
  <2> HIDE DEF h, a
  <2>4. \A k \in 1 .. n : h[k] = a[k]
    <3> SUFFICES ASSUME NEW k \in 1 .. n PROVE h[k] = a[k]  OBVIOUS
    <3>1. CASE k = n
      <4>1. h[n] = g[n + 1] /\ a[n] = b  BY <2>2, <2>3
      <4>2. g[n + 1] = b  BY <1>1, <1>7
      <4> QED  BY <3>1, <4>1, <4>2
    <3>2. CASE k < n
      <4>1. k \in 1 .. n - 1 /\ k + 1 \in 1 .. Len(f)  BY <1>7, <3>2
      <4> QED  BY <1>1, <1>4, <2>1, <2>2, <2>3, <4>1
    <3> QED  BY <3>1, <3>2
  <2>5. h = a  BY <2>2, <2>3, <2>4, SeqEqual
  <2> QED  BY <2>5 DEF h, a
<1> QED  BY <1>4, <1>6, <1>7

(* The shift register a step later.                                        *)
LEMMA Shifted ==
  ASSUME NEW r \in Byte, NEW b \in Bit
  PROVE  /\ Append(Tail(r), b) \in Byte
         /\ \A k \in 1 .. W - 1 : Append(Tail(r), b)[k] = r[k + 1]
         /\ Append(Tail(r), b)[W] = b
         /\ Head(r) = r[1]
<1> DEFINE t == Tail(r)
<1>1. r \in Seq(Bit) /\ Len(r) = W
  BY PayloadAssumption DEF Byte
<1>2. r # <<>>
  BY <1>1, EmptySeq, PayloadAssumption
<1>3. t \in Seq(Bit) /\ Len(t) = W - 1 /\ \A k \in 1 .. W - 1 : t[k] = r[k + 1]
  BY <1>1, <1>2, HeadTailProperties
<1>4. Head(r) = r[1]
  BY <1>1, <1>2
<1> HIDE DEF t
<1>5. /\ Len(Append(t, b)) = W
      /\ \A k \in 1 .. W - 1 : Append(t, b)[k] = t[k]
      /\ Append(t, b)[W] = b
  BY <1>3, AppendProperties, PayloadAssumption
<1>6. Append(t, b) \in Byte
  BY ShiftByte DEF t
<1> QED  BY <1>3, <1>4, <1>5, <1>6 DEF t

-----------------------------------------------------------------------------
(* Where the state machine can have come from.                             *)
LEMMA Moves ==
  ASSUME NEW i \in Input, ControllerStep(i), state \in State
  PROVE  /\ state' \in State
         /\ ~en => state' = "INHIBIT"
         /\ state' = "DT_SAMPLE" =>
              en /\ ~tx_rqst /\ (state \in {"RX_IDLE", "RX_WAIT"} \/ (state = "DT_SAMPLE" /\ ~i.tc))
         /\ state' = "RX_WAIT" =>
              en /\ ~tx_rqst /\ (state = "RX_WAIT" \/ (Taken(i) /\ bitcnt # W + 2))
         /\ state' = "RX_DONE" => Taken(i) /\ bitcnt = W + 2
         /\ state' = "GEN_RQST" => Requested \/ (state = "GEN_RQST" /\ ~i.tc)
         /\ state' = "TX_IDLE" => \/ state = "TX_IDLE" /\ ~i.negedge
                                  \/ state = "GEN_RQST" /\ i.tc
                                  \/ state \in {"GEN_DBIT", "GEN_PARITY", "GEN_STOP"}
         /\ state' = "GEN_DBIT" =>
              state = "TX_IDLE" /\ i.negedge /\ bitcnt \notin {W + 1, W + 2, W + 3}
         /\ state' = "GEN_PARITY" => state = "TX_IDLE" /\ i.negedge /\ bitcnt = W + 1
         /\ state' = "GEN_STOP" => state = "TX_IDLE" /\ i.negedge /\ bitcnt = W + 2
         /\ state' = "DT_SAMPLE_ACK" => \/ state = "TX_IDLE" /\ i.negedge /\ bitcnt = W + 3
                                        \/ state = "DT_SAMPLE_ACK" /\ ~i.tc
         /\ state' = "TX_DONE" => state \in {"DT_SAMPLE_ACK", "TX_DONE"}
<1> USE DEF ControllerStep, NextState, GoTo, RxState, TxState, ErrState
<1>1. CASE Inhibited
  BY <1>1 DEF Inhibited, Requested, State
<1>2. CASE RxBreak
  BY <1>2 DEF RxBreak, Requested, State
<1>3. CASE TxBreak
  BY <1>3 DEF TxBreak, State
<1>4. CASE Failed
  BY <1>4 DEF Failed, error, State
<1>5. CASE RxIdle(i)
  BY <1>5 DEF RxIdle, State
<1>6. CASE DtSample(i)
  <2>1. i.tc /\ ~rx_ferr(i.dat) /\ ~perr(i.dat) <=> Taken(i)
    BY <1>6 DEF DtSample, Taken
  <2>2. state' = IF ~i.tc THEN "DT_SAMPLE" ELSE IF rx_ferr(i.dat) THEN "FERR"
                 ELSE IF perr(i.dat) THEN "PERR"
                 ELSE IF bitcnt = W + 2 THEN "RX_DONE" ELSE "RX_WAIT"
    BY <1>6, <2>1 DEF DtSample
  <2> QED  BY <1>6, <2>1, <2>2 DEF DtSample, State
<1>7. CASE RxWait(i)
  BY <1>7 DEF RxWait, State
<1>8. CASE RxDone
  BY <1>8 DEF RxDone, State
<1>9. CASE GenRqst(i)
  BY <1>9 DEF GenRqst, State
<1>10. CASE TxIdle(i)
  BY <1>10 DEF TxIdle, State
<1>11. CASE GenBit
  BY <1>11 DEF GenBit, State
<1>12. CASE DtSampleAck(i)
  BY <1>12 DEF DtSampleAck, State
<1>13. CASE TxDone
  BY <1>13 DEF TxDone, State
<1> QED
  BY <1>1, <1>2, <1>3, <1>4, <1>5, <1>6, <1>7, <1>8, <1>9, <1>10, <1>11, <1>12, <1>13

(* The data path, register by register.                                    *)
LEMMA DataStep ==
  ASSUME NEW i \in Input, ControllerStep(i)
  PROVE  /\ Requested => shreg' = tx_data
         /\ Taken(i) /\ dbits => shreg' = Append(Tail(shreg), i.dat) /\ pbit' = Xor(pbit, i.dat)
         /\ state = "GEN_DBIT" =>
              /\ shreg' = Append(Tail(shreg), ps2_dat_od) /\ pbit' = Xor(pbit, Head(shreg))
              /\ ps2_dat_od' = Head(shreg)
         /\ ~Requested /\ ~(Taken(i) /\ dbits) /\ state # "GEN_DBIT" => shreg' = shreg
         /\ state \in {"RX_IDLE", "GEN_RQST"} => pbit' = 1
         /\ state \notin {"RX_IDLE", "GEN_RQST", "GEN_DBIT"} /\ ~(Taken(i) /\ dbits) => pbit' = pbit
         /\ Taken(i) /\ bitcnt = W + 2 => rx_data' = shreg
         /\ state = "TX_IDLE" => ps2_dat_od' = ps2_dat_od
         /\ state = "GEN_RQST" => ps2_dat_od' = 0
         /\ state = "GEN_PARITY" => ps2_dat_od' = pbit
         /\ state \notin {"TX_IDLE", "GEN_RQST", "GEN_PARITY", "GEN_DBIT"} => ps2_dat_od' = 1
<1>1. Taken(i) => state = "DT_SAMPLE" /\ ~Requested
  BY DEF Taken, Requested
<1>2. Requested => state # "GEN_DBIT"
  BY DEF Requested, RxState
<1> HIDE DEF Taken, Requested, dbits
<1>3. shreg' = CASE Requested -> tx_data
                 [] Taken(i) /\ dbits -> Append(Tail(shreg), i.dat)
                 [] state = "GEN_DBIT" -> Append(Tail(shreg), ps2_dat_od)
                 [] OTHER -> shreg
  BY DEF ControllerStep, DataPath, ShiftRegister, Shift
<1>4. pbit' = CASE state \in {"RX_IDLE", "GEN_RQST"} -> 1
                [] Taken(i) /\ dbits -> Xor(pbit, i.dat)
                [] state = "GEN_DBIT" -> Xor(pbit, Head(shreg))
                [] OTHER -> pbit
  BY DEF ControllerStep, DataPath, Parity
<1>5. ps2_dat_od' = CASE state = "TX_IDLE" -> ps2_dat_od
                      [] state = "GEN_RQST" -> 0
                      [] state = "GEN_DBIT" -> Head(shreg)
                      [] state = "GEN_PARITY" -> pbit
                      [] OTHER -> 1
  BY DEF ControllerStep, DataPath, DataOut
<1>6. Taken(i) /\ bitcnt = W + 2 => rx_data' = shreg
  BY DEF ControllerStep, DataPath, DataIn
<1> QED  BY <1>1, <1>2, <1>3, <1>4, <1>5, <1>6

-----------------------------------------------------------------------------
(* How much of the frame the line has carried, by the state and the bit    *)
(* counter.  A request that has been on the line for a cycle has started   *)
(* the counter and the parity anew.                                        *)
Sizes ==
  /\ bitcnt \in 0 .. W + 3
  /\ line \in Seq(Bit) /\ Len(line) <= W + 3
  /\ state \in {"DT_SAMPLE", "RX_WAIT"} => bitcnt <= W + 2 /\ Len(line) = bitcnt
  /\ state = "GEN_RQST" /\ ps2_dat_od = 0 => bitcnt = 0 /\ pbit = 1 /\ line = <<>>
  /\ state = "TX_IDLE" => bitcnt >= 1 /\ Len(line) = bitcnt - 1
  /\ state = "GEN_DBIT" => bitcnt \in 1 .. W /\ Len(line) = bitcnt
  /\ state = "GEN_PARITY" => bitcnt = W + 1 /\ Len(line) = bitcnt
  /\ state = "GEN_STOP" => bitcnt = W + 2 /\ Len(line) = bitcnt
  /\ state \in {"DT_SAMPLE_ACK", "TX_DONE"} => Len(line) = W + 3

(* The line, a step later.                                                 *)
LEMMA LineStep ==
  ASSUME NEW i \in Input, ControllerStep(i), Bytes, line \in Seq(Bit)
  PROVE  /\ line' \in Seq(Bit)
         /\ Len(line') \in {0, Len(line), Len(line) + 1} /\ Len(line) \in Nat
         /\ state \in {"INHIBIT", "RX_IDLE", "GEN_RQST"} \cup ErrState => line' = <<>> /\ Len(line') = 0
         /\ state = "DT_SAMPLE" /\ i.tc =>
              line' = Append(line, i.dat) /\ i.dat \in Bit /\ Len(line') = Len(line) + 1
         /\ state = "TX_IDLE" /\ i.negedge =>
              line' = Append(line, ps2_dat_od) /\ Len(line') = Len(line) + 1
         /\ state \in {"RX_WAIT", "GEN_DBIT", "GEN_PARITY", "GEN_STOP", "DT_SAMPLE_ACK", "TX_DONE",
                       "RX_DONE"} => line' = line
         /\ state = "DT_SAMPLE" /\ ~i.tc => line' = line
         /\ state = "TX_IDLE" /\ ~i.negedge => line' = line
<1>1. i.dat \in Bit /\ ps2_dat_od \in Bit
  BY DEF Input, Bytes
<1>2. <<>> \in Seq(Bit) /\ Len(<<>>) = 0
  OBVIOUS
<1>3. \A b \in Bit : Append(line, b) \in Seq(Bit) /\ Len(Append(line, b)) = Len(line) + 1
  BY AppendProperties
<1>4. line' = CASE state \in {"INHIBIT", "RX_IDLE", "GEN_RQST"} \cup ErrState -> <<>>
                [] state = "DT_SAMPLE" /\ i.tc -> Append(line, i.dat)
                [] state = "TX_IDLE" /\ i.negedge -> Append(line, ps2_dat_od)
                [] OTHER -> line
  BY DEF ControllerStep, Heard
<1>5. Len(line) \in Nat
  BY LenProperties
<1>6. CASE state \in {"INHIBIT", "RX_IDLE", "GEN_RQST"} \cup ErrState
  <2>1. line' = <<>>  BY <1>4, <1>6 DEF ErrState
  <2> QED  BY <1>2, <1>5, <1>6, <2>1 DEF ErrState
<1>7. CASE state = "DT_SAMPLE" /\ i.tc
  <2>1. line' = Append(line, i.dat)  BY <1>4, <1>7 DEF ErrState
  <2> QED  BY <1>1, <1>3, <1>5, <1>7, <2>1 DEF ErrState
<1>8. CASE state = "TX_IDLE" /\ i.negedge
  <2>1. line' = Append(line, ps2_dat_od)  BY <1>4, <1>8 DEF ErrState
  <2> QED  BY <1>1, <1>3, <1>5, <1>8, <2>1 DEF ErrState
<1>9. CASE /\ state \notin {"INHIBIT", "RX_IDLE", "GEN_RQST"} \cup ErrState
           /\ ~(state = "DT_SAMPLE" /\ i.tc)
           /\ ~(state = "TX_IDLE" /\ i.negedge)
  <2>1. line' = line  BY <1>4, <1>9
  <2> QED  BY <1>5, <1>9, <2>1
<1> QED  BY <1>6, <1>7, <1>8, <1>9

LEMMA SizesStep ==
  ASSUME NEW i \in Input, ControllerStep(i), Bytes, state \in State, Sizes
  PROVE  Sizes'
<1> USE PayloadAssumption
<1>1. /\ line \in Seq(Bit) /\ Len(line) <= W + 3 /\ bitcnt \in 0 .. W + 3 /\ W \in Nat /\ W >= 1
  BY DEF Sizes
<1>2. /\ i.negedge \in BOOLEAN /\ i.tc \in BOOLEAN
      /\ state = "GEN_RQST" /\ i.tc => ps2_dat_od = 0
      /\ ~(i.negedge /\ state = "DT_SAMPLE")
  BY DEF Input, Listening
<1>3. bitcnt' = CASE state = "RX_IDLE" -> 0
                  [] state = "GEN_RQST" -> IF en /\ i.tc THEN bitcnt + 1 ELSE 0
                  [] Taken(i) \/ state \in {"GEN_DBIT", "GEN_PARITY", "GEN_STOP"} -> bitcnt + 1
                  [] OTHER -> bitcnt
  BY DEF ControllerStep, DataPath, BitCounter
<1>4. Taken(i) => state = "DT_SAMPLE" /\ i.tc
  BY DEF Taken
<1>5. /\ state = "RX_IDLE" => bitcnt' = 0
      /\ state = "GEN_RQST" => bitcnt' = IF en /\ i.tc THEN 1 ELSE 0
      /\ Taken(i) \/ state \in {"GEN_DBIT", "GEN_PARITY", "GEN_STOP"} => bitcnt' = bitcnt + 1
      /\ state \notin {"RX_IDLE", "GEN_RQST", "GEN_DBIT", "GEN_PARITY", "GEN_STOP"} /\ ~Taken(i)
           => bitcnt' = bitcnt
  <2> HIDE DEF Taken
  <2>1. state = "GEN_RQST" /\ i.tc => bitcnt = 0  BY <1>2 DEF Sizes
  <2> QED  BY <1>1, <1>3, <1>4, <2>1
<1>6. bitcnt' \in 0 .. W + 3
  BY <1>1, <1>4, <1>5 DEF Sizes
<1>7. line' \in Seq(Bit) /\ Len(line') <= W + 3
  BY <1>1, LineStep DEF Sizes, State, RxState, TxState, ErrState
<1>8. state' \in {"DT_SAMPLE", "RX_WAIT"} => bitcnt' <= W + 2 /\ Len(line') = bitcnt'
  BY <1>1, <1>2, <1>4, <1>5, Moves, LineStep DEF Sizes
<1>9. state' = "GEN_RQST" /\ ps2_dat_od' = 0 => bitcnt' = 0 /\ pbit' = 1 /\ line' = <<>>
  <2>1. state \in {"TX_IDLE", "GEN_RQST", "GEN_DBIT", "GEN_PARITY"} \/ ps2_dat_od' = 1
    BY DataStep
  <2>2. state' = "GEN_RQST" /\ ps2_dat_od' = 0 => state = "GEN_RQST" /\ ~i.tc
    BY <2>1, Moves DEF Requested, RxState
  <2>3. state = "GEN_RQST" => pbit' = 1
    BY DataStep
  <2> QED  BY <1>1, <1>5, <2>2, <2>3, LineStep
<1>10. state' = "TX_IDLE" => bitcnt' >= 1 /\ Len(line') = bitcnt' - 1
  BY <1>1, <1>2, <1>4, <1>5, Moves, LineStep DEF Sizes
<1>11. state' = "GEN_DBIT" => bitcnt' \in 1 .. W /\ Len(line') = bitcnt'
  BY <1>1, <1>4, <1>5, Moves, LineStep DEF Sizes
<1>12. state' = "GEN_PARITY" => bitcnt' = W + 1 /\ Len(line') = bitcnt'
  BY <1>1, <1>4, <1>5, Moves, LineStep DEF Sizes
<1>13. state' = "GEN_STOP" => bitcnt' = W + 2 /\ Len(line') = bitcnt'
  BY <1>1, <1>4, <1>5, Moves, LineStep DEF Sizes
<1>14. state' \in {"DT_SAMPLE_ACK", "TX_DONE"} => Len(line') = W + 3
  BY <1>1, <1>4, <1>5, Moves, LineStep DEF Sizes
<1> QED  BY <1>6, <1>7, <1>8, <1>9, <1>10, <1>11, <1>12, <1>13, <1>14 DEF Sizes

-----------------------------------------------------------------------------
(* Reception: the data bits taken so far are at the end of the shift       *)
(* register, and the parity is theirs.                                     *)
Got(b) == IF b = 0 THEN 0 ELSE IF b <= W + 1 THEN b - 1 ELSE W

Receiving ==
  /\ state \in {"DT_SAMPLE", "RX_WAIT"} =>
       /\ bitcnt > 0 => line[1] = 0
       /\ \A k \in 1 .. Got(bitcnt) : shreg[W - Got(bitcnt) + k] = line[k + 1]
       /\ pbit = ParityOf(SubSeq(line, 2, Got(bitcnt) + 1))
       /\ bitcnt = W + 2 => Ones(SubSeq(line, 2, W + 2)) % 2 = 1
  /\ state = "RX_DONE" => IsFrame(line, rx_data)

LEMMA NoData == \A s : SubSeq(s, 2, 1) = <<>>
<1> SUFFICES ASSUME NEW s PROVE SubSeq(s, 2, 1) = <<>>
  OBVIOUS
<1>1. \A k \in 2 .. 1 : s[k] \in Bit
  OBVIOUS
<1>2. SubSeq(s, 2, 1) \in Seq(Bit) /\ Len(SubSeq(s, 2, 1)) = 0
  BY <1>1, SubSeqProperties
<1> QED  BY <1>2, EmptySeq

LEMMA TakenStep ==
  ASSUME NEW i \in Input, ControllerStep(i), Bytes, state \in State, Sizes, Receiving,
         Taken(i)
  PROVE  Receiving'
<1> DEFINE dat == i.dat
           b == bitcnt
<1> USE PayloadAssumption
<1>1. /\ W \in Nat /\ W >= 1
      /\ b \in 0 .. W + 2 /\ line \in Seq(Bit) /\ Len(line) = b
      /\ state = "DT_SAMPLE" /\ i.tc /\ dat \in Bit /\ shreg \in Byte
  BY DEF Taken, Sizes, Input, Bytes
<1>2. line' = Append(line, dat)
  BY <1>1, LineStep
<1>3. /\ line' \in Seq(Bit) /\ Len(line') = b + 1
      /\ \A k \in 1 .. b : line'[k] = line[k]
      /\ line'[b + 1] = dat
  BY <1>1, <1>2, AppendProperties
<1>4. bitcnt' = b + 1
  BY <1>1 DEF ControllerStep, DataPath, BitCounter
<1>5. state' = IF b = W + 2 THEN "RX_DONE" ELSE "RX_WAIT"
  <2>1. state' = CASE ~i.tc -> "DT_SAMPLE"
                   [] i.tc /\ rx_ferr(i.dat) -> "FERR"
                   [] i.tc /\ ~rx_ferr(i.dat) /\ perr(i.dat) -> "PERR"
                   [] Taken(i) -> IF bitcnt = W + 2 THEN "RX_DONE" ELSE "RX_WAIT"
    BY DEF Taken, ControllerStep, NextState, GoTo, Inhibited, RxBreak, TxBreak, Failed, RxIdle, DtSample,
           RxWait, RxDone, GenRqst, TxIdle, GenBit, DtSampleAck, TxDone, TxState, error, ErrState
  <2>2. i.tc /\ ~rx_ferr(i.dat) /\ ~perr(i.dat)
    BY DEF Taken
  <2> HIDE DEF Taken
  <2> QED  BY <2>1, <2>2
<1>6. ~(b = 0 /\ dat = 1) /\ ~(b = W + 2 /\ dat = 0) /\ (b = W + 1 => dat = pbit)
  BY DEF Taken, rx_ferr, perr
<1>7. /\ b > 0 => line[1] = 0
      /\ \A k \in 1 .. Got(b) : shreg[W - Got(b) + k] = line[k + 1]
      /\ pbit = ParityOf(SubSeq(line, 2, Got(b) + 1))
      /\ b = W + 2 => Ones(SubSeq(line, 2, W + 2)) % 2 = 1
  BY <1>1 DEF Receiving
<1>8. /\ b \in 1 .. W => shreg' = Append(Tail(shreg), dat) /\ pbit' = Xor(pbit, dat)
      /\ b \notin 1 .. W => shreg' = shreg /\ pbit' = pbit
  <2>1. dbits <=> b \in 1 .. W
    BY <1>1 DEF dbits
  <2>2. ~Requested
    BY DEF Requested, Taken
  <2> HIDE DEF Taken
  <2> QED  BY <1>1, <2>1, <2>2, DataStep
<1> HIDE DEF b, dat
<1>9. CASE b = 0
  <2>1. Got(b) = 0 /\ Got(b + 1) = 0  BY <1>1, <1>9 DEF Got
  <2>2. dat = 0  BY <1>1, <1>6, <1>9 DEF Bit
  <2>3. SubSeq(line, 2, 1) = <<>> /\ SubSeq(line', 2, 1) = <<>>  BY NoData
  <2>4. pbit' = pbit /\ state' = "RX_WAIT" /\ line'[1] = 0  BY <1>1, <1>3, <1>5, <1>8, <1>9, <2>2
  <2>5. bitcnt' = 1 /\ Got(bitcnt') = 0  BY <1>1, <1>4, <1>9, <2>1
  <2>6. Got(b) + 1 = 1 /\ Got(bitcnt') + 1 = 1  BY <2>1, <2>5
  <2>7. pbit = ParityOf(SubSeq(line, 2, 1))  BY <1>7, <2>6
  <2>8. pbit' = ParityOf(SubSeq(line', 2, Got(bitcnt') + 1))  BY <2>3, <2>4, <2>6, <2>7
  <2> QED  BY <1>1, <2>4, <2>5, <2>8 DEF Receiving
<1>10. CASE b \in 1 .. W
  <2>1. Got(b) = b - 1 /\ Got(b + 1) = b  BY <1>1, <1>10 DEF Got
  <2> DEFINE D == SubSeq(line, 2, b)
  <2>2. D \in Seq(Bit) /\ SubSeq(line', 2, b + 1) = Append(D, dat)
    BY <1>1, <1>2, <1>10, DataGrows
  <2>3. pbit = ParityOf(D)  BY <1>1, <1>7, <1>10, <2>1
  <2> HIDE DEF D
  <2>4. pbit' = ParityOf(Append(D, dat))  BY <1>1, <1>8, <1>10, <2>2, <2>3, ParityAppend
  <2>5. bitcnt' = b + 1 /\ Got(bitcnt') = b /\ bitcnt' # W + 2 /\ state' = "RX_WAIT"
    BY <1>1, <1>4, <1>5, <1>10, <2>1
  <2>6. line'[1] = 0  BY <1>1, <1>3, <1>7, <1>10
  <2>7. ASSUME NEW k \in 1 .. b PROVE shreg'[W - b + k] = line'[k + 1]
    <3>1. /\ \A j \in 1 .. W - 1 : shreg'[j] = shreg[j + 1]
          /\ shreg'[W] = dat
      <4>1. shreg' = Append(Tail(shreg), dat)  BY <1>8, <1>10
      <4>2. /\ \A j \in 1 .. W - 1 : Append(Tail(shreg), dat)[j] = shreg[j + 1]
            /\ Append(Tail(shreg), dat)[W] = dat
        BY <1>1, Shifted
      <4> QED  BY <4>1, <4>2
    <3>2. CASE k = b
      <4>1. W - b + k = W /\ line'[k + 1] = dat  BY <1>1, <1>3, <1>10, <3>2
      <4> QED  BY <3>1, <4>1
    <3>3. CASE k < b
      <4>1. W - b + k \in 1 .. W - 1 /\ W - b + k + 1 = W - (b - 1) + k /\ k \in 1 .. b - 1
        BY <1>1, <1>10, <3>3
      <4>2. shreg'[W - b + k] = shreg[W - b + k + 1]  BY <3>1, <4>1
      <4>3. shreg[W - (b - 1) + k] = line[k + 1]  BY <1>7, <2>1, <4>1
      <4>4. line'[k + 1] = line[k + 1]  BY <1>1, <1>3, <1>10, <3>3
      <4> QED  BY <4>1, <4>2, <4>3, <4>4
    <3> QED  BY <1>10, <3>2, <3>3
  <2>8. pbit' = ParityOf(SubSeq(line', 2, Got(bitcnt') + 1))  BY <2>2, <2>4, <2>5
  <2> QED  BY <2>5, <2>6, <2>7, <2>8 DEF Receiving
<1>11. CASE b = W + 1
  <2>1. Got(b) = W /\ Got(b + 1) = W  BY <1>1, <1>11 DEF Got
  <2> DEFINE D == SubSeq(line, 2, W + 1)
  <2>2. /\ D \in Seq(Bit) /\ SubSeq(line', 2, W + 1) = D
        /\ SubSeq(line', 2, W + 2) = Append(D, dat)
    <3>1. SubSeq(line', 2, (W + 1) + 1) = Append(D, dat) /\ D \in Seq(Bit) /\ SubSeq(line', 2, W + 1) = D
      BY <1>1, <1>2, <1>11, DataGrows
    <3> QED  BY <1>1, <3>1
  <2>3. pbit = ParityOf(D) /\ dat = pbit  BY <1>1, <1>6, <1>7, <1>11, <2>1
  <2> HIDE DEF D
  <2>4. Ones(SubSeq(line', 2, W + 2)) % 2 = 1
    <3>1. dat = ParityOf(D)  BY <2>3
    <3>2. Ones(Append(D, dat)) % 2 = 1  BY <1>1, <2>2, <3>1, ParityAppend
    <3> QED  BY <2>2, <3>2
  <2>5. /\ bitcnt' = W + 2 /\ Got(bitcnt') = W /\ state' = "RX_WAIT"
        /\ shreg' = shreg /\ pbit' = pbit
    BY <1>1, <1>4, <1>5, <1>8, <1>11, <2>1
  <2>6. line'[1] = 0  BY <1>1, <1>3, <1>7, <1>11
  <2>7. ASSUME NEW k \in 1 .. W PROVE shreg'[W - W + k] = line'[k + 1]
    <3>1. shreg[W - W + k] = line[k + 1]  BY <1>7, <2>1
    <3>2. line'[k + 1] = line[k + 1]  BY <1>1, <1>3, <1>11
    <3> QED  BY <2>5, <3>1, <3>2
  <2>8. pbit' = ParityOf(SubSeq(line', 2, Got(bitcnt') + 1))  BY <2>2, <2>3, <2>5
  <2> QED  BY <2>4, <2>5, <2>6, <2>7, <2>8 DEF Receiving
<1>12. CASE b = W + 2
  <2>1. Got(b) = W  BY <1>1, <1>12 DEF Got
  <2>2. rx_data' = shreg /\ state' = "RX_DONE"  BY <1>5, <1>12, DataStep DEF b
  <2>3. dat = 1  BY <1>1, <1>6, <1>12 DEF Bit
  <2> DEFINE D == SubSeq(line', 2, W + 1)
  <2>4. /\ D \in Seq(Bit) /\ Len(D) = W
        /\ \A k \in 1 .. W : D[k] = line[k + 1]
    <3>1. /\ SubSeq(line, 2, W + 1) \in Seq(Bit) /\ Len(SubSeq(line, 2, W + 1)) = W + 1 - 1
          /\ SubSeq(line', 2, W + 1) = SubSeq(line, 2, W + 1)
          /\ \A k \in 1 .. W + 1 - 1 : SubSeq(line, 2, W + 1)[k] = line[k + 1]
      BY <1>1, <1>2, <1>12, DataGrows
    <3> QED  BY <1>1, <3>1
  <2> HIDE DEF D
  <2>5. shreg \in Seq(Bit) /\ Len(shreg) = W  BY <1>1 DEF Byte
  <2>6. ASSUME NEW k \in 1 .. Len(D) PROVE D[k] = shreg[k]
    <3>1. shreg[W - W + k] = line[k + 1]  BY <1>7, <2>1, <2>4
    <3>2. W - W + k = k  BY <1>1, <2>4
    <3> QED  BY <2>4, <3>1, <3>2
  <2>7. D = shreg  BY <2>4, <2>5, <2>6, SeqEqual
  <2>8. SubSeq(line', 2, W + 2) = SubSeq(line, 2, W + 2)
    BY <1>1, <1>2, <1>12, DataGrows
  <2>9. /\ Len(line') = W + 3 /\ line'[1] = 0 /\ line'[W + 3] = 1
        /\ Ones(SubSeq(line', 2, W + 2)) % 2 = 1
    <3>1. Ones(SubSeq(line, 2, W + 2)) % 2 = 1  BY <1>7, <1>12
    <3>2. Ones(SubSeq(line', 2, W + 2)) % 2 = 1  BY <2>8, <3>1
    <3>3. b + 1 = W + 3 /\ 1 \in 1 .. b  BY <1>1, <1>12
    <3>4. Len(line') = W + 3 /\ line'[W + 3] = 1  BY <1>3, <2>3, <3>3
    <3>5. line'[1] = 0  BY <1>1, <1>3, <1>7, <3>3
    <3> QED  BY <3>2, <3>4, <3>5
  <2>10. SubSeq(line', 2, W + 1) = rx_data'  BY <2>2, <2>7 DEF D
  <2>11. IsFrame(line, rx_data)'  BY <2>9, <2>10 DEF IsFrame
  <2> QED  BY <2>2, <2>11 DEF Receiving
<1> QED  BY <1>1, <1>9, <1>10, <1>11, <1>12

LEMMA ReceivingStep ==
  ASSUME NEW i \in Input, ControllerStep(i), Bytes, state \in State, Sizes, Receiving
  PROVE  Receiving'
<1>1. CASE Taken(i)
  BY <1>1, TakenStep
<1>2. ASSUME ~Taken(i), state = "RX_IDLE"
      PROVE  Receiving'
  <2>1. state' \notin {"RX_WAIT", "RX_DONE"}  BY <1>2, Moves
  <2>2. bitcnt' = 0  BY <1>2 DEF ControllerStep, DataPath, BitCounter
  <2>3. pbit' = 1  BY <1>2, DataStep
  <2>4. Got(bitcnt') = 0 /\ Got(bitcnt') + 1 = 1 /\ bitcnt' # W + 2
    BY <2>2, PayloadAssumption DEF Got
  <2>5. pbit' = ParityOf(SubSeq(line', 2, Got(bitcnt') + 1))
    BY <2>3, <2>4, NoData, OnesNone
  <2> QED  BY <2>1, <2>2, <2>4, <2>5 DEF Receiving
<1>3. ASSUME ~Taken(i), state # "RX_IDLE"
      PROVE  Receiving'
  <2>1. state' # "RX_DONE"  BY <1>3, Moves
  <2> SUFFICES ASSUME state' \in {"DT_SAMPLE", "RX_WAIT"} PROVE Receiving'
    BY <2>1 DEF Receiving
  <2>2. /\ en /\ ~tx_rqst
        /\ state = "RX_WAIT" \/ (state = "DT_SAMPLE" /\ ~i.tc)
    BY <1>3, Moves
  <2>3. ~Requested  BY <2>2 DEF Requested
  <2>4. shreg' = shreg /\ pbit' = pbit  BY <1>3, <2>2, <2>3, DataStep
  <2>5. bitcnt' = bitcnt  BY <1>3, <2>2 DEF ControllerStep, DataPath, BitCounter
  <2>6. line' = line  BY <2>2, LineStep DEF Sizes
  <2> QED  BY <2>1, <2>2, <2>4, <2>5, <2>6 DEF Receiving
<1> QED  BY <1>1, <1>2, <1>3

-----------------------------------------------------------------------------
(* The enable signal: in the cycle after a write it is low, wherever the   *)
(* controller is, and in the next one the byte is loaded; only a write     *)
(* changes the request.                                                    *)
Link ==
  /\ mosi \in Control
  /\ mosi.txen => mosi.wen /\ mosi.cen
  /\ tx_rqst => en_next
  /\ tx_rqst /\ ~en => spi = "gap" /\ tx_data = sent
  /\ tx_rqst /\ en => \/ state = "INHIBIT" /\ spi = "idle" /\ tx_data = sent
                      \/ state \in TxState \cup ErrState
  /\ ~tx_rqst /\ en => state \notin TxState

(* Transmission: what the line has carried is the beginning of the frame   *)
(* with the byte asked for, the line shows the bit after that, and the     *)
(* rest of the byte is at the front of the shift register.                 *)
FrameBit(k) ==
  IF k = 1 THEN 0 ELSE IF k <= W + 1 THEN sent[k - 1] ELSE IF k = W + 2 THEN ParityOf(sent) ELSE 1

Sending ==
  en /\ state \in TxState =>
    /\ state = "GEN_RQST" => shreg = sent
    /\ state # "GEN_RQST" => \A k \in 1 .. Len(line) : line[k] = FrameBit(k)
    /\ state = "TX_IDLE" => ps2_dat_od = FrameBit(bitcnt)
    /\ state \in {"TX_IDLE", "GEN_DBIT"} /\ bitcnt <= W =>
         /\ \A k \in 1 .. W - bitcnt + 1 : shreg[k] = sent[bitcnt - 1 + k]
         /\ pbit = ParityOf(SubSeq(sent, 1, bitcnt - 1))
    /\ state \in {"TX_IDLE", "GEN_PARITY"} /\ bitcnt = W + 1 => pbit = ParityOf(sent)

LEMMA Stays ==
  ASSUME NEW i \in Input, ControllerStep(i), state \in State, en
  PROVE  /\ tx_rqst /\ state \in {"INHIBIT"} \cup TxState \cup ErrState => state' \in TxState \cup ErrState
         /\ ~tx_rqst /\ state \notin TxState => state' \notin TxState
<1> USE DEF ControllerStep, NextState, GoTo, RxState, TxState, ErrState
<1>1. CASE Inhibited \/ RxBreak \/ TxBreak \/ Failed
  BY <1>1 DEF Inhibited, RxBreak, TxBreak, Failed, error
<1>2. CASE RxIdle(i) \/ RxWait(i) \/ RxDone
  BY <1>2 DEF RxIdle, RxWait, RxDone
<1>3. CASE DtSample(i)
  <2>1. state = "DT_SAMPLE" /\ ~tx_rqst  BY <1>3 DEF DtSample
  <2>2. state' # "GEN_RQST" /\ state' # "TX_IDLE" /\ state' \notin TxState
    BY <2>1, Moves DEF Requested
  <2> QED  BY <2>1, <2>2
<1>4. CASE GenRqst(i) \/ GenBit \/ DtSampleAck(i) \/ TxDone
  BY <1>4 DEF GenRqst, GenBit, DtSampleAck, TxDone
<1>5. CASE TxIdle(i)
  BY <1>5 DEF TxIdle
<1> QED  BY <1>1, <1>2, <1>3, <1>4, <1>5

LEMMA LinkStep ==
  ASSUME NEW i \in Input, Cycle(i), state \in State, Link,
         en \in BOOLEAN, en_next \in BOOLEAN, tx_rqst \in BOOLEAN
  PROVE  /\ Link'
         /\ en' \in BOOLEAN /\ en_next' \in BOOLEAN /\ tx_rqst' \in BOOLEAN
         /\ Requested => tx_data = sent /\ state = "INHIBIT"
         /\ en' => ~wr_strobe /\ sent' = sent /\ tx_rqst' = tx_rqst
<1>1. /\ en_next' = IF wr_strobe THEN mosi.cen ELSE en_next
      /\ en' = (~wr_strobe /\ en_next)
      /\ tx_rqst' = IF wr_strobe THEN mosi.txen ELSE tx_rqst
      /\ sent' = IF wr_strobe /\ mosi.txen THEN tx_data ELSE sent
  BY DEF Cycle, Enable
<1>2. wr_strobe = (spi = "rx" /\ mosi.wen) /\ mosi \in Control
  BY DEF wr_strobe, Link
<1>3. mosi.wen \in BOOLEAN /\ mosi.cen \in BOOLEAN /\ mosi.txen \in BOOLEAN
  BY <1>2 DEF Control
<1>4. mosi' \in Control /\ (mosi'.txen => mosi'.wen /\ mosi'.cen)
  <2>1. \A p \in Packet : p[1] \in Control /\ (p[1].txen => p[1].wen /\ p[1].cen)
    <3> DEFINE Kinds == { {}, {"wen", "cen", "bclr"}, {"wen", "cen"}, {"wen"}, {"wen", "cen", "txen"} }
    <3>1. \A p \in Packet : \E s \in Kinds : p[1] = Bits(s)
      BY DEF Packet
    <3>2. ASSUME NEW s \in Kinds
          PROVE  Bits(s) \in Control /\ (Bits(s).txen => Bits(s).wen /\ Bits(s).cen)
      <4>1. Bits(s) \in Control  BY DEF Bits, Control
      <4>2. "txen" \in s => "wen" \in s /\ "cen" \in s  OBVIOUS
      <4> QED  BY <4>1, <4>2 DEF Bits
    <3> QED  BY <3>1, <3>2
  <2>2. mosi' = mosi \/ \E p \in Packet : mosi' = p[1]
    BY DEF Cycle, Transfer
  <2> QED  BY <2>1, <2>2 DEF Link
<1>5. /\ spi = "rx" => spi' = "gap" /\ tx_data' = tx_data
      /\ spi = "gap" => spi' = "idle" /\ tx_data' = tx_data
  BY DEF Cycle, Transfer
<1>6. Requested => tx_data = sent /\ state = "INHIBIT"
  BY DEF Requested, Link, TxState, ErrState, RxState
<1>7. CASE wr_strobe
  <2>1. en' = FALSE /\ spi' = "gap" /\ tx_data' = tx_data  BY <1>1, <1>2, <1>5, <1>7
  <2>2. tx_rqst' => en_next' /\ sent' = tx_data  BY <1>1, <1>7 DEF Link
  <2>3. en_next' \in BOOLEAN /\ tx_rqst' \in BOOLEAN  BY <1>1, <1>3, <1>7
  <2>4. Link'  BY <1>4, <2>1, <2>2 DEF Link
  <2> QED  BY <1>6, <2>1, <2>3, <2>4
<1>8. CASE ~wr_strobe
  <2>1. /\ en' = en_next /\ tx_rqst' = tx_rqst /\ en_next' = en_next /\ sent' = sent
    BY <1>1, <1>8
  <2>2. ControllerStep(i)  BY DEF Cycle
  <2>3. tx_rqst /\ ~en => spi' = "idle" /\ tx_data' = sent /\ state' = "INHIBIT"
    BY <1>5, <2>2, Moves DEF Link
  <2>4. tx_rqst /\ en => state' \in TxState \cup ErrState
    BY <2>2, Stays DEF Link
  <2>5. ~tx_rqst => (state' \notin TxState)
    <3>1. CASE en
      BY <2>2, <3>1, Stays DEF Link
    <3>2. CASE ~en
      BY <2>2, <3>2, Moves DEF TxState
    <3> QED  BY <3>1, <3>2
  <2>6. tx_rqst => en'  BY <2>1 DEF Link
  <2>7. tx_rqst' => en_next'  BY <2>1 DEF Link
  <2>8. tx_rqst' /\ en' => \/ state' = "INHIBIT" /\ spi' = "idle" /\ tx_data' = sent'
                           \/ state' \in TxState \cup ErrState
    BY <2>1, <2>3, <2>4
  <2>9. Link'  BY <1>4, <2>1, <2>5, <2>6, <2>7, <2>8 DEF Link
  <2> QED  BY <1>6, <1>8, <2>1, <2>9
<1> QED  BY <1>7, <1>8

(* The beginnings of a byte.                                               *)
LEMMA Beginnings ==
  ASSUME NEW r \in Byte
  PROVE  /\ SubSeq(r, 1, 0) = <<>> /\ SubSeq(r, 1, W) = r
         /\ \A b \in 1 .. W : /\ SubSeq(r, 1, b - 1) \in Seq(Bit) /\ r[b] \in Bit
                              /\ SubSeq(r, 1, b) = Append(SubSeq(r, 1, b - 1), r[b])
<1> USE PayloadAssumption
<1>1. r \in Seq(Bit) /\ Len(r) = W /\ \A k \in 1 .. W : r[k] \in Bit
  BY DEF Byte
<1>2. ASSUME NEW b \in 0 .. W
      PROVE  /\ SubSeq(r, 1, b) \in Seq(Bit) /\ Len(SubSeq(r, 1, b)) = b
             /\ \A k \in 1 .. b : SubSeq(r, 1, b)[k] = r[k]
  <2> DEFINE h == SubSeq(r, 1, b)
  <2>1. \A k \in 1 .. b : r[k] \in Bit  BY <1>1
  <2>2. /\ h \in Seq(Bit)
        /\ Len(h) = IF 1 <= b THEN b - 1 + 1 ELSE 0
        /\ \A k \in 1 .. b - 1 + 1 : h[k] = r[1 + k - 1]
    BY <2>1, SubSeqProperties
  <2> HIDE DEF h
  <2>3. \A k \in 1 .. b : h[k] = r[k]  BY <2>2
  <2>4. h \in Seq(Bit) /\ Len(h) = b  BY <2>2
  <2> QED  BY <2>3, <2>4 DEF h
<1>3. SubSeq(r, 1, 0) = <<>>
  BY <1>2, EmptySeq
<1>4. SubSeq(r, 1, W) = r
  <2> DEFINE h == SubSeq(r, 1, W)
  <2>1. h \in Seq(Bit) /\ Len(h) = W /\ \A k \in 1 .. W : h[k] = r[k]  BY <1>2
  <2> HIDE DEF h
  <2>2. h = r  BY <1>1, <2>1, SeqEqual
  <2> QED  BY <2>2 DEF h
<1>5. ASSUME NEW b \in 1 .. W
      PROVE  SubSeq(r, 1, b) = Append(SubSeq(r, 1, b - 1), r[b])
  <2> DEFINE h == SubSeq(r, 1, b)
             s == SubSeq(r, 1, b - 1)
             a == Append(s, r[b])
  <2>1. b \in 0 .. W /\ b - 1 \in 0 .. W /\ r[b] \in Bit  BY <1>1
  <2>2. h \in Seq(Bit) /\ Len(h) = b /\ \A k \in 1 .. b : h[k] = r[k]  BY <1>2, <2>1
  <2>3. s \in Seq(Bit) /\ Len(s) = b - 1 /\ \A k \in 1 .. b - 1 : s[k] = r[k]  BY <1>2, <2>1
  <2> HIDE DEF h, s
  <2>4. /\ a \in Seq(Bit) /\ Len(a) = b
        /\ \A k \in 1 .. b - 1 : a[k] = s[k]
        /\ a[b] = r[b]
    <3>1. /\ a \in Seq(Bit) /\ Len(a) = Len(s) + 1
          /\ \A k \in 1 .. Len(s) : a[k] = s[k]
          /\ a[Len(s) + 1] = r[b]
      BY <2>1, <2>3, AppendProperties
    <3>2. Len(s) + 1 = b  BY <2>3
    <3> HIDE DEF a
    <3> QED  BY <2>3, <3>1, <3>2
  <2> HIDE DEF a
  <2>5. \A k \in 1 .. b : h[k] = a[k]
    <3> SUFFICES ASSUME NEW k \in 1 .. b PROVE h[k] = a[k]  OBVIOUS
    <3>1. CASE k = b
      BY <2>2, <2>4, <3>1
    <3>2. CASE k \in 1 .. b - 1
      BY <2>2, <2>3, <2>4, <3>2
    <3> QED  BY <3>1, <3>2
  <2>6. h = a  BY <2>2, <2>4, <2>5, SeqEqual
  <2> QED  BY <2>6 DEF h, s, a
<1>6. \A b \in 1 .. W : SubSeq(r, 1, b - 1) \in Seq(Bit)
  <2> SUFFICES ASSUME NEW b \in 1 .. W PROVE SubSeq(r, 1, b - 1) \in Seq(Bit)  OBVIOUS
  <2>1. b - 1 \in 0 .. W  OBVIOUS
  <2> QED  BY <1>2, <2>1
<1> QED  BY <1>1, <1>3, <1>4, <1>5, <1>6

(* The line carries the bit it shows, if it is the right one.              *)
LEMMA Carried ==
  ASSUME NEW f \in Seq(Bit), NEW b \in Nat, Len(f) = b - 1, b >= 1,
         NEW bit \in Bit, bit = FrameBit(b),
         \A k \in 1 .. Len(f) : f[k] = FrameBit(k)
  PROVE  \A k \in 1 .. Len(Append(f, bit)) : Append(f, bit)[k] = FrameBit(k)
<1> DEFINE g == Append(f, bit)
<1>1. /\ Len(g) = Len(f) + 1 /\ g[Len(f) + 1] = bit
      /\ \A k \in 1 .. Len(f) : g[k] = f[k]
  BY AppendProperties
<1> HIDE DEF g
<1>2. Len(g) = b /\ g[b] = FrameBit(b)
  <2>1. Len(f) + 1 = b  OBVIOUS
  <2> QED  BY <1>1, <2>1
<1>3. ASSUME NEW k \in 1 .. Len(g) PROVE g[k] = FrameBit(k)
  <2>1. CASE k = b
    BY <1>2, <2>1
  <2>2. CASE k \in 1 .. Len(f)
    BY <1>1, <2>2
  <2>3. k = b \/ k \in 1 .. Len(f)  BY <1>2
  <2> QED  BY <2>1, <2>2, <2>3
<1> QED  BY <1>3 DEF g

LEMMA SendingStep ==
  ASSUME NEW i \in Input, Cycle(i), state \in State, Bytes, sent \in Byte, Sizes, Link, Sending,
         en \in BOOLEAN, en_next \in BOOLEAN, tx_rqst \in BOOLEAN
  PROVE  Sending'
<1> SUFFICES ASSUME en', state' \in TxState PROVE Sending'
  BY DEF Sending
<1> USE PayloadAssumption
<1> DEFINE b == bitcnt
<1>1. ControllerStep(i)  BY DEF Cycle
<1>2. sent' = sent /\ (Requested => tx_data = sent)  BY LinkStep
<1>3. en  BY <1>1, Moves DEF TxState
<1>4. \A k : FrameBit(k)' = FrameBit(k)  BY <1>2 DEF FrameBit
<1>5. /\ b \in 0 .. W + 3 /\ W \in Nat /\ W >= 1 /\ line \in Seq(Bit) /\ Len(line) \in Nat
      /\ state = "TX_IDLE" => b >= 1 /\ Len(line) = b - 1
      /\ state = "GEN_DBIT" => b \in 1 .. W /\ Len(line) = b
      /\ state = "GEN_PARITY" => b = W + 1
      /\ state = "GEN_STOP" => b = W + 2
  BY LenProperties DEF Sizes
<1>6. ~Taken(i) \/ state = "DT_SAMPLE"  BY DEF Taken
<1>7. state \in TxState => ~Taken(i) /\ ~Requested
  BY DEF Taken, Requested, TxState, RxState
<1>8. bitcnt' = CASE state = "RX_IDLE" -> 0
                  [] state = "GEN_RQST" -> IF en /\ i.tc THEN bitcnt + 1 ELSE 0
                  [] Taken(i) \/ state \in {"GEN_DBIT", "GEN_PARITY", "GEN_STOP"} -> bitcnt + 1
                  [] OTHER -> bitcnt
  BY <1>1 DEF ControllerStep, DataPath, BitCounter
<1>9. /\ state \in {"GEN_DBIT", "GEN_PARITY", "GEN_STOP"} => bitcnt' = b + 1
      /\ state = "TX_IDLE" => bitcnt' = b
  <2> HIDE DEF Taken
  <2> QED  BY <1>7, <1>8 DEF TxState
<1> HIDE DEF Taken, Requested
<1>10. /\ state \in TxState \ {"GEN_RQST"} => \A k \in 1 .. Len(line) : line[k] = FrameBit(k)
       /\ state = "TX_IDLE" => ps2_dat_od = FrameBit(b)
       /\ state \in {"TX_IDLE", "GEN_DBIT"} /\ b <= W =>
            /\ \A k \in 1 .. W - b + 1 : shreg[k] = sent[b - 1 + k]
            /\ pbit = ParityOf(SubSeq(sent, 1, b - 1))
       /\ state \in {"TX_IDLE", "GEN_PARITY"} /\ b = W + 1 => pbit = ParityOf(sent)
       /\ state = "GEN_RQST" => shreg = sent
  BY <1>3 DEF Sending, TxState
<1> HIDE DEF b
<1>11. CASE state' = "GEN_RQST"
  <2>1. Requested \/ (state = "GEN_RQST" /\ ~i.tc)  BY <1>1, <1>11, Moves
  <2>2. Requested => shreg' = sent  BY <1>1, <1>2, DataStep
  <2>3. state = "GEN_RQST" => shreg' = sent
    BY <1>1, <1>7, <1>10, DataStep DEF TxState
  <2>4. shreg' = sent'  BY <1>2, <2>1, <2>2, <2>3
  <2> QED  BY <1>11, <2>4 DEF Sending
<1>12. CASE state = "GEN_RQST" /\ state' # "GEN_RQST"
  <2>1. i.tc /\ state' = "TX_IDLE"
    BY <1>1, <1>12, Moves DEF TxState, Requested, RxState
  <2>2. ps2_dat_od = 0  BY <1>12, <2>1 DEF Input
  <2>3. bitcnt = 0  BY <1>12, <2>2 DEF Sizes
  <2>4. bitcnt' = 1  BY <1>3, <1>8, <1>12, <2>1, <2>3
  <2>5. line' = <<>> /\ Len(line') = 0  BY <1>1, <1>5, <1>12, LineStep
  <2>6. ps2_dat_od' = 0 /\ pbit' = 1 /\ shreg' = sent
    BY <1>1, <1>7, <1>10, <1>12, DataStep DEF TxState
  <2>7. SubSeq(sent, 1, 0) = <<>>  BY Beginnings
  <2>8. pbit' = ParityOf(SubSeq(sent', 1, bitcnt' - 1))
    <3>1. bitcnt' - 1 = 0  BY <2>4
    <3> QED  BY <1>2, <2>6, <2>7, <3>1, OnesNone
  <2>9. \A k \in 1 .. W - bitcnt' + 1 : shreg'[k] = sent'[bitcnt' - 1 + k]
    <3> SUFFICES ASSUME NEW k \in 1 .. W - bitcnt' + 1 PROVE shreg'[k] = sent'[bitcnt' - 1 + k]
      OBVIOUS
    <3>1. bitcnt' - 1 + k = k  BY <1>5, <2>4
    <3> QED  BY <1>2, <2>6, <3>1
  <2>10. ps2_dat_od' = FrameBit(bitcnt)'  BY <2>4, <2>6 DEF FrameBit
  <2>11. bitcnt' # W + 1  BY <1>5, <2>4
  <2>12. \A k \in 1 .. Len(line') : line'[k] = FrameBit(k)'  BY <2>5
  <2> QED  BY <2>1, <2>8, <2>9, <2>10, <2>11, <2>12 DEF Sending
<1>13. CASE state = "TX_IDLE"
  <2>1. bitcnt' = b /\ ps2_dat_od' = ps2_dat_od /\ shreg' = shreg /\ pbit' = pbit
    BY <1>1, <1>7, <1>9, <1>13, DataStep DEF TxState
  <2>2. /\ b \in Nat /\ b >= 1 /\ Len(line) = b - 1 /\ ps2_dat_od \in Bit /\ ps2_dat_od = FrameBit(b)
        /\ \A k \in 1 .. Len(line) : line[k] = FrameBit(k)
    BY <1>5, <1>10, <1>13 DEF TxState, Bytes
  <2>3. \A k \in 1 .. Len(line') : line'[k] = FrameBit(k)
    <3>1. CASE i.negedge
      <4>1. line' = Append(line, ps2_dat_od)  BY <1>1, <1>5, <1>13, <3>1, LineStep
      <4>2. \A k \in 1 .. Len(Append(line, ps2_dat_od)) : Append(line, ps2_dat_od)[k] = FrameBit(k)
        BY <1>5, <2>2, Carried
      <4> QED  BY <4>1, <4>2
    <3>2. CASE ~i.negedge
      <4>1. line' = line  BY <1>1, <1>5, <1>13, <3>2, LineStep
      <4> QED  BY <2>2, <4>1
    <3> QED  BY <3>1, <3>2
  <2>4. ps2_dat_od' = FrameBit(bitcnt)'
    <3>1. bitcnt' = b  BY <2>1
    <3>2. FrameBit(bitcnt)' = FrameBit(b)  BY <1>2, <3>1 DEF FrameBit
    <3> QED  BY <2>1, <2>2, <3>2
  <2>5. bitcnt' <= W =>
          /\ \A k \in 1 .. W - bitcnt' + 1 : shreg'[k] = sent'[bitcnt' - 1 + k]
          /\ pbit' = ParityOf(SubSeq(sent', 1, bitcnt' - 1))
    BY <1>2, <1>10, <1>13, <2>1
  <2>6. bitcnt' = W + 1 => pbit' = ParityOf(sent')  BY <1>2, <1>10, <1>13, <2>1
  <2>7. state' # "GEN_RQST"
    BY <1>1, <1>7, <1>13, Moves DEF TxState
  <2> QED  BY <1>4, <2>3, <2>4, <2>5, <2>6, <2>7 DEF Sending
<1>14. CASE state = "GEN_DBIT"
  <2>1. b \in 1 .. W /\ Len(line) = b /\ bitcnt' = b + 1  BY <1>5, <1>9, <1>14
  <2>2. state' = "TX_IDLE"
    BY <1>1, <1>7, <1>14, Moves DEF TxState
  <2>3. line' = line  BY <1>1, <1>5, <1>14, LineStep
  <2>4. \A k \in 1 .. Len(line') : line'[k] = FrameBit(k)  BY <1>10, <1>14, <2>3 DEF TxState
  <2>5. /\ shreg' = Append(Tail(shreg), ps2_dat_od) /\ pbit' = Xor(pbit, Head(shreg))
        /\ ps2_dat_od' = Head(shreg)
    BY <1>1, <1>14, DataStep
  <2>6. /\ shreg \in Byte /\ ps2_dat_od \in Bit  BY DEF Bytes
  <2>7. /\ \A k \in 1 .. W - b + 1 : shreg[k] = sent[b - 1 + k]
        /\ pbit = ParityOf(SubSeq(sent, 1, b - 1))
    BY <1>10, <1>14, <2>1
  <2>8. Head(shreg) = sent[b]
    <3>1. 1 \in 1 .. W - b + 1 /\ b - 1 + 1 = b  BY <2>1
    <3>2. shreg[1] = sent[b]  BY <2>7, <3>1
    <3> QED  BY <2>6, <3>2, Shifted
  <2>9. ps2_dat_od' = FrameBit(bitcnt)'
    <3>1. bitcnt' # 1 /\ bitcnt' <= W + 1 /\ bitcnt' - 1 = b  BY <2>1
    <3>2. FrameBit(bitcnt)' = sent[b]  BY <1>2, <3>1 DEF FrameBit
    <3> QED  BY <2>5, <2>8, <3>2
  <2>10. pbit' = ParityOf(SubSeq(sent, 1, b))
    <3>1. /\ SubSeq(sent, 1, b - 1) \in Seq(Bit) /\ sent[b] \in Bit
          /\ SubSeq(sent, 1, b) = Append(SubSeq(sent, 1, b - 1), sent[b])
      BY <2>1, Beginnings
    <3>2. ParityOf(Append(SubSeq(sent, 1, b - 1), sent[b])) = Xor(ParityOf(SubSeq(sent, 1, b - 1)), sent[b])
      BY <3>1, ParityAppend
    <3> QED  BY <2>5, <2>7, <2>8, <3>1, <3>2
  <2>11. bitcnt' <= W => \A k \in 1 .. W - bitcnt' + 1 : shreg'[k] = sent'[bitcnt' - 1 + k]
    <3> SUFFICES ASSUME bitcnt' <= W, NEW k \in 1 .. W - bitcnt' + 1
                 PROVE  shreg'[k] = sent'[bitcnt' - 1 + k]
      OBVIOUS
    <3>1. k \in 1 .. W - 1 /\ k + 1 \in 1 .. W - b + 1 /\ b - 1 + (k + 1) = b + k /\ bitcnt' - 1 + k = b + k
      BY <1>5, <2>1
    <3>2. shreg'[k] = shreg[k + 1]  BY <2>5, <2>6, <3>1, Shifted
    <3>3. shreg[k + 1] = sent[b - 1 + (k + 1)]  BY <2>7, <3>1
    <3> QED  BY <1>2, <3>1, <3>2, <3>3
  <2>12. bitcnt' <= W => pbit' = ParityOf(SubSeq(sent', 1, bitcnt' - 1))
    <3>1. bitcnt' - 1 = b  BY <2>1
    <3> QED  BY <1>2, <2>10, <3>1
  <2>13. bitcnt' = W + 1 => pbit' = ParityOf(sent')
    <3>1. bitcnt' = W + 1 => b = W  BY <1>5, <2>1
    <3>2. SubSeq(sent, 1, W) = sent  BY Beginnings
    <3> QED  BY <1>2, <2>10, <3>1, <3>2
  <2> QED  BY <1>4, <2>2, <2>4, <2>9, <2>11, <2>12, <2>13 DEF Sending
<1>15. CASE state \in {"GEN_PARITY", "GEN_STOP"}
  <2>1. state' = "TX_IDLE"
    BY <1>1, <1>7, <1>15, Moves DEF TxState
  <2>2. line' = line  BY <1>1, <1>5, <1>15, LineStep
  <2>3. \A k \in 1 .. Len(line') : line'[k] = FrameBit(k)  BY <1>10, <1>15, <2>2 DEF TxState
  <2>4. bitcnt' = b + 1 /\ b \in {W + 1, W + 2}  BY <1>5, <1>9, <1>15
  <2>5. ps2_dat_od' = FrameBit(bitcnt)'
    <3>1. CASE state = "GEN_PARITY"
      <4>1. ps2_dat_od' = ParityOf(sent)  BY <1>1, <1>5, <1>10, <3>1, DataStep
      <4>2. bitcnt' = W + 2  BY <1>5, <2>4, <3>1
      <4>3. FrameBit(bitcnt)' = ParityOf(sent)  BY <1>2, <1>5, <4>2 DEF FrameBit
      <4> QED  BY <4>1, <4>3
    <3>2. CASE state = "GEN_STOP"
      <4>1. ps2_dat_od' = 1  BY <1>1, <3>2, DataStep
      <4>2. bitcnt' = W + 3  BY <1>5, <2>4, <3>2
      <4>3. FrameBit(bitcnt)' = 1  BY <1>2, <1>5, <4>2 DEF FrameBit
      <4> QED  BY <4>1, <4>3
    <3> QED  BY <1>15, <3>1, <3>2
  <2>6. ~(bitcnt' <= W) /\ bitcnt' # W + 1  BY <1>5, <2>4
  <2> QED  BY <1>4, <2>1, <2>3, <2>5, <2>6 DEF Sending
<1>16. CASE state \in {"DT_SAMPLE_ACK", "TX_DONE"}
  <2>1. state' \in {"DT_SAMPLE_ACK", "TX_DONE"}
    BY <1>1, <1>7, <1>16, Moves DEF TxState
  <2>2. line' = line  BY <1>1, <1>5, <1>16, LineStep
  <2>3. \A k \in 1 .. Len(line') : line'[k] = FrameBit(k)  BY <1>10, <1>16, <2>2 DEF TxState
  <2> QED  BY <1>4, <2>1, <2>3 DEF Sending
<1>17. CASE state \notin TxState
  <2>1. state' = "GEN_RQST"
    BY <1>1, <1>6, <1>17, Moves DEF TxState
  <2> QED  BY <1>11, <2>1
<1> QED  BY <1>11, <1>12, <1>13, <1>14, <1>15, <1>16, <1>17 DEF TxState

(* What the device acknowledges.                                           *)
LEMMA WholeFrame ==
  ASSUME NEW f \in Seq(Bit), Len(f) = W + 3, sent \in Byte,
         \A k \in 1 .. Len(f) : f[k] = FrameBit(k)
  PROVE  IsFrame(f, sent)
<1> USE PayloadAssumption
<1> DEFINE p == ParityOf(sent)
           D == SubSeq(f, 2, W + 1)
           E == SubSeq(f, 2, W + 2)
<1>1. /\ W \in Nat /\ W >= 1 /\ sent \in Seq(Bit) /\ Len(sent) = W
      /\ \A k \in 1 .. W + 3 : f[k] \in Bit
  BY ElementOfSeq DEF Byte
<1>2. f[1] = 0 /\ f[W + 3] = 1 /\ f[W + 2] = p /\ \A k \in 1 .. W : f[k + 1] = sent[k]
  <2>1. f[1] = 0  BY <1>1 DEF FrameBit
  <2>2. f[W + 3] = 1  BY <1>1 DEF FrameBit
  <2>3. f[W + 2] = p  BY <1>1 DEF FrameBit
  <2>4. ASSUME NEW k \in 1 .. W PROVE f[k + 1] = sent[k]
    <3>1. k + 1 \in 1 .. Len(f) /\ k + 1 # 1 /\ k + 1 <= W + 1 /\ k + 1 - 1 = k  BY <1>1
    <3> QED  BY <3>1 DEF FrameBit
  <2> QED  BY <2>1, <2>2, <2>3, <2>4
<1>3. /\ D \in Seq(Bit) /\ Len(D) = W /\ \A k \in 1 .. W : D[k] = f[k + 1]
      /\ E \in Seq(Bit) /\ Len(E) = W + 1 /\ \A k \in 1 .. W + 1 : E[k] = f[k + 1]
  <2>1. /\ W + 1 \in Nat /\ W + 1 >= 1 /\ W + 1 <= Len(f) /\ W + 1 - 1 = W
        /\ W + 2 \in Nat /\ W + 2 >= 1 /\ W + 2 <= Len(f) /\ W + 2 - 1 = W + 1
    BY <1>1
  <2>2. 0 \in Bit  BY DEF Bit
  <2>3. /\ D \in Seq(Bit) /\ Len(D) = W + 1 - 1 /\ \A k \in 1 .. W + 1 - 1 : D[k] = f[k + 1]
    BY <2>1, <2>2, DataGrows
  <2>4. /\ E \in Seq(Bit) /\ Len(E) = W + 2 - 1 /\ \A k \in 1 .. W + 2 - 1 : E[k] = f[k + 1]
    BY <2>1, <2>2, DataGrows
  <2> HIDE DEF D, E
  <2> QED  BY <2>1, <2>3, <2>4
<1> HIDE DEF D, E
<1>4. D = sent
  <2>1. \A k \in 1 .. Len(D) : D[k] = sent[k]  BY <1>2, <1>3
  <2> QED  BY <1>1, <1>3, <2>1, SeqEqual
<1>5. p \in Bit
  <2>1. 0 \in Bit  BY DEF Bit
  <2> QED  BY <1>1, <2>1, ParityAppend
<1> HIDE DEF p
<1>6. E = Append(sent, p)
  <2> DEFINE a == Append(sent, p)
  <2>1. /\ a \in Seq(Bit) /\ Len(a) = W + 1
        /\ \A k \in 1 .. W : a[k] = sent[k]
        /\ a[W + 1] = p
    BY <1>1, <1>5, AppendProperties
  <2> HIDE DEF a
  <2>2. ASSUME NEW k \in 1 .. Len(E) PROVE E[k] = a[k]
    <3>1. E[k] = f[k + 1]  BY <1>3
    <3>2. CASE k = W + 1
      <4>1. k + 1 = W + 2  BY <1>1, <3>2
      <4> QED  BY <1>2, <2>1, <3>1, <3>2, <4>1
    <3>3. CASE k \in 1 .. W
      BY <1>2, <2>1, <3>1, <3>3
    <3>4. k = W + 1 \/ k \in 1 .. W  BY <1>1, <1>3
    <3> QED  BY <3>2, <3>3, <3>4
  <2>3. E = a  BY <1>3, <2>1, <2>2, SeqEqual
  <2> QED  BY <2>3 DEF a
<1>7. Ones(E) % 2 = 1
  <2>1. Ones(Append(sent, p)) % 2 = 1  BY <1>1, <1>5, ParityAppend DEF p
  <2> QED  BY <1>6, <2>1
<1> QED  BY <1>2, <1>4, <1>7 DEF IsFrame, D, E

-----------------------------------------------------------------------------
(* The inductive invariant of the port.                                    *)
PortInv ==
  /\ Bytes /\ FifoInv
  /\ state \in State /\ spi \in SpiPhase
  /\ en \in BOOLEAN /\ en_next \in BOOLEAN /\ tx_rqst \in BOOLEAN /\ oe \in BOOLEAN
  /\ tx_q \in [rxv : BOOLEAN, txc : BOOLEAN, data : Byte]
  /\ sent \in Byte
  /\ Sizes /\ Receiving /\ Link /\ Sending

LEMMA PortInvInit == Init => PortInv
<1> SUFFICES ASSUME Init PROVE PortInv  OBVIOUS
<1> USE PayloadAssumption
<1>1. Bytes /\ FifoInv  BY PortInit
<1>2. /\ state = "INHIBIT" /\ bitcnt = 0 /\ line = <<>> /\ spi = "idle" /\ sent = Zero
      /\ en = FALSE /\ en_next = FALSE /\ tx_rqst = FALSE /\ oe = FALSE /\ mosi = Bits({})
      /\ tx_q = [rxv |-> FALSE, txc |-> FALSE, data |-> Zero]
  BY DEF Init, ControllerInit
<1>3. Sizes  BY <1>2 DEF Sizes
<1>4. Receiving /\ Sending  BY <1>2 DEF Receiving, Sending, TxState
<1>5. Link  BY <1>2 DEF Link, Bits, Control
<1>6. sent \in Byte /\ tx_q \in [rxv : BOOLEAN, txc : BOOLEAN, data : Byte]  BY <1>2, ZeroByte
<1> QED  BY <1>1, <1>2, <1>3, <1>4, <1>5, <1>6 DEF PortInv, State, SpiPhase

LEMMA PortInvStep ==
  ASSUME PortInv, NEW i \in Input, Cycle(i)
  PROVE  PortInv'
<1>1. ControllerStep(i)  BY DEF Cycle
<1>2. Bytes' /\ FifoInv'
  <2>1. [Next]_vars  BY DEF Next
  <2> QED  BY <2>1, PortStep DEF PortInv
<1>3. state' \in State  BY <1>1, Moves DEF PortInv
<1>4. spi' \in SpiPhase  BY DEF PortInv, Cycle, Transfer, SpiPhase
<1>5. Link' /\ en' \in BOOLEAN /\ en_next' \in BOOLEAN /\ tx_rqst' \in BOOLEAN
  BY LinkStep DEF PortInv
<1>6. oe' \in BOOLEAN
  BY DEF PortInv, FifoInv, FifoTypeOK, Cycle, Overrun, fifo_wr
<1>7. tx_q' \in [rxv : BOOLEAN, txc : BOOLEAN, data : Byte]
  <2>1. q \in Byte /\ empty \in BOOLEAN  BY WidthAssumption DEF PortInv, FifoInv, FifoTypeOK
  <2>2. txc \in BOOLEAN  BY DEF PortInv, txc, valid
  <2>3. miso \in [rxv : BOOLEAN, txc : BOOLEAN, data : Byte]  BY <2>1, <2>2 DEF miso
  <2> QED  BY <2>3 DEF PortInv, Cycle, Sample
<1>8. sent' \in Byte
  BY DEF PortInv, Bytes, Cycle, Enable
<1>9. Sizes'  BY <1>1, SizesStep DEF PortInv
<1>10. Receiving'  BY <1>1, ReceivingStep DEF PortInv
<1>11. Sending'  BY SendingStep DEF PortInv
<1> QED  BY <1>2, <1>3, <1>4, <1>5, <1>6, <1>7, <1>8, <1>9, <1>10, <1>11 DEF PortInv

LEMMA PortInvStutter ==
  ASSUME PortInv, UNCHANGED vars
  PROVE  PortInv'
<1>1. Bytes' /\ FifoInv'  BY PortStep DEF PortInv
<1>2. Sizes' /\ Receiving'  BY DEF PortInv, vars, Sizes, Receiving, IsFrame
<1>3. Link'  BY DEF PortInv, vars, Link
<1>4. Sending'  BY DEF PortInv, vars, Sending, FrameBit
<1> QED  BY <1>1, <1>2, <1>3, <1>4 DEF PortInv, vars

LEMMA PortInvariance == Spec => []PortInv
<1>1. PortInv /\ [Next]_vars => PortInv'
  BY PortInvStep, PortInvStutter DEF Next
<1> QED  BY <1>1, PortInvInit, PTL DEF Spec

(* The registers of the port stay in their widths: the bit counter never   *)
(* passes the stop bit and the line never carries more than a frame, for   *)
(* any frame size (ps2_fsm.sv, ps2_dp.sv).                                 *)
THEOREM PortTyping == Spec => []TypeOK
<1>1. PortInv => TypeOK
  BY DEF PortInv, Bytes, FifoInv, Sizes, Link, TypeOK, ControllerTypeOK
<1> QED  BY <1>1, PortInvariance, PTL

LEMMA FramesFollow == PortInv => WholeFrames
<1> SUFFICES ASSUME PortInv PROVE WholeFrames  OBVIOUS
<1>1. state = "RX_DONE" => IsFrame(line, rx_data)  BY DEF PortInv, Receiving
<1>2. en /\ state \in {"DT_SAMPLE_ACK", "TX_DONE"} => IsFrame(line, sent)
  <2> SUFFICES ASSUME en, state \in {"DT_SAMPLE_ACK", "TX_DONE"} PROVE IsFrame(line, sent)
    OBVIOUS
  <2>1. line \in Seq(Bit) /\ Len(line) = W + 3 /\ sent \in Byte  BY DEF PortInv, Sizes
  <2>2. \A k \in 1 .. Len(line) : line[k] = FrameBit(k)
    BY DEF PortInv, Sending, TxState
  <2> QED  BY <2>1, <2>2, WholeFrame
<1> QED  BY <1>1, <1>2 DEF WholeFrames

(* What is presented as received is a whole frame with that byte, and what *)
(* the device acknowledges one with the byte last asked for: for frames of *)
(* any size, any bytes and any timing (ps2_fsm.sv, ps2_dp.sv, and the      *)
(* enable signal of ps2_peripheral_spi_wrapper.sv).                        *)
THEOREM FramesAreWhole == Spec => []WholeFrames
<1> QED  BY FramesFollow, PortInvariance, PTL

-----------------------------------------------------------------------------
(* What a packet tells.  A byte in the queue and not on display has come   *)
(* in the cycle before, and none comes in two cycles in a row; a request   *)
(* has emptied the queue before another transfer begins.                   *)
Told ==
  /\ tx_rqst /\ spi # "gap" => empty
  /\ ~empty => Contents # <<>> /\ q = Head(Contents)
  /\ empty => Len(Contents) <= 1
  /\ empty /\ Contents # <<>> => state \in {"INHIBIT", "RX_IDLE", "GEN_RQST"}
  /\ PacketTells

LEMMA ToldInit == Init => Told
<1> SUFFICES ASSUME Init PROVE Told  OBVIOUS
<1>1. Contents = <<>> /\ empty = TRUE  BY PortInit DEF Queue!Init
<1>2. tx_rqst = FALSE /\ spi = "idle"  BY DEF Init
<1> QED  BY <1>1, <1>2 DEF Told, PacketTells

LEMMA ToldStep ==
  ASSUME PortInv, Told, NEW i \in Input, Cycle(i), PortInv'
  PROVE  Told'
<1>1. /\ Bytes /\ FifoInv /\ Link /\ state \in State /\ ControllerStep(i) /\ Contents \in Seq(Data)
      /\ empty \in BOOLEAN /\ tx_rqst \in BOOLEAN /\ spi \in SpiPhase
  <2>1. Contents \in Seq(Data)
    BY ContentsIs, QueuedIs DEF PortInv, FifoInv, FifoTypeOK, Fill
  <2> QED  BY <2>1 DEF PortInv, Cycle, FifoInv, FifoTypeOK
<1> DEFINE rest == IF ack THEN Tail(Contents) ELSE Contents
           put  == IF we THEN <<rx_data>> ELSE <<>>
<1>2. /\ sclr => Contents' = <<>> /\ empty' = TRUE
      /\ ~sclr => /\ Contents' = rest \o put /\ empty' = (rest = <<>>)
                  /\ rest # <<>> => q' = Head(rest)
  BY <1>1, FifoCycle DEF Queue!Flush, Queue!Show
<1>3. tx_rqst => sclr  BY DEF sclr
<1>4. tx_rqst' = IF wr_strobe THEN mosi.txen ELSE tx_rqst
  BY DEF Cycle, Enable
<1>5. /\ wr_strobe => spi = "rx"
      /\ spi = "rx" => spi' = "gap"
      /\ spi' = "strobe" => spi = "idle"
      /\ ack => spi = "strobe"
  BY DEF wr_strobe, Cycle, Transfer, ack
<1>6. tx_rqst' /\ spi' # "gap" => empty'
  BY <1>2, <1>3, <1>4, <1>5
<1>7. we => ~tx_rqst /\ state \in {"RX_DONE", "TX_DONE"}
  BY DEF we, fifo_wr, valid, error, ErrState
<1>8. we => state' \in {"INHIBIT", "RX_IDLE", "GEN_RQST"}
  <2>1. state = "RX_DONE" => state' \in {"INHIBIT", "RX_IDLE", "GEN_RQST"}
    BY <1>1 DEF ControllerStep, NextState, GoTo, Inhibited, RxBreak, TxBreak, Failed, RxIdle, DtSample,
         RxWait, RxDone, GenRqst, TxIdle, GenBit, DtSampleAck, TxDone, TxState, error, ErrState
  <2>2. we /\ state = "TX_DONE" => ~en  BY <1>1, <1>7 DEF Link, TxState
  <2>3. ~en => state' = "INHIBIT"  BY <1>1, Moves
  <2> QED  BY <1>7, <2>1, <2>2, <2>3
<1>9. rest \in Seq(Data) /\ rx_data \in Data
  <2>1. ack => ~empty  BY DEF ack
  <2>2. ack => Contents # <<>>  BY <2>1 DEF Told
  <2>3. ack => Tail(Contents) \in Seq(Data)  BY <1>1, <2>2, HeadTailProperties
  <2>4. rx_data \in Data  BY <1>1, WidthAssumption DEF Bytes
  <2> HIDE DEF ack
  <2> QED  BY <1>1, <2>3, <2>4
<1>10. /\ put \in Seq(Data) /\ Len(put) <= 1 /\ (put # <<>> => we)
       /\ put = <<>> => rest \o put = rest
  <2>1. <<>> \in Seq(Data) /\ Len(<<>>) = 0 /\ <<rx_data>> \in Seq(Data) /\ Len(<<rx_data>>) = 1
    BY <1>9
  <2>2. rest \o <<>> = rest
    <3> HIDE DEF rest
    <3> QED  BY <1>9, ConcatEmptySeq
  <2>3. ASSUME we PROVE put \in Seq(Data) /\ Len(put) <= 1
    BY <2>1, <2>3
  <2>4. ASSUME ~we PROVE put = <<>> /\ put \in Seq(Data) /\ Len(put) <= 1
    BY <2>1, <2>4
  <2> HIDE DEF rest, we, put
  <2> QED  BY <2>2, <2>3, <2>4
<1>11. /\ rest # <<>> => rest \o put # <<>> /\ Head(rest \o put) = Head(rest)
       /\ rest = <<>> => rest \o put = put
  <2> HIDE DEF rest, put
  <2>1. rest = <<>> => rest \o put = put  BY <1>10, ConcatEmptySeq
  <2>2. ASSUME rest # <<>> PROVE rest \o put # <<>> /\ Head(rest \o put) = Head(rest)
    <3>1. Len(rest) \in Nat /\ Len(put) \in Nat /\ Len(rest) # 0
      BY <1>9, <1>10, <2>2, LenProperties, EmptySeq
    <3>2. /\ rest \o put \in Seq(Data) /\ Len(rest \o put) = Len(rest) + Len(put)
          /\ (rest \o put)[1] = rest[1]
      <4>1. /\ rest \o put \in Seq(Data) /\ Len(rest \o put) = Len(rest) + Len(put)
            /\ \A k \in 1 .. Len(rest) + Len(put) :
                 (rest \o put)[k] = IF k <= Len(rest) THEN rest[k] ELSE put[k - Len(rest)]
        BY <1>9, <1>10, ConcatProperties
      <4>2. 1 \in 1 .. Len(rest) + Len(put) /\ 1 <= Len(rest)  BY <3>1
      <4> QED  BY <4>1, <4>2
    <3>3. Len(rest \o put) # 0  BY <3>1, <3>2
    <3>4. rest \o put # <<>>  BY <3>2, <3>3, EmptySeq
    <3> QED  BY <1>9, <2>2, <3>2, <3>4
  <2> QED  BY <2>1, <2>2
<1> HIDE DEF rest, put, we, sclr, ack
<1>12. ~empty' => Contents' # <<>> /\ q' = Head(Contents')
  BY <1>2, <1>11
<1>13. empty' => Len(Contents') <= 1
  <2>1. Len(<<>>) <= 1  OBVIOUS
  <2> QED  BY <1>2, <1>10, <1>11, <2>1
<1>14. empty' /\ Contents' # <<>> => state' \in {"INHIBIT", "RX_IDLE", "GEN_RQST"}
  BY <1>2, <1>8, <1>10, <1>11
<1>15. PacketTells'
  <2> SUFFICES ASSUME spi' = "strobe"
      PROVE  /\ tx_q.rxv' => ack' /\ q' = tx_q.data'
             /\ ack' /\ ~tx_q.rxv' => Len(Contents') = 1
             /\ tx_q.txc' => error' \/ (state = "TX_DONE" /\ IsFrame(line, sent))'
    BY DEF PacketTells
  <2>1. spi = "idle" /\ ~wr_strobe /\ rest = Contents
    <3>1. spi = "idle" /\ ~wr_strobe /\ ~ack  BY <1>5
    <3> QED  BY <3>1 DEF rest
  <2>2. sclr <=> tx_rqst  BY <2>1 DEF sclr
  <2>3. tx_q' = [rxv |-> ~empty, txc |-> txc, data |-> q]
    BY <2>1 DEF Cycle, Sample, miso
  <2>4. tx_q.rxv' = ~empty /\ tx_q.txc' = txc /\ tx_q.data' = q  BY <2>3
  <2>5. ack' = ~empty'  BY DEF ack
  <2>6. ASSUME ~empty PROVE ack' /\ q' = q
    <3>1. ~tx_rqst /\ Contents # <<>> /\ q = Head(Contents)  BY <2>1, <2>6 DEF Told
    <3>2. empty' = FALSE /\ q' = Head(Contents)  BY <1>2, <2>1, <2>2, <3>1
    <3> QED  BY <2>5, <3>1, <3>2
  <2>7. ASSUME ack', empty PROVE Len(Contents') = 1
    <3>1. ~sclr /\ Contents # <<>>  BY <1>2, <2>1, <2>5, <2>7
    <3>2. Len(Contents) <= 1 /\ state \in {"INHIBIT", "RX_IDLE", "GEN_RQST"}
      BY <2>7, <3>1 DEF Told
    <3>3. put = <<>>  BY <1>7, <1>10, <3>2
    <3>4. Contents' = Contents  BY <1>2, <1>10, <2>1, <3>1, <3>3
    <3>5. Len(Contents) \in Nat /\ Len(Contents) # 0  BY <1>1, <3>1, EmptySeq, LenProperties
    <3> QED  BY <3>2, <3>4, <3>5
  <2>8. ASSUME txc PROVE error' \/ (state = "TX_DONE" /\ IsFrame(line, sent))'
    <3>1. tx_rqst /\ state \in {"RX_DONE", "TX_DONE"} \cup ErrState  BY <2>8 DEF txc, valid
    <3>2. en_next /\ en /\ state \in {"TX_DONE"} \cup ErrState
      BY <1>1, <2>1, <3>1 DEF Link, TxState, ErrState
    <3>3. en'  BY <2>1, <3>2 DEF Cycle, Enable
    <3>4. state' = state
      BY <1>1, <3>1, <3>2 DEF ControllerStep, NextState, GoTo, Inhibited, RxBreak, TxBreak, Failed,
           RxIdle, DtSample, RxWait, RxDone, GenRqst, TxIdle, GenBit, DtSampleAck, TxDone,
           TxState, RxState, error, ErrState
    <3>5. WholeFrames'  BY FramesFollow, PTL
    <3> QED  BY <3>2, <3>3, <3>4, <3>5 DEF WholeFrames, error
  <2> QED  BY <2>4, <2>6, <2>7, <2>8
<1> QED  BY <1>6, <1>12, <1>13, <1>14, <1>15 DEF Told

(* What a packet tells is so when it goes out: a byte in it is delivered   *)
(* once, one that goes unseen is the only one there is, and TXC is of the  *)
(* transmission asked for last; for any depth of the FIFO and any frames   *)
(* (ps2_peripheral_spi_wrapper.sv, spi_slave.sv).                          *)
THEOREM PacketsTell == Spec => []PacketTells
<1>1. Init => PortInv /\ Told  BY PortInvInit, ToldInit
<1>2. PortInv /\ Told /\ [Next]_vars => PortInv' /\ Told'
  <2> SUFFICES ASSUME PortInv, Told, [Next]_vars PROVE PortInv' /\ Told'  OBVIOUS
  <2>1. CASE Next
    BY <2>1, PortInvStep, ToldStep DEF Next
  <2>2. CASE UNCHANGED vars
    <3>1. Contents' = Contents  BY <2>2 DEF vars, Contents, Distance, Loc
    <3>2. PacketTells'
      BY <2>2, <3>1 DEF vars, Told, PacketTells, ack, error, IsFrame
    <3>3. Told'  BY <2>2, <3>1, <3>2 DEF vars, Told
    <3> QED  BY <2>2, <3>3, PortInvStutter
  <2> QED  BY <2>1, <2>2
<1>3. Told => PacketTells  BY DEF Told
<1> QED  BY <1>1, <1>2, <1>3, PTL DEF Spec
=============================================================================

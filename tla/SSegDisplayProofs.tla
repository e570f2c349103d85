------------------------- MODULE SSegDisplayProofs -------------------------
(***************************************************************************)
(* The displays show what is written, whatever the number of displays, the *)
(* characters and their codes, the strings and the noise on the line.      *)
(*                                                                         *)
(* The receiver comes first, bit by bit: a frame that is not hit leaves it *)
(* at rest with the character sent, one that is leaves it as it may be     *)
(* found.  Then the program and its DMA stream (Base), how far a scroll    *)
(* has got (Progress), and what follows for the displays (Shown).          *)
(***************************************************************************)
EXTENDS SSegDisplay, FiniteSetTheorems, SequenceTheorems, WellFoundedInduction, TLAPS

-----------------------------------------------------------------------------
(* Steps up to a bound.                                                    *)
LEMMA Climb ==
  ASSUME NEW m \in Nat, NEW S, 0 \in S, \A n \in 0 .. m - 1 : n \in S => n + 1 \in S
  PROVE  0 .. m \subseteq S
<1> DEFINE T == {n \in 0 .. m : n \notin S}
<1> SUFFICES ASSUME T # {} PROVE FALSE
  OBVIOUS
<1>1. T \subseteq Nat
  OBVIOUS
<1>2. PICK x \in T : \A y \in T : ~(<<y, x>> \in OpToRel(<, Nat))
  BY <1>1, WFMin, NatLessThanWellFounded
<1>3. \A y \in T : ~(y < x)
  BY <1>1, <1>2 DEF OpToRel
<1>4. x \in 0 .. m /\ x \notin S /\ x # 0
  OBVIOUS
<1>5. x - 1 \in 0 .. m - 1 /\ x - 1 \in 0 .. m /\ x - 1 < x /\ (x - 1) + 1 = x
  BY <1>4
<1>6. x - 1 \in S
  BY <1>3, <1>5
<1> QED  BY <1>4, <1>5, <1>6

-----------------------------------------------------------------------------
(* The receiver.                                                           *)
Bit == {0, 1}
Shreg == [1 .. FrameSize -> Bit]

RxInv(r) == r \in Receiver /\ (~r.sampling => r.shreg = Ones /\ r.pbit = 0)

LEMMA SizeFacts ==
  /\ NCHAR \in Nat /\ NCHAR >= 1
  /\ FrameSize = NCHAR + 3 /\ FrameSize \in Nat /\ NSTOP = 1
  BY NCHARAssumption DEF FrameSize, NSTOP

LEMMA ShiftedIs ==
  ASSUME NEW s \in Shreg, NEW b \in Bit
  PROVE  /\ Shifted(s, b) \in Shreg
         /\ \A i \in 1 .. FrameSize : Shifted(s, b)[i] = IF i < FrameSize THEN s[i + 1] ELSE b
<1>1. s \in Seq(Bit) /\ Len(s) = FrameSize
  BY SizeFacts DEF Shreg
<1>2. s # <<>>
  BY <1>1, SizeFacts, EmptySeq
<1> DEFINE t == Tail(s)
<1>3. /\ t \in Seq(Bit) /\ Len(t) = FrameSize - 1
      /\ \A i \in 1 .. Len(t) : t[i] = s[i + 1]
  BY <1>1, <1>2, HeadTailProperties
<1> HIDE DEF t
<1> DEFINE a == Append(t, b)
<1>4. /\ a \in Seq(Bit) /\ Len(a) = Len(t) + 1 /\ a[Len(t) + 1] = b
      /\ \A i \in 1 .. Len(t) : a[i] = t[i]
  BY <1>3, AppendProperties
<1> HIDE DEF a
<1>5. Len(a) = FrameSize /\ Len(t) + 1 = FrameSize
  BY <1>3, <1>4, SizeFacts
<1>6. a \in Shreg
  BY <1>4, <1>5, LenProperties DEF Shreg
<1>7. ASSUME NEW i \in 1 .. FrameSize PROVE a[i] = IF i < FrameSize THEN s[i + 1] ELSE b
  <2>1. CASE i < FrameSize
    <3>1. i \in 1 .. Len(t)  BY <1>3, <2>1, SizeFacts
    <3> QED  BY <1>3, <1>4, <2>1, <3>1
  <2>2. CASE i = FrameSize
    BY <1>4, <1>5, <2>2, SizeFacts
  <2> QED  BY <2>1, <2>2, SizeFacts
<1>8. a = Shifted(s, b)
  BY DEF a, t, Shifted
<1> QED  BY <1>6, <1>7, <1>8

(* The bits of the character in the register.                              *)
LEMMA DataIs ==
  ASSUME NEW s \in Shreg
  PROVE  SubSeq(s, 2, NCHAR + 1) = [i \in 1 .. NCHAR |-> s[i + 1]]
<1> DEFINE d == SubSeq(s, 2, NCHAR + 1)
<1>1. \A i \in 2 .. NCHAR + 1 : s[i] \in Bit
  BY SizeFacts DEF Shreg
<1>2. /\ d \in Seq(Bit) /\ Len(d) = IF 2 <= NCHAR + 1 THEN ((NCHAR + 1) - 2) + 1 ELSE 0
      /\ \A i \in 1 .. ((NCHAR + 1) - 2) + 1 : d[i] = s[(2 + i) - 1]
  BY <1>1, SizeFacts, SubSeqProperties
<1> HIDE DEF d
<1>3. Len(d) = NCHAR /\ ((NCHAR + 1) - 2) + 1 = NCHAR
  BY <1>2, SizeFacts
<1>4. d \in [1 .. NCHAR -> Bit]
  BY <1>2, <1>3, LenProperties
<1>5. \A i \in 1 .. NCHAR : d[i] = s[i + 1]
  <2> SUFFICES ASSUME NEW i \in 1 .. NCHAR PROVE d[i] = s[i + 1]
    OBVIOUS
  <2>1. (2 + i) - 1 = i + 1
    BY SizeFacts
  <2> QED  BY <1>2, <1>3, <2>1
<1> QED  BY <1>4, <1>5 DEF d

(* What is accepted is the character with the bits received.               *)
LEMMA AcceptedIs ==
  ASSUME NEW s \in Shreg, NEW p \in Bit
  PROVE  /\ Accepted(s, p) \in DOMAIN Code \cup {NoChar}
         /\ \A c \in DOMAIN Code :
              p = 0 /\ s[FrameSize] = 1 /\ (\A i \in 1 .. NCHAR : s[i + 1] = Code[c][i])
                => Accepted(s, p) = c
<1> DEFINE d == SubSeq(s, 2, NCHAR + 1)
           good == p = 0 /\ \A i \in FrameSize - NSTOP + 1 .. FrameSize : s[i] = 1
<1>1. d = [i \in 1 .. NCHAR |-> s[i + 1]]
  BY DataIs
<1>2. d \in [1 .. NCHAR -> {0, 1}]
  <2>1. \A i \in 1 .. NCHAR : s[i + 1] \in {0, 1}
    BY SizeFacts DEF Shreg, Bit
  <2> QED  BY <1>1, <2>1
<1>3. \E c \in DOMAIN Code : Code[c] = d
  BY <1>2, CodeAssumption
<1>4. Accepted(s, p) = IF good THEN CHOOSE c \in DOMAIN Code : Code[c] = d ELSE NoChar
  BY DEF Accepted
<1>5. good <=> p = 0 /\ s[FrameSize] = 1
  <2>1. \A i : i \in FrameSize - NSTOP + 1 .. FrameSize <=> i = FrameSize
    BY SizeFacts
  <2> QED  BY <2>1
<1> HIDE DEF d, good
<1>6. ASSUME NEW c \in DOMAIN Code, \A i \in 1 .. NCHAR : s[i + 1] = Code[c][i] PROVE Code[c] = d
  <2>1. Code[c] \in [1 .. NCHAR -> {0, 1}]
    BY CodeAssumption
  <2> QED  BY <1>1, <1>2, <1>6, <2>1
<1>7. \A c, e \in DOMAIN Code : Code[c] = Code[e] => c = e
  BY CodeAssumption DEF IsInjective
<1> QED  BY <1>3, <1>4, <1>5, <1>6, <1>7

LEMMA IdlingIs ==
  ASSUME NEW b \in Bit, NEW c \in DOMAIN Code \cup {NoChar}
  PROVE  LET r == [Idling(b) EXCEPT !.out = c] IN
           RxInv(r) /\ ~r.sampling /\ r.level = b /\ r.out = c
<1>1. Ones \in Shreg
  BY DEF Ones, Shreg, Bit
<1> DEFINE t == Idling(b)
<1>2. /\ t \in Receiver /\ ~t.sampling /\ t.shreg = Ones /\ t.pbit = 0 /\ t.level = b
  BY <1>1 DEF Idling, Receiver, Shreg, Bit
<1> HIDE DEF t
<1> DEFINE r == [t EXCEPT !.out = c]
<1>3. r \in Receiver /\ ~r.sampling /\ r.shreg = Ones /\ r.pbit = 0 /\ r.level = b /\ r.out = c
  BY <1>2 DEF Receiver
<1> HIDE DEF r
<1>4. RxInv(r)  BY <1>3 DEF RxInv
<1> QED  BY <1>3, <1>4 DEF r, t

(* A sample: the frame goes on, or is over.                                *)
LEMMA SampledIs ==
  ASSUME NEW r \in Receiver, r.sampling, NEW b \in Bit
  PROVE  LET s == Shifted(r.shreg, b)
             p == IF ParityUpdate(r.shreg) THEN (r.pbit + b) % 2 ELSE r.pbit
         IN  /\ p \in Bit /\ s \in Shreg
             /\ RxInv(Sampled(r, b)) /\ Sampled(r, b).level = b
             /\ r.shreg[2] = 1 =>
                  /\ Sampled(r, b).sampling /\ Sampled(r, b).shreg = s /\ Sampled(r, b).pbit = p
                  /\ Sampled(r, b).out = r.out
             /\ r.shreg[2] # 1 => Sampled(r, b) = [Idling(b) EXCEPT !.out = Accepted(s, p)]
<1> DEFINE s == Shifted(r.shreg, b)
           p == IF ParityUpdate(r.shreg) THEN (r.pbit + b) % 2 ELSE r.pbit
           more == [r EXCEPT !.shreg = s, !.pbit = p, !.level = b]
           over == [Idling(b) EXCEPT !.out = Accepted(s, p)]
<1>1. r.shreg \in Shreg /\ r.pbit \in Bit
  BY DEF Receiver, Shreg, Bit
<1>2. s \in Shreg /\ s[1] = r.shreg[2]
  <2>1. 1 \in 1 .. FrameSize /\ 1 < FrameSize /\ 1 + 1 = 2
    BY SizeFacts
  <2> QED  BY <1>1, <2>1, ShiftedIs
<1>3. p \in Bit
  <2>1. (r.pbit + b) % 2 \in Bit  BY <1>1 DEF Bit
  <2> QED  BY <1>1, <2>1
<1>4. Sampled(r, b) = IF s[1] = 1 THEN more ELSE over
  BY DEF Sampled
<1> HIDE DEF s, p
<1>5. /\ more \in Receiver /\ more.sampling /\ more.shreg = s /\ more.pbit = p /\ more.level = b
      /\ more.out = r.out
  BY <1>2, <1>3 DEF Receiver, Shreg, Bit
<1>6. RxInv(over) /\ over.level = b
  <2>1. Accepted(s, p) \in DOMAIN Code \cup {NoChar}
    BY <1>2, <1>3, AcceptedIs
  <2> QED  BY <2>1, IdlingIs
<1> HIDE DEF more, over
<1>7. RxInv(more)
  BY <1>5 DEF RxInv
<1> QED  BY <1>2, <1>3, <1>4, <1>5, <1>6, <1>7 DEF s, p, over

(* A bit time leaves the receiver as it may be found.                      *)
LEMMA BitTimeTyped ==
  ASSUME NEW r, RxInv(r), NEW b \in Bit, NEW noisy \in BOOLEAN
  PROVE  LET q == BitTime(b, noisy)[r] IN RxInv(q) /\ q.level = b
<1> DEFINE begun == r.sampling \/ noisy \/ (r.level = 1 /\ b = 0)
           q == BitTime(b, noisy)[r]
           u == [r EXCEPT !.level = b]
           v == [r EXCEPT !.sampling = TRUE, !.level = b]
           w == [r EXCEPT !.sampling = TRUE]
<1>1. r \in Receiver
  BY DEF RxInv
<1>2. q = IF ~begun THEN u ELSE IF noisy THEN v ELSE Sampled(w, b)
  BY <1>1 DEF BitTime
<1>3. u \in Receiver /\ u.level = b /\ u.sampling = r.sampling /\ u.shreg = r.shreg /\ u.pbit = r.pbit
  BY <1>1 DEF Receiver, Bit
<1>4. v \in Receiver /\ v.level = b /\ v.sampling /\ w \in Receiver /\ w.sampling
  BY <1>1 DEF Receiver, Bit
<1> HIDE DEF u, v, w, q, begun
<1>5. RxInv(u) /\ RxInv(v)
  BY <1>3, <1>4 DEF RxInv
<1>6. RxInv(Sampled(w, b)) /\ Sampled(w, b).level = b
  BY <1>4, SampledIs
<1> QED  BY <1>2, <1>3, <1>4, <1>5, <1>6 DEF q

-----------------------------------------------------------------------------
(* A frame, and the weight of its first bits.                              *)
Weight(f, n) == Cardinality({i \in 1 .. n : f[i] = 1})

LEMMA WeightStep ==
  ASSUME NEW f, NEW n \in Nat
  PROVE  /\ Weight(f, n) \in Nat /\ Weight(f, 0) = 0
         /\ f[n + 1] \in Bit => Weight(f, n + 1) = Weight(f, n) + f[n + 1]
<1> DEFINE A == {i \in 1 .. n : f[i] = 1}
           B == {i \in 1 .. n + 1 : f[i] = 1}
<1>1. IsFiniteSet(A) /\ Cardinality(A) \in Nat
  <2>1. IsFiniteSet(1 .. n)  BY FS_Interval
  <2>2. A \in SUBSET (1 .. n)  OBVIOUS
  <2>3. IsFiniteSet(A)  BY <2>1, <2>2, FS_Subset
  <2> QED  BY <2>3, FS_CardinalityType
<1>2. Weight(f, 0) = 0
  <2>1. {i \in 1 .. 0 : f[i] = 1} = {}  OBVIOUS
  <2> QED  BY <2>1, FS_EmptySet DEF Weight
<1>3. ASSUME f[n + 1] \in Bit PROVE Weight(f, n + 1) = Weight(f, n) + f[n + 1]
  <2>1. n + 1 \notin A  OBVIOUS
  <2>2. Cardinality(A \cup {n + 1}) = Cardinality(A) + 1
    BY <1>1, <2>1, FS_AddElement
  <2>3. CASE f[n + 1] = 1
    <3>1. B = A \cup {n + 1}  BY <2>3
    <3> HIDE DEF A, B
    <3>2. Cardinality(B) = Cardinality(A) + f[n + 1]  BY <2>2, <2>3, <3>1
    <3> QED  BY <3>2 DEF A, B, Weight
  <2>4. CASE f[n + 1] = 0
    <3>1. B = A  BY <2>4
    <3> HIDE DEF A, B
    <3>2. Cardinality(B) = Cardinality(A) + f[n + 1]  BY <1>1, <2>4, <3>1
    <3> QED  BY <3>2 DEF A, B, Weight
  <2> QED  BY <1>3, <2>3, <2>4 DEF Bit
<1> QED  BY <1>1, <1>2, <1>3 DEF Weight

LEMMA FrameIs ==
  ASSUME NEW c \in DOMAIN Code
  PROVE  LET f == Frame(c) IN
           /\ f[1] = 0 /\ f[FrameSize] = 1
           /\ \A i \in 1 .. NCHAR : f[i + 1] = Code[c][i] /\ Code[c][i] \in Bit
           /\ f[NCHAR + 2] = Weight(Code[c], NCHAR) % 2
           /\ \A i \in 1 .. FrameSize : f[i] \in Bit
<1> DEFINE d == Code[c]
           par == Parity(Code[c])
           x == <<0>>
           y == x \o d
           pp == <<par>>
           z == y \o pp
           st == <<1>>
           f == z \o st
<1>1. d \in [1 .. NCHAR -> Bit]
  BY CodeAssumption DEF Bit
<1>2. par = Weight(d, NCHAR) % 2 /\ par \in Bit
  <2>1. DOMAIN d = 1 .. NCHAR  BY <1>1
  <2>2. par = Weight(d, NCHAR) % 2  BY <2>1 DEF Parity, Weight
  <2>3. Weight(d, NCHAR) \in Nat  BY SizeFacts, WeightStep
  <2> QED  BY <2>2, <2>3 DEF Bit
<1> HIDE DEF d, par
<1>3. /\ d \in Seq(Bit) /\ Len(d) = NCHAR
      /\ x \in Seq(Bit) /\ Len(x) = 1 /\ x[1] = 0
      /\ pp \in Seq(Bit) /\ Len(pp) = 1 /\ pp[1] = par
      /\ st \in Seq(Bit) /\ Len(st) = 1 /\ st[1] = 1
  <2>1. d \in Seq(Bit) /\ Len(d) = NCHAR  BY <1>1, SizeFacts
  <2>2. x \in Seq(Bit) /\ Len(x) = 1 /\ x[1] = 0  BY DEF Bit
  <2>3. pp \in Seq(Bit) /\ Len(pp) = 1 /\ pp[1] = par  BY <1>2
  <2>4. st \in Seq(Bit) /\ Len(st) = 1 /\ st[1] = 1  BY DEF Bit
  <2> QED  BY <2>1, <2>2, <2>3, <2>4
<1> HIDE DEF x, pp, st
<1>4. /\ y \in Seq(Bit) /\ Len(y) = Len(x) + Len(d)
      /\ \A i \in 1 .. Len(x) + Len(d) : y[i] = IF i <= Len(x) THEN x[i] ELSE d[i - Len(x)]
  BY <1>3, ConcatProperties
<1> HIDE DEF y
<1>5. /\ z \in Seq(Bit) /\ Len(z) = Len(y) + Len(pp)
      /\ \A i \in 1 .. Len(y) + Len(pp) : z[i] = IF i <= Len(y) THEN y[i] ELSE pp[i - Len(y)]
  <2>1. y \in Seq(Bit) /\ pp \in Seq(Bit)  BY <1>3, <1>4
  <2> QED  BY <2>1, ConcatProperties
<1> HIDE DEF z
<1>6. /\ f \in Seq(Bit) /\ Len(f) = Len(z) + Len(st)
      /\ \A i \in 1 .. Len(z) + Len(st) : f[i] = IF i <= Len(z) THEN z[i] ELSE st[i - Len(z)]
  <2>1. z \in Seq(Bit) /\ st \in Seq(Bit)  BY <1>3, <1>5
  <2> QED  BY <2>1, ConcatProperties
<1> HIDE DEF f
<1>7. Len(y) = NCHAR + 1 /\ Len(z) = NCHAR + 2 /\ Len(f) = FrameSize
  BY <1>3, <1>4, <1>5, <1>6, SizeFacts
<1>8. \A i \in 1 .. NCHAR + 2 : f[i] = z[i]
  BY <1>3, <1>6, <1>7, SizeFacts
<1>9. \A i \in 1 .. NCHAR + 1 : z[i] = y[i]
  BY <1>3, <1>5, <1>7, SizeFacts
<1>10. f[1] = 0
  <2>1. 1 \in 1 .. NCHAR + 2 /\ 1 \in 1 .. NCHAR + 1 /\ 1 \in 1 .. Len(x) + Len(d) /\ 1 <= Len(x)
    BY <1>3, SizeFacts
  <2> QED  BY <1>3, <1>4, <1>8, <1>9, <2>1
<1>11. f[FrameSize] = 1
  <2>1. FrameSize \in 1 .. Len(z) + Len(st) /\ ~(FrameSize <= Len(z)) /\ FrameSize - Len(z) = 1
    BY <1>3, <1>7, SizeFacts
  <2> QED  BY <1>3, <1>6, <2>1
<1>12. f[NCHAR + 2] = par
  <2>1. /\ NCHAR + 2 \in 1 .. NCHAR + 2 /\ NCHAR + 2 \in 1 .. Len(y) + Len(pp)
        /\ ~(NCHAR + 2 <= Len(y)) /\ (NCHAR + 2) - Len(y) = 1
    BY <1>3, <1>7, SizeFacts
  <2> QED  BY <1>3, <1>5, <1>8, <2>1
<1>13. ASSUME NEW i \in 1 .. NCHAR PROVE f[i + 1] = d[i] /\ d[i] \in Bit
  <2>1. /\ i + 1 \in 1 .. NCHAR + 2 /\ i + 1 \in 1 .. NCHAR + 1 /\ i + 1 \in 1 .. Len(x) + Len(d)
        /\ ~(i + 1 <= Len(x)) /\ (i + 1) - Len(x) = i
    BY <1>3, SizeFacts
  <2> QED  BY <1>1, <1>4, <1>8, <1>9, <2>1
<1>14. \A i \in 1 .. FrameSize : f[i] \in Bit
  <2>1. \A i \in 1 .. Len(f) : f[i] \in Bit  BY <1>6, ElementOfSeq
  <2> QED  BY <1>7, <2>1
<1>15. f = Frame(c)
  BY DEF f, z, y, x, pp, st, par, d, Frame
<1> QED  BY <1>2, <1>10, <1>11, <1>12, <1>13, <1>14, <1>15 DEF d

(* The bits up to the parity are even.                                     *)
LEMMA EvenParity ==
  ASSUME NEW c \in DOMAIN Code
  PROVE  Weight(Frame(c), NCHAR + 2) % 2 = 0
<1> DEFINE f == Frame(c)
           d == Code[c]
           S == {k \in 0 .. NCHAR : Weight(f, k + 1) = Weight(d, k)}
<1>1. /\ f[1] = 0 /\ f[NCHAR + 2] = Weight(d, NCHAR) % 2
      /\ \A i \in 1 .. NCHAR : f[i + 1] = d[i] /\ d[i] \in Bit
      /\ \A i \in 1 .. FrameSize : f[i] \in Bit
  BY FrameIs
<1> HIDE DEF f, d
<1>2. 0 \in S
  <2>1. 0 \in Nat /\ 0 + 1 = 1 /\ f[0 + 1] \in Bit  BY <1>1 DEF Bit
  <2>2. Weight(f, 0 + 1) = Weight(f, 0) + f[0 + 1] /\ Weight(f, 0) = 0  BY <2>1, WeightStep
  <2>3. Weight(d, 0) = 0  BY <2>1, WeightStep
  <2>4. Weight(f, 0 + 1) = Weight(d, 0)  BY <1>1, <2>1, <2>2, <2>3
  <2> QED  BY <2>4, SizeFacts
<1>3. ASSUME NEW k \in 0 .. NCHAR - 1, k \in S PROVE k + 1 \in S
  <2>1. k \in Nat /\ k + 1 \in Nat /\ k + 1 \in 1 .. NCHAR /\ k + 1 \in 0 .. NCHAR
    BY SizeFacts
  <2>2. f[(k + 1) + 1] = d[k + 1] /\ d[k + 1] \in Bit  BY <1>1, <2>1
  <2>3. Weight(f, (k + 1) + 1) = Weight(f, k + 1) + f[(k + 1) + 1]  BY <2>1, <2>2, WeightStep
  <2>4. Weight(d, k + 1) = Weight(d, k) + d[k + 1]  BY <2>1, <2>2, WeightStep
  <2>5. Weight(f, (k + 1) + 1) = Weight(d, k + 1)  BY <1>3, <2>2, <2>3, <2>4
  <2> QED  BY <2>1, <2>5
<1>4. 0 .. NCHAR \subseteq S
  <2> HIDE DEF S
  <2> QED  BY <1>2, <1>3, SizeFacts, Climb
<1>5. Weight(f, NCHAR + 1) = Weight(d, NCHAR)
  <2>1. NCHAR \in 0 .. NCHAR  BY SizeFacts
  <2> QED  BY <1>4, <2>1
<1> DEFINE o == Weight(d, NCHAR)
<1>6. o \in Nat  BY SizeFacts, WeightStep
<1>7. Weight(f, (NCHAR + 1) + 1) = Weight(f, NCHAR + 1) + f[(NCHAR + 1) + 1] /\ (NCHAR + 1) + 1 = NCHAR + 2
  <2>1. NCHAR + 1 \in Nat /\ (NCHAR + 1) + 1 = NCHAR + 2 /\ NCHAR + 2 \in 1 .. FrameSize
    BY SizeFacts
  <2> QED  BY <1>1, <2>1, WeightStep
<1>8. Weight(f, NCHAR + 2) = o + (o % 2)
  BY <1>1, <1>5, <1>7
<1> HIDE DEF o
<1>9. (o + (o % 2)) % 2 = 0
  BY <1>6
<1> QED  BY <1>8, <1>9 DEF f

-----------------------------------------------------------------------------
(* Reception of a frame.                                                   *)

(* The receiver after n bits of frame f, undisturbed.                      *)
Mid(r, f, n) ==
  /\ r \in Receiver /\ r.sampling /\ r.out = NoChar
  /\ \A i \in 1 .. FrameSize : r.shreg[i] = IF i <= FrameSize - n THEN 1 ELSE f[i - (FrameSize - n)]
  /\ r.pbit = Weight(f, n) % 2

LEMMA MidFirst ==
  ASSUME NEW r, RxInv(r), ~r.sampling, r.level = 1, r.out = NoChar, NEW f, f[1] = 0
  PROVE  Mid(BitTime(0, FALSE)[r], f, 1)
<1> DEFINE w == [r EXCEPT !.sampling = TRUE]
           q == BitTime(0, FALSE)[r]
           s == Shifted(w.shreg, 0)
<1>1. r \in Receiver /\ r.shreg = Ones /\ r.pbit = 0
  BY DEF RxInv
<1>2. q = Sampled(w, 0)
  BY <1>1 DEF BitTime
<1>3. w \in Receiver /\ w.sampling /\ w.shreg = Ones /\ w.pbit = 0 /\ w.out = NoChar
  BY <1>1 DEF Receiver
<1> HIDE DEF w, q
<1>4. Ones \in Shreg /\ \A i \in 1 .. FrameSize : Ones[i] = 1
  BY DEF Ones, Shreg, Bit
<1>5. 0 \in Bit /\ 2 \in 1 .. FrameSize
  BY SizeFacts DEF Bit
<1>6. s \in Shreg /\ \A i \in 1 .. FrameSize : s[i] = IF i < FrameSize THEN Ones[i + 1] ELSE 0
  BY <1>3, <1>4, <1>5, ShiftedIs
<1> HIDE DEF s
<1>7. /\ q.sampling /\ q.shreg = s /\ q.out = NoChar /\ RxInv(q)
      /\ q.pbit = IF ParityUpdate(w.shreg) THEN (w.pbit + 0) % 2 ELSE w.pbit
  BY <1>2, <1>3, <1>4, <1>5, SampledIs DEF s
<1>8. q.pbit = 0
  BY <1>3, <1>7
<1>9. Weight(f, 1) = 0
  <2>1. 0 \in Nat /\ 0 + 1 = 1 /\ f[0 + 1] \in Bit  BY DEF Bit
  <2> QED  BY <2>1, WeightStep
<1>10. ASSUME NEW i \in 1 .. FrameSize
       PROVE  s[i] = IF i <= FrameSize - 1 THEN 1 ELSE f[i - (FrameSize - 1)]
  <2>1. CASE i < FrameSize
    <3>1. i + 1 \in 1 .. FrameSize /\ i <= FrameSize - 1  BY <2>1, SizeFacts
    <3> QED  BY <1>4, <1>6, <2>1, <3>1
  <2>2. CASE i = FrameSize
    <3>1. ~(i <= FrameSize - 1) /\ i - (FrameSize - 1) = 1 /\ ~(i < FrameSize)  BY <2>2, SizeFacts
    <3> QED  BY <1>6, <3>1
  <2> QED  BY <2>1, <2>2, SizeFacts
<1>11. Mid(q, f, 1)
  BY <1>7, <1>8, <1>9, <1>10 DEF Mid, RxInv
<1> QED  BY <1>11 DEF q

LEMMA MidNext ==
  ASSUME NEW f, \A i \in 1 .. FrameSize : f[i] \in Bit, NEW n \in 1 .. FrameSize - 2, NEW r, Mid(r, f, n)
  PROVE  Mid(BitTime(f[n + 1], FALSE)[r], f, n + 1)
<1> DEFINE w == [r EXCEPT !.sampling = TRUE]
           b == f[n + 1]
           q == BitTime(b, FALSE)[r]
           s == Shifted(w.shreg, b)
<1>1. /\ r \in Receiver /\ r.sampling /\ r.out = NoChar /\ r.pbit = Weight(f, n) % 2
      /\ \A i \in 1 .. FrameSize : r.shreg[i] = IF i <= FrameSize - n THEN 1 ELSE f[i - (FrameSize - n)]
  BY DEF Mid
<1>2. n + 1 \in 1 .. FrameSize /\ n \in Nat /\ 2 <= FrameSize - n /\ n + 1 <= FrameSize - 1
  BY SizeFacts
<1>3. b \in Bit
  BY <1>2
<1>4. q = Sampled(w, b)
  BY <1>1 DEF BitTime
<1>5. w \in Receiver /\ w.sampling /\ w.shreg = r.shreg /\ w.pbit = r.pbit /\ w.out = NoChar
  BY <1>1 DEF Receiver
<1> HIDE DEF w, q, b
<1>6. w.shreg \in Shreg
  BY <1>5 DEF Receiver, Shreg, Bit
<1>7. s \in Shreg /\ \A i \in 1 .. FrameSize : s[i] = IF i < FrameSize THEN w.shreg[i + 1] ELSE b
  BY <1>3, <1>6, ShiftedIs
<1> HIDE DEF s
<1>8. w.shreg[1] = 1 /\ w.shreg[2] = 1
  <2>1. 1 \in 1 .. FrameSize /\ 2 \in 1 .. FrameSize /\ 1 <= FrameSize - n  BY <1>2, SizeFacts
  <2> QED  BY <1>1, <1>2, <1>5, <2>1
<1>9. ParityUpdate(w.shreg)
  <2>1. \A i \in 1 .. NSTOP + 1 : i \in {1, 2}  BY SizeFacts
  <2> QED  BY <1>8, <2>1 DEF ParityUpdate
<1>10. /\ q.sampling /\ q.shreg = s /\ q.out = NoChar /\ RxInv(q)
       /\ q.pbit = (w.pbit + b) % 2
  BY <1>3, <1>4, <1>5, <1>8, <1>9, SampledIs DEF s
<1>11. q.pbit = Weight(f, n + 1) % 2
  <2>1. Weight(f, n) \in Nat /\ Weight(f, n + 1) = Weight(f, n) + b
    BY <1>2, <1>3, WeightStep DEF b
  <2> DEFINE o == Weight(f, n)
  <2> HIDE DEF o
  <2>2. o \in Nat /\ Weight(f, n + 1) = o + b /\ w.pbit = o % 2  BY <1>1, <1>5, <2>1 DEF o
  <2>3. ((o % 2) + b) % 2 = (o + b) % 2  BY <1>3, <2>2 DEF Bit
  <2> QED  BY <1>10, <2>2, <2>3
<1>12. ASSUME NEW i \in 1 .. FrameSize
       PROVE  s[i] = IF i <= FrameSize - (n + 1) THEN 1 ELSE f[i - (FrameSize - (n + 1))]
  <2>1. CASE i < FrameSize
    <3>1. i + 1 \in 1 .. FrameSize /\ s[i] = r.shreg[i + 1]  BY <1>5, <1>7, <2>1, SizeFacts
    <3>2. i + 1 <= FrameSize - n <=> i <= FrameSize - (n + 1)  BY <1>2, SizeFacts
    <3>3. (i + 1) - (FrameSize - n) = i - (FrameSize - (n + 1))  BY <1>2, SizeFacts
    <3> QED  BY <1>1, <3>1, <3>2, <3>3
  <2>2. CASE i = FrameSize
    <3>1. ~(i <= FrameSize - (n + 1)) /\ i - (FrameSize - (n + 1)) = n + 1 /\ ~(i < FrameSize)
      BY <1>2, <2>2, SizeFacts
    <3> QED  BY <1>7, <3>1 DEF b
  <2> QED  BY <2>1, <2>2, SizeFacts
<1>13. Mid(q, f, n + 1)
  BY <1>10, <1>11, <1>12 DEF Mid, RxInv
<1> QED  BY <1>13 DEF q, b

LEMMA MidLast ==
  ASSUME NEW c \in DOMAIN Code, NEW r, Mid(r, Frame(c), FrameSize - 1)
  PROVE  BitTime(1, FALSE)[r] = [Idling(1) EXCEPT !.out = c]
<1> DEFINE f == Frame(c)
           w == [r EXCEPT !.sampling = TRUE]
           s == Shifted(w.shreg, 1)
           p == IF ParityUpdate(w.shreg) THEN (w.pbit + 1) % 2 ELSE w.pbit
<1>1. /\ f[1] = 0 /\ f[FrameSize] = 1
      /\ \A i \in 1 .. NCHAR : f[i + 1] = Code[c][i] /\ Code[c][i] \in Bit
  BY FrameIs
<1> HIDE DEF f
<1>2. /\ r \in Receiver /\ r.sampling /\ r.out = NoChar /\ r.pbit = Weight(f, FrameSize - 1) % 2
      /\ \A i \in 1 .. FrameSize : r.shreg[i] =
           IF i <= FrameSize - (FrameSize - 1) THEN 1 ELSE f[i - (FrameSize - (FrameSize - 1))]
  BY DEF Mid, f
<1>3. r.pbit = 0
  <2>1. FrameSize - 1 = NCHAR + 2  BY SizeFacts
  <2> QED  BY <1>2, <2>1, EvenParity DEF f
<1>4. BitTime(1, FALSE)[r] = Sampled(w, 1)
  BY <1>2 DEF BitTime
<1>5. w \in Receiver /\ w.sampling /\ w.shreg = r.shreg /\ w.pbit = 0
  BY <1>2, <1>3 DEF Receiver
<1> HIDE DEF w
<1>6. w.shreg \in Shreg /\ 1 \in Bit
  BY <1>5 DEF Receiver, Shreg, Bit
<1>7. s \in Shreg /\ \A i \in 1 .. FrameSize : s[i] = IF i < FrameSize THEN w.shreg[i + 1] ELSE 1
  BY <1>6, ShiftedIs
<1>8. \A i \in 2 .. FrameSize : w.shreg[i] = f[i - 1]
  <2> SUFFICES ASSUME NEW i \in 2 .. FrameSize PROVE w.shreg[i] = f[i - 1]
    OBVIOUS
  <2>1. /\ i \in 1 .. FrameSize /\ ~(i <= FrameSize - (FrameSize - 1))
        /\ i - (FrameSize - (FrameSize - 1)) = i - 1
    BY SizeFacts
  <2> QED  BY <1>2, <1>5, <2>1
<1>9. w.shreg[2] = 0
  <2>1. 2 \in 2 .. FrameSize /\ 2 - 1 = 1  BY SizeFacts
  <2> QED  BY <1>1, <1>8, <2>1
<1>10. ~ParityUpdate(w.shreg) /\ p = 0
  <2>1. 2 \in 1 .. NSTOP + 1  BY SizeFacts
  <2>2. ~ParityUpdate(w.shreg)  BY <1>9, <2>1 DEF ParityUpdate
  <2> QED  BY <1>5, <2>2
<1>11. Sampled(w, 1) = [Idling(1) EXCEPT !.out = Accepted(s, p)]
  BY <1>5, <1>6, <1>9, SampledIs
<1> HIDE DEF s, p
<1>12. \A i \in 1 .. FrameSize - 1 : s[i] = f[i]
  <2> SUFFICES ASSUME NEW i \in 1 .. FrameSize - 1 PROVE s[i] = f[i]
    OBVIOUS
  <2>1. i \in 1 .. FrameSize /\ i < FrameSize /\ i + 1 \in 2 .. FrameSize /\ (i + 1) - 1 = i
    BY SizeFacts
  <2> QED  BY <1>7, <1>8, <2>1
<1>13. s[FrameSize] = 1
  <2>1. FrameSize \in 1 .. FrameSize /\ ~(FrameSize < FrameSize)  BY SizeFacts
  <2> QED  BY <1>7, <2>1
<1>14. \A i \in 1 .. NCHAR : s[i + 1] = Code[c][i]
  <2> SUFFICES ASSUME NEW i \in 1 .. NCHAR PROVE s[i + 1] = Code[c][i]
    OBVIOUS
  <2>1. i + 1 \in 1 .. FrameSize - 1  BY SizeFacts
  <2> QED  BY <1>1, <1>12, <2>1
<1>15. Accepted(s, p) = c
  <2>1. p \in Bit  BY <1>10 DEF Bit
  <2> QED  BY <1>7, <1>10, <1>13, <1>14, <2>1, AcceptedIs
<1> QED  BY <1>4, <1>11, <1>15

(* The states of the receiver from one bit of a frame to the next.         *)
Course(g, r, f, noise) ==
  /\ g[0] = r
  /\ \A n \in 0 .. FrameSize - 1 : g[n + 1] = BitTime(f[n + 1], n + 1 = noise)[g[n]]

LEMMA ReceivedIs ==
  ASSUME NEW char, NEW noise
  PROVE  \E g : /\ Course(g, [rx EXCEPT !.out = NoChar], Frame(char), noise)
                /\ Received(char, noise) = g[FrameSize]
<1> DEFINE f == Frame(char)
           r0 == [rx EXCEPT !.out = NoChar]
           Made(g, m) == \A n \in 0 .. m :
             g[n] = IF n = 0 THEN r0 ELSE BitTime(f[n], n = noise)[g[n - 1]]
           S == {m \in 0 .. FrameSize : \E g : Made(g, m)}
           Is(g) == g = [n \in 0 .. FrameSize |->
             IF n = 0 THEN r0 ELSE BitTime(f[n], n = noise)[g[n - 1]]]
<1>1. Received(char, noise) = (CHOOSE g : Is(g))[FrameSize]
  BY DEF Received
<1> HIDE DEF f, r0
<1>2. 0 \in S
  <2> DEFINE h == [n \in 0 .. 0 |-> r0]
  <2>1. Made(h, 0)
    OBVIOUS
  <2>2. 0 \in 0 .. FrameSize
    BY SizeFacts
  <2> HIDE DEF h, Made
  <2> QED  BY <2>1, <2>2
<1>3. ASSUME NEW m \in 0 .. FrameSize - 1, m \in S PROVE m + 1 \in S
  <2>1. PICK g : Made(g, m)
    BY <1>3
  <2> DEFINE h == [n \in 0 .. m + 1 |-> IF n = m + 1 THEN BitTime(f[m + 1], m + 1 = noise)[g[m]] ELSE g[n]]
  <2>2. ASSUME NEW n \in 0 .. m + 1
        PROVE  h[n] = IF n = 0 THEN r0 ELSE BitTime(f[n], n = noise)[h[n - 1]]
    <3>1. CASE n = m + 1
      <4>1. n # 0 /\ n - 1 = m /\ m \in 0 .. m + 1 /\ m # m + 1  BY <3>1, SizeFacts
      <4>2. h[m] = g[m]  BY <4>1
      <4> QED  BY <3>1, <4>1, <4>2
    <3>2. CASE n = 0
      <4>1. n # m + 1 /\ n \in 0 .. m  BY <3>2, SizeFacts
      <4> QED  BY <2>1, <3>2, <4>1
    <3>3. CASE n # m + 1 /\ n # 0
      <4>1. n \in 0 .. m /\ n - 1 \in 0 .. m + 1 /\ n - 1 # m + 1  BY <3>3, SizeFacts
      <4>2. h[n - 1] = g[n - 1] /\ h[n] = g[n]  BY <3>3, <4>1
      <4> QED  BY <2>1, <3>3, <4>1, <4>2
    <3> QED  BY <3>1, <3>2, <3>3
  <2> HIDE DEF h
  <2>3. Made(h, m + 1)
    BY <2>2
  <2>4. m + 1 \in 0 .. FrameSize
    BY SizeFacts
  <2> HIDE DEF Made
  <2> QED  BY <2>3, <2>4
<1>4. 0 .. FrameSize \subseteq S
  <2> HIDE DEF S
  <2> QED  BY <1>2, <1>3, SizeFacts, Climb
<1>5. PICK g : Made(g, FrameSize)
  <2>1. FrameSize \in 0 .. FrameSize  BY SizeFacts
  <2> QED  BY <1>4, <2>1
<1> DEFINE h == [n \in 0 .. FrameSize |-> g[n]]
<1>6. Is(h)
  <2>1. ASSUME NEW n \in 0 .. FrameSize
        PROVE  h[n] = IF n = 0 THEN r0 ELSE BitTime(f[n], n = noise)[h[n - 1]]
    <3>1. CASE n = 0
      BY <1>5, <3>1
    <3>2. CASE n # 0
      <4>1. n - 1 \in 0 .. FrameSize  BY <3>2, SizeFacts
      <4>2. h[n - 1] = g[n - 1] /\ h[n] = g[n]  BY <4>1
      <4> QED  BY <1>5, <3>2, <4>2
    <3> QED  BY <3>1, <3>2
  <2> QED  BY <2>1
<1> DEFINE c == CHOOSE x : Is(x)
<1>7. Is(c)
  <2> HIDE DEF Is
  <2> QED  BY <1>6
<1> HIDE DEF c
<1>8. Course(c, r0, f, noise)
  <2>1. ASSUME NEW n \in 0 .. FrameSize
        PROVE  c[n] = IF n = 0 THEN r0 ELSE BitTime(f[n], n = noise)[c[n - 1]]
    BY <1>7
  <2>2. ASSUME NEW n \in 0 .. FrameSize - 1
        PROVE  c[n + 1] = BitTime(f[n + 1], n + 1 = noise)[c[n]]
    <3>1. n + 1 \in 0 .. FrameSize /\ n + 1 # 0 /\ (n + 1) - 1 = n  BY SizeFacts
    <3> QED  BY <2>1, <3>1
  <2>3. 0 \in 0 .. FrameSize  BY SizeFacts
  <2> QED  BY <2>1, <2>2, <2>3 DEF Course
<1>9. Received(char, noise) = c[FrameSize]
  BY <1>1 DEF c
<1> QED  BY <1>8, <1>9 DEF f, r0

(* The receiver between two steps of the line.                             *)
Receiving(r) == RxInv(r) /\ r.level = 1

LEMMA OutDropped ==
  ASSUME NEW r, Receiving(r)
  PROVE  LET q == [r EXCEPT !.out = NoChar] IN
           Receiving(q) /\ q.out = NoChar /\ q.sampling = r.sampling
<1> DEFINE q == [r EXCEPT !.out = NoChar]
<1>1. r \in Receiver
  BY DEF Receiving, RxInv
<1>2. /\ q \in Receiver /\ q.out = NoChar /\ q.sampling = r.sampling
      /\ q.shreg = r.shreg /\ q.pbit = r.pbit /\ q.level = r.level
  BY <1>1 DEF Receiver
<1> HIDE DEF q
<1>3. Receiving(q)
  BY <1>2 DEF Receiving, RxInv
<1> QED  BY <1>2, <1>3 DEF q

(* Whatever is hit, a frame leaves the receiver as it may be found.        *)
LEMMA ReceivedTyped ==
  ASSUME Receiving(rx), NEW char \in DOMAIN Code, NEW noise \in 0 .. FrameSize
  PROVE  Receiving(Received(char, noise))
<1> DEFINE f == Frame(char)
           r0 == [rx EXCEPT !.out = NoChar]
<1>1. PICK g : Course(g, r0, f, noise) /\ Received(char, noise) = g[FrameSize]
  BY ReceivedIs
<1>2. f[FrameSize] = 1 /\ \A i \in 1 .. FrameSize : f[i] \in Bit
  BY FrameIs
<1>3. RxInv(r0)
  BY OutDropped DEF Receiving
<1> HIDE DEF f, r0
<1> DEFINE S == {n \in 0 .. FrameSize : RxInv(g[n]) /\ (n > 0 => g[n].level = f[n])}
<1>4. 0 \in S
  BY <1>1, <1>3, SizeFacts DEF Course
<1>5. ASSUME NEW n \in 0 .. FrameSize - 1, n \in S PROVE n + 1 \in S
  <2>1. n + 1 \in 1 .. FrameSize /\ n + 1 \in 0 .. FrameSize  BY SizeFacts
  <2>2. f[n + 1] \in Bit /\ (n + 1 = noise) \in BOOLEAN  BY <1>2, <2>1
  <2>3. RxInv(g[n])  BY <1>5
  <2> DEFINE q == BitTime(f[n + 1], n + 1 = noise)[g[n]]
  <2>4. RxInv(q) /\ q.level = f[n + 1]
    BY <2>2, <2>3, BitTimeTyped
  <2> HIDE DEF q
  <2>5. g[n + 1] = q
    BY <1>1 DEF Course, q
  <2> QED  BY <2>1, <2>4, <2>5
<1>6. 0 .. FrameSize \subseteq S
  <2> HIDE DEF S
  <2> QED  BY <1>4, <1>5, SizeFacts, Climb
<1>7. FrameSize \in 0 .. FrameSize /\ FrameSize > 0
  BY SizeFacts
<1>8. FrameSize \in S
  BY <1>6, <1>7
<1>9. RxInv(g[FrameSize]) /\ g[FrameSize].level = f[FrameSize]
  BY <1>7, <1>8
<1> QED  BY <1>1, <1>2, <1>9 DEF Receiving

(* A frame that is not hit is received, by a receiver at rest.             *)
LEMMA ReceivedClean ==
  ASSUME Receiving(rx), ~rx.sampling, NEW char \in DOMAIN Code
  PROVE  Received(char, 0) = [Idling(1) EXCEPT !.out = char]
<1> DEFINE f == Frame(char)
           r0 == [rx EXCEPT !.out = NoChar]
<1>1. PICK g : Course(g, r0, f, 0) /\ Received(char, 0) = g[FrameSize]
  BY ReceivedIs
<1>2. f[1] = 0 /\ f[FrameSize] = 1 /\ \A i \in 1 .. FrameSize : f[i] \in Bit
  BY FrameIs
<1>3. RxInv(r0) /\ ~r0.sampling /\ r0.level = 1 /\ r0.out = NoChar
  BY OutDropped DEF Receiving
<1> HIDE DEF f, r0
<1>4. \A n \in 0 .. FrameSize - 1 : g[n + 1] = BitTime(f[n + 1], FALSE)[g[n]]
  <2>1. \A n \in 0 .. FrameSize - 1 : (n + 1 = 0) = FALSE  BY SizeFacts
  <2> QED  BY <1>1, <2>1 DEF Course
<1>5. g[1] = BitTime(0, FALSE)[r0]
  <2>1. 0 \in 0 .. FrameSize - 1 /\ 0 + 1 = 1  BY SizeFacts
  <2>2. g[0] = r0  BY <1>1 DEF Course
  <2> QED  BY <1>2, <1>4, <2>1, <2>2
<1> DEFINE S == {k \in 0 .. NCHAR + 1 : Mid(g[k + 1], f, k + 1)}
<1>6. 0 \in S
  <2>1. Mid(g[1], f, 1)  BY <1>2, <1>3, <1>5, MidFirst
  <2>2. 0 + 1 = 1 /\ 0 \in 0 .. NCHAR + 1  BY SizeFacts
  <2> QED  BY <2>1, <2>2
<1>7. ASSUME NEW k \in 0 .. (NCHAR + 1) - 1, k \in S PROVE k + 1 \in S
  <2>1. k + 1 \in 1 .. FrameSize - 2 /\ k + 1 \in 0 .. FrameSize - 1 /\ k + 1 \in 0 .. NCHAR + 1
    BY SizeFacts
  <2>2. Mid(BitTime(f[(k + 1) + 1], FALSE)[g[k + 1]], f, (k + 1) + 1)
    <3>1. Mid(g[k + 1], f, k + 1)  BY <1>7
    <3> QED  BY <1>2, <2>1, <3>1, MidNext
  <2>3. g[(k + 1) + 1] = BitTime(f[(k + 1) + 1], FALSE)[g[k + 1]]
    BY <1>4, <2>1
  <2>4. Mid(g[(k + 1) + 1], f, (k + 1) + 1)
    BY <2>2, <2>3
  <2> QED  BY <2>1, <2>4
<1>8. 0 .. NCHAR + 1 \subseteq S
  <2>1. NCHAR + 1 \in Nat  BY SizeFacts
  <2> HIDE DEF S
  <2> QED  BY <1>6, <1>7, <2>1, Climb
<1>9. Mid(g[FrameSize - 1], f, FrameSize - 1)
  <2>1. NCHAR + 1 \in 0 .. NCHAR + 1 /\ (NCHAR + 1) + 1 = FrameSize - 1  BY SizeFacts
  <2>2. NCHAR + 1 \in S  BY <1>8, <2>1
  <2>3. Mid(g[(NCHAR + 1) + 1], f, (NCHAR + 1) + 1)  BY <2>2
  <2> QED  BY <2>1, <2>3
<1>10. g[FrameSize] = BitTime(1, FALSE)[g[FrameSize - 1]]
  <2>1. FrameSize - 1 \in 0 .. FrameSize - 1 /\ (FrameSize - 1) + 1 = FrameSize  BY SizeFacts
  <2> QED  BY <1>2, <1>4, <2>1
<1>11. BitTime(1, FALSE)[g[FrameSize - 1]] = [Idling(1) EXCEPT !.out = char]
  BY <1>9, MidLast DEF f
<1> QED  BY <1>1, <1>10, <1>11

LEMMA WaitedTyped ==
  ASSUME Receiving(rx), NEW noisy \in BOOLEAN
  PROVE  Receiving(Waited(noisy))
<1> DEFINE r0 == [rx EXCEPT !.out = NoChar]
<1>1. RxInv(r0)
  BY OutDropped DEF Receiving
<1>2. 1 \in Bit
  BY DEF Bit
<1>3. Waited(noisy) = BitTime(1, noisy)[r0]
  BY DEF Waited
<1> HIDE DEF r0
<1> DEFINE q == BitTime(1, noisy)[r0]
<1>4. RxInv(q) /\ q.level = 1
  BY <1>1, <1>2, BitTimeTyped
<1> QED  BY <1>3, <1>4 DEF Receiving

-----------------------------------------------------------------------------
(* The line and the displays.                                              *)
Sign == Char \cup {Clear}

Line == PanelOK /\ Receiving(rx) /\ errors \in 0 .. MaxErrors

LEMMA StrobeKeeps ==
  ASSUME PanelOK, NEW c \in Sign, Strobe(c)
  PROVE  PanelOK'
<1>1. sseg \in [Place -> Char] /\ hot \in Place
  BY DEF PanelOK
<1>2. NDisp \in Nat /\ NDisp > 0 /\ 1 \in Place /\ (hot % NDisp) + 1 \in Place
  BY <1>1, NDispAssumption DEF Place
<1>3. CASE c = Clear
  <2>1. AllOff \in [Place -> Char]
    BY CharAssumption DEF AllOff
  <2> QED  BY <1>2, <1>3, <2>1 DEF Strobe, PanelOK
<1>4. CASE c # Clear
  <2>1. [sseg EXCEPT ![hot] = c] \in [Place -> Char]
    BY <1>1, <1>4 DEF Sign
  <2> QED  BY <1>2, <1>4, <2>1 DEF Strobe, PanelOK
<1> QED  BY <1>3, <1>4

LEMMA ReceiveKeeps ==
  ASSUME PanelOK, NEW next, Receiving(next), Receive(next)
  PROVE  PanelOK' /\ Receiving(rx)'
<1>1. Receiving(rx)'
  BY DEF Receive
<1>2. PanelOK'
  <2>1. next.out \in Sign \cup {NoChar}
    BY TextAssumption DEF Receiving, RxInv, Receiver, Sign
  <2>2. CASE next.out = NoChar
    BY <2>2 DEF Receive, panelVars, PanelOK
  <2>3. CASE next.out # NoChar
    <3>1. next.out \in Sign /\ Strobe(next.out)
      BY <2>1, <2>3 DEF Receive
    <3> QED  BY <3>1, StrobeKeeps
  <2> QED  BY <2>2, <2>3
<1> QED  BY <1>1, <1>2

LEMMA RxStart == Init => Receiving(rx)
<1> SUFFICES ASSUME Init PROVE Receiving(rx)
  OBVIOUS
<1>1. rx = Idling(1) /\ Ones \in Shreg
  BY DEF Init, Ones, Shreg, Bit
<1> QED  BY <1>1 DEF Receiving, RxInv, Idling, Receiver, Shreg, Bit

LEMMA LineHolds == Spec => []Line
<1>1. Init => Line
  <2> SUFFICES ASSUME Init PROVE Line
    OBVIOUS
  <2>1. PanelOK
    BY NDispAssumption, CharAssumption DEF Init, Reset, AllOff, PanelOK, Place
  <2>2. errors \in 0 .. MaxErrors
    BY MinScrollAssumption DEF Init
  <2> QED  BY <2>1, <2>2, RxStart DEF Line
<1>2. Line /\ [Next]_vars => Line'
  <2> SUFFICES ASSUME Line, [Next]_vars PROVE Line'
    OBVIOUS
  <2>1. CASE Uart
    <3>1. PICK char \in Sign, noise \in 0 .. FrameSize :
            (noise # 0 => errors < MaxErrors) /\ Send(char, noise)
      BY <2>1 DEF Uart, Sign
    <3>2. Receiving(Received(char, noise))
      BY <3>1, ReceivedTyped, TextAssumption DEF Line, Sign
    <3>3. PanelOK' /\ Receiving(rx)'
      BY <3>1, <3>2, ReceiveKeeps DEF Send, Line
    <3>4. errors' \in 0 .. MaxErrors
      BY <3>1, MinScrollAssumption DEF Send, Line
    <3> QED  BY <3>3, <3>4 DEF Line
  <2>2. CASE LineIdle
    <3>1. PanelOK' /\ Receiving(rx)'
      BY <2>2, WaitedTyped, ReceiveKeeps DEF LineIdle, Line
    <3> QED  BY <2>2, <3>1 DEF LineIdle, Line
  <2>3. CASE Glitch
    <3>1. PanelOK' /\ Receiving(rx)'
      BY <2>3, WaitedTyped, ReceiveKeeps DEF Glitch, Line
    <3>2. errors' \in 0 .. MaxErrors
      BY <2>3, MinScrollAssumption DEF Glitch, Line
    <3> QED  BY <3>1, <3>2 DEF Line
  <2>4. CASE UNCHANGED <<panelVars, rx, errors>>
    BY <2>4 DEF Line, PanelOK, panelVars
  <2>5. Main \/ Alarm \/ (\E c : Call(c)) \/ UNCHANGED vars => UNCHANGED <<panelVars, rx, errors>>
    BY DEF Main, Alarm, Call, WaitScroll, WaitSent, SeekClear, NoSpace, Build, Transfer, Scroll,
           StartScroll, Spin, vars
  <2> QED  BY <2>1, <2>2, <2>3, <2>4, <2>5 DEF Next
<1> QED  BY <1>1, <1>2, PTL DEF Spec

-----------------------------------------------------------------------------
(* The program and the DMA stream.                                         *)
Typed ==
  /\ pc \in {"idle", "wait", "clear", "copy", "spin"}
  /\ state \in {"BUILD_STRING", "TRANSFER_NO_SCROLL", "TRANSFER_SCROLL"}
  /\ buf \in Seq(Sign) /\ Len(buf) <= BufSize
  /\ scrollPtr \in 1 .. BufSize /\ scrolled \in BOOLEAN /\ nscroll \in 0 .. MinScroll
  /\ alarmSet \in BOOLEAN /\ clearing \in BOOLEAN /\ tc \in BOOLEAN
  /\ ptr \in Nat /\ left \in 0 .. NDisp /\ (left > 0 => ptr + left <= Len(buf) + 1)
  /\ text \in Seq(Sign)
  /\ (~call.seek => call.text \in Text)

(* What may be under way together.                                         *)
Control ==
  /\ (alarmSet <=> state = "TRANSFER_SCROLL")
  /\ (state = "BUILD_STRING" => left = 0 /\ (clearing => tc /\ pc = "idle"))
  /\ (pc = "wait" /\ tc => left = 0 /\ ~clearing)
  /\ (pc \in {"copy", "clear"} => state = "BUILD_STRING")
  /\ (pc = "copy" => ~call.seek)
  /\ (pc = "spin" => state = "TRANSFER_SCROLL")
  /\ (clearing => text = <<>> /\ left = 0)

(* text with its separator; indices of it that are the same up to a turn.  *)
Near(m, x, y) == x = y \/ x = y + m \/ x = y - m
Turn == Len(text) + 1
Cycle == Append(text, Off)
Alike(x, y) == Near(Turn, x, y)

(* A scroll: buf is the string and its separator, turned round, and the    *)
(* next window is the one after that offset says has been sent.            *)
Scrolling ==
  state = "TRANSFER_SCROLL" =>
    /\ Len(text) > NDisp /\ Len(buf) = Turn /\ ~clearing
    /\ offset \in 0 .. Len(text)
    /\ scrollPtr \in 2 .. Turn + 1 - NDisp
    /\ \A k, j \in 1 .. Turn : Alike(j - 1, (offset + k - scrollPtr) + 1) => buf[k] = Cycle[j]

Base == Typed /\ Control /\ Scrolling

LEMMA Sizes ==
  /\ NDisp \in Nat /\ NDisp > 0 /\ BufSize \in Nat /\ BufSize > NDisp
  /\ MinScroll \in Nat /\ MinScroll > 0 /\ Off \in Sign
  BY NDispAssumption, BufSizeAssumption, MinScrollAssumption, CharAssumption DEF Sign

LEMMA CallKeeps ==
  ASSUME Base, NEW c \in {Seek} \cup {Write(s, end) : s \in Text, end \in BOOLEAN}, Call(c)
  PROVE  Base'
<1>1. ~c.seek => c.text \in Text
  BY DEF Seek, Write
<1>2. Typed'
  <2>1. <<>> \in Seq(Sign) /\ Len(<<>>) = 0
    OBVIOUS
  <2>2. call' = c /\ UNCHANGED <<state, scrollPtr, scrolled, nscroll, alarmSet, clearing, ptr, left, tc, text>>
    BY DEF Call, uartVars, history
  <2>3. (~call.seek => call.text \in Text)'
    BY <1>1, <2>2
  <2>4. pc' \in {"idle", "wait", "clear", "copy", "spin"}
    BY DEF Call
  <2>5. buf' = buf \/ (left = 0 /\ buf' = <<>>)
    BY DEF Call, Base, Control
  <2>6. buf' \in Seq(Sign) /\ Len(buf') <= BufSize /\ (left > 0 => ptr + left <= Len(buf') + 1)
    <3>1. CASE buf' = buf
      BY <3>1 DEF Base, Typed
    <3>2. CASE left = 0 /\ buf' = <<>>
      BY <2>1, <3>2, Sizes
    <3> QED  BY <2>5, <3>1, <3>2
  <2> QED  BY <2>2, <2>3, <2>4, <2>6 DEF Base, Typed
<1>3. Control'
  BY DEF Base, Typed, Control, Call, uartVars, history
<1>4. Scrolling'
  BY DEF Base, Scrolling, Call, Turn, Cycle, Alike, Near, uartVars, history
<1> QED  BY <1>2, <1>3, <1>4 DEF Base

LEMMA WaitKeeps ==
  ASSUME Base, WaitScroll \/ WaitSent \/ SeekClear
  PROVE  Base'
<1>1. <<>> \in Seq(Sign) /\ Len(<<>>) = 0
  OBVIOUS
<1>2. CASE WaitScroll
  BY <1>2 DEF Base, Typed, Control, Scrolling, WaitScroll, uartVars, history
<1>3. CASE WaitSent
  <2>1. /\ pc = "wait" /\ tc /\ tc' = FALSE /\ buf' = <<>> /\ state' = "BUILD_STRING"
        /\ pc' = (IF call.seek THEN "clear" ELSE "copy") /\ state = "TRANSFER_NO_SCROLL"
        /\ UNCHANGED <<call, scrollPtr, scrolled, nscroll, alarmSet, clearing, ptr, left, text>>
    BY <1>3 DEF WaitSent, history
  <2>2. left = 0 /\ ~clearing /\ ~alarmSet
    BY <2>1 DEF Base, Control
  <2>3. pc' \in {"clear", "copy"}
    BY <2>1
  <2>4. Typed'
    <3>1. buf' \in Seq(Sign) /\ Len(buf') <= BufSize /\ state' = "BUILD_STRING"
      BY <1>1, <2>1, Sizes
    <3>2. tc' \in BOOLEAN
      BY <2>1
    <3>3. (~call.seek => call.text \in Text)'
      BY <2>1 DEF Base, Typed
    <3> QED  BY <2>1, <2>2, <2>3, <3>1, <3>2, <3>3 DEF Base, Typed
  <2>5. Control'
    BY <2>1, <2>2 DEF Control
  <2> QED  BY <2>1, <2>4, <2>5 DEF Base, Scrolling
<1>4. CASE SeekClear
  BY <1>1, <1>4 DEF Base, Typed, Control, Scrolling, SeekClear
<1> QED  BY <1>2, <1>3, <1>4

(* The string that is built: it leaves room for the separator.             *)
LEMMA StringIs ==
  ASSUME Base, Fits
  PROVE  LET str == buf \o call.text IN str \in Seq(Sign) /\ Len(str) <= BufSize - 1
<1>1. buf \in Seq(Sign) /\ call.text \in Seq(Sign)
  BY TextAssumption DEF Base, Typed, Control, Fits, Sign
<1> DEFINE str == buf \o call.text
<1>2. str \in Seq(Sign) /\ Len(str) = Len(buf) + Len(call.text)
  BY <1>1, ConcatProperties
<1> HIDE DEF str
<1>3. Len(str) <= BufSize - 1
  BY <1>2 DEF Fits
<1> QED  BY <1>2, <1>3 DEF str

LEMMA CopyKeeps ==
  ASSUME Base, NoSpace \/ Build \/ Spin
  PROVE  Base'
<1>1. CASE NoSpace
  BY <1>1 DEF Base, Typed, Control, Scrolling, Turn, Cycle, Alike, Near, NoSpace, uartVars, history
<1>2. CASE Build
  <2>1. Fits
    BY <1>2 DEF Build
  <2>2. buf' \in Seq(Sign) /\ Len(buf') <= BufSize - 1
    BY <1>2, <2>1, StringIs DEF Build
  <2>3. Len(buf') <= BufSize
    BY <2>2, Sizes
  <2>4. Typed'
    BY <1>2, <2>1, <2>2, <2>3 DEF Base, Typed, Control, Build, Fits, uartVars, history
  <2>5. Control' /\ Scrolling'
    BY <1>2, <2>1 DEF Base, Typed, Control, Scrolling, Build, Fits, uartVars, history
  <2> QED  BY <2>4, <2>5 DEF Base
<1>3. CASE Spin
  BY <1>3 DEF Base, Typed, Control, Scrolling, Turn, Cycle, Alike, Near, Spin, uartVars, history
<1> QED  BY <1>1, <1>2, <1>3

LEMMA TransferKeeps ==
  ASSUME Base, NEW str \in Seq(Sign), Len(str) <= BufSize - 1, Transfer(str)
  PROVE  Base'
<1>1. pc = "copy" /\ Len(str) \in Nat /\ Len(str) <= NDisp
  BY DEF Transfer, Fits
<1>2. Typed'
  BY <1>1, Sizes DEF Base, Typed, Transfer, Begins, StartDMATransfer
<1>3. Control'
  BY <1>1 DEF Base, Typed, Control, Transfer, Begins, StartDMATransfer
<1>4. Scrolling'
  BY DEF Scrolling, Transfer
<1> QED  BY <1>2, <1>3, <1>4 DEF Base

LEMMA ScrollKeeps ==
  ASSUME Base, NEW str \in Seq(Sign), Len(str) <= BufSize - 1, Scroll(str)
  PROVE  Base'
<1> DEFINE b == Append(str, Off)
<1>1. pc = "copy" /\ Len(str) \in Nat /\ Len(str) > NDisp
  BY DEF Scroll, StartScroll, Fits
<1>2. b \in Seq(Sign) /\ Len(b) = Len(str) + 1
  BY Sizes, AppendProperties
<1>3. /\ pc' = "spin" /\ state' = "TRANSFER_SCROLL" /\ alarmSet' = TRUE
      /\ buf' = b /\ scrollPtr' = 2 /\ ptr' = 1 /\ left' = NDisp /\ scrolled' = FALSE /\ nscroll' = 0
      /\ text' = str /\ offset' = 0 /\ UNCHANGED <<call, clearing, tc>>
  BY DEF Scroll, StartScroll, StartDMATransfer, Begins
<1> HIDE DEF b
<1>4. Typed'
  <2>1. buf' \in Seq(Sign) /\ Len(buf') <= BufSize
    BY <1>1, <1>2, <1>3, Sizes
  <2>2. scrollPtr' \in 1 .. BufSize /\ nscroll' \in 0 .. MinScroll
    BY <1>3, Sizes
  <2>3. ptr' \in Nat /\ left' \in 0 .. NDisp /\ ptr' + left' <= Len(buf') + 1
    BY <1>1, <1>2, <1>3, Sizes
  <2>4. scrolled' \in BOOLEAN /\ alarmSet' \in BOOLEAN
    BY <1>3
  <2>5. (~call.seek => call.text \in Text)'
    BY <1>3 DEF Base, Typed
  <2> QED  BY <1>3, <2>1, <2>2, <2>3, <2>4, <2>5 DEF Base, Typed
<1>5. Control'
  BY <1>1, <1>3 DEF Base, Typed, Control
<1>6. Scrolling'
  <2>1. Turn' = Len(str) + 1 /\ Cycle' = b
    BY <1>3 DEF Turn, Cycle, b
  <2>2. ASSUME NEW k \in 1 .. Turn', NEW j \in 1 .. Turn', Alike(j - 1, (offset + k - scrollPtr) + 1)'
        PROVE  buf'[k] = Cycle'[j]
    <3>1. k = j
      BY <1>1, <1>3, <2>1, <2>2 DEF Alike, Near
    <3> QED  BY <1>3, <2>1, <3>1
  <2>3. Control'
    BY <1>5
  <2>4. ~clearing'
    BY <1>1, <1>3 DEF Base, Control
  <2>5. Len(buf') = Turn' /\ Len(text') > NDisp /\ offset' \in 0 .. Len(text')
    BY <1>1, <1>2, <1>3, <2>1
  <2>6. scrollPtr' \in 2 .. Turn' + 1 - NDisp
    BY <1>1, <1>3, <2>1, Sizes
  <2> QED  BY <2>2, <2>4, <2>5, <2>6 DEF Scrolling
<1> QED  BY <1>4, <1>5, <1>6 DEF Base

LEMMA Wrap ==
  ASSUME NEW m \in Nat, m > 0, NEW x \in Nat
  PROVE  /\ x % m \in 0 .. m - 1
         /\ (x < m => x % m = x)
         /\ (m <= x /\ x < 2 * m => x % m = x - m)
<1>1. x % m \in 0 .. m - 1
  OBVIOUS
<1>2. x < m => x % m = x
  OBVIOUS
<1>3. m <= x /\ x < 2 * m => x % m = x - m
  OBVIOUS
<1> QED  BY <1>1, <1>2, <1>3

LEMMA RotatedIs ==
  ASSUME buf \in Seq(Sign), scrollPtr \in 2 .. Len(buf)
  PROVE  /\ Rotated \in Seq(Sign) /\ Len(Rotated) = Len(buf)
         /\ \A k \in 1 .. Len(buf) :
              Rotated[k] = IF k <= (Len(buf) - scrollPtr) + 1 THEN buf[(scrollPtr + k) - 1]
                           ELSE buf[(k + scrollPtr) - (Len(buf) + 1)]
<1> DEFINE l == Len(buf)
           a == SubSeq(buf, scrollPtr, l)
           b == SubSeq(buf, 1, scrollPtr - 1)
<1>1. l \in Nat /\ scrollPtr \in Nat /\ 2 <= scrollPtr /\ scrollPtr <= l
  OBVIOUS
<1>2. \A i \in 1 .. l : buf[i] \in Sign
  OBVIOUS
<1> HIDE DEF l
<1>3. /\ a \in Seq(Sign) /\ Len(a) = (l - scrollPtr) + 1
      /\ \A i \in 1 .. (l - scrollPtr) + 1 : a[i] = buf[(scrollPtr + i) - 1]
  <2>1. \A i \in scrollPtr .. l : buf[i] \in Sign
    BY <1>1, <1>2
  <2>2. /\ a \in Seq(Sign) /\ Len(a) = IF scrollPtr <= l THEN (l - scrollPtr) + 1 ELSE 0
        /\ \A i \in 1 .. (l - scrollPtr) + 1 : a[i] = buf[(scrollPtr + i) - 1]
    BY <1>1, <2>1, SubSeqProperties
  <2> QED  BY <1>1, <2>2
<1>4. /\ b \in Seq(Sign) /\ Len(b) = scrollPtr - 1
      /\ \A i \in 1 .. scrollPtr - 1 : b[i] = buf[i]
  <2> DEFINE m == scrollPtr - 1
  <2>1. m \in Nat /\ 1 <= m /\ (m - 1) + 1 = m /\ \A i \in 1 .. m : buf[i] \in Sign /\ (1 + i) - 1 = i
    BY <1>1, <1>2
  <2> HIDE DEF m
  <2>2. /\ SubSeq(buf, 1, m) \in Seq(Sign)
        /\ Len(SubSeq(buf, 1, m)) = IF 1 <= m THEN (m - 1) + 1 ELSE 0
        /\ \A i \in 1 .. (m - 1) + 1 : SubSeq(buf, 1, m)[i] = buf[(1 + i) - 1]
    BY <2>1, SubSeqProperties
  <2> QED  BY <2>1, <2>2 DEF m
<1> HIDE DEF a, b
<1> DEFINE r == a \o b
<1>5. /\ r \in Seq(Sign) /\ Len(r) = Len(a) + Len(b)
      /\ \A k \in 1 .. Len(a) + Len(b) : r[k] = IF k <= Len(a) THEN a[k] ELSE b[k - Len(a)]
  <2>1. a \in Seq(Sign) /\ b \in Seq(Sign)
    BY <1>3, <1>4
  <2> QED  BY <2>1, ConcatProperties
<1> HIDE DEF r
<1>6. Len(a) + Len(b) = l
  BY <1>1, <1>3, <1>4
<1>7. ASSUME NEW k \in 1 .. l
      PROVE  r[k] = IF k <= (l - scrollPtr) + 1 THEN buf[(scrollPtr + k) - 1]
                    ELSE buf[(k + scrollPtr) - (l + 1)]
  <2>1. CASE k <= (l - scrollPtr) + 1
    <3>1. k \in 1 .. Len(a) + Len(b) /\ k <= Len(a) /\ k \in 1 .. (l - scrollPtr) + 1
      BY <1>1, <1>3, <1>6, <2>1
    <3>2. r[k] = a[k]
      BY <1>5, <3>1
    <3> QED  BY <1>3, <2>1, <3>1, <3>2
  <2>2. CASE ~(k <= (l - scrollPtr) + 1)
    <3>1. k - Len(a) = (k + scrollPtr) - (l + 1) /\ k - Len(a) \in 1 .. scrollPtr - 1
      BY <1>1, <1>3, <2>2
    <3> QED  BY <1>3, <1>4, <1>5, <1>6, <2>2, <3>1
  <2> QED  BY <2>1, <2>2
<1>8. r = Rotated
  BY DEF r, a, b, l, Rotated
<1> QED  BY <1>5, <1>6, <1>7, <1>8 DEF l

(* An index goes round with the buffer, and with the window.               *)
LEMMA TurnsBack ==
  ASSUME NEW l \in Nat, NEW d \in Nat, d > 0, l > d, NEW o \in 0 .. l, NEW p \in 2 .. (l + 2) - d,
         NEW k \in 1 .. l + 1, NEW j \in 1 .. l + 1, NEW q, q = IF o = l THEN 0 ELSE o + 1
  PROVE  /\ Near(l + 1, j - 1, (q + (k - (p + 1))) + 1) => Near(l + 1, j - 1, (o + (k - p)) + 1)
         /\ LET m == IF k <= ((l + 1) - p) + 1 THEN (p + k) - 1 ELSE (k + p) - ((l + 1) + 1)
            IN  /\ m \in 1 .. l + 1
                /\ Near(l + 1, j - 1, (q + (k - 2)) + 1) => Near(l + 1, j - 1, (o + (m - p)) + 1)
<1>1. Near(l + 1, j - 1, (q + (k - (p + 1))) + 1) => Near(l + 1, j - 1, (o + (k - p)) + 1)
  <2>1. CASE o = l
    BY <2>1 DEF Near
  <2>2. CASE o # l
    BY <2>2 DEF Near
  <2> QED  BY <2>1, <2>2
<1>2. CASE k <= ((l + 1) - p) + 1
  <2> DEFINE m == (p + k) - 1
  <2>1. m \in 1 .. l + 1
    BY <1>2
  <2>2. Near(l + 1, j - 1, (q + (k - 2)) + 1) => Near(l + 1, j - 1, (o + (m - p)) + 1)
    <3>1. CASE o = l
      BY <3>1 DEF Near
    <3>2. CASE o # l
      BY <3>2 DEF Near
    <3> QED  BY <3>1, <3>2
  <2> QED  BY <1>1, <1>2, <2>1, <2>2
<1>3. CASE ~(k <= ((l + 1) - p) + 1)
  <2> DEFINE m == (k + p) - ((l + 1) + 1)
  <2>1. m \in 1 .. l + 1
    BY <1>3
  <2>2. Near(l + 1, j - 1, (q + (k - 2)) + 1) => Near(l + 1, j - 1, (o + (m - p)) + 1)
    <3>1. CASE o = l
      BY <1>3, <3>1 DEF Near
    <3>2. CASE o # l
      BY <1>3, <3>2 DEF Near
    <3> QED  BY <3>1, <3>2
  <2> QED  BY <1>1, <1>3, <2>1, <2>2
<1> QED  BY <1>2, <1>3

(* How far a window moves.                                                 *)
LEMMA OffsetMoves ==
  ASSUME text \in Seq(Sign), offset \in 0 .. Len(text)
  PROVE  LET next == (offset + 1) % (Len(text) + 1)
         IN  next \in 0 .. Len(text) /\ next = IF offset = Len(text) THEN 0 ELSE offset + 1
<1> DEFINE l == Len(text)
<1>1. l \in Nat
  OBVIOUS
<1> HIDE DEF l
<1>2. l + 1 \in Nat /\ l + 1 > 0 /\ offset \in 0 .. l /\ offset + 1 \in Nat /\ (l + 1) - 1 = l
  BY <1>1 DEF l
<1> DEFINE next == (offset + 1) % (l + 1)
<1>3. /\ next \in 0 .. l
      /\ (offset + 1 < l + 1 => next = offset + 1)
      /\ (l + 1 <= offset + 1 /\ offset + 1 < 2 * (l + 1) => next = (offset + 1) - (l + 1))
  BY <1>2, Wrap
<1> HIDE DEF next
<1>4. next = IF offset = l THEN 0 ELSE offset + 1
  BY <1>1, <1>2, <1>3
<1> QED  BY <1>3, <1>4 DEF next, l

LEMMA AlarmKeeps ==
  ASSUME Base, Alarm
  PROVE  Base'
<1> DEFINE l == Len(text)
<1>1. /\ state = "TRANSFER_SCROLL" /\ left = 0 /\ ~clearing /\ tc' = FALSE /\ left' = NDisp
      /\ UNCHANGED <<pc, call, state, alarmSet, clearing, text>>
  BY DEF Alarm, Base, Control, StartDMATransfer
<1>2. buf \in Seq(Sign) /\ text \in Seq(Sign) /\ Len(buf) <= BufSize /\ nscroll \in 0 .. MinScroll
  BY DEF Base, Typed
<1>3. Turn = l + 1 /\ l \in Nat
  BY <1>2 DEF Turn
<1>4. l > NDisp /\ Len(buf) = Turn /\ offset \in 0 .. l /\ scrollPtr \in 2 .. Turn + 1 - NDisp
  BY <1>1 DEF Base, Scrolling
<1>5. \A k, j \in 1 .. Turn : Alike(j - 1, (offset + k - scrollPtr) + 1) => buf[k] = Cycle[j]
  BY <1>1 DEF Base, Scrolling
<1>6. offset' \in 0 .. l /\ offset' = IF offset = l THEN 0 ELSE offset + 1
  BY <1>2, <1>4, OffsetMoves DEF Alarm
<1>7. Turn' = Turn /\ Cycle' = Cycle /\ \A x, y : Alike(x, y)' <=> Near(l + 1, x, y)
  BY <1>1 DEF Turn, Cycle, Alike
<1>8. Len(text') = l
  BY <1>1
<1> HIDE DEF l
<1>9. Len(buf) = l + 1 /\ scrollPtr \in 2 .. (l + 2) - NDisp /\ scrollPtr \in 2 .. Len(buf)
  BY <1>3, <1>4, Sizes
<1>10. CASE LastWindow
  <2>1. /\ buf' = Rotated /\ scrollPtr' = 2 /\ ptr' = 1
        /\ nscroll' = (IF nscroll < MinScroll THEN nscroll + 1 ELSE nscroll)
        /\ scrolled' = (scrolled \/ nscroll + 1 = MinScroll)
    BY <1>10 DEF Alarm, StartDMATransfer
  <2>2. /\ Rotated \in Seq(Sign) /\ Len(Rotated) = l + 1
        /\ \A k \in 1 .. l + 1 :
             Rotated[k] = IF k <= ((l + 1) - scrollPtr) + 1 THEN buf[(scrollPtr + k) - 1]
                          ELSE buf[(k + scrollPtr) - ((l + 1) + 1)]
    BY <1>2, <1>9, RotatedIs
  <2>3. Typed'
    <3>1. buf' \in Seq(Sign) /\ Len(buf') <= BufSize
      BY <1>2, <1>9, <2>1, <2>2
    <3>2. scrollPtr' \in 1 .. BufSize /\ nscroll' \in 0 .. MinScroll
      BY <1>2, <2>1, Sizes
    <3>3. scrolled' \in BOOLEAN
      BY <2>1
    <3>4. ptr' \in Nat /\ left' \in 0 .. NDisp /\ ptr' + left' <= Len(buf') + 1
      BY <1>1, <1>3, <1>4, <2>1, <2>2, Sizes
    <3>5. tc' \in BOOLEAN
      BY <1>1
    <3> QED  BY <1>1, <3>1, <3>2, <3>3, <3>4, <3>5 DEF Base, Typed
  <2>4. Control'
    BY <1>1 DEF Base, Control
  <2>5. ASSUME NEW k \in 1 .. l + 1, NEW j \in 1 .. l + 1,
               Near(l + 1, j - 1, (offset' + (k - 2)) + 1)
        PROVE  buf'[k] = Cycle[j]
    <3> DEFINE m == IF k <= ((l + 1) - scrollPtr) + 1 THEN (scrollPtr + k) - 1
                    ELSE (k + scrollPtr) - ((l + 1) + 1)
    <3>1. buf'[k] = buf[m]
      BY <2>1, <2>2
    <3>2. m \in 1 .. l + 1 /\ Near(l + 1, j - 1, (offset + (m - scrollPtr)) + 1)
      <4>1. m \in 1 .. l + 1 /\ (Near(l + 1, j - 1, (offset' + (k - 2)) + 1) =>
                                 Near(l + 1, j - 1, (offset + (m - scrollPtr)) + 1))
        BY <1>3, <1>4, <1>6, <1>9, Sizes, TurnsBack
      <4> QED  BY <2>5, <4>1
    <3> HIDE DEF m
    <3> QED  BY <1>3, <1>5, <3>1, <3>2 DEF Alike
  <2>6. scrollPtr' \in 2 .. Turn' + 1 - NDisp
    BY <1>3, <1>4, <1>7, <2>1, Sizes
  <2>7. \A k, j \in 1 .. Turn' : Alike(j - 1, (offset + k - scrollPtr) + 1)' => buf'[k] = Cycle'[j]
    <3> SUFFICES ASSUME NEW k \in 1 .. l + 1, NEW j \in 1 .. l + 1,
                        Alike(j - 1, (offset + k - scrollPtr) + 1)'
                 PROVE  buf'[k] = Cycle[j]
      BY <1>3, <1>7
    <3>1. Near(l + 1, j - 1, (offset' + (k - 2)) + 1)
      BY <1>3, <1>7, <2>1 DEF Alike
    <3> QED  BY <2>5, <3>1
  <2>8. Scrolling'
    <3>1. Len(text') > NDisp /\ Len(buf') = Turn' /\ ~clearing' /\ offset' \in 0 .. Len(text')
      BY <1>1, <1>3, <1>4, <1>6, <1>7, <1>8, <2>1, <2>2
    <3> QED  BY <2>6, <2>7, <3>1 DEF Scrolling
  <2> QED  BY <2>3, <2>4, <2>8 DEF Base
<1>11. CASE ~LastWindow
  <2>1. scrollPtr' = scrollPtr + 1 /\ ptr' = scrollPtr /\ UNCHANGED <<buf, nscroll, scrolled>>
    BY <1>11 DEF Alarm, StartDMATransfer
  <2>2. scrollPtr + NDisp <= l + 1
    BY <1>3, <1>9, <1>11, Sizes DEF LastWindow
  <2>3. Typed'
    <3>1. scrollPtr' \in 1 .. BufSize
      BY <1>2, <1>3, <1>9, <2>1, <2>2, Sizes
    <3>2. ptr' \in Nat /\ left' \in 0 .. NDisp /\ ptr' + left' <= Len(buf') + 1
      BY <1>1, <1>3, <1>9, <2>1, <2>2, Sizes
    <3>3. tc' \in BOOLEAN
      BY <1>1
    <3> QED  BY <1>1, <2>1, <3>1, <3>2, <3>3 DEF Base, Typed
  <2>4. Control'
    BY <1>1 DEF Base, Control
  <2>5. ASSUME NEW k \in 1 .. l + 1, NEW j \in 1 .. l + 1,
               Near(l + 1, j - 1, (offset' + (k - (scrollPtr + 1))) + 1)
        PROVE  buf[k] = Cycle[j]
    <3>1. Near(l + 1, j - 1, (offset + (k - scrollPtr)) + 1)
      <4>1. Near(l + 1, j - 1, (offset' + (k - (scrollPtr + 1))) + 1) =>
              Near(l + 1, j - 1, (offset + (k - scrollPtr)) + 1)
        BY <1>3, <1>4, <1>6, <1>9, Sizes, TurnsBack
      <4> QED  BY <2>5, <4>1
    <3> QED  BY <1>3, <1>5, <3>1 DEF Alike
  <2>6. scrollPtr' \in 2 .. Turn' + 1 - NDisp
    BY <1>3, <1>7, <1>9, <2>1, <2>2, Sizes
  <2>7. \A k, j \in 1 .. Turn' : Alike(j - 1, (offset + k - scrollPtr) + 1)' => buf'[k] = Cycle'[j]
    <3> SUFFICES ASSUME NEW k \in 1 .. l + 1, NEW j \in 1 .. l + 1,
                        Alike(j - 1, (offset + k - scrollPtr) + 1)'
                 PROVE  buf[k] = Cycle[j]
      BY <1>3, <1>7, <2>1
    <3>1. Near(l + 1, j - 1, (offset' + (k - (scrollPtr + 1))) + 1)
      BY <1>3, <1>7, <2>1 DEF Alike
    <3> QED  BY <2>5, <3>1
  <2>8. Scrolling'
    <3>1. Len(text') > NDisp /\ Len(buf') = Turn' /\ ~clearing' /\ offset' \in 0 .. Len(text')
      BY <1>1, <1>4, <1>6, <1>7, <1>8, <2>1
    <3> QED  BY <2>6, <2>7, <3>1 DEF Scrolling
  <2> QED  BY <2>3, <2>4, <2>8 DEF Base
<1> QED  BY <1>10, <1>11

LEMMA LineStepsKeep ==
  ASSUME Base, Uart \/ LineIdle \/ Glitch
  PROVE  Base'
<1>1. CASE Uart
  <2>1. PICK char \in Char \cup {Clear}, noise \in 0 .. FrameSize : Send(char, noise)
    BY <1>1 DEF Uart
  <2>2. /\ UNCHANGED <<pc, call, state, buf, scrollPtr, scrolled, nscroll, alarmSet, text, offset>>
        /\ tc' = (tc \/ (~clearing' /\ left' = 0))
    BY <2>1 DEF Send
  <2>3. \/ clearing /\ clearing' = FALSE /\ UNCHANGED <<ptr, left>>
        \/ ~clearing /\ left > 0 /\ ptr' = ptr + 1 /\ left' = left - 1 /\ UNCHANGED clearing
    BY <2>1 DEF Send
  <2>4. Typed'
    <3>1. /\ ptr' \in Nat /\ left' \in 0 .. NDisp
          /\ (left' > 0 => ptr' + left' <= Len(buf) + 1)
      BY <2>3, Sizes DEF Base, Typed
    <3>2. clearing' \in BOOLEAN
      BY <2>3 DEF Base, Typed
    <3>3. tc' \in BOOLEAN
      BY <2>2 DEF Base, Typed
    <3> QED  BY <2>2, <3>1, <3>2, <3>3 DEF Base, Typed
  <2>5. Control'
    <3>1. CASE clearing /\ clearing' = FALSE /\ UNCHANGED <<ptr, left>>
      BY <2>2, <3>1 DEF Base, Control
    <3>2. CASE ~clearing /\ left > 0 /\ ptr' = ptr + 1 /\ left' = left - 1 /\ UNCHANGED clearing
      <4>1. left \in Nat /\ left # 0
        BY <3>2, Sizes DEF Base, Typed
      <4> QED  BY <2>2, <3>2, <4>1 DEF Base, Control
    <3> QED  BY <2>3, <3>1, <3>2
  <2>6. Scrolling'
    BY <2>2, <2>3 DEF Base, Scrolling, Turn, Cycle, Alike
  <2> QED  BY <2>4, <2>5, <2>6 DEF Base
<1>2. CASE LineIdle \/ Glitch
  <2>1. UNCHANGED <<pc, call, state, buf, scrollPtr, scrolled, nscroll, alarmSet, clearing, ptr, left, tc,
                    text, offset>>
    BY <1>2 DEF LineIdle, Glitch, LineUnchanged, uartVars
  <2> QED  BY <2>1 DEF Base, Typed, Control, Scrolling, Turn, Cycle, Alike
<1> QED  BY <1>1, <1>2

LEMMA BaseStarts == Init => Base
<1> SUFFICES ASSUME Init PROVE Base
  OBVIOUS
<1>1. <<>> \in Seq(Sign) /\ Len(<<>>) = 0
  OBVIOUS
<1>2. call.seek
  BY DEF Init, Seek
<1>3. Typed
  <2>1. buf \in Seq(Sign) /\ Len(buf) <= BufSize /\ text \in Seq(Sign)
    BY <1>1, Sizes DEF Init
  <2>2. scrollPtr \in 1 .. BufSize /\ nscroll \in 0 .. MinScroll /\ ptr \in Nat /\ left \in 0 .. NDisp /\ left = 0
    BY Sizes DEF Init
  <2>3. scrolled \in BOOLEAN /\ alarmSet \in BOOLEAN /\ clearing \in BOOLEAN /\ tc \in BOOLEAN
    BY DEF Init
  <2> QED  BY <1>2, <2>1, <2>2, <2>3 DEF Init, Typed
<1>4. Control
  BY DEF Init, Control
<1> QED  BY <1>3, <1>4 DEF Init, Base, Scrolling

LEMMA StepCases ==
  ASSUME Base, [Next]_vars
  PROVE  \/ \E c \in {Seek} \cup {Write(s, end) : s \in Text, end \in BOOLEAN} : Call(c)
         \/ WaitScroll \/ WaitSent \/ SeekClear \/ NoSpace \/ Build \/ Spin
         \/ \E str \in Seq(Sign) : Len(str) <= BufSize - 1 /\ (Transfer(str) \/ Scroll(str))
         \/ Alarm \/ Uart \/ LineIdle \/ Glitch
         \/ UNCHANGED vars
<1>1. CASE Transfer(buf \o call.text) \/ Scroll(buf \o call.text)
  <2>1. Fits
    BY <1>1 DEF Transfer, Scroll, StartScroll
  <2> DEFINE str == buf \o call.text
  <2>2. str \in Seq(Sign) /\ Len(str) <= BufSize - 1
    BY <2>1, StringIs
  <2>3. Transfer(str) \/ Scroll(str)
    BY <1>1
  <2> HIDE DEF str
  <2> QED  BY <2>2, <2>3
<1> QED  BY <1>1 DEF Next, Main

LEMMA BaseHolds == Spec => []Base
<1>1. Base /\ [Next]_vars => Base'
  <2> SUFFICES ASSUME Base, [Next]_vars PROVE Base'
    OBVIOUS
  <2>1. CASE UNCHANGED vars
    BY <2>1 DEF Base, Typed, Control, Scrolling, Turn, Cycle, Alike, vars, uartVars, history
  <2> QED  BY <2>1, StepCases, CallKeeps, WaitKeeps, CopyKeeps, TransferKeeps, ScrollKeeps, AlarmKeeps,
              LineStepsKeep
<1> QED  BY <1>1, BaseStarts, PTL DEF Spec

-----------------------------------------------------------------------------
(* Whatever is written, whenever the alarms come and whatever hits the     *)
(* line, the state has its types: the buffer never takes more than         *)
(* BUF_SIZE characters, separator included, and every transfer the DMA     *)
(* stream is given ends inside the buffer.                                 *)
THEOREM DisplayTyped == Spec => []TypeOK
<1>1. Line /\ Base => TypeOK
  BY DEF Line, Base, Typed, TypeOK, Receiving, RxInv, RxOK, Sign
<1> QED  BY <1>1, LineHolds, BaseHolds, PTL

(* The buffer is not touched, nor a transfer restarted, while the DMA      *)
(* stream reads it: neither by the program, which has waited for the       *)
(* UART's flag, nor by the alarm.                                          *)
THEOREM TheBufferIsHeld == Spec => BufferHeld
<1>1. Base /\ [Next]_vars => [left > 0 => buf' = buf /\ left' <= left]_vars
  <2> SUFFICES ASSUME Base, [Next]_vars, left > 0 PROVE buf' = buf /\ left' <= left
    OBVIOUS
  <2>1. left \in Nat /\ left # 0
    BY Sizes DEF Base, Typed
  <2>2. state # "BUILD_STRING" /\ ~(pc = "wait" /\ tc) /\ pc # "copy" /\ pc # "clear"
    BY <2>1 DEF Base, Control
  <2>3. CASE UNCHANGED <<buf, left>>
    BY <2>1, <2>3
  <2>4. CASE Uart
    <3>1. PICK char \in Char \cup {Clear}, noise \in 0 .. FrameSize : Send(char, noise)
      BY <2>4 DEF Uart
    <3>2. buf' = buf /\ (left' = left \/ left' = left - 1)
      BY <3>1 DEF Send
    <3> QED  BY <2>1, <3>2
  <2>5. ASSUME NEW c, Call(c) PROVE UNCHANGED <<buf, left>>
    BY <2>2, <2>5 DEF Call, uartVars
  <2>6. ~WaitSent /\ ~SeekClear /\ ~NoSpace /\ ~Build /\ ~Alarm
    BY <2>1, <2>2 DEF WaitSent, SeekClear, NoSpace, Build, Fits, Alarm
  <2>7. \A str : ~Transfer(str) /\ ~Scroll(str)
    BY <2>2 DEF Transfer, Scroll, StartScroll, Fits
  <2>8. WaitScroll \/ Spin \/ LineIdle \/ Glitch \/ UNCHANGED vars => UNCHANGED <<buf, left>>
    BY DEF WaitScroll, Spin, LineIdle, Glitch, LineUnchanged, uartVars, vars
  <2> QED  BY <2>3, <2>4, <2>5, <2>6, <2>7, <2>8, StepCases
<1> QED  BY <1>1, BaseHolds, PTL DEF Spec, BufferHeld

-----------------------------------------------------------------------------
(* In its first turn a scroll has sent the string from its first character *)
(* to the end of the window; later it has sent all of it.                  *)
Progress ==
  state = "TRANSFER_SCROLL" =>
    /\ (nscroll = 0 => offset = scrollPtr - 2 /\ 1 .. (scrollPtr - 2) + NDisp \subseteq seen)
    /\ (nscroll > 0 \/ scrolled => 1 .. Len(text) \subseteq seen)

LEMMA AlarmGoesOn ==
  ASSUME Base, Progress, Alarm
  PROVE  Progress'
<1> DEFINE l == Len(text)
<1>1. state = "TRANSFER_SCROLL" /\ text' = text /\ seen' = seen \cup Window(offset')
  BY DEF Alarm, Base, Control
<1>2. /\ text \in Seq(Sign) /\ l \in Nat /\ Len(buf) = l + 1 /\ offset \in 0 .. l /\ l > NDisp
      /\ scrollPtr \in 2 .. (l + 2) - NDisp /\ nscroll \in 0 .. MinScroll
  BY <1>1, Sizes DEF Base, Typed, Scrolling, Turn
<1>3. offset' = IF offset = l THEN 0 ELSE offset + 1
  BY <1>2, OffsetMoves DEF Alarm
<1>4. Len(text') = l
  BY <1>1
<1>5. /\ (nscroll = 0 => offset = scrollPtr - 2 /\ 1 .. (scrollPtr - 2) + NDisp \subseteq seen)
      /\ (nscroll > 0 \/ scrolled => 1 .. l \subseteq seen)
  BY <1>1 DEF Progress
<1>6. CASE LastWindow
  <2>1. nscroll' = IF nscroll < MinScroll THEN nscroll + 1 ELSE nscroll
    BY <1>6 DEF Alarm
  <2>2. nscroll' > 0
    BY <1>2, <2>1, Sizes
  <2>3. 1 .. l \subseteq seen
    <3> HIDE DEF l
    <3>1. CASE nscroll = 0
      <4>1. (scrollPtr - 2) + NDisp = l
        BY <1>2, <1>6, Sizes DEF LastWindow
      <4> QED  BY <1>5, <3>1, <4>1
    <3>2. CASE nscroll > 0
      BY <1>5, <3>2
    <3> QED  BY <1>2, <3>1, <3>2, Sizes
  <2> QED  BY <1>1, <1>4, <2>2, <2>3 DEF Progress
<1>7. CASE ~LastWindow
  <2>1. scrollPtr' = scrollPtr + 1 /\ nscroll' = nscroll /\ scrolled' = scrolled
    BY <1>7 DEF Alarm
  <2>2. ASSUME nscroll = 0
        PROVE  offset' = scrollPtr' - 2 /\ 1 .. (scrollPtr' - 2) + NDisp \subseteq seen'
    <3> DEFINE x == (scrollPtr - 2) + NDisp
    <3> HIDE DEF l
    <3>1. x \in Nat /\ x + 1 <= l /\ offset + 1 <= l /\ x = offset + NDisp
      BY <1>2, <1>5, <1>7, <2>2, Sizes DEF LastWindow
    <3>2. offset' = offset + 1 /\ offset' = scrollPtr' - 2 /\ (scrollPtr' - 2) + NDisp = x + 1
      BY <1>2, <1>3, <1>5, <2>1, <2>2, <3>1, Sizes
    <3>3. x + 1 \in Window(offset')
      <4>1. NDisp \in Place
        BY Sizes DEF Place
      <4>2. offset' + NDisp - 1 = x
        BY <1>2, <3>1, <3>2, Sizes
      <4>3. x % (l + 1) = x
        BY <1>2, <3>1, Wrap
      <4>4. ((offset' + NDisp - 1) % (l + 1)) + 1 = x + 1
        BY <4>2, <4>3
      <4> QED  BY <4>1, <4>4 DEF Window, l
    <3>4. 1 .. x \subseteq seen
      BY <1>5, <2>2
    <3> HIDE DEF x
    <3>5. 1 .. x + 1 \subseteq seen'
      BY <1>1, <3>1, <3>3, <3>4
    <3> QED  BY <3>2, <3>5
  <2>3. nscroll' > 0 \/ scrolled' => 1 .. l \subseteq seen'
    BY <1>1, <1>5, <2>1
  <2> QED  BY <1>4, <2>1, <2>2, <2>3 DEF Progress
<1> QED  BY <1>6, <1>7

LEMMA ProgressKept ==
  ASSUME Base, Progress, [Next]_vars
  PROVE  Progress'
<1>1. ASSUME NEW c, Call(c) PROVE Progress'
  BY <1>1 DEF Progress, Call, history
<1>2. CASE WaitScroll \/ WaitSent \/ SeekClear
  BY <1>2 DEF Progress, WaitScroll, WaitSent, SeekClear
<1>3. CASE NoSpace \/ Build \/ Spin
  BY <1>3 DEF Progress, NoSpace, Build, Spin, history
<1>4. ASSUME NEW str \in Seq(Sign), Transfer(str) PROVE Progress'
  BY <1>4 DEF Progress, Transfer
<1>5. ASSUME NEW str \in Seq(Sign), Scroll(str) PROVE Progress'
  <2>1. scrollPtr' = 2 /\ nscroll' = 0 /\ scrolled' = FALSE /\ offset' = 0 /\ seen' = Place
    BY <1>5 DEF Scroll, StartScroll, Begins
  <2>2. (2 - 2) + NDisp = NDisp
    BY Sizes
  <2>3. 1 .. (scrollPtr' - 2) + NDisp \subseteq seen' /\ offset' = scrollPtr' - 2
    BY <2>1, <2>2 DEF Place
  <2> QED  BY <2>1, <2>3 DEF Progress
<1>6. CASE Uart
  BY <1>6 DEF Progress, Uart, Send
<1>7. CASE LineIdle \/ Glitch
  BY <1>7 DEF Progress, LineIdle, Glitch, LineUnchanged
<1>8. CASE UNCHANGED vars
  BY <1>8 DEF Progress, vars, history
<1> QED  BY <1>1, <1>2, <1>3, <1>4, <1>5, <1>6, <1>7, <1>8, StepCases, AlarmGoesOn

(* "Wait to have scrolled at least once": whatever the length of the       *)
(* string, the number of displays and MIN_SCROLL_TIMES, a write() that     *)
(* returns after a scroll has had every character of its string sent.      *)
THEOREM EverythingIsSeen == Spec => AllSeen
<1>1. Init => Progress
  BY DEF Init, Progress
<1>2. Base /\ Progress /\ [Next]_vars => Progress'
  BY ProgressKept
<1>3. Base /\ Progress /\ [Next]_vars
        => [pc = "spin" /\ pc' = "idle" => 1 .. Len(text) \subseteq seen]_vars
  <2> SUFFICES ASSUME Base, Progress, [Next]_vars, pc = "spin", pc' = "idle"
               PROVE  1 .. Len(text) \subseteq seen
    OBVIOUS
  <2>1. Spin
    <3>1. \A c : ~Call(c)
      BY DEF Call
    <3>2. ~WaitScroll /\ ~WaitSent /\ ~SeekClear /\ ~NoSpace /\ ~Build
      BY DEF WaitScroll, WaitSent, SeekClear, NoSpace, Build, Fits
    <3>3. \A str : ~Transfer(str) /\ ~Scroll(str)
      BY DEF Transfer, Scroll, StartScroll, Fits
    <3>4. ~Alarm /\ ~Uart /\ ~LineIdle /\ ~Glitch /\ ~UNCHANGED vars
      BY DEF Alarm, Uart, Send, LineIdle, Glitch, LineUnchanged, vars
    <3> QED  BY <3>1, <3>2, <3>3, <3>4, StepCases
  <2>2. state = "TRANSFER_SCROLL" /\ scrolled
    BY <2>1 DEF Spin, Base, Control
  <2> QED  BY <2>2 DEF Progress
<1> QED  BY <1>1, <1>2, <1>3, BaseHolds, PTL DEF Spec, AllSeen

-----------------------------------------------------------------------------
(* What the displays show.                                                 *)
Resting == aligned => ~rx.sampling

View == [i \in Place |-> Cycle[((offset + i - 1) % Turn) + 1]]

(* A long string: what is left of a transfer is the rest of its window,    *)
(* the beginning of which is shown.                                        *)
LongShown ==
  Len(text) > NDisp =>
    /\ offset \in 0 .. Len(text)
    /\ \A k \in 1 .. left : buf[(ptr + k) - 1] = View[(NDisp - left) + k]
    /\ aligned /\ ~clearing /\ Begun =>
         hot = ((NDisp - left) % NDisp) + 1 /\ \A i \in 1 .. NDisp - left : sseg[i] = View[i]

(* The last Clear among the first n characters, 0 if there is none, and    *)
(* the displays after them.                                                *)
LastClear(k, n) ==
  /\ (k = 0 \/ text[k] = Clear)
  /\ \A j \in k + 1 .. n : text[j] # Clear

ShownSince(k, n) ==
  /\ hot = ((n - k) % NDisp) + 1
  /\ \A i \in Place : sseg[i] = IF k + i <= n THEN text[k + i] ELSE Off

(* A string that fits: what is sent of it is shown from its last Clear on. *)
Sent == Len(text) - left
ShortShown ==
  Len(text) <= NDisp =>
    /\ left <= Len(text)
    /\ (left > 0 => buf = text /\ ptr = Sent + 1)
    /\ aligned /\ ~clearing =>
         \A k \in 0 .. Sent : LastClear(k, Sent) /\ (k = 0 => fresh) => ShownSince(k, Sent)

Shown == Resting /\ LongShown /\ ShortShown

LEMMA ViewIs ==
  ASSUME text \in Seq(Sign), offset \in 0 .. Len(text), Len(text) > NDisp
  PROVE  \A i \in Place : \E j \in 1 .. Turn :
           /\ View[i] = Cycle[j]
           /\ Near(Turn, j - 1, (offset + i) - 1)
           /\ (~HasClear => View[i] \in Char)
<1> DEFINE l == Len(text)
           a == Append(text, Off)
<1>1. l \in Nat /\ l > NDisp /\ offset \in 0 .. l /\ Turn = l + 1
  BY DEF Turn
<1>2. a \in Seq(Sign) /\ Len(a) = l + 1 /\ a[l + 1] = Off /\ \A j \in 1 .. l : a[j] = text[j]
  BY Sizes, AppendProperties
<1>3. \A j \in 1 .. l : text[j] \in Sign
  OBVIOUS
<1>4. ~HasClear => \A j \in 1 .. l : text[j] # Clear
  BY DEF HasClear
<1>5. Cycle = a
  BY DEF Cycle
<1> HIDE DEF l, a
<1>6. ASSUME NEW i \in Place
      PROVE  \E j \in 1 .. l + 1 :
               View[i] = a[j] /\ Near(l + 1, j - 1, (offset + i) - 1) /\ (~HasClear => a[j] \in Char)
  <2> DEFINE x == (offset + i) - 1
             j == (x % (l + 1)) + 1
  <2>1. x \in Nat /\ x < 2 * (l + 1) /\ l + 1 \in Nat /\ l + 1 > 0 /\ (l + 1) - 1 = l
    BY <1>1, Sizes DEF Place
  <2>2. View[i] = a[j]
    <3>1. offset + i - 1 = x
      BY <1>1, Sizes DEF Place
    <3> QED  BY <1>1, <1>5, <3>1 DEF View
  <2> HIDE DEF x
  <2>3. x % (l + 1) \in 0 .. l /\ (x % (l + 1) = x \/ x % (l + 1) = x - (l + 1))
    <3>1. /\ x % (l + 1) \in 0 .. (l + 1) - 1
          /\ (x < l + 1 => x % (l + 1) = x)
          /\ (l + 1 <= x /\ x < 2 * (l + 1) => x % (l + 1) = x - (l + 1))
      BY <2>1, Wrap
    <3> QED  BY <1>1, <2>1, <3>1
  <2>4. j \in 1 .. l + 1 /\ Near(l + 1, j - 1, x)
    <3> DEFINE y == x % (l + 1)
    <3> HIDE DEF y
    <3>1. y \in 0 .. l /\ (y = x \/ y = x - (l + 1)) /\ j = y + 1
      BY <2>3 DEF y
    <3> HIDE DEF j
    <3> QED  BY <1>1, <3>1 DEF Near
  <2> HIDE DEF j
  <2>5. ~HasClear => a[j] \in Char
    <3>1. CASE j = l + 1
      BY <1>2, <3>1, CharAssumption
    <3>2. CASE j # l + 1
      <4>1. j \in 1 .. l
        BY <1>1, <2>4, <3>2
      <4> QED  BY <1>2, <1>3, <1>4, <4>1 DEF Sign
    <3> QED  BY <3>1, <3>2
  <2> QED  BY <2>2, <2>4, <2>5 DEF x
<1> QED  BY <1>1, <1>5, <1>6

(* The same of the state a step leads to.                                  *)
InView ==
  text \in Seq(Sign) /\ offset \in 0 .. Len(text) /\ Len(text) > NDisp =>
    \A i \in Place : \E j \in 1 .. Turn : View[i] = Cycle[j] /\ Near(Turn, j - 1, (offset + i) - 1)

LEMMA ViewNow == InView
  BY ViewIs DEF InView

LEMMA ViewThen == InView'
  BY ViewNow, PTL

(* A frame after which the receiver is aligned has been received.          *)
LEMMA CleanSend ==
  ASSUME Line, Resting, NEW char \in Sign, NEW noise \in 0 .. FrameSize, Send(char, noise), aligned'
  PROVE  Strobe(char) /\ ~rx'.sampling /\ (aligned \/ char = Clear)
<1>1. noise = 0 /\ ~rx.sampling /\ (aligned \/ char = Clear)
  BY DEF Send, Resting
<1>2. char \in DOMAIN Code /\ char # NoChar
  BY TextAssumption, CodeAssumption DEF Sign
<1>3. Received(char, 0) = [Idling(1) EXCEPT !.out = char]
  BY <1>1, <1>2, ReceivedClean DEF Line
<1> DEFINE q == [Idling(1) EXCEPT !.out = char]
<1>4. ~q.sampling /\ q.out = char
  <2>1. 1 \in Bit /\ char \in DOMAIN Code \cup {NoChar}
    BY <1>2 DEF Bit
  <2> QED  BY <2>1, IdlingIs
<1> HIDE DEF q
<1>5. Receive(q)
  BY <1>1, <1>3 DEF Send, q
<1> QED  BY <1>1, <1>2, <1>4, <1>5 DEF Receive

(* Steps that leave the transfer and what is shown alone.                  *)
LEMMA ShownStays ==
  ASSUME Base, Shown, UNCHANGED <<text, offset, left, ptr, fresh, clearing>>,
         left > 0 => buf' = buf, aligned' => aligned /\ UNCHANGED panelVars
  PROVE  LongShown' /\ ShortShown'
<1>1. left \in Nat
  BY Sizes DEF Base, Typed
<1>2. View' = View /\ Sent' = Sent /\ (Begun' <=> Begun)
  BY DEF View, Cycle, Turn, Sent, Begun, HasClear
<1>3. \A k, n : LastClear(k, n)' <=> LastClear(k, n)
  BY DEF LastClear
<1>4. LongShown'
  <2> SUFFICES ASSUME Len(text) > NDisp
               PROVE  /\ offset \in 0 .. Len(text)
                      /\ \A k \in 1 .. left : buf'[(ptr + k) - 1] = View[(NDisp - left) + k]
                      /\ aligned' /\ ~clearing /\ Begun =>
                           /\ hot' = ((NDisp - left) % NDisp) + 1
                           /\ \A i \in 1 .. NDisp - left : sseg'[i] = View[i]
    BY <1>2 DEF LongShown
  <2>1. /\ offset \in 0 .. Len(text)
        /\ \A k \in 1 .. left : buf[(ptr + k) - 1] = View[(NDisp - left) + k]
        /\ aligned /\ ~clearing /\ Begun =>
             hot = ((NDisp - left) % NDisp) + 1 /\ \A i \in 1 .. NDisp - left : sseg[i] = View[i]
    BY DEF Shown, LongShown
  <2>2. ASSUME NEW k \in 1 .. left PROVE buf'[(ptr + k) - 1] = View[(NDisp - left) + k]
    <3>1. left > 0
      BY <1>1
    <3> QED  BY <2>1, <3>1
  <2> QED  BY <2>1, <2>2 DEF panelVars
<1>5. ShortShown'
  BY <1>2, <1>3 DEF Shown, ShortShown, ShownSince, panelVars
<1> QED  BY <1>4, <1>5

(* Nothing has been sent to the displays since they were cleared.          *)
LEMMA NothingShown ==
  ASSUME Base, Shown, aligned, ~clearing, fresh, text = <<>>
  PROVE  hot = 1 /\ \A i \in Place : sseg[i] = Off
<1>1. Len(text) = 0
  OBVIOUS
<1>2. left = 0 /\ Sent = 0
  BY <1>1, Sizes DEF Base, Typed, Shown, ShortShown, Sent
<1>3. LastClear(0, 0)
  BY DEF LastClear
<1>4. ShownSince(0, 0)
  BY <1>1, <1>2, <1>3, Sizes DEF Shown, ShortShown
<1>5. ((0 - 0) % NDisp) + 1 = 1
  <2>1. 0 % NDisp = 0  BY Sizes, Wrap
  <2> QED  BY <2>1
<1>6. \A i \in Place : ~(0 + i <= 0)
  BY Sizes DEF Place
<1> QED  BY <1>4, <1>5, <1>6 DEF ShownSince

LEMMA TransferShows ==
  ASSUME Base, Shown, NEW str \in Seq(Sign), Transfer(str)
  PROVE  LongShown' /\ ShortShown'
<1>1. /\ Len(str) <= NDisp /\ buf' = str /\ ptr' = 1 /\ left' = Len(str) /\ text' = str
      /\ fresh' = (fresh /\ text = <<>>)
      /\ UNCHANGED <<panelVars, clearing, aligned>>
  BY DEF Transfer, StartDMATransfer, Begins
<1>2. Len(str) \in Nat
  OBVIOUS
<1>3. LongShown'
  BY <1>1, <1>2, Sizes DEF LongShown
<1>4. Sent' = 0
  BY <1>1, <1>2 DEF Sent
<1>5. ASSUME aligned', ~clearing', NEW k \in 0 .. Sent', k = 0 => fresh'
      PROVE  ShownSince(k, Sent)'
  <2>1. k = 0 /\ fresh /\ text = <<>> /\ aligned /\ ~clearing
    <3>1. k = 0
      BY <1>4, <1>5
    <3>2. fresh'
      BY <1>5, <3>1
    <3> QED  BY <1>1, <1>5, <3>1, <3>2
  <2>2. hot' = 1 /\ \A i \in Place : sseg'[i] = Off
    BY <1>1, <2>1, NothingShown DEF panelVars
  <2>3. ((0 - 0) % NDisp) + 1 = 1
    <3>1. 0 % NDisp = 0  BY Sizes, Wrap
    <3> QED  BY <3>1
  <2>4. \A i \in Place : ~(0 + i <= 0)
    BY Sizes DEF Place
  <2> QED  BY <1>4, <2>1, <2>2, <2>3, <2>4 DEF ShownSince
<1>6. ShortShown'
  <2>1. left' <= Len(text') /\ buf' = text' /\ ptr' = Sent' + 1
    BY <1>1, <1>2, <1>4
  <2> QED  BY <1>5, <2>1 DEF ShortShown
<1> QED  BY <1>3, <1>6

LEMMA ScrollShows ==
  ASSUME Base, Shown, NEW str \in Seq(Sign), Scroll(str)
  PROVE  LongShown' /\ ShortShown'
<1> DEFINE b == Append(str, Off)
           l == Len(str)
<1>1. /\ l > NDisp /\ buf' = b /\ ptr' = 1 /\ left' = NDisp /\ text' = str /\ offset' = 0
      /\ fresh' = (fresh /\ text = <<>>)
      /\ UNCHANGED <<panelVars, clearing, aligned>>
  BY DEF Scroll, StartScroll, StartDMATransfer, Begins
<1>2. l \in Nat
  OBVIOUS
<1>3. ShortShown'
  BY <1>1, <1>2, Sizes DEF ShortShown
<1>4. Turn' = l + 1 /\ Cycle' = b /\ Len(text') = l
  BY <1>1 DEF Turn, Cycle
<1> HIDE DEF b, l
<1>5. ASSUME NEW k \in 1 .. left'
      PROVE  buf'[(ptr' + k) - 1] = View'[(NDisp - left') + k]
  <2>1. (ptr' + k) - 1 = k /\ (NDisp - left') + k = k /\ k \in Place /\ offset' + k - 1 = k - 1
    BY <1>1, Sizes DEF Place
  <2>2. (k - 1) % (l + 1) = k - 1
    <3>1. k - 1 \in Nat /\ k - 1 < l + 1 /\ l + 1 \in Nat /\ l + 1 > 0
      BY <1>1, <1>2, Sizes
    <3> DEFINE x == k - 1
    <3> HIDE DEF x
    <3>2. x % (l + 1) = x
      BY <3>1, Wrap DEF x
    <3> QED  BY <3>2 DEF x
  <2>3. (k - 1) + 1 = k
    BY <2>1, Sizes DEF Place
  <2>4. View'[k] = b[k]
    BY <1>4, <2>1, <2>2, <2>3 DEF View
  <2> QED  BY <1>1, <2>1, <2>4
<1>6. NDisp - left' = 0
  BY <1>1, Sizes
<1>7. ASSUME aligned', ~clearing', Begun' PROVE hot' = ((NDisp - left') % NDisp) + 1
  <2>1. fresh'
    BY <1>1, <1>4, <1>7 DEF Begun
  <2>2. hot' = 1
    BY <1>1, <1>7, <2>1, NothingShown DEF panelVars
  <2>3. 0 % NDisp = 0
    BY Sizes, Wrap
  <2> QED  BY <1>6, <2>2, <2>3
<1>8. LongShown'
  <2>1. offset' \in 0 .. Len(text')
    BY <1>1, <1>2, <1>4
  <2>2. \A i \in 1 .. NDisp - left' : FALSE
    BY <1>6
  <2> QED  BY <1>5, <1>7, <2>1, <2>2 DEF LongShown
<1> QED  BY <1>3, <1>8

LEMMA AlarmShows ==
  ASSUME Base, Shown, Alarm
  PROVE  LongShown' /\ ShortShown'
<1> DEFINE l == Len(text)
<1>1. /\ state = "TRANSFER_SCROLL" /\ left = 0 /\ ~clearing /\ left' = NDisp
      /\ state' = state /\ ptr' = scrollPtr' - 1
      /\ UNCHANGED <<panelVars, clearing, text, fresh, aligned>>
  <2>1. scrollPtr \in Nat
    BY Sizes DEF Base, Typed
  <2> QED  BY <2>1 DEF Alarm, Base, Control, StartDMATransfer
<1>2. text \in Seq(Sign) /\ l \in Nat /\ l > NDisp
  BY <1>1 DEF Base, Typed, Scrolling
<1>3. Base'
  BY AlarmKeeps
<1>4. /\ Turn' = l + 1 /\ offset' \in 0 .. l /\ scrollPtr' \in 2 .. Turn' + 1 - NDisp /\ text' \in Seq(Sign)
      /\ \A k, j \in 1 .. Turn' :
           Near(Turn', j - 1, (offset' + k - scrollPtr') + 1) => buf'[k] = Cycle'[j]
  BY <1>1, <1>3 DEF Base, Scrolling, Turn, Typed, Alike
<1>5. ShortShown'
  BY <1>1, <1>2, Sizes DEF ShortShown
<1>6. \A i \in Place : \E j \in 1 .. Turn' :
        View'[i] = Cycle'[j] /\ Near(Turn', j - 1, (offset' + i) - 1)
  BY <1>1, <1>2, <1>4, ViewThen DEF InView
<1>7. ASSUME NEW k \in 1 .. NDisp
      PROVE  buf'[(ptr' + k) - 1] = View'[k]
  <2> DEFINE m == (ptr' + k) - 1
  <2>1. k \in Place
    BY DEF Place
  <2>2. PICK j \in 1 .. Turn' : View'[k] = Cycle'[j] /\ Near(Turn', j - 1, (offset' + k) - 1)
    BY <1>6, <2>1
  <2>3. m \in 1 .. Turn' /\ (offset' + m - scrollPtr') + 1 = (offset' + k) - 1
    <3> DEFINE q == scrollPtr'
               o == offset'
    <3>1. q \in 2 .. (l + 1) + 1 - NDisp /\ o \in 0 .. l /\ m = ((q - 1) + k) - 1 /\ Turn' = l + 1
      BY <1>1, <1>4
    <3> HIDE DEF q, o, l, m
    <3>2. m \in 1 .. l + 1 /\ (o + m - q) + 1 = (o + k) - 1
      BY <1>2, <3>1, Sizes
    <3> QED  BY <3>1, <3>2 DEF q, o
  <2> HIDE DEF m
  <2>4. Near(Turn', j - 1, (offset' + m - scrollPtr') + 1)
    BY <2>2, <2>3
  <2>5. buf'[m] = Cycle'[j]
    BY <1>4, <2>3, <2>4
  <2> QED  BY <2>2, <2>5 DEF m
<1>8. NDisp - left' = 0 /\ NDisp - left = NDisp
  BY <1>1, Sizes
<1>9. ASSUME aligned', ~clearing', Begun' PROVE hot' = ((NDisp - left') % NDisp) + 1
  <2>1. Begun
    BY <1>1, <1>9 DEF Begun, HasClear
  <2>2. hot = (NDisp % NDisp) + 1
    BY <1>1, <1>2, <1>8, <1>9, <2>1 DEF Shown, LongShown
  <2>3. NDisp % NDisp = 0 /\ 0 % NDisp = 0
    <3>1. NDisp < 2 * NDisp /\ NDisp - NDisp = 0  BY Sizes
    <3> QED  BY <3>1, Sizes, Wrap
  <2> QED  BY <1>1, <1>8, <2>2, <2>3 DEF panelVars
<1>10. LongShown'
  <2>1. \A k \in 1 .. left' : buf'[(ptr' + k) - 1] = View'[(NDisp - left') + k]
    <3>1. \A k \in 1 .. NDisp : (NDisp - left') + k = k
      BY <1>8
    <3> QED  BY <1>1, <1>7, <3>1
  <2>2. \A i \in 1 .. NDisp - left' : FALSE
    BY <1>8
  <2>3. offset' \in 0 .. Len(text')
    BY <1>1, <1>4
  <2> QED  BY <1>9, <2>1, <2>2, <2>3 DEF LongShown
<1> QED  BY <1>5, <1>10

(* The Clear of llseek().                                                  *)
LEMMA ClearShows ==
  ASSUME Line, Base, Shown, NEW char \in Sign, NEW noise \in 0 .. FrameSize, Send(char, noise), clearing
  PROVE  LongShown' /\ ShortShown'
<1>1. /\ text = <<>> /\ left = 0 /\ char = Clear
      /\ UNCHANGED <<text, left>>
  BY DEF Base, Control, Send
<1>2. Len(text') = 0 /\ Sent' = 0
  BY <1>1 DEF Sent
<1>3. LongShown'
  BY <1>2, Sizes DEF LongShown
<1>4. ASSUME aligned' PROVE ShownSince(0, 0)'
  <2>1. Strobe(Clear)
    BY <1>1, <1>4, CleanSend DEF Shown
  <2>2. hot' = 1 /\ \A i \in Place : sseg'[i] = Off
    BY <2>1 DEF Strobe, AllOff
  <2>3. ((0 - 0) % NDisp) + 1 = 1
    <3>1. 0 % NDisp = 0  BY Sizes, Wrap
    <3> QED  BY <3>1
  <2>4. \A i \in Place : ~(0 + i <= 0)
    BY Sizes DEF Place
  <2> QED  BY <2>2, <2>3, <2>4 DEF ShownSince
<1>5. ShortShown'
  <2>1. \A k \in 0 .. Sent' : k = 0
    BY <1>2
  <2>2. left' <= Len(text') /\ ~(left' > 0)
    BY <1>1, <1>2
  <2> QED  BY <1>2, <1>4, <2>1, <2>2 DEF ShortShown
<1> QED  BY <1>3, <1>5

(* The next of the window of a long string.                                *)
LEMMA SendShowsLong ==
  ASSUME Line, Base, Shown, NEW char \in Sign, NEW noise \in 0 .. FrameSize, Send(char, noise), ~clearing
  PROVE  LongShown'
<1> SUFFICES ASSUME Len(text) > NDisp PROVE LongShown'
  BY DEF LongShown, Send
<1>1. /\ left > 0 /\ char = buf[ptr] /\ ptr' = ptr + 1 /\ left' = left - 1
      /\ UNCHANGED <<buf, text, offset, fresh, clearing>>
  BY DEF Send
<1>2. left \in Nat /\ left <= NDisp /\ ptr \in Nat /\ text \in Seq(Sign)
  BY Sizes DEF Base, Typed
<1>3. /\ offset \in 0 .. Len(text)
      /\ \A k \in 1 .. left : buf[(ptr + k) - 1] = View[(NDisp - left) + k]
      /\ aligned /\ ~clearing /\ Begun =>
           hot = ((NDisp - left) % NDisp) + 1 /\ \A i \in 1 .. NDisp - left : sseg[i] = View[i]
  BY DEF Shown, LongShown
<1>4. View' = View /\ (Begun' <=> Begun) /\ Len(text') = Len(text)
  BY <1>1 DEF View, Cycle, Turn, Begun, HasClear
<1> DEFINE n == NDisp - left
<1>5. n \in Nat /\ n < NDisp /\ NDisp - left' = n + 1 /\ n + 1 \in Place
  BY <1>1, <1>2, Sizes DEF Place
<1>6. char = View[n + 1]
  <2>1. 1 \in 1 .. left /\ (ptr + 1) - 1 = ptr
    BY <1>1, <1>2
  <2> QED  BY <1>1, <1>3, <2>1
<1>7. ASSUME NEW k \in 1 .. left' PROVE buf'[(ptr' + k) - 1] = View[(n + 1) + k]
  <2>1. k + 1 \in 1 .. left /\ (ptr' + k) - 1 = (ptr + (k + 1)) - 1 /\ n + (k + 1) = (n + 1) + k
    BY <1>1, <1>2, <1>5
  <2> QED  BY <1>1, <1>3, <2>1
<1>8. ASSUME aligned', Begun
      PROVE  hot' = ((n + 1) % NDisp) + 1 /\ \A i \in 1 .. n + 1 : sseg'[i] = View[i]
  <2>1. char \in Char /\ char # Clear
    <3>1. ~HasClear
      BY <1>8 DEF Begun
    <3> QED  BY <1>2, <1>3, <1>5, <1>6, <3>1, ViewIs, CharAssumption
  <2>2. aligned /\ Strobe(char)
    BY <1>8, <2>1, CleanSend DEF Shown
  <2>3. hot = (n % NDisp) + 1 /\ \A i \in 1 .. n : sseg[i] = View[i]
    BY <1>3, <1>8, <2>2
  <2> HIDE DEF n
  <2>4. n % NDisp = n
    BY <1>5, Sizes, Wrap
  <2>5. hot' = (hot % NDisp) + 1 /\ sseg' = [sseg EXCEPT ![hot] = char] /\ hot = n + 1
    BY <2>1, <2>2, <2>3, <2>4 DEF Strobe
  <2>6. sseg \in [Place -> Char]
    BY DEF Line, PanelOK
  <2>7. ASSUME NEW i \in 1 .. n + 1 PROVE sseg'[i] = View[i]
    <3>1. i \in Place
      BY <1>5, Sizes DEF Place
    <3>2. CASE i = n + 1
      BY <1>6, <2>5, <2>6, <3>1, <3>2 DEF n
    <3>3. CASE i # n + 1
      <4>1. i \in 1 .. n
        BY <1>5, <3>3
      <4> QED  BY <2>3, <2>5, <2>6, <3>1, <3>3, <4>1
    <3> QED  BY <3>2, <3>3
  <2> QED  BY <2>5, <2>7
<1> HIDE DEF n
<1>9. offset' \in 0 .. Len(text')
  BY <1>1, <1>3
<1> QED  BY <1>1, <1>4, <1>5, <1>7, <1>8, <1>9 DEF LongShown

(* The next of a string that fits, which may be a Clear.                   *)
LEMMA SendShowsShort ==
  ASSUME Line, Base, Shown, NEW char \in Sign, NEW noise \in 0 .. FrameSize, Send(char, noise), ~clearing
  PROVE  ShortShown'
<1> SUFFICES ASSUME Len(text) <= NDisp PROVE ShortShown'
  BY DEF ShortShown, Send
<1> DEFINE l == Len(text)
           n == l - left
<1>1. /\ left > 0 /\ char = buf[ptr] /\ ptr' = ptr + 1 /\ left' = left - 1
      /\ UNCHANGED <<buf, text, fresh, clearing>>
  BY DEF Send
<1>2. left \in Nat /\ ptr \in Nat /\ text \in Seq(Sign) /\ l \in Nat
  BY Sizes DEF Base, Typed
<1>3. /\ left <= l /\ buf = text /\ ptr = n + 1
      /\ (aligned /\ ~clearing =>
            \A k \in 0 .. n : LastClear(k, n) /\ (k = 0 => fresh) => ShownSince(k, n))
  BY <1>1 DEF Shown, ShortShown, Sent
<1>4. Len(text') = l /\ Sent' = n + 1
  BY <1>1, <1>2 DEF Sent
<1>5. n \in Nat /\ n + 1 <= l /\ char = text[n + 1] /\ left' <= l /\ ptr' = (n + 1) + 1
  BY <1>1, <1>2, <1>3
<1>6. l <= NDisp
  OBVIOUS
<1> HIDE DEF l, n
<1>7. ASSUME aligned', NEW k \in 0 .. Sent', LastClear(k, Sent)', k = 0 => fresh'
      PROVE  ShownSince(k, Sent)'
  <2>0. k \in 0 .. n + 1
    BY <1>4
  <2>1. Strobe(char) /\ (aligned \/ char = Clear)
    BY <1>7, CleanSend DEF Shown
  <2>2. (k = 0 \/ text[k] = Clear) /\ \A j \in k + 1 .. n + 1 : text[j] # Clear
    BY <1>1, <1>4, <1>7 DEF LastClear
  <2>3. CASE char = Clear
    <3>1. k = n + 1
      <4>1. n + 1 \notin k + 1 .. n + 1
        BY <1>5, <2>2, <2>3
      <4> QED  BY <1>5, <2>0, <4>1
    <3>2. hot' = 1 /\ \A i \in Place : sseg'[i] = Off
      BY <2>1, <2>3 DEF Strobe, AllOff
    <3>3. (((n + 1) - k) % NDisp) + 1 = 1
      <4>1. (n + 1) - k = 0  BY <1>5, <3>1
      <4>2. 0 % NDisp = 0  BY Sizes, Wrap
      <4> QED  BY <4>1, <4>2
    <3>4. \A i \in Place : ~(k + i <= n + 1)
      BY <1>5, <3>1, Sizes DEF Place
    <3> QED  BY <1>1, <1>4, <3>2, <3>3, <3>4 DEF ShownSince
  <2>4. CASE char # Clear
    <3>1. k \in 0 .. n /\ LastClear(k, n)
      <4>1. k # n + 1
        BY <1>5, <2>2, <2>4
      <4>2. k \in 0 .. n /\ \A j \in k + 1 .. n : j \in k + 1 .. n + 1
        BY <1>5, <2>0, <4>1
      <4> QED  BY <2>2, <4>2 DEF LastClear
    <3>2. ShownSince(k, n)
      BY <1>1, <1>3, <1>7, <2>1, <2>4, <3>1
    <3> DEFINE m == n - k
    <3>3. m \in Nat /\ m < NDisp /\ (n + 1) - k = m + 1 /\ m + 1 \in Place
      BY <1>2, <1>5, <1>6, <3>1, Sizes DEF Place
    <3> HIDE DEF m
    <3>4. hot = m + 1
      <4>1. m % NDisp = m  BY <3>3, Sizes, Wrap
      <4> QED  BY <3>2, <4>1 DEF ShownSince, m
    <3>5. hot' = (hot % NDisp) + 1 /\ sseg' = [sseg EXCEPT ![hot] = char]
      BY <2>1, <2>4 DEF Strobe
    <3>6. sseg \in [Place -> Char]
      BY DEF Line, PanelOK
    <3>7. ASSUME NEW i \in Place PROVE sseg'[i] = IF k + i <= n + 1 THEN text[k + i] ELSE Off
      <4>1. sseg[i] = IF k + i <= n THEN text[k + i] ELSE Off
        BY <3>2 DEF ShownSince
      <4>2. k + i = n + 1 <=> i = m + 1
        BY <1>5, <3>1, Sizes DEF Place, m
      <4>3. CASE i = m + 1
        <5>1. sseg'[i] = char /\ k + i = n + 1
          BY <3>4, <3>5, <3>6, <4>2, <4>3
        <5> QED  BY <1>5, <5>1
      <4>4. CASE i # m + 1
        <5>1. sseg'[i] = sseg[i]
          BY <3>4, <3>5, <3>6, <4>4
        <5>2. k + i <= n + 1 <=> k + i <= n
          BY <1>5, <3>1, <4>2, <4>4, Sizes DEF Place
        <5> QED  BY <4>1, <5>1, <5>2
      <4> QED  BY <4>3, <4>4
    <3>8. hot' = (((n + 1) - k) % NDisp) + 1
      BY <3>3, <3>4, <3>5
    <3> QED  BY <1>1, <1>4, <3>7, <3>8 DEF ShownSince
  <2> QED  BY <2>3, <2>4
<1>8. left' > 0 => buf' = text' /\ ptr' = Sent' + 1
  BY <1>1, <1>3, <1>4, <1>5
<1> QED  BY <1>4, <1>5, <1>7, <1>8 DEF ShortShown

LEMMA ShownKept ==
  ASSUME Line, Base, Shown, [Next]_vars
  PROVE  Shown'
<1>1. CASE UNCHANGED vars
  <2>1. Resting'
    BY <1>1 DEF Shown, Resting, vars, history
  <2> QED  BY <1>1, <2>1, ShownStays DEF Shown, vars, history, uartVars
<1>2. CASE Uart
  <2>1. PICK char \in Sign, noise \in 0 .. FrameSize : Send(char, noise)
    BY <1>2 DEF Uart, Sign
  <2>2. Resting'
    BY <2>1, CleanSend DEF Resting, Shown
  <2>3. LongShown' /\ ShortShown'
    <3>1. CASE clearing
      BY <2>1, <3>1, ClearShows
    <3>2. CASE ~clearing
      BY <2>1, <3>2, SendShowsLong, SendShowsShort
    <3> QED  BY <3>1, <3>2
  <2> QED  BY <2>2, <2>3 DEF Shown
<1>3. CASE LineIdle \/ Glitch
  <2>1. ~aligned'
    BY <1>3 DEF LineIdle, Glitch, Shown, Resting
  <2>2. UNCHANGED <<text, offset, left, ptr, fresh, clearing, buf>>
    BY <1>3 DEF LineIdle, Glitch, LineUnchanged, uartVars
  <2> QED  BY <2>1, <2>2, ShownStays DEF Shown, Resting
<1>4. CASE Alarm
  <2>1. Resting'
    BY <1>4 DEF Alarm, Shown, Resting
  <2> QED  BY <1>4, <2>1, AlarmShows DEF Shown
<1>5. ASSUME NEW str \in Seq(Sign), Transfer(str) \/ Scroll(str) PROVE Shown'
  <2>1. Resting'
    BY <1>5 DEF Transfer, Scroll, StartScroll, Shown, Resting
  <2> QED  BY <1>5, <2>1, TransferShows, ScrollShows DEF Shown
<1>6. CASE SeekClear
  <2>1. Resting'
    BY <1>6 DEF SeekClear, Shown, Resting
  <2>2. text' = <<>> /\ clearing' /\ left' = left /\ left = 0
    BY <1>6 DEF SeekClear, Base, Control
  <2>3. Len(text') = 0
    BY <2>2
  <2>4. LongShown' /\ ShortShown'
    BY <2>2, <2>3, Sizes DEF LongShown, ShortShown
  <2> QED  BY <2>1, <2>4 DEF Shown
<1>7. ASSUME NEW c, Call(c) PROVE Shown'
  <2>1. UNCHANGED <<panelVars, rx, text, offset, left, ptr, fresh, clearing, aligned>>
    BY <1>7 DEF Call, uartVars, history
  <2>2. left > 0 => buf' = buf
    <3>1. left > 0 => state # "BUILD_STRING"
      BY Sizes DEF Base, Control, Typed
    <3> QED  BY <1>7, <3>1 DEF Call
  <2>3. Resting'
    BY <2>1 DEF Shown, Resting
  <2> QED  BY <2>1, <2>2, <2>3, ShownStays DEF Shown
<1>8. CASE WaitScroll \/ WaitSent \/ NoSpace \/ Build \/ Spin
  <2>1. UNCHANGED <<panelVars, rx, text, offset, left, ptr, fresh, clearing, aligned>>
    BY <1>8 DEF WaitScroll, WaitSent, NoSpace, Build, Spin, uartVars, history
  <2>2. left > 0 => buf' = buf
    <3>1. left > 0 => state # "BUILD_STRING" /\ ~(pc = "wait" /\ tc)
      BY Sizes DEF Base, Control, Typed
    <3>2. pc = "copy" => state = "BUILD_STRING"
      BY DEF Base, Control
    <3> QED  BY <1>8, <3>1, <3>2 DEF WaitScroll, WaitSent, NoSpace, Build, Fits, Spin
  <2>3. Resting'
    BY <2>1 DEF Shown, Resting
  <2> QED  BY <2>1, <2>2, <2>3, ShownStays DEF Shown
<1> QED  BY <1>1, <1>2, <1>3, <1>4, <1>5, <1>6, <1>7, <1>8, StepCases

(* The greatest of some places.                                            *)
LEMMA Greatest ==
  ASSUME NEW n \in Nat, NEW S \in SUBSET (1 .. n), S # {}
  PROVE  \E k \in S : \A j \in S : j <= k
<1> DEFINE T == {n - x : x \in S}
<1>1. T \subseteq Nat /\ T # {}
  <2>1. \A x \in S : x \in 1 .. n
    OBVIOUS
  <2>2. \A x \in S : n - x \in Nat
    BY <2>1
  <2>3. PICK x : x \in S
    OBVIOUS
  <2>4. n - x \in T
    BY <2>3
  <2> QED  BY <2>2, <2>4
<1>2. PICK y \in T : \A z \in T : ~(<<z, y>> \in OpToRel(<, Nat))
  BY <1>1, WFMin, NatLessThanWellFounded
<1>3. \A z \in T : ~(z < y)
  BY <1>1, <1>2 DEF OpToRel
<1>4. PICK k \in S : y = n - k
  OBVIOUS
<1>5. ASSUME NEW j \in S PROVE j <= k
  <2>1. n - j \in T /\ j \in Nat /\ k \in Nat
    OBVIOUS
  <2> QED  BY <1>3, <1>4, <2>1
<1> QED  BY <1>4, <1>5

(* What is seen of a string that fits is what follows its last Clear.      *)
LEMMA AfterClearIs ==
  ASSUME text \in Seq(Sign)
  PROVE  \E k \in 0 .. Len(text) :
           /\ LastClear(k, Len(text)) /\ (k = 0 <=> ~HasClear)
           /\ Len(AfterClear(text)) = Len(text) - k
           /\ \A i \in 1 .. Len(text) - k : AfterClear(text)[i] = text[k + i]
<1> DEFINE l == Len(text)
           cleared == {k \in 1 .. l : text[k] = Clear}
<1>1. l \in Nat /\ \A i \in 1 .. l : text[i] \in Sign
  OBVIOUS
<1>2. CASE cleared = {}
  <2>1. ~HasClear /\ LastClear(0, l)
    BY <1>2 DEF HasClear, LastClear
  <2>2. AfterClear(text) = text
    BY <1>2 DEF AfterClear
  <2>3. \A i \in 1 .. l : 0 + i = i
    BY <1>1
  <2> HIDE DEF l
  <2>4. 0 \in 0 .. l /\ l - 0 = l
    BY <1>1
  <2> QED  BY <2>1, <2>2, <2>3, <2>4 DEF l
<1>3. CASE cleared # {}
  <2> DEFINE c == CHOOSE k \in cleared : \A j \in cleared : j <= k
  <2>1. c \in cleared /\ \A j \in cleared : j <= c
    <3>1. \E k \in cleared : \A j \in cleared : j <= k
      <4>1. cleared \in SUBSET (1 .. l)
        OBVIOUS
      <4> HIDE DEF cleared, l
      <4> QED  BY <1>1, <1>3, <4>1, Greatest
    <3> HIDE DEF cleared
    <3> QED  BY <3>1
  <2>2. AfterClear(text) = SubSeq(text, 1 + c, l)
    BY <1>3 DEF AfterClear
  <2> HIDE DEF c
  <2>3. c \in 1 .. l /\ text[c] = Clear /\ c \in 0 .. l /\ c # 0
    BY <1>1, <2>1
  <2>4. \A j \in c + 1 .. l : text[j] # Clear
    <3> SUFFICES ASSUME NEW j \in c + 1 .. l, text[j] = Clear PROVE FALSE
      OBVIOUS
    <3>1. j \in cleared /\ ~(j <= c)
      BY <1>1, <2>3
    <3> QED  BY <2>1, <3>1
  <2>5. HasClear /\ LastClear(c, l)
    BY <2>3, <2>4 DEF HasClear, LastClear
  <2> HIDE DEF l
  <2> DEFINE m == 1 + c
             r == SubSeq(text, m, l)
  <2>6. m \in Int /\ l \in Int /\ (l - m) + 1 = l - c /\ (m <= l <=> l - c > 0)
    BY <1>1, <2>3
  <2>7. /\ Len(r) = (IF m <= l THEN (l - m) + 1 ELSE 0)
        /\ \A i \in 1 .. (l - m) + 1 : r[i] = text[(m + i) - 1]
    <3>1. \A i \in m .. l : text[i] \in Sign
      BY <1>1, <2>3
    <3> HIDE DEF m
    <3> QED  BY <2>6, <3>1, SubSeqProperties
  <2> HIDE DEF r
  <2>8. Len(r) = l - c
    BY <1>1, <2>3, <2>6, <2>7
  <2>9. \A i \in 1 .. l - c : r[i] = text[c + i]
    <3> SUFFICES ASSUME NEW i \in 1 .. l - c PROVE r[i] = text[c + i]
      OBVIOUS
    <3>1. i \in 1 .. (l - m) + 1 /\ (m + i) - 1 = c + i
      BY <1>1, <2>3, <2>6
    <3> QED  BY <2>7, <3>1
  <2> QED  BY <2>2, <2>3, <2>5, <2>8, <2>9 DEF r, m, l
<1> QED  BY <1>2, <1>3

LEMMA ShownIs ==
  ASSUME Line, Base, Shown
  PROVE  Shows
<1> SUFFICES ASSUME ~clearing, left = 0, aligned, Begun PROVE sseg = Expected
  BY DEF Shows
<1>1. text \in Seq(Sign) /\ Len(text) \in Nat /\ sseg \in [Place -> Char]
  BY DEF Base, Typed, Line, PanelOK
<1>2. CASE Len(text) > NDisp
  <2>1. Expected = View
    <3>1. Len(Append(text, Off)) = Turn
      BY <1>1, Sizes, AppendProperties DEF Turn
    <3>2. Expected = [i \in Place |-> Append(text, Off)[((offset + i - 1) % Len(Append(text, Off))) + 1]]
      BY <1>2 DEF Expected
    <3> QED  BY <3>1, <3>2 DEF View, Cycle
  <2>2. \A i \in 1 .. NDisp - left : sseg[i] = View[i]
    BY <1>2 DEF Shown, LongShown
  <2>3. NDisp - left = NDisp
    BY Sizes
  <2>4. \A i \in Place : sseg[i] = View[i]
    BY <2>2, <2>3 DEF Place
  <2>5. View = [i \in Place |-> View[i]]
    BY DEF View
  <2> QED  BY <1>1, <2>1, <2>4, <2>5
<1>3. CASE Len(text) <= NDisp
  <2> DEFINE l == Len(text)
             str == AfterClear(text)
  <2>1. PICK k \in 0 .. l :
          /\ LastClear(k, l) /\ (k = 0 <=> ~HasClear)
          /\ Len(str) = l - k
          /\ \A i \in 1 .. l - k : str[i] = text[k + i]
    BY <1>1, AfterClearIs
  <2>2. Sent = l
    BY <1>1 DEF Sent
  <2>3. ~(l > NDisp)
    BY <1>1, <1>3, Sizes
  <2>4. k = 0 => fresh
    BY <2>1, <2>3 DEF Begun
  <2>5. ShownSince(k, l)
    BY <1>3, <2>1, <2>2, <2>4 DEF Shown, ShortShown
  <2>6. Expected = [i \in Place |-> IF i <= Len(str) THEN str[i] ELSE Off]
    BY <2>3 DEF Expected
  <2> HIDE DEF str, l
  <2>7. ASSUME NEW i \in Place PROVE sseg[i] = Expected[i]
    <3>1. sseg[i] = IF k + i <= l THEN text[k + i] ELSE Off
      BY <2>5 DEF ShownSince
    <3>2. Expected[i] = IF i <= Len(str) THEN str[i] ELSE Off
      BY <2>6
    <3>3. l \in Nat /\ i \in Nat /\ i >= 1
      BY <1>1, Sizes DEF Place, l
    <3>4. CASE k + i <= l
      <4>1. i \in 1 .. l - k /\ i <= Len(str)
        BY <2>1, <3>3, <3>4
      <4> QED  BY <2>1, <3>1, <3>2, <3>4, <4>1
    <3>5. CASE ~(k + i <= l)
      <4>1. ~(i <= Len(str))
        BY <2>1, <3>3, <3>5
      <4> QED  BY <3>1, <3>2, <3>5, <4>1
    <3> QED  BY <3>4, <3>5
  <2>8. Expected = [i \in Place |-> Expected[i]]
    BY <2>6
  <2> QED  BY <1>1, <2>7, <2>8
<1> QED  BY <1>1, <1>2, <1>3, Sizes

LEMMA ShownStarts == Init => Shown
<1> SUFFICES ASSUME Init PROVE Shown
  OBVIOUS
<1>1. clearing /\ left = 0 /\ text = <<>> /\ Len(text) = 0 /\ rx = Idling(1)
  BY DEF Init
<1>2. ~rx.sampling
  BY <1>1 DEF Idling
<1> QED  BY <1>1, <1>2, Sizes DEF Shown, Resting, LongShown, ShortShown

(* Whatever has been written, however often the alarm has moved the        *)
(* window, and whatever hit the line before the last Clear that found the  *)
(* receiver at rest: when no transfer is under way the displays show the   *)
(* string, or the window of it the scroll has got to.                      *)
THEOREM TheDisplaysShow == Spec => []Shows
<1>1. Line /\ Base /\ Shown /\ [Next]_vars => Shown'
  BY ShownKept
<1>2. Line /\ Base /\ Shown => Shows
  BY ShownIs
<1> QED  BY <1>1, <1>2, ShownStarts, LineHolds, BaseHolds, PTL DEF Spec
=============================================================================

--------------------------- MODULE BStepperProofs ---------------------------
(***************************************************************************)
(* The counting of steps in BStepper is exact, for repetition counters and *)
(* step counts of any width, and the time base is the best its registers   *)
(* allow, for registers of any width.                                      *)
(***************************************************************************)
EXTENDS BStepper, TLAPS, WellFoundedInduction

(* The update interrupt is pending.                                        *)
Due == uif /\ uie

(* Whole rounds still to be counted in software, but for the present one.  *)
Rounds == IF Due THEN sw - 1 ELSE sw

(* Steps that follow the present round.                                    *)
After(rounds) == IF rounds >= 1 THEN (rounds - 1) * MaxReps + hw ELSE 0

(* What the register must hold when the present round ends.                *)
Prepared ==
  /\ sw >= 1
  /\ ~Due /\ sw = 1 => hw > 0 /\ rcr = hw - 1
  /\ ~Due /\ sw >= 2 => rcr = MaxReps - 1
  /\ Due /\ sw >= 3 => rcr = MaxReps - 1

(* The strengthening of ExactSteps that every step keeps: the steps to be  *)
(* made are those of the present round and those that follow, and unless   *)
(* the present round ends in a stop, the next one has been prepared.       *)
Counting ==
  /\ ~cen => todo = 0
  /\ cen /\ opm => todo = rc + 1
  /\ cen /\ ~opm => uie /\ Prepared /\ todo = rc + 1 + After(Rounds)

Inv == TypeOK /\ Counting /\ InTime

-----------------------------------------------------------------------------
(* Steps divide into whole rounds and a rest.                              *)
LEMMA Division ==
  ASSUME NEW n \in Nat, NEW m \in Nat \ {0}
  PROVE  /\ n \div m \in Nat /\ n % m \in 0 .. m - 1
         /\ n = (n \div m) * m + (n % m)
         /\ n > m => n \div m >= 1
<1>1. n \div m \in Int /\ n % m \in 0 .. m - 1 /\ n = (n \div m) * m + (n % m)
  OBVIOUS
<1>2. n \div m >= 0
  <2> SUFFICES ASSUME n \div m <= -1 PROVE FALSE
    BY <1>1
  <2> DEFINE q == n \div m
  <2>1. q * m <= -m
    BY <1>1
  <2> QED BY <1>1, <2>1
<1>3. n > m => n \div m # 0
  BY <1>1
<1> QED BY <1>1, <1>2, <1>3

(* No more rounds than steps.                                              *)
LEMMA FewerRounds ==
  ASSUME NEW q \in Nat, NEW m \in Nat \ {0}
  PROVE  q <= q * m
OBVIOUS

(* Rounds that follow are one less when one of them begins.                *)
LEMMA OneRound ==
  ASSUME NEW s \in Nat, NEW m \in Nat, s >= 2
  PROVE  (s - 1) * m = m + (s - 2) * m /\ (s - 2) * m \in Nat
OBVIOUS

-----------------------------------------------------------------------------
(* The search of the time base.                                            *)

(* A set of natural numbers has a least element.                           *)
LEMMA LeastNat ==
  ASSUME NEW T, T \subseteq Nat, T # {}
  PROVE  \E x \in T : \A y \in T : x <= y
<1>1. PICK x \in T : \A y \in T : ~(<<y, x>> \in OpToRel(<, Nat))
  BY WFMin, NatLessThanWellFounded
<1>2. \A y \in T : ~(y < x)
  BY <1>1 DEF OpToRel
<1> QED  BY <1>2

(* What a quotient and a remainder are.                                    *)
LEMMA Quotient ==
  ASSUME NEW n \in Nat, NEW m \in Nat \ {0}, NEW q \in Nat, NEW r \in 0 .. m - 1, n = q * m + r
  PROVE  n \div m = q /\ n % m = r
<1> DEFINE a == n \div m
           b == n % m
<1>1. a \in Nat /\ b \in 0 .. m - 1 /\ n = a * m + b
  BY Division
<1> HIDE DEF a, b
<1>2. (a - q) * m = r - b
  BY <1>1
<1>3. a - q < 1
  <2> SUFFICES ASSUME a - q >= 1 PROVE FALSE
    BY <1>1
  <2>1. (a - q) * m >= m
    BY <1>1
  <2> QED  BY <1>1, <1>2, <2>1
<1>4. a - q > -1
  <2> SUFFICES ASSUME q - a >= 1 PROVE FALSE
    BY <1>1
  <2>1. (q - a) * m >= m
    BY <1>1
  <2>2. (q - a) * m = -((a - q) * m)
    BY <1>1
  <2> QED  BY <1>1, <1>2, <2>1, <2>2
<1>5. a = q
  BY <1>1, <1>3, <1>4
<1> QED  BY <1>1, <1>5 DEF a, b

(* A remainder and a prescaler make a candidate.                           *)
LEMMA CandidateOf ==
  ASSUME NEW r \in Reg, NEW p \in Reg
  PROVE  /\ r * RegValues + p \in Candidate
         /\ Psc(r * RegValues + p) = p /\ Threshold(r * RegValues + p) = r
<1> USE TimeBaseAssumption DEF Reg
<1>1. r * RegValues \in Nat /\ r * RegValues <= (RegValues - 1) * RegValues
  OBVIOUS
<1>2. (RegValues - 1) * RegValues = RegValues * RegValues - RegValues
  OBVIOUS
<1>3. r * RegValues + p \in Candidate
  BY <1>1, <1>2 DEF Candidate
<1> QED  BY <1>1, <1>3, Quotient DEF Psc, Threshold

LEMMA CandidateFields ==
  ASSUME NEW c \in Candidate
  PROVE  c \in Nat /\ Psc(c) \in Reg /\ Threshold(c) \in Nat
         /\ c = Threshold(c) * RegValues + Psc(c)
<1> DEFINE q == c \div RegValues
           b == c % RegValues
<1>1. c \in Nat /\ RegValues \in Nat \ {0}
  BY TimeBaseAssumption DEF Candidate
<1>2. q \in Nat /\ b \in 0 .. RegValues - 1 /\ c = q * RegValues + b
  BY <1>1, Division
<1>3. Psc(c) = b /\ Threshold(c) = q
  BY DEF Psc, Threshold
<1> HIDE DEF q, b
<1> QED  BY <1>1, <1>2, <1>3 DEF Reg

(* Some candidate is acceptable, so the search ends with the least.        *)
LEMMA SearchEnds ==
  ASSUME NEW ticks, Countable(ticks)
  PROVE  /\ Chosen(ticks) \in Candidate /\ Acceptable(ticks, Chosen(ticks))
         /\ \A d \in Candidate : Acceptable(ticks, d) => Chosen(ticks) <= d
<1> USE TimeBaseAssumption
<1> DEFINE R == RegValues
           T == {c \in Candidate : Acceptable(ticks, c)}
<1>0. ticks \in Nat /\ ticks >= 1 /\ ticks <= R * R
  BY DEF Countable
<1>1. \E c \in Candidate : Acceptable(ticks, c)
  <2>1. CASE ticks <= R
    <3>1. 0 \in Reg /\ 0 * RegValues + 0 = 0
      BY DEF Reg
    <3>2. 0 \in Candidate /\ Psc(0) = 0 /\ Threshold(0) = 0
      BY <3>1, CandidateOf
    <3>3. ticks % 1 = 0 /\ ticks \div 1 = ticks
      BY <1>0
    <3>4. Acceptable(ticks, 0)
      BY <1>0, <2>1, <3>2, <3>3 DEF Acceptable, Arr, Reg
    <3> QED  BY <3>2, <3>4
  <2>2. CASE ticks > R
    <3> DEFINE c == (R - 1) * R + (R - 1)
    <3>1. R - 1 \in Reg
      BY DEF Reg
    <3>2. c \in Candidate /\ Psc(c) = R - 1 /\ Threshold(c) = R - 1
      BY <3>1, CandidateOf
    <3> HIDE DEF c
    <3>3. ticks % R \in 0 .. R - 1 /\ ticks \div R \in Nat /\ ticks \div R >= 1
          /\ ticks = (ticks \div R) * R + (ticks % R)
      <4>1. ticks \in Nat /\ R \in Nat \ {0}
        BY <1>0
      <4> QED  BY <2>2, <4>1, Division
    <3>4. ticks \div R <= R
      <4> DEFINE q == ticks \div R
      <4> SUFFICES ASSUME q >= R + 1 PROVE FALSE
        BY <3>3
      <4>1. q * R <= ticks /\ q \in Nat
        BY <3>3, <1>0
      <4> HIDE DEF q
      <4>2. q * R >= (R + 1) * R
        BY <4>1
      <4>3. (R + 1) * R = R * R + R
        OBVIOUS
      <4> QED  BY <1>0, <4>1, <4>2, <4>3
    <3>5. Acceptable(ticks, c)
      BY <3>2, <3>3, <3>4 DEF Acceptable, Arr, Reg
    <3> QED  BY <3>2, <3>5
  <2> QED  BY <1>0, <2>1, <2>2
<1>2. T \subseteq Nat /\ T # {}
  BY <1>1, CandidateFields
<1>3. PICK c \in T : \A d \in T : c <= d
  BY <1>2, LeastNat
<1> DEFINE First(e) == Acceptable(ticks, e) /\ \A d \in 0 .. e - 1 : ~Acceptable(ticks, d)
<1>4. c \in Candidate /\ First(c)
  <2>1. \A d \in 0 .. c - 1 : d \in Candidate /\ ~(c <= d)
    BY <1>2 DEF Candidate
  <2> QED  BY <1>3, <2>1
<1>5. Chosen(ticks) \in Candidate /\ First(Chosen(ticks))
  <2>1. Chosen(ticks) = CHOOSE e \in Candidate : First(e)
    BY DEF Chosen
  <2> HIDE DEF First
  <2> QED  BY <1>4, <2>1
<1>6. \A d \in Candidate : d \in Nat
  BY CandidateFields
<1>7. ASSUME NEW d \in Candidate, Acceptable(ticks, d), d < Chosen(ticks) PROVE FALSE
  <2>1. d \in 0 .. Chosen(ticks) - 1
    BY <1>5, <1>6, <1>7
  <2> QED  BY <1>5, <1>7, <2>1
<1> QED  BY <1>5, <1>6, <1>7

(* The remainder of the candidate chosen is the least of any prescaler     *)
(* with a reload value that is representable.                              *)
LEMMA LeastRemainder ==
  ASSUME NEW ticks, Countable(ticks), NEW p \in Reg, ticks \div (p + 1) \in 1 .. RegValues
  PROVE  ticks % (Psc(Chosen(ticks)) + 1) <= ticks % (p + 1)
<1> USE TimeBaseAssumption
<1> DEFINE c == Chosen(ticks)
           r0 == ticks % (Psc(c) + 1)
           r == ticks % (p + 1)
<1>1. c \in Candidate /\ Acceptable(ticks, c) /\ \A d \in Candidate : Acceptable(ticks, d) => c <= d
  BY SearchEnds
<1>2. Psc(c) \in Reg /\ Threshold(c) \in Nat /\ c = Threshold(c) * RegValues + Psc(c) /\ c \in Nat
  BY <1>1, CandidateFields
<1>3. r0 \in Nat /\ r0 <= Threshold(c)
  <2>1. ticks \in Nat /\ Psc(c) + 1 \in Nat \ {0}
    BY <1>2 DEF Countable, Reg
  <2>2. r0 <= Threshold(c)
    BY <1>1 DEF Acceptable
  <2> DEFINE m0 == Psc(c) + 1
  <2>3. m0 \in Nat \ {0} /\ r0 = ticks % m0
    BY <2>1
  <2> HIDE DEF m0, r0, c
  <2>4. r0 \in 0 .. m0 - 1
    BY <2>1, <2>3, Division
  <2> QED  BY <2>2, <2>3, <2>4
<1>4. r \in 0 .. p /\ p + 1 \in Nat
  <2>1. ticks \in Nat /\ p + 1 \in Nat \ {0}
    BY DEF Countable, Reg
  <2> QED  BY <2>1, Division DEF Reg
<1> DEFINE d == r * RegValues + p
<1>5. r \in Reg
  BY <1>4 DEF Reg
<1>6. d \in Candidate /\ Psc(d) = p /\ Threshold(d) = r
  BY <1>5, CandidateOf
<1>7. Acceptable(ticks, d)
  <2>1. ticks % (p + 1) <= r
    BY <1>4
  <2>2. ticks \div (p + 1) - 1 \in Reg
    BY DEF Reg
  <2> QED  BY <1>6, <2>1, <2>2 DEF Acceptable, Arr
<1>8. c <= d
  BY <1>1, <1>6, <1>7
<1> HIDE DEF c, r0, r
<1>9. r < Threshold(c) => d < Threshold(c) * RegValues
  <2> SUFFICES ASSUME r + 1 <= Threshold(c) PROVE d < Threshold(c) * RegValues
    BY <1>2, <1>4
  <2>1. (r + 1) * RegValues <= Threshold(c) * RegValues
    BY <1>2, <1>4
  <2>2. (r + 1) * RegValues = r * RegValues + RegValues
    BY <1>4
  <2>3. r * RegValues \in Nat /\ Threshold(c) * RegValues \in Nat
    BY <1>2, <1>4
  <2> QED  BY <2>1, <2>2, <2>3 DEF Reg
<1>10. r0 <= r
  <2>1. Threshold(c) * RegValues \in Nat /\ d \in Nat
    BY <1>2, <1>6, CandidateFields
  <2> QED  BY <1>2, <1>3, <1>4, <1>8, <1>9, <2>1 DEF Reg
<1> QED  BY <1>10 DEF c, r0, r

(* A product of registers is a multiple of its first factor, so that the   *)
(* remainder is what it misses at least.                                   *)
LEMMA MadeBelow ==
  ASSUME NEW ticks \in Nat, NEW p \in Reg, NEW a \in Reg, Made(p, a) <= ticks
  PROVE  Made(p, a) <= ticks - (ticks % (p + 1)) /\ ticks \div (p + 1) >= 1
<1> USE TimeBaseAssumption
<1> DEFINE m == p + 1
           q == ticks \div m
<1>1. m \in Nat \ {0} /\ a + 1 \in Nat /\ a + 1 >= 1
  BY DEF Reg
<1>2. q \in Nat /\ ticks % m \in 0 .. m - 1 /\ ticks = q * m + (ticks % m)
  <2> HIDE DEF m
  <2> QED  BY <1>1, Division
<1>3. m * (a + 1) <= ticks /\ Made(p, a) = m * (a + 1)
  BY DEF Made
<1> HIDE DEF m, q
<1>4. a + 1 <= q
  <2> SUFFICES ASSUME q + 1 <= a + 1 PROVE FALSE
    BY <1>1, <1>2
  <2>1. m * (q + 1) <= m * (a + 1)
    BY <1>1, <1>2
  <2>2. m * (q + 1) = q * m + m
    BY <1>1, <1>2
  <2>3. q * m \in Nat /\ m * (a + 1) \in Nat
    BY <1>1, <1>2
  <2> QED  BY <1>1, <1>2, <1>3, <2>1, <2>2, <2>3
<1>5. m * (a + 1) <= q * m
  BY <1>1, <1>2, <1>4
<1>6. m * (a + 1) <= ticks - (ticks % m) /\ q >= 1
  <2>1. m * (a + 1) \in Nat /\ q * m \in Nat
    BY <1>1, <1>2
  <2> QED  BY <1>1, <1>2, <1>4, <1>5, <2>1
<1> QED  BY <1>3, <1>6 DEF m, q

(* The setting of the candidate chosen is the closest there is.  A product *)
(* whose prescaler would need a reload value that is too large does no     *)
(* better than the first larger prescaler that does not.                   *)
LEMMA ChosenIsClosest ==
  ASSUME NEW ticks, Countable(ticks)
  PROVE  LET c == Chosen(ticks) IN
           /\ Psc(c) \in Reg /\ Arr(ticks, Psc(c)) \in Reg
           /\ Closest(ticks, Psc(c), Arr(ticks, Psc(c)))
<1> USE TimeBaseAssumption
<1> DEFINE c == Chosen(ticks)
           R == RegValues
           m0 == Psc(c) + 1
           r0 == ticks % m0
           made == Made(Psc(c), Arr(ticks, Psc(c)))
<1>0. ticks \in Nat /\ ticks >= 1 /\ ticks <= R * R
  BY DEF Countable
<1>1. Psc(c) \in Reg /\ Arr(ticks, Psc(c)) \in Reg
  BY SearchEnds, CandidateFields DEF Acceptable
<1>2. made = ticks - r0 /\ r0 \in Nat
  <2>1. m0 \in Nat \ {0}
    BY <1>1 DEF Reg
  <2>2. ticks = (ticks \div m0) * m0 + r0 /\ ticks \div m0 \in Nat /\ r0 \in Nat
    <3> HIDE DEF m0
    <3>1. ticks = (ticks \div m0) * m0 + (ticks % m0) /\ ticks \div m0 \in Nat
          /\ ticks % m0 \in 0 .. m0 - 1
      BY <1>0, <2>1, Division
    <3> QED  BY <2>1, <3>1
  <2>3. made = m0 * (ticks \div m0)
    BY <2>2 DEF Made, Arr
  <2>4. m0 * (ticks \div m0) = (ticks \div m0) * m0
    BY <2>1, <2>2
  <2> HIDE DEF made, m0, r0
  <2> QED  BY <1>0, <2>1, <2>2, <2>3, <2>4
<1>3. ASSUME NEW p \in Reg, NEW a \in Reg, Made(p, a) <= ticks
      PROVE  Made(p, a) <= ticks - r0
  <2> DEFINE m == p + 1
  <2>1. m \in 1 .. R /\ Made(p, a) = m * (a + 1)
    BY DEF Reg, Made
  <2>2. ticks % m \in Nat /\ ticks \div m \in Nat /\ ticks = (ticks \div m) * m + (ticks % m)
    <3>1. m \in Nat \ {0}
      BY <2>1
    <3> HIDE DEF m
    <3>2. ticks % m \in 0 .. m - 1 /\ ticks \div m \in Nat /\ ticks = (ticks \div m) * m + (ticks % m)
      BY <1>0, <3>1, Division
    <3> QED  BY <3>1, <3>2
  <2>3. CASE ticks \div m <= R
    <3>1. Made(p, a) <= ticks - (ticks % m) /\ ticks \div m \in 1 .. R
      BY <1>0, <1>3, <2>2, <2>3, MadeBelow
    <3>2. r0 <= ticks % m
      BY <3>1, LeastRemainder
    <3>3. Made(p, a) \in Int
      BY <2>1 DEF Reg
    <3>4. r0 \in Nat /\ ticks % m \in Nat
      BY <1>2, <2>2
    <3> HIDE DEF r0, m
    <3> QED  BY <1>0, <3>1, <3>2, <3>3, <3>4
  <2>4. CASE ticks \div m > R
    <3> DEFINE T == {n \in 1 .. R : ticks < n * (R + 1)}
    <3>1. R \in T
      <4>1. R * (R + 1) = R * R + R
        OBVIOUS
      <4> QED  BY <1>0, <4>1
    <3>2. PICK n \in T : \A x \in T : n <= x
      <4>1. T \subseteq Nat /\ T # {}
        BY <3>1
      <4> QED  BY <4>1, LeastNat
    <3>3. n \in 1 .. R /\ ticks < n * (R + 1)
      BY <3>2
    <3>4. ticks >= m * (R + 1)
      <4> DEFINE q == ticks \div m
      <4>1. q \in Nat /\ q >= R + 1 /\ m \in Nat /\ ticks >= q * m
        <5>1. q \in Nat /\ ticks = q * m + (ticks % m) /\ ticks % m \in Nat /\ q > R /\ m \in Nat
          BY <2>1, <2>2, <2>4
        <5> HIDE DEF q, m
        <5>2. q * m \in Nat
          BY <5>1
        <5> DEFINE b == ticks % m
        <5>3. ticks = q * m + b /\ b \in Nat
          BY <5>1
        <5> HIDE DEF b
        <5> QED  BY <5>1, <5>2, <5>3
      <4> HIDE DEF q, m
      <4>2. q * m >= (R + 1) * m
        BY <4>1
      <4>3. (R + 1) * m = m * (R + 1) /\ q * m \in Nat /\ m * (R + 1) \in Nat
        BY <4>1
      <4> QED  BY <1>0, <4>1, <4>2, <4>3
    <3> HIDE DEF m
    <3>5. m < n
      <4> SUFFICES ASSUME n <= m PROVE FALSE
        BY <2>1, <3>3
      <4>1. n * (R + 1) <= m * (R + 1)
        BY <2>1, <3>3
      <4>2. n * (R + 1) \in Nat /\ m * (R + 1) \in Nat
        BY <2>1, <3>3
      <4> QED  BY <1>0, <3>3, <3>4, <4>1, <4>2
    <3>6. n - 1 \in 1 .. R /\ n - 1 \notin T
      <4>1. n - 1 \in 1 .. R
        BY <2>1, <3>3, <3>5
      <4>2. ~(n <= n - 1)
        BY <3>3
      <4> QED  BY <3>2, <4>1, <4>2
    <3>7. ticks >= (n - 1) * (R + 1)
      <4>1. (n - 1) * (R + 1) \in Nat
        BY <3>6
      <4> QED  BY <1>0, <3>6, <4>1
    <3>8. (n - 1) * (R + 1) = (n - 1) * R + (n - 1) /\ (n - 1) * R \in Nat
      BY <3>6
    <3>9. ticks \div n \in 1 .. R /\ ticks % n \in 0 .. n - 1
      <4> DEFINE q == ticks \div n
                 b == ticks % n
      <4>1. q \in Nat /\ b \in 0 .. n - 1 /\ ticks = q * n + b
        <5>1. n \in Nat \ {0}
          BY <3>3
        <5> QED  BY <1>0, <5>1, Division
      <4> HIDE DEF q, b
      <4>2. q <= R
        <5> SUFFICES ASSUME q >= R + 1 PROVE FALSE
          BY <4>1
        <5>1. q * n >= (R + 1) * n
          BY <3>3, <4>1
        <5>2. (R + 1) * n = n * (R + 1) /\ n * (R + 1) \in Nat /\ q * n \in Nat
          BY <3>3, <4>1
        <5> QED  BY <1>0, <3>3, <4>1, <5>1, <5>2
      <4>3. q >= 1
        <5> SUFFICES ASSUME q = 0 PROVE FALSE
          BY <4>1
        <5>1. ticks <= n - 1
          BY <3>3, <4>1
        <5>2. (n - 1) * R >= n - 1
          BY <3>6
        <5> QED  BY <1>0, <3>3, <3>6, <3>7, <3>8, <5>1, <5>2
      <4> QED  BY <4>1, <4>2, <4>3 DEF q, b
    <3>10. r0 <= n - 1
      <4>1. n - 1 \in Reg /\ (n - 1) + 1 = n
        BY <3>3 DEF Reg
      <4>2. r0 <= ticks % n
        BY <3>9, <4>1, LeastRemainder
      <4> HIDE DEF r0
      <4> QED  BY <1>2, <3>3, <3>9, <4>2
    <3>11. Made(p, a) <= (n - 1) * R
      <4>1. m * (a + 1) <= m * R
        BY <2>1 DEF Reg
      <4>2. m * R <= (n - 1) * R
        BY <2>1, <3>3, <3>5
      <4>3. m * (a + 1) \in Nat /\ m * R \in Nat
        BY <2>1 DEF Reg
      <4> QED  BY <2>1, <3>8, <4>1, <4>2, <4>3
    <3>12. Made(p, a) \in Int
      BY <2>1 DEF Reg
    <3> HIDE DEF r0
    <3> QED  BY <1>0, <1>2, <3>3, <3>7, <3>8, <3>10, <3>11, <3>12
  <2> QED  BY <2>2, <2>3, <2>4
<1>4. made <= ticks
  <2> HIDE DEF made, r0
  <2> QED  BY <1>0, <1>2
<1> HIDE DEF r0
<1>5. Closest(ticks, Psc(c), Arr(ticks, Psc(c)))
  BY <1>2, <1>3, <1>4 DEF Closest
<1> QED  BY <1>1, <1>5

-----------------------------------------------------------------------------
(* The translator's arithmetic stays in its tables.                        *)
LEMMA NextStepPlace ==
  ASSUME NEW p \in Int, NEW d, NEW n \in Int
  PROVE  NextStep(p, d, n) \in Place
BY DEF NextStep, Place, n_half_steps

LEMMA MasksArePlaces ==
  ASSUME NEW d \in {"CCW", "CW"}, NEW t \in {"FULL", "HALF"},
         NEW b \in 0 .. SequenceLen(t) - 1, NEW j \in 0 .. SequenceLen(t) - 1
  PROVE  MaskAt(d, t, b + j) \in Place
<1>1. Ahead \in [0 .. 14 -> Place]
  BY DEF Ahead, Place, n_half_steps
<1>2. Backward \in [0 .. 14 -> Place]
  <2>1. DOMAIN Ahead = 0 .. 14
    BY DEF Ahead, n_half_steps
  <2>2. \A i \in 0 .. 14 : 8 - (i % 8) \in 0 .. 14
    OBVIOUS
  <2> QED BY <1>1, <2>1, <2>2 DEF Backward, n_half_steps
<1>3. \A masks \in [0 .. 14 -> Place] : FullSteps(masks) \in [0 .. 6 -> Place]
  BY DEF FullSteps, n_half_steps
<1>4. HalfStepMask[d] \in [0 .. 14 -> Place] /\ FullStepMask[d] \in [0 .. 6 -> Place]
  BY <1>1, <1>2, <1>3 DEF HalfStepMask, FullStepMask
<1>5. CASE t = "HALF"
  <2>1. b + j \in 0 .. 14
    BY <1>5 DEF SequenceLen, n_half_steps
  <2> QED BY <1>4, <1>5, <2>1 DEF MaskAt
<1>6. CASE t = "FULL"
  <2>1. b + j \in 0 .. 6
    BY <1>6 DEF SequenceLen, n_half_steps
  <2> QED BY <1>4, <1>6, <2>1 DEF MaskAt
<1> QED BY <1>5, <1>6

LEMMA AdvanceTypes ==
  ASSUME NEW p \in Place, NEW n \in Nat, NEW d \in {"CCW", "CW"}, NEW t \in {"FULL", "HALF"}
  PROVE  Arrival(p, n, d, t) \in Place /\ MaskIndex(p, d, t) \in 0 .. SequenceLen(t) - 1
<1>1. Start(p, d, t) \in Place
  BY NextStepPlace DEF Start, Place
<1>2. Start(p, d, t) \in Int
  BY <1>1 DEF Place, n_half_steps
<1>3. Arrival(p, n, d, t) \in Place
  BY <1>2, NextStepPlace DEF Arrival
<1>4. NextStep(Start(p, d, t), d, 1) \in 0 .. 7 /\ NextStep(Start(p, d, t), d, 2) \in 0 .. 7
  BY <1>2, NextStepPlace DEF Place, n_half_steps
<1>5. MaskIndex(p, d, t) \in 0 .. SequenceLen(t) - 1
  BY <1>4 DEF MaskIndex, SequenceLen, n_half_steps
<1> QED BY <1>3, <1>5

-----------------------------------------------------------------------------
(* The three actions keep the invariant.                                   *)
LEMMA InvInit == Init => Inv
<1> SUFFICES ASSUME Init PROVE Inv
  OBVIOUS
<1>1. type \in {"FULL", "HALF"}
  BY RotationAssumption DEF Init
<1>2. SequenceLen(type) \in {4, 8}
  BY <1>1 DEF SequenceLen, n_half_steps
<1>3. base \in 0 .. SequenceLen(type) - 1 /\ k \in 0 .. SequenceLen(type) - 1
  BY <1>2 DEF Init
<1>4. TypeOK
  <2>1. cen \in BOOLEAN /\ opm \in BOOLEAN /\ uif \in BOOLEAN /\ uie \in BOOLEAN
    BY DEF Init
  <2>2. 0 \in 0 .. MaxReps - 1 /\ 0 \in 0 .. MaxSteps /\ 0 \in Place
    BY RepsAssumption DEF Place, n_half_steps
  <2>3. 0 \in Reg
    BY TimeBaseAssumption DEF Reg
  <2> QED BY <1>3, <2>1, <2>2, <2>3 DEF Init, TypeOK
<1> QED BY <1>4 DEF Init, Inv, Counting, InTime

LEMMA RotateKeeps ==
  ASSUME Inv, NEW steps \in 1 .. MaxSteps, NEW speed \in Speed,
         NEW d \in Direction, NEW t \in StepType, Rotate(steps, speed, d, t)
  PROVE  Inv'
<1> USE RepsAssumption
<1>1. d \in {"CCW", "CW"} /\ t \in {"FULL", "HALF"} /\ steps \in Nat /\ steps >= 1
  BY RotationAssumption
<1>2. place' \in Place /\ base' \in 0 .. SequenceLen(type') - 1
  <2>1. place \in Place
    BY DEF Inv, TypeOK
  <2>2. Arrival(place, steps, d, t) \in Place /\ MaskIndex(place, d, t) \in 0 .. SequenceLen(t) - 1
    BY <1>1, <2>1, AdvanceTypes
  <2> QED BY <2>2 DEF Rotate
<1>3. k' \in 0 .. SequenceLen(type') - 1 /\ way' \in Direction /\ type' \in StepType
  BY <1>1 DEF Rotate, SequenceLen, n_half_steps
<1>0. psc' \in Reg /\ arr' \in Reg /\ asked' \in Nat /\ InTime'
  <2> DEFINE ticks == TicksOf(speed, t)
  <2>1. /\ Countable(ticks) /\ asked' = ticks
        /\ psc' = Psc(Chosen(ticks)) /\ arr' = Arr(ticks, Psc(Chosen(ticks)))
    BY DEF Rotate, SetTimeBase
  <2> HIDE DEF ticks
  <2>2. psc' \in Reg /\ arr' \in Reg /\ Closest(asked', psc', arr')
    BY <2>1, ChosenIsClosest
  <2>3. asked' \in Nat
    BY <2>1 DEF Countable
  <2> QED  BY <2>2, <2>3 DEF InTime
<1>4. CASE CountInHardware(steps)
  <2>1. TypeOK'
    BY <1>0, <1>2, <1>3, <1>4 DEF Rotate, CountInHardware, Inv, TypeOK
  <2>2. Counting'
    BY <1>4 DEF Rotate, CountInHardware, Counting
  <2> QED BY <1>0, <2>1, <2>2 DEF Inv
<1>5. CASE CountInSoftware(steps)
  <2> DEFINE q == steps \div MaxReps
             r == steps % MaxReps
  <2>1. q \in Nat /\ q >= 1 /\ r \in 0 .. MaxReps - 1 /\ steps = q * MaxReps + r
    BY <1>1, <1>5, Division DEF CountInSoftware
  <2>2. q <= MaxSteps
    <3>1. q <= q * MaxReps
      BY <2>1, FewerRounds
    <3> HIDE DEF q, r
    <3>2. q * MaxReps \in Nat
      BY <2>1
    <3> QED BY <2>1, <3>1, <3>2
  <2>3. sw' = q /\ hw' = r /\ rc' = MaxReps - 1 /\ rcr' = (IF q = 1 THEN r ELSE MaxReps) - 1
    BY <1>5 DEF CountInSoftware
  <2>4. q = 1 => r > 0
    <3> SUFFICES ASSUME q = 1 PROVE r > 0
      OBVIOUS
    <3>1. steps = MaxReps + r
      BY <2>1
    <3> QED BY <1>5, <2>1, <3>1 DEF CountInSoftware
  <2> HIDE DEF q, r
  <2>5. TypeOK'
    <3>1. cen' \in BOOLEAN /\ opm' \in BOOLEAN /\ uif' \in BOOLEAN /\ uie' \in BOOLEAN
      BY <1>5 DEF Rotate, CountInSoftware
    <3>2. /\ rc' \in 0 .. MaxReps - 1 /\ rcr' \in 0 .. MaxReps - 1
          /\ sw' \in 0 .. MaxSteps /\ hw' \in 0 .. MaxReps - 1
      BY <2>1, <2>2, <2>3, <2>4
    <3>3. phase' \in Place /\ todo' \in 0 .. MaxSteps
      BY <1>1 DEF Rotate, Inv, TypeOK
    <3> QED BY <1>0, <1>2, <1>3, <3>1, <3>2, <3>3 DEF TypeOK
  <2>6. steps = rc' + 1 + ((q - 1) * MaxReps + r)
    BY <2>1, <2>3
  <2>7. Counting'
    BY <1>5, <2>1, <2>3, <2>4, <2>6
    DEF Rotate, CountInSoftware, Counting, Prepared, After, Rounds, Due
  <2> QED BY <1>0, <2>5, <2>7 DEF Inv
<1> QED BY <1>4, <1>5 DEF Rotate

LEMMA PeriodKeeps ==
  ASSUME Inv, Period
  PROVE  Inv'
<1> USE RepsAssumption
<1>0. psc' \in Reg /\ arr' \in Reg /\ asked' \in Nat /\ InTime'
  BY DEF Period, timeVars, Inv, TypeOK, InTime
<1>1. phase' \in Place
  BY RotationAssumption, MasksArePlaces DEF Period, Inv, TypeOK
<1>2. k' \in 0 .. SequenceLen(type') - 1 /\ base' \in 0 .. SequenceLen(type') - 1
  <2>1. SequenceLen(type) \in {4, 8}
    BY RotationAssumption DEF Inv, TypeOK, SequenceLen, n_half_steps
  <2> QED BY <2>1 DEF Period, Inv, TypeOK
<1>3. After(Rounds) \in Nat
  BY DEF Inv, TypeOK, After, Rounds
<1>4. todo \in 1 .. MaxSteps
  BY <1>3 DEF Period, Inv, TypeOK, Counting
<1>5. TypeOK'
  <2>1. cen' \in BOOLEAN /\ opm' \in BOOLEAN /\ uif' \in BOOLEAN /\ uie' \in BOOLEAN
    <3>1. CASE rc = 0
      <4>1. uif' = TRUE /\ cen' = ~opm /\ opm' = opm /\ uie' = uie
        BY <3>1 DEF Period
      <4>2. (~opm) \in BOOLEAN /\ opm \in BOOLEAN /\ uie \in BOOLEAN
        BY DEF Inv, TypeOK
      <4> QED BY <4>1, <4>2
    <3>2. CASE rc # 0
      BY <3>2 DEF Period, Inv, TypeOK
    <3> QED BY <3>1, <3>2
  <2>2. rc' \in 0 .. MaxReps - 1
    <3>1. rc' = IF rc = 0 THEN rcr ELSE rc - 1
      BY DEF Period
    <3> QED BY <3>1 DEF Inv, TypeOK
  <2>3. todo' \in 0 .. MaxSteps
    BY <1>4 DEF Period
  <2>4. /\ rcr' \in 0 .. MaxReps - 1 /\ sw' \in 0 .. MaxSteps /\ hw' \in 0 .. MaxReps - 1
        /\ place' \in Place /\ way' \in Direction /\ type' \in StepType
    BY DEF Period, Inv, TypeOK
  <2> QED BY <1>0, <1>1, <1>2, <2>1, <2>2, <2>3, <2>4 DEF TypeOK
<1>6. CASE rc # 0
  <2>1. Due' = Due /\ Rounds' = Rounds /\ After(Rounds)' = After(Rounds) /\ Prepared' = Prepared
    BY <1>6 DEF Period, Due, Rounds, After, Prepared
  <2> QED BY <1>0, <1>3, <1>5, <1>6, <2>1 DEF Period, Inv, TypeOK, Counting
<1>7. CASE rc = 0 /\ opm
  BY <1>0, <1>4, <1>5, <1>7 DEF Period, Inv, TypeOK, Counting
<1>8. CASE rc = 0 /\ ~opm
  <2>1. uie /\ ~Due /\ Due' /\ sw >= 1 /\ sw' = sw /\ hw' = hw /\ rc' = rcr /\ rcr' = rcr
    BY <1>8 DEF Period, Inv, TypeOK, Counting, Prepared, Due
  <2>2. todo = 1 + ((sw - 1) * MaxReps + hw)
    BY <1>8, <2>1 DEF Period, Inv, TypeOK, Counting, After, Rounds
  <2>3. After(Rounds)' = IF sw >= 2 THEN (sw - 2) * MaxReps + hw ELSE 0
    BY <2>1 DEF After, Rounds, Inv, TypeOK
  <2>4. todo' = rc' + 1 + After(Rounds)'
    <3>1. CASE sw = 1
      BY <1>8, <2>1, <2>2, <2>3, <3>1 DEF Period, Inv, TypeOK, Counting, Prepared
    <3>2. CASE sw >= 2
      <4>1. rcr = MaxReps - 1
        BY <1>8, <2>1, <3>2 DEF Period, Inv, TypeOK, Counting, Prepared
      <4>2. (sw - 1) * MaxReps = MaxReps + (sw - 2) * MaxReps /\ (sw - 2) * MaxReps \in Nat
        BY <3>2, OneRound DEF Inv, TypeOK
      <4> QED BY <2>1, <2>2, <2>3, <3>2, <4>1, <4>2 DEF Period, Inv, TypeOK
    <3> QED BY <2>1, <3>1, <3>2 DEF Inv, TypeOK
  <2>5. Prepared'
    BY <1>8, <2>1 DEF Period, Inv, TypeOK, Counting, Prepared
  <2> QED BY <1>0, <1>5, <1>8, <2>1, <2>4, <2>5 DEF Period, Inv, Counting
<1> QED BY <1>6, <1>7, <1>8 DEF Inv, TypeOK

LEMMA HandlerKeeps ==
  ASSUME Inv, Handler
  PROVE  Inv'
<1> USE RepsAssumption
<1>0. psc' \in Reg /\ arr' \in Reg /\ asked' \in Nat /\ InTime'
  BY DEF Handler, timeVars, Inv, TypeOK, InTime
<1>1. Due /\ ~Due' /\ sw' \in 0 .. MaxSteps /\ (sw >= 1 => sw' = sw - 1)
  BY DEF Handler, Due, Inv, TypeOK
<1>2. TypeOK'
  <2>1. cen' \in BOOLEAN /\ opm' \in BOOLEAN /\ uif' \in BOOLEAN /\ uie' \in BOOLEAN
    BY DEF Handler, Inv, TypeOK
  <2>2. rcr' \in 0 .. MaxReps - 1
    BY DEF Handler, Inv, TypeOK
  <2>3. /\ rc' \in 0 .. MaxReps - 1 /\ hw' \in 0 .. MaxReps - 1 /\ place' \in Place
        /\ todo' \in 0 .. MaxSteps
    BY DEF Handler, Inv, TypeOK
  <2>4. /\ phase' \in Place /\ way' \in Direction /\ type' \in StepType
        /\ base' \in 0 .. SequenceLen(type') - 1 /\ k' \in 0 .. SequenceLen(type') - 1
    BY DEF Handler, Inv, TypeOK, dmaVars
  <2> QED BY <1>0, <1>1, <2>1, <2>2, <2>3, <2>4 DEF TypeOK
<1>3. CASE ~cen \/ opm
  BY <1>0, <1>2, <1>3 DEF Handler, Inv, TypeOK, Counting, dmaVars
<1>4. CASE cen /\ ~opm
  <2>1. uie /\ sw >= 1 /\ (sw >= 3 => rcr = MaxReps - 1) /\ Rounds = sw - 1
    BY <1>1, <1>4 DEF Inv, TypeOK, Counting, Prepared, Rounds
  <2>2. todo = rc + 1 + After(sw - 1)
    BY <1>4, <2>1 DEF Inv, Counting
  <2>3. sw' = sw - 1 /\ Rounds' = sw - 1 /\ After(Rounds)' = After(sw - 1)
    BY <1>1, <2>1 DEF Handler, Rounds, After
  <2>4. CASE sw = 1 \/ (sw = 2 /\ hw = 0)
    <3>1. After(sw - 1) = 0
      <4>1. CASE sw = 1
        BY <4>1 DEF After
      <4>2. CASE sw = 2 /\ hw = 0
        <5>1. (sw - 1 - 1) * MaxReps = 0
          BY <4>2
        <5> QED BY <4>2, <5>1 DEF After
      <4> QED BY <2>4, <4>1, <4>2
    <3>2. opm' = TRUE
      <4>1. ~(sw - 1 = 1 /\ hw # 0) /\ sw - 1 \in {0, 1}
        BY <2>4 DEF Inv, TypeOK
      <4>2. opm' = (opm \/ sw - 1 \in {0, 1})
        BY <4>1 DEF Handler
      <4> QED BY <4>1, <4>2
    <3>3. todo' = rc' + 1 /\ cen'
      BY <1>4, <2>2, <3>1 DEF Handler, Inv, TypeOK
    <3> QED BY <1>0, <1>2, <3>2, <3>3 DEF Inv, Counting
  <2>6. CASE sw = 2 /\ hw # 0
    BY <1>0, <1>1, <1>2, <1>4, <2>1, <2>2, <2>3, <2>6
    DEF Handler, Inv, TypeOK, Counting, Prepared, dmaVars
  <2>7. CASE sw >= 3
    BY <1>0, <1>1, <1>2, <1>4, <2>1, <2>2, <2>3, <2>7
    DEF Handler, Inv, TypeOK, Counting, Prepared, dmaVars
  <2> QED BY <2>1, <2>4, <2>6, <2>7 DEF Inv, TypeOK
<1> QED BY <1>3, <1>4

LEMMA InvStep == Inv /\ [Next]_vars => Inv'
<1> SUFFICES ASSUME Inv, [Next]_vars PROVE Inv'
  OBVIOUS
<1>1. ASSUME NEW steps \in 1 .. MaxSteps, NEW speed \in Speed,
             NEW d \in Direction, NEW t \in StepType, Rotate(steps, speed, d, t)
      PROVE  Inv'
  BY <1>1, RotateKeeps
<1>2. CASE Period
  BY <1>2, PeriodKeeps
<1>3. CASE Handler
  BY <1>3, HandlerKeeps
<1>4. CASE UNCHANGED vars
  BY <1>4 DEF vars, Inv, TypeOK, InTime, Counting, Prepared, After, Rounds, Due
<1> QED BY <1>1, <1>2, <1>3, <1>4 DEF Next

LEMMA InvImplies == Inv => ExactSteps
<1> SUFFICES ASSUME Inv PROVE ExactSteps
  OBVIOUS
<1>1. After(Rounds) \in Nat
  BY RepsAssumption DEF Inv, TypeOK, After, Rounds
<1> QED BY <1>1 DEF Inv, TypeOK, Counting, ExactSteps

(* The state of the driver stays well typed, and the DMA stream never      *)
(* reads outside its table.                                                *)
THEOREM Typing == Spec => []TypeOK
<1>1. Inv => TypeOK
  BY DEF Inv
<1> QED BY <1>1, InvInit, InvStep, PTL DEF Spec

(* Every rotation makes exactly the steps asked for: the timer is stopped  *)
(* when they are made and not before, for any number of them and any width *)
(* of the repetition counter (BStepper::rotate, handler).                  *)
THEOREM StepsAreExact == Spec => []ExactSteps
<1> QED BY InvInit, InvStep, InvImplies, PTL DEF Spec

(* Every rotation runs at the speed asked for, as closely as the registers *)
(* of the timer allow: the search of calcTimeBase ends for every speed it  *)
(* does not refuse, and with the closest of all settings.                  *)
THEOREM SpeedsAreClosest == Spec => []InTime
<1>1. Inv => InTime
  BY DEF Inv
<1> QED BY <1>1, InvInit, InvStep, PTL DEF Spec

-----------------------------------------------------------------------------
(* Counterclockwise the driver is a StepMotor.                             *)

(* What the k-th read from index b finds, counterclockwise.                *)
Reads(t, i) == IF t = "HALF" THEN i % 8 ELSE (2 * i) % 8

(* The mask that is moved next is one step further, and the translator is  *)
(* where the phases will be when the rotation has ended.                   *)
OnTrack ==
  /\ todo = 0 => place = phase
  /\ todo > 0 => /\ Reads(type, base + k) = Motor!Toward("CCW", phase, Motor!Stride(phase, type))
                 /\ place = Reads(type, base + k + (todo - 1))

LEMMA ReadsMask ==
  ASSUME NEW t \in {"FULL", "HALF"},
         NEW b \in 0 .. SequenceLen(t) - 1, NEW j \in 0 .. SequenceLen(t) - 1
  PROVE  MaskAt("CCW", t, b + j) = Reads(t, b + j)
<1>1. Ahead = [i \in 0 .. 14 |-> i % 8]
  BY DEF Ahead, n_half_steps
<1>2. HalfStepMask["CCW"] = Ahead /\ FullStepMask["CCW"] = [i \in 0 .. 6 |-> Ahead[2 * i]]
  BY DEF HalfStepMask, FullStepMask, FullSteps, n_half_steps
<1>3. CASE t = "HALF"
  <2>1. b + j \in 0 .. 14  BY <1>3 DEF SequenceLen, n_half_steps
  <2> QED  BY <1>1, <1>2, <1>3, <2>1 DEF MaskAt, Reads
<1>4. CASE t = "FULL"
  <2>1. b + j \in 0 .. 6 /\ 2 * (b + j) \in 0 .. 14  BY <1>4 DEF SequenceLen, n_half_steps
  <2> QED  BY <1>1, <1>2, <1>4, <2>1 DEF MaskAt, Reads
<1> QED  BY <1>3, <1>4

LEMMA RotateTracks ==
  ASSUME Inv, OnTrack, NEW steps \in 1 .. MaxSteps, NEW speed \in Speed,
         NEW t \in StepType, Rotate(steps, speed, "CCW", t)
  PROVE  OnTrack' /\ Motor!Rotate(steps, "CCW", t)
<1> USE RepsAssumption
<1>1. todo = 0 /\ phase = place /\ phase \in 0 .. 7 /\ t \in {"FULL", "HALF"} /\ steps \in Nat /\ steps >= 1
  BY RotationAssumption DEF Rotate, Inv, Counting, TypeOK, OnTrack, Place, n_half_steps
<1>2. /\ todo' = steps /\ way' = "CCW" /\ type' = t /\ k' = 0 /\ phase' = phase
      /\ place' = Arrival(place, steps, "CCW", t) /\ base' = MaskIndex(place, "CCW", t)
  BY DEF Rotate
<1>3. CASE t = "HALF"
  <2>1. place' = (place + steps) % 8 /\ base' = (place + 1) % 8
    BY <1>2, <1>3 DEF Arrival, MaskIndex, Start, NextStep, n_half_steps
  <2>2. Reads(t, base') = Motor!Toward("CCW", phase, Motor!Stride(phase, t))
    BY <1>1, <1>3, <2>1 DEF Reads, Motor!Toward, Motor!Stride
  <2>3. place' = Reads(t, base' + (steps - 1))
    BY <1>1, <1>3, <2>1 DEF Reads
  <2> QED  BY <1>1, <1>2, <2>1, <2>2, <2>3 DEF OnTrack, Motor!Rotate
<1>4. CASE t = "FULL"
  <2> DEFINE s == Start(place, "CCW", t)
  <2>1. s = IF place % 2 = 1 THEN (place + 1) % 8 ELSE place
    BY <1>4 DEF Start, IsHalf, NextStep, n_half_steps
  <2>2. s \in {0, 2, 4, 6}
    BY <1>1, <2>1
  <2>3. place' = (s + 2 * steps) % 8 /\ base' = ((s + 2) % 8) \div 2
    BY <1>2, <1>4 DEF Arrival, MaskIndex, NextStep, n_half_steps
  <2> HIDE DEF s
  <2>4. 2 * base' = (s + 2) % 8 /\ base' \in 0 .. 3
    BY <2>2, <2>3
  <2>5. Reads(t, base') = Motor!Toward("CCW", phase, Motor!Stride(phase, t))
    <3>1. Reads(t, base') = (s + 2) % 8
      <4>1. (2 * base') % 8 = 2 * base'  BY <2>4
      <4>2. Reads(t, base') = (2 * base') % 8  BY <1>4 DEF Reads
      <4> QED  BY <2>4, <4>1, <4>2
    <3>2. (s + 2) % 8 = (phase + (IF phase % 2 = 0 THEN 2 ELSE 3)) % 8
      <4>1. phase \in {0, 1, 2, 3, 4, 5, 6, 7}  BY <1>1
      <4> QED  BY <1>1, <2>1, <4>1
    <3> QED  BY <1>4, <3>1, <3>2 DEF Motor!Toward, Motor!Stride
  <2>6. place' = Reads(t, base' + (steps - 1))
    BY <1>1, <1>4, <2>2, <2>3, <2>4 DEF Reads
  <2> QED  BY <1>1, <1>2, <2>4, <2>5, <2>6 DEF OnTrack, Motor!Rotate
<1> QED  BY <1>1, <1>3, <1>4

LEMMA PeriodTracks ==
  ASSUME Inv, OnTrack, way = "CCW", Period
  PROVE  OnTrack' /\ Motor!Step
<1>1. /\ todo \in Nat /\ todo > 0 /\ phase \in 0 .. 7 /\ type \in {"FULL", "HALF"}
      /\ base \in 0 .. SequenceLen(type) - 1 /\ k \in 0 .. SequenceLen(type) - 1
  BY RepsAssumption, RotationAssumption, InvImplies
  DEF Period, Inv, TypeOK, ExactSteps, Place, n_half_steps
<1>2. /\ phase' = MaskAt(way, type, base + k) /\ k' = (k + 1) % SequenceLen(type)
      /\ todo' = todo - 1 /\ place' = place /\ base' = base /\ way' = way /\ type' = type
  BY DEF Period, dmaVars
<1>3. phase' = Reads(type, base + k)
  BY <1>1, <1>2, ReadsMask
<1>4. Motor!Step
  BY <1>1, <1>2, <1>3 DEF Motor!Step, OnTrack
<1>5. CASE type = "HALF"
  <2>1. base \in 0 .. 7 /\ k \in 0 .. 7 /\ k' = (k + 1) % 8
    BY <1>1, <1>2, <1>5 DEF SequenceLen, n_half_steps
  <2>2. phase' = (base + k) % 8 /\ place = (base + k + (todo - 1)) % 8
    BY <1>1, <1>3, <1>5 DEF OnTrack, Reads
  <2>3. (base + k') % 8 = (phase' + 1) % 8
    BY <2>1, <2>2
  <2>4. todo' = 0 => place' = phase'
    BY <1>1, <1>2, <2>1, <2>2
  <2>5. place' = (base' + k' + (todo' - 1)) % 8
    BY <1>1, <1>2, <2>1, <2>2
  <2>6. Reads(type', base' + k') = Motor!Toward("CCW", phase', Motor!Stride(phase', type'))
    BY <1>2, <1>5, <2>3 DEF Reads, Motor!Toward, Motor!Stride
  <2>7. place' = Reads(type', base' + k' + (todo' - 1))
    BY <1>2, <1>5, <2>5 DEF Reads
  <2> QED  BY <1>4, <2>4, <2>6, <2>7 DEF OnTrack
<1>6. CASE type = "FULL"
  <2>1. base \in 0 .. 3 /\ k \in 0 .. 3 /\ k' = (k + 1) % 4
    BY <1>1, <1>2, <1>6 DEF SequenceLen, n_half_steps
  <2>2. phase' = (2 * (base + k)) % 8 /\ place = (2 * (base + k + (todo - 1))) % 8
    BY <1>1, <1>3, <1>6 DEF OnTrack, Reads
  <2>3. (2 * (base + k')) % 8 = (phase' + 2) % 8 /\ phase' % 2 = 0
    BY <2>1, <2>2
  <2>4. todo' = 0 => place' = phase'
    BY <1>1, <1>2, <2>1, <2>2
  <2>5. place' = (2 * (base' + k' + (todo' - 1))) % 8
    <3>1. CASE k = 3
      <4>1. k' = 0 /\ base' + k' + (todo' - 1) = (base + k + (todo - 1)) - 4
        BY <1>1, <1>2, <2>1, <3>1
      <4> QED  BY <1>1, <1>2, <2>1, <2>2, <3>1, <4>1
    <3>2. CASE k # 3
      <4>1. k' = k + 1  BY <2>1, <3>2
      <4>2. base' + k' + (todo' - 1) = base + k + (todo - 1)
        BY <1>1, <1>2, <2>1, <4>1
      <4> QED  BY <1>2, <2>2, <4>2
    <3> QED  BY <3>1, <3>2
  <2>6. Reads(type', base' + k') = Motor!Toward("CCW", phase', Motor!Stride(phase', type'))
    BY <1>2, <1>6, <2>3 DEF Reads, Motor!Toward, Motor!Stride
  <2>7. place' = Reads(type', base' + k' + (todo' - 1))
    BY <1>2, <1>6, <2>5 DEF Reads
  <2> QED  BY <1>4, <2>4, <2>6, <2>7 DEF OnTrack
<1> QED  BY <1>1, <1>4, <1>5, <1>6

(* Counterclockwise the phases are driven as StepMotor says, whatever step *)
(* type follows whatever other one: one step at a time, beginning with the *)
(* one after the last, and as many as were asked for.  Clockwise they are  *)
(* not (TLC finds the counterexample), hence the assumption.               *)
THEOREM MotorRefined ==
  ASSUME Direction \subseteq {"CCW"}
  PROVE  Spec => MotorSpec
<1>1. Init => Inv /\ OnTrack /\ Motor!Init
  BY InvInit DEF Init, OnTrack, Motor!Init
<1>2. Inv /\ OnTrack /\ [Next]_vars => Inv' /\ OnTrack' /\ [Motor!Next]_(Motor!vars)
  <2> SUFFICES ASSUME Inv, OnTrack, [Next]_vars
               PROVE  OnTrack' /\ [Motor!Next]_(Motor!vars)
    BY InvStep
  <2>1. ASSUME NEW steps \in 1 .. MaxSteps, NEW speed \in Speed,
               NEW d \in Direction, NEW t \in StepType, Rotate(steps, speed, d, t)
        PROVE  OnTrack' /\ Motor!Next
    <3>1. d = "CCW"  OBVIOUS
    <3>2. OnTrack' /\ Motor!Rotate(steps, d, t)  BY <2>1, <3>1, RotateTracks
    <3> QED  BY <3>2 DEF Motor!Next
  <2>2. CASE Period
    <3>1. way = "CCW"  BY DEF Inv, TypeOK
    <3> QED  BY <2>2, <3>1, PeriodTracks DEF Motor!Next
  <2>3. CASE Handler \/ UNCHANGED vars
    BY <2>3 DEF Handler, vars, dmaVars, OnTrack, Motor!vars
  <2> QED  BY <2>1, <2>2, <2>3 DEF Next
<1> QED  BY <1>1, <1>2, PTL DEF Spec, MotorSpec, Motor!Spec
=============================================================================

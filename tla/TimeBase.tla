------------------------------ MODULE TimeBase ------------------------------
(***************************************************************************)
(* The time base of a rotation (BStepper::calcTimeBase): a prescaler and a *)
(* reload value whose product is as close to the ticks of one step as the  *)
(* registers of the timer allow.                                           *)
(***************************************************************************)
EXTENDS Integers

CONSTANTS
  RegValues,    (* values of a TimRegType, 2^16                            *)
  ScaledClock,  (* _sixtyk_psc_clk_hz, ticks in 60000 s                    *)
  StepsPerRev   (* _steps_per_rev, in full steps                           *)

ASSUME TimeBaseAssumption ==
  RegValues \in Nat \ {0} /\ ScaledClock \in Nat /\ StepsPerRev \in Nat \ {0}

Reg == 0 .. RegValues - 1

(* Ticks in a step, rounded.                                               *)
TicksOf(milli_rev_per_minute, t) ==
  LET den == (IF t = "HALF" THEN 2 * StepsPerRev ELSE StepsPerRev) * milli_rev_per_minute
  IN  (ScaledClock + den \div 2) \div den

(* The range beyond which rotate() refuses.                                *)
Countable(ticks) == ticks \in 1 .. RegValues * RegValues

(* A candidate is a word with a threshold for the remainder in its high    *)
(* half, and a prescaler in its low one.                                   *)
Candidate    == 0 .. RegValues * RegValues - 1
Threshold(c) == c \div RegValues
Psc(c)       == c % RegValues

Arr(ticks, psc) == ticks \div (psc + 1) - 1

(* Seeded fault: the first reload value that is representable is taken.    *)
AcceptableAny(ticks, c) == Arr(ticks, Psc(c)) \in Reg

(* The reload value is representable, and the remainder below threshold.   *)
Acceptable(ticks, c) ==
  ticks % (Psc(c) + 1) <= Threshold(c) /\ Arr(ticks, Psc(c)) \in Reg

(* The candidate the search ends with: the first that is acceptable.       *)
Chosen(ticks) ==
  CHOOSE c \in Candidate :
    Acceptable(ticks, c) /\ \A d \in 0 .. c - 1 : ~Acceptable(ticks, d)

-----------------------------------------------------------------------------
(* What the search is for: no other setting of the registers comes closer  *)
(* to the ticks asked for from below.                                      *)
Made(psc, arr) == (psc + 1) * (arr + 1)

Closest(ticks, psc, arr) ==
  /\ Made(psc, arr) <= ticks
  /\ \A p, a \in Reg : Made(p, a) <= ticks => Made(p, a) <= Made(psc, arr)
=============================================================================

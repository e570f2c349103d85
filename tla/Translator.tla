----------------------------- MODULE Translator -----------------------------
(***************************************************************************)
(* The tables of the stepper motor (fw/core/src/BStepper/Translator.cpp).  *)
(* A mask, which drives the two phases, is represented by its place in     *)
(* Half_Step_Sequence, 0 to 7; even places are full steps.                 *)
(***************************************************************************)
EXTENDS Integers

n_half_steps == 8
Place == 0 .. n_half_steps - 1

(* Step::isHalf: one of the two phases is off.                             *)
IsHalf(p) == p % 2 = 1

(* The half-step masks, with all but one repeated after the last one, so   *)
(* that a full cycle follows every index; and, for the other direction,    *)
(* the same read backwards from the repeated first one.                    *)
Ahead    == [i \in 0 .. 2 * n_half_steps - 2 |-> i % n_half_steps]
Backward == [i \in DOMAIN Ahead |-> Ahead[n_half_steps - (i % n_half_steps)]]

HalfStepMask == [CCW |-> Ahead, CW |-> Backward]

(* One direction's masks without those of half steps.                      *)
FullSteps(masks) == [i \in 0 .. n_half_steps - 2 |-> masks[2 * i]]
FullStepMask == [CCW |-> FullSteps(Ahead), CW |-> FullSteps(Backward)]

SequenceLen(t) == IF t = "HALF" THEN n_half_steps ELSE n_half_steps \div 2

(* nextStep, from place p: the sum or difference is of uint32.             *)
NextStep(p, d, half_steps) ==
  (IF d = "CCW" THEN p + half_steps ELSE p - half_steps) % n_half_steps

(* advance(): where it starts, the index of the first mask it returns, and *)
(* where it ends.                                                          *)
Start(p, d, t) == IF t = "FULL" /\ IsHalf(p) THEN NextStep(p, d, 1) ELSE p

(* Seeded fault: the rotation starts from the present step.                *)
MaskIndexHere(p, d, t) ==
  IF t = "HALF" THEN Start(p, d, t) ELSE Start(p, d, t) \div 2

MaskIndex(p, d, t) ==
  IF t = "HALF" THEN NextStep(Start(p, d, t), d, 1)
                ELSE NextStep(Start(p, d, t), d, 2) \div 2

Arrival(p, steps, d, t) ==
  NextStep(Start(p, d, t), d, IF t = "HALF" THEN steps ELSE 2 * steps)

(* What the k-th read from the address advance() returns finds.            *)
MaskAt(d, t, i) == IF t = "HALF" THEN HalfStepMask[d][i] ELSE FullStepMask[d][i]
=============================================================================

------------------------------ MODULE BStepper ------------------------------
(***************************************************************************)
(* The stepper motor driver (fw/core/src/BStepper/BStepper.cpp).           *)
(*                                                                         *)
(* A rotation runs by itself: each period of a timer moves one mask by DMA *)
(* from a table of the translator to the port that drives the phases, and  *)
(* the timer's repetition counter stops it.  Rotations longer than that    *)
(* counter can count are counted in whole rounds of it by the interrupt    *)
(* handler, which has until the end of the next round to prepare the one   *)
(* that follows.                                                           *)
(***************************************************************************)
EXTENDS Translator, TimeBase

CONSTANTS
  MaxReps,   (* max_hw_reps: rounds of the repetition counter, 256         *)
  MaxSteps,  (* the largest StepCountType, 65535                           *)
  Speed,     (* the speeds asked for, in thousandths of an rpm             *)
  Direction, (* the directions asked for, of "CCW" and "CW"                *)
  StepType   (* the step types asked for, of "FULL" and "HALF"             *)

ASSUME RepsAssumption == MaxReps \in Nat \ {0} /\ MaxSteps \in Nat \ {0}
ASSUME SpeedAssumption == Speed \subseteq Nat \ {0}
ASSUME RotationAssumption == Direction \subseteq {"CCW", "CW"} /\ StepType \subseteq {"FULL", "HALF"}

VARIABLES
  cen,    (* the counter is enabled: a rotation is in progress             *)
  rc,     (* the repetition counter                                        *)
  rcr,    (* the register it is reloaded from                              *)
  opm,    (* one-pulse mode: the next update event stops the counter       *)
  uif,    (* the update flag                                               *)
  uie,    (* the update interrupt is enabled                               *)
  sw,     (* _sw_reps                                                      *)
  hw,     (* _hw_reps                                                      *)
  place,  (* _state of the translator                                      *)
  way,    (* direction and                                                 *)
  type,   (* type of the table the DMA stream reads                        *)
  base,   (* its first index                                               *)
  k,      (* and how far in the sequence it is                             *)
  phase,  (* the mask the port was given last                              *)
  psc,    (* the prescaler                                                 *)
  arr,    (* and the reload value, which is the compare value too          *)
  todo,   (* history: steps asked for and not yet made                     *)
  asked   (* history: the ticks of a step at the speed asked for           *)

dmaVars  == <<way, type, base, k, phase>>
timeVars == <<psc, arr, asked>>
vars == <<cen, rc, rcr, opm, uif, uie, sw, hw, place, way, type, base, k, phase,
          psc, arr, todo, asked>>

(* After init(): the phases are driven to the home step.                   *)
Init ==
  /\ cen = FALSE /\ rc = 0 /\ rcr = 0 /\ opm = FALSE /\ uif = FALSE /\ uie = FALSE
  /\ sw = 0 /\ hw = 0
  /\ place = 0 /\ phase = 0
  /\ way \in Direction /\ type \in StepType /\ base = 0 /\ k = 0
  /\ psc = 0 /\ arr = 0
  /\ todo = 0 /\ asked = 0

(* Up to MaxReps steps are left to the repetition counter alone.           *)
CountInHardware(steps) ==
  /\ steps <= MaxReps
  /\ rcr' = steps - 1 /\ rc' = steps - 1
  /\ opm' = TRUE
  /\ UNCHANGED <<uif, uie, sw, hw>>

(* Seeded fault: a rest of no steps is put in the register.                *)
PreloadNothing(steps) ==
  /\ steps > MaxReps
  /\ sw' = steps \div MaxReps /\ hw' = steps % MaxReps
  /\ rc' = MaxReps - 1
  /\ rcr' = hw' - 1
  /\ opm' = FALSE /\ uif' = FALSE /\ uie' = TRUE

(* More begin with a whole round.  If it is the only one, the rest of the  *)
(* steps is put in the register at once.                                   *)
CountInSoftware(steps) ==
  /\ steps > MaxReps
  /\ sw' = steps \div MaxReps /\ hw' = steps % MaxReps
  /\ rc' = MaxReps - 1
  /\ rcr' = (IF sw' = 1 THEN hw' ELSE MaxReps) - 1
  /\ opm' = FALSE /\ uif' = FALSE /\ uie' = TRUE

(* The period of the timer is set to one step.                             *)
SetTimeBase(ticks) ==
  /\ Countable(ticks)
  /\ LET c == Chosen(ticks) IN psc' = Psc(c) /\ arr' = Arr(ticks, Psc(c))
  /\ asked' = ticks

(* rotate(), when it returns true.  An interrupt that is pending comes     *)
(* first.                                                                  *)
Rotate(steps, speed, d, t) ==
  /\ ~cen
  /\ ~(uif /\ uie)
  /\ SetTimeBase(TicksOf(speed, t))
  /\ CountInHardware(steps) \/ CountInSoftware(steps)
  /\ place' = Arrival(place, steps, d, t)
  /\ way' = d /\ type' = t /\ base' = MaskIndex(place, d, t) /\ k' = 0
  /\ cen' = TRUE
  /\ todo' = steps
  /\ UNCHANGED phase

(* One period of the timer: one mask is moved, and when the repetition     *)
(* counter has run out the update event reloads it and stops the counter   *)
(* in one-pulse mode.  The handler runs before the next update event.      *)
Period ==
  /\ cen
  /\ ~(uif /\ uie /\ rc = 0)
  /\ phase' = MaskAt(way, type, base + k)
  /\ k' = (k + 1) % SequenceLen(type)
  /\ IF rc = 0
       THEN rc' = rcr /\ uif' = TRUE /\ cen' = ~opm
       ELSE rc' = rc - 1 /\ UNCHANGED <<uif, cen>>
  /\ todo' = todo - 1
  /\ UNCHANGED <<rcr, opm, uie, sw, hw, place, way, type, base, timeVars>>

(* Seeded fault: the rest is put in the register one round late.           *)
HandlerLate ==
  /\ uif /\ uie
  /\ uif' = FALSE
  /\ sw' = (sw - 1) % (MaxSteps + 1)
  /\ IF sw - 1 = 0 /\ hw # 0
       THEN rcr' = hw - 1 /\ opm' = TRUE
       ELSE opm' = (opm \/ sw - 1 = 0) /\ UNCHANGED rcr
  /\ UNCHANGED <<cen, rc, uie, hw, place, dmaVars, timeVars, todo>>

(* Seeded fault: the update flag is not cleared.                           *)
HandlerUncleared ==
  /\ uif /\ uie
  /\ sw' = (sw - 1) % (MaxSteps + 1)
  /\ IF sw - 1 = 1 /\ hw # 0
       THEN rcr' = hw - 1 /\ UNCHANGED opm
       ELSE opm' = (opm \/ sw - 1 \in {0, 1}) /\ UNCHANGED rcr
  /\ UNCHANGED <<cen, rc, uif, uie, hw, place, dmaVars, timeVars, todo>>

(* handler(): the rest of the steps is put in the register one round ahead *)
(* of its own; the round after which nothing follows ends in a stop.       *)
Handler ==
  /\ uif /\ uie
  /\ uif' = FALSE
  /\ sw' = (sw - 1) % (MaxSteps + 1)
  /\ IF sw - 1 = 1 /\ hw # 0
       THEN rcr' = hw - 1 /\ UNCHANGED opm
       ELSE opm' = (opm \/ sw - 1 \in {0, 1}) /\ UNCHANGED rcr
  /\ UNCHANGED <<cen, rc, uie, hw, place, dmaVars, timeVars, todo>>

Next ==
  \/ \E steps \in 1 .. MaxSteps, speed \in Speed, d \in Direction, t \in StepType :
       Rotate(steps, speed, d, t)
  \/ Period
  \/ Handler

(* The timer runs on and the interrupt is served; nobody has to rotate.    *)
Fairness == WF_vars(Period) /\ WF_vars(Handler)

Spec == Init /\ [][Next]_vars /\ Fairness

-----------------------------------------------------------------------------
(* Types of the state; every index the DMA stream reads is in its table.   *)
TypeOK ==
  /\ cen \in BOOLEAN /\ opm \in BOOLEAN /\ uif \in BOOLEAN /\ uie \in BOOLEAN
  /\ rc \in 0 .. MaxReps - 1 /\ rcr \in 0 .. MaxReps - 1
  /\ sw \in 0 .. MaxSteps /\ hw \in 0 .. MaxReps - 1
  /\ place \in Place /\ phase \in Place
  /\ way \in Direction /\ type \in StepType
  /\ base \in 0 .. SequenceLen(type) - 1 /\ k \in 0 .. SequenceLen(type) - 1
  /\ psc \in Reg /\ arr \in Reg
  /\ todo \in 0 .. MaxSteps /\ asked \in Nat

(* rotate()'s comments on the software-counted repetitions: however the    *)
(* steps divide into rounds, whatever an earlier rotation left in the      *)
(* counters, and however late within its round the handler runs, the       *)
(* counter stops exactly when the steps asked for have been made.          *)
ExactSteps == cen <=> todo > 0

(* calcTimeBase's comments on the search: the registers make the period    *)
(* that is the closest to the one asked for, of all they can make that are *)
(* not longer, and no rotation runs at another speed than its own.         *)
InTime == cen => Closest(asked, psc, arr)

(* Every rotation ends.                                                    *)
RotationEnds == cen ~> ~cen

(* advance()'s comments, "Rotation starts from next step": the phases are  *)
(* driven as StepMotor says, one step at a time in the right direction.    *)
Motor == INSTANCE StepMotor
MotorSpec == Motor!Spec
=============================================================================

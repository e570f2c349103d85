----------------------------- MODULE StepMotor ------------------------------
(***************************************************************************)
(* What a rotation promises: the phases are driven through their cycle of  *)
(* eight half steps, one step at a time in the direction asked for, and    *)
(* exactly as many times as asked for.                                     *)
(***************************************************************************)
EXTENDS Integers

CONSTANTS MaxSteps, Direction, StepType

VARIABLES
  phase,    (* position in the cycle of the phases that are driven         *)
  todo,     (* steps left of the rotation                                  *)
  way,      (* its direction                                               *)
  type      (* its step type                                               *)

vars == <<phase, todo, way, type>>

Init ==
  /\ phase = 0
  /\ todo = 0
  /\ way \in Direction
  /\ type \in StepType

Toward(d, p, n) == (IF d = "CCW" THEN p + n ELSE p - n) % 8

(* From a half step, a rotation in full steps counts from the full step    *)
(* next to it.                                                             *)
Stride(p, t) == IF t = "HALF" THEN 1 ELSE IF p % 2 = 0 THEN 2 ELSE 3

Rotate(n, d, t) ==
  /\ todo = 0
  /\ todo' = n /\ way' = d /\ type' = t
  /\ UNCHANGED phase

Step ==
  /\ todo > 0
  /\ todo' = todo - 1
  /\ phase' = Toward(way, phase, Stride(phase, type))
  /\ UNCHANGED <<way, type>>

Next ==
  \/ \E n \in 1 .. MaxSteps, d \in Direction, t \in StepType : Rotate(n, d, t)
  \/ Step

Spec == Init /\ [][Next]_vars
=============================================================================

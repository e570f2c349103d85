----------------------------- MODULE MCBStepper -----------------------------
(* BStepper with a repetition counter of four rounds: up to nineteen steps *)
(* are at most four whole rounds, with and without a rest.                 *)
EXTENDS BStepper

MCBoth  == {"CCW", "CW"}
MCCcw   == {"CCW"}
MCTypes == {"FULL", "HALF"}
=============================================================================

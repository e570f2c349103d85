---------------------------- MODULE MCController ----------------------------
(* Controller with a pattern of two entries and a turn of ten steps: lines  *)
(* that make no step, one, and two the other way, at both ends of the       *)
(* range of speeds.                                                         *)
EXTENDS Controller

Typed(x10, minus) == [x10 |-> x10, minus |-> minus]

MCLine  == {Typed(179, FALSE), Typed(180, TRUE), Typed(719, FALSE)}
MCWiper == {0, 4095}
=============================================================================

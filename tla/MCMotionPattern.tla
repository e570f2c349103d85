-------------------------- MODULE MCMotionPattern ---------------------------
(* MotionPattern on a small sector: two bits to a cell, so that a cell can *)
(* be programmed twice with different values, and two segments that differ *)
(* in one cell without one's bits containing the other's.                  *)
EXTENDS PatternFaults

MCBit == {0, 1}
MCWrittenBits == {1}
(* The states multiply with the bits left behind in dirty chunks: the      *)
(* segments differ in one cell only, neither's bits containing the other's. *)
MCStepSegment ==
  { [milli_rev_per_minute |-> {1}, steps |-> bits, direction |-> {1}] : bits \in {{0}, {1}} }

MCAnywhere == Points \ {"off"}
MCNotErase == MCAnywhere \ {"erase"}
=============================================================================

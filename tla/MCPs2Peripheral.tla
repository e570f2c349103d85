-------------------------- MODULE MCPs2Peripheral ---------------------------
(* Frames of two data bits and a FIFO of two bytes; one byte tells the     *)
(* order of the bits, and the two differ in their parity.                  *)
EXTENDS Ps2Peripheral

MCPayload == {<<0, 0>>, <<0, 1>>}
=============================================================================

--------------------------- MODULE SSegPeripheral ---------------------------
(***************************************************************************)
(* The peripheral of the FPGA that drives the 7-segment displays: each     *)
(* character received without error is shown on the display pointed at,    *)
(* and the pointer moves on round the displays; the clear bit turns them   *)
(* all off and points at the first again.                                  *)
(***************************************************************************)
EXTENDS Naturals

CONSTANTS
  NDisp,   (* number of displays                                           *)
  Char,    (* segment patterns, without the clear bit                      *)
  Clear,   (* a character with the clear bit set                           *)
  Off      (* what a display shows when it is turned off                   *)

ASSUME NDispAssumption == NDisp \in Nat \ {0}
ASSUME CharAssumption == Clear \notin Char /\ Off \in Char

VARIABLES
  sseg,    (* what the displays show, from the first of the sequence on    *)
  hot      (* place of the one in the ring counter                         *)

panelVars == <<sseg, hot>>

Place == 1 .. NDisp

AllOff == [i \in Place |-> Off]

Reset == sseg = AllOff /\ hot = 1

(* The strobe with a character; a character received with a parity or      *)
(* frame error makes no strobe.                                            *)
Strobe(char) ==
  IF char = Clear
    THEN /\ sseg' = AllOff
         /\ hot' = 1
    ELSE /\ sseg' = [sseg EXCEPT ![hot] = char]
         /\ hot' = (hot % NDisp) + 1

PanelOK == sseg \in [Place -> Char] /\ hot \in Place
=============================================================================

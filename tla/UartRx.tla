------------------------------ MODULE UartRx -------------------------------
(***************************************************************************)
(* The UART receiver of the FPGA.  It leaves IDLE at any falling edge and  *)
(* samples the line once a bit time into a register preset to ones; the    *)
(* frame ends when a zero, the START bit, comes out at the far end.  Every *)
(* edge of the line starts the wait for the next sample anew, half a bit   *)
(* from it.                                                                *)
(*                                                                         *)
(* A step is a bit time.  Noise is a pulse shorter than half a bit, of     *)
(* which that wait makes one of two things: with the line idle, a falling  *)
(* edge and no sample of it; within a frame, when it lies across a         *)
(* sampling instant, a bit that is not sampled at all.                     *)
(***************************************************************************)
EXTENDS Integers, Sequences, SequencesExt

CONSTANTS
  NCHAR,   (* bits of a character                                          *)
  Code     (* characters -> their bits, the first to be sent first         *)

NoChar == "none"

ASSUME NCHARAssumption == NCHAR \in Nat \ {0}
ASSUME CodeAssumption ==
  /\ {Code[c] : c \in DOMAIN Code} = [1 .. NCHAR -> {0, 1}]
  /\ IsInjective(Code) /\ NoChar \notin DOMAIN Code

VARIABLE rx   (* the receiver *)

NSTOP == 1
FrameSize == 1 + NCHAR + 1 + NSTOP

Ones == [i \in 1 .. FrameSize |-> 1]

Receiver ==
  [sampling : BOOLEAN, shreg : [1 .. FrameSize -> {0, 1}], pbit : {0, 1}, level : {0, 1},
   out : DOMAIN Code \cup {NoChar}]

(* IDLE: register and parity are preset all the time.                      *)
Idling(level) == [sampling |-> FALSE, shreg |-> Ones, pbit |-> 0, level |-> level, out |-> NoChar]

Parity(bits) == Cardinality({i \in DOMAIN bits : bits[i] = 1}) % 2

(* What the transmitter sends: START, the bits, even parity and STOP.      *)
Frame(char) == <<0>> \o Code[char] \o <<Parity(Code[char])>> \o <<1>>

(* The register shifts towards position 1.                                 *)
Shifted(shreg, bit) == Append(Tail(shreg), bit)

(* Still shifting START to the place it has when PARITY comes in.          *)
ParityUpdate(shreg) == \A i \in 1 .. NSTOP + 1 : shreg[i] = 1

Accepted(shreg, pbit) ==
  IF pbit = 0 /\ \A i \in FrameSize - NSTOP + 1 .. FrameSize : shreg[i] = 1
    THEN CHOOSE c \in DOMAIN Code : Code[c] = SubSeq(shreg, 2, NCHAR + 1)
    ELSE NoChar

(* Seeded fault: the parity is not reset at the end of a frame.            *)
SampledStale(r, bit) ==
  LET shreg == Shifted(r.shreg, bit)
      pbit  == IF ParityUpdate(r.shreg) THEN (r.pbit + bit) % 2 ELSE r.pbit
  IN  IF shreg[1] = 1
        THEN [r EXCEPT !.shreg = shreg, !.pbit = pbit, !.level = bit]
        ELSE [Idling(bit) EXCEPT !.out = Accepted(shreg, pbit), !.pbit = pbit]

(* A sample in DT_SAMPLE, and EVAL.                                        *)
Sampled(r, bit) ==
  LET shreg == Shifted(r.shreg, bit)
      pbit  == IF ParityUpdate(r.shreg) THEN (r.pbit + bit) % 2 ELSE r.pbit
  IN  IF shreg[1] = 1
        THEN [r EXCEPT !.shreg = shreg, !.pbit = pbit, !.level = bit]
        ELSE [Idling(bit) EXCEPT !.out = Accepted(shreg, pbit)]

(* A bit time: what is sampled, if anything, is the bit on the line.       *)
BitTime(bit, noisy) ==
  [r \in Receiver |->
     LET begun == r.sampling \/ noisy \/ (r.level = 1 /\ bit = 0)
     IN  IF ~begun THEN [r EXCEPT !.level = bit]
         ELSE IF noisy THEN [r EXCEPT !.sampling = TRUE, !.level = bit]
         ELSE Sampled([r EXCEPT !.sampling = TRUE], bit)]

(* A whole frame, of which the bit at noise is hit, none if 0; out is what *)
(* has been received meanwhile.                                            *)
Received(char, noise) ==
  LET frame == Frame(char)
      after[n \in 0 .. FrameSize] ==
        IF n = 0 THEN [rx EXCEPT !.out = NoChar] ELSE BitTime(frame[n], n = noise)[after[n - 1]]
  IN  after[FrameSize]

(* A bit time of an idle line.                                             *)
Waited(noisy) == BitTime(1, noisy)[[rx EXCEPT !.out = NoChar]]

RxOK == rx \in Receiver
=============================================================================

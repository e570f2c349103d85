--------------------------- MODULE Ps2Controller ----------------------------
(***************************************************************************)
(* The PS/2 controller of the FPGA: state machine and data path            *)
(* (fpga/hdl/rtl/ps2_fsm.sv, ps2_dp.sv), one step per clock cycle.         *)
(*                                                                         *)
(* What the cycle sees of the line and of the timer comes from outside: an *)
(* edge of the device's clock, the bit on the data line, and the terminal  *)
(* count of the delay the state waits for.  The timer itself, prescaler    *)
(* and thresholds, is left out: its delays end at some time.  Only the     *)
(* order of the delays matters here, and Input keeps it.                   *)
(***************************************************************************)
EXTENDS Naturals, Sequences, SequencesExt

CONSTANTS
  W,        (* PayloadSize: data bits in a frame                           *)
  Payload   (* the bytes that are exchanged                                *)

Bit  == {0, 1}
Byte == [1 .. W -> Bit]
Zero == [i \in 1 .. W |-> 0]

ASSUME PayloadAssumption == W \in Nat \ {0} /\ Payload \subseteq Byte

VARIABLES
  en,           (* input: the controller is enabled                        *)
  tx_rqst,      (* input: a transmission is requested                      *)
  tx_data,      (* input: what to transmit                                 *)
  state,        (* the state machine                                       *)
  bitcnt,       (* bits of the frame so far                                *)
  shreg,        (* shift register, least significant bit first             *)
  pbit,         (* parity so far                                           *)
  rx_data,      (* the last byte received                                  *)
  ps2_dat_od,   (* what the controller puts on the data line               *)
  line          (* history: the frame as the line has carried it           *)

inputVars == <<en, tx_rqst, tx_data>>
ctrlVars  == <<state, bitcnt, shreg, pbit, rx_data, ps2_dat_od, line>>

RxState  == {"RX_IDLE", "DT_SAMPLE", "RX_WAIT", "RX_DONE"}
TxState  == {"GEN_RQST", "TX_IDLE", "GEN_DBIT", "GEN_PARITY", "GEN_STOP",
             "DT_SAMPLE_ACK", "TX_DONE"}
ErrState == {"FERR", "PERR", "CLK_TO", "RQST_TO"}
State    == {"INHIBIT"} \cup RxState \cup TxState \cup ErrState

ControllerInit ==
  /\ state = "INHIBIT"
  /\ bitcnt = 0
  /\ shreg = Zero
  /\ pbit = 0
  /\ rx_data = Zero
  /\ ps2_dat_od = 1
  /\ line = <<>>

(* Status of the data path.                                                *)
dbits       == bitcnt \notin {0, W + 1, W + 2}
rx_ferr(dat) == (bitcnt = 0 /\ dat = 1) \/ (bitcnt = W + 2 /\ dat = 0)
perr(dat)    == bitcnt = W + 1 /\ dat # pbit

(* What a cycle can see.  The device's clock is slower than the delay to   *)
(* the sampling point, so that its edges come in the states that wait for  *)
(* one; the data line is looked at when a sampling delay ends; the request *)
(* is on the line when its delay ends.                                     *)
Listening == {"RX_IDLE", "RX_WAIT", "TX_IDLE"}
Sampling  == {"DT_SAMPLE", "DT_SAMPLE_ACK"}
Timed     == Sampling \cup {"RX_WAIT", "GEN_RQST", "TX_IDLE"}

Input ==
  { i \in [negedge : BOOLEAN, tc : BOOLEAN, dat : Bit] :
      /\ i.negedge => state \in Listening
      /\ i.tc => state \in Timed /\ (state = "GEN_RQST" => ps2_dat_od = 0)
      /\ i.dat = 0 => state \in Sampling /\ i.tc
      /\ state = "DT_SAMPLE" /\ i.tc /\ dbits =>
           \E b \in Payload : IsPrefix(Append(Tail(line), i.dat), b) }

-----------------------------------------------------------------------------
(* Outputs.                                                                *)
valid == state \in {"RX_DONE", "TX_DONE"} \cup ErrState
error == state \in ErrState

(* The request is taken: the data is loaded.                               *)
Requested == en /\ tx_rqst /\ state \in {"INHIBIT"} \cup RxState

(* A bit of a received frame is taken.                                     *)
Taken(i) ==
  /\ state = "DT_SAMPLE" /\ en /\ ~tx_rqst
  /\ i.tc /\ ~rx_ferr(i.dat) /\ ~perr(i.dat)

-----------------------------------------------------------------------------
(* Next state logic.                                                       *)
GoTo(s) == state' = s

Inhibited ==
  /\ state = "INHIBIT"
  /\ GoTo(IF ~en THEN "INHIBIT" ELSE IF tx_rqst THEN "GEN_RQST" ELSE "RX_IDLE")

(* The break patterns of reception and transmission.                       *)
RxBreak ==
  /\ state \in RxState
  /\ ~en \/ tx_rqst
  /\ GoTo(IF ~en THEN "INHIBIT" ELSE "GEN_RQST")

TxBreak ==
  /\ state \in TxState
  /\ ~en
  /\ GoTo("INHIBIT")

RxIdle(i) ==
  /\ state = "RX_IDLE" /\ en /\ ~tx_rqst
  /\ GoTo(IF i.negedge THEN "DT_SAMPLE" ELSE "RX_IDLE")

DtSample(i) ==
  /\ state = "DT_SAMPLE" /\ en /\ ~tx_rqst
  /\ GoTo(CASE ~i.tc -> "DT_SAMPLE"
            [] i.tc /\ rx_ferr(i.dat) -> "FERR"
            [] i.tc /\ ~rx_ferr(i.dat) /\ perr(i.dat) -> "PERR"
            [] Taken(i) -> IF bitcnt = W + 2 THEN "RX_DONE" ELSE "RX_WAIT")

(* Seeded fault: no watchdog while the device is to send.                  *)
RxWaitForEver(i) ==
  /\ state = "RX_WAIT" /\ en /\ ~tx_rqst
  /\ GoTo(IF i.negedge THEN "DT_SAMPLE" ELSE "RX_WAIT")

RxWait(i) ==
  /\ state = "RX_WAIT" /\ en /\ ~tx_rqst
  /\ GoTo(IF i.negedge THEN "DT_SAMPLE" ELSE IF i.tc THEN "CLK_TO" ELSE "RX_WAIT")

RxDone ==
  /\ state = "RX_DONE" /\ en /\ ~tx_rqst
  /\ GoTo("RX_IDLE")

GenRqst(i) ==
  /\ state = "GEN_RQST" /\ en
  /\ GoTo(IF i.tc THEN "TX_IDLE" ELSE "GEN_RQST")

TxIdle(i) ==
  /\ state = "TX_IDLE" /\ en
  /\ GoTo(CASE i.negedge -> CASE bitcnt = W + 3 -> "DT_SAMPLE_ACK"
                              [] bitcnt = W + 2 -> "GEN_STOP"
                              [] bitcnt = W + 1 -> "GEN_PARITY"
                              [] OTHER -> "GEN_DBIT"
            [] ~i.negedge /\ i.tc -> IF bitcnt = 1 THEN "RQST_TO" ELSE "CLK_TO"
            [] OTHER -> "TX_IDLE")

GenBit ==
  /\ state \in {"GEN_DBIT", "GEN_PARITY", "GEN_STOP"} /\ en
  /\ GoTo("TX_IDLE")

DtSampleAck(i) ==
  /\ state = "DT_SAMPLE_ACK" /\ en
  /\ GoTo(IF ~i.tc THEN "DT_SAMPLE_ACK" ELSE IF i.dat = 1 THEN "FERR" ELSE "TX_DONE")

TxDone ==
  /\ state = "TX_DONE" /\ en
  /\ GoTo(IF tx_rqst THEN "TX_DONE" ELSE "INHIBIT")

Failed ==
  /\ error
  /\ GoTo(IF en THEN state ELSE "INHIBIT")

NextState(i) ==
  \/ Inhibited \/ RxBreak \/ TxBreak \/ Failed
  \/ RxIdle(i) \/ DtSample(i) \/ RxWait(i) \/ RxDone
  \/ GenRqst(i) \/ TxIdle(i) \/ GenBit \/ DtSampleAck(i) \/ TxDone

-----------------------------------------------------------------------------
(* Data path.                                                              *)
Shift(bit) == Append(Tail(shreg), bit)
Xor(a, b)  == (a + b) % 2

BitCounter(i) ==
  bitcnt' = CASE state = "RX_IDLE" -> 0
              [] state = "GEN_RQST" -> IF en /\ i.tc THEN bitcnt + 1 ELSE 0
              [] Taken(i) \/ state \in {"GEN_DBIT", "GEN_PARITY", "GEN_STOP"} -> bitcnt + 1
              [] OTHER -> bitcnt

ShiftRegister(i) ==
  shreg' = CASE Requested -> tx_data
             [] Taken(i) /\ dbits -> Shift(i.dat)
             [] state = "GEN_DBIT" -> Shift(ps2_dat_od)
             [] OTHER -> shreg

(* Seeded fault: the parity of a received frame starts where the last one  *)
(* left it.                                                                *)
ParityKept(i) ==
  pbit' = CASE state = "GEN_RQST" -> 1
            [] Taken(i) /\ dbits -> Xor(pbit, i.dat)
            [] state = "GEN_DBIT" -> Xor(pbit, Head(shreg))
            [] OTHER -> pbit

Parity(i) ==
  pbit' = CASE state \in {"RX_IDLE", "GEN_RQST"} -> 1
            [] Taken(i) /\ dbits -> Xor(pbit, i.dat)
            [] state = "GEN_DBIT" -> Xor(pbit, Head(shreg))
            [] OTHER -> pbit

DataIn(i) == rx_data' = IF Taken(i) /\ bitcnt = W + 2 THEN shreg ELSE rx_data

(* Seeded fault: the line is released between two edges.                   *)
DataReleased ==
  ps2_dat_od' = CASE state = "GEN_RQST" -> 0
                  [] state = "GEN_DBIT" -> Head(shreg)
                  [] state = "GEN_PARITY" -> pbit
                  [] OTHER -> 1

DataOut ==
  ps2_dat_od' = CASE state = "TX_IDLE" -> ps2_dat_od
                  [] state = "GEN_RQST" -> 0
                  [] state = "GEN_DBIT" -> Head(shreg)
                  [] state = "GEN_PARITY" -> pbit
                  [] OTHER -> 1

DataPath(i) == BitCounter(i) /\ ShiftRegister(i) /\ Parity(i) /\ DataIn(i) /\ DataOut

(* The bits of the frame under way: sampled ones of a received frame; of a *)
(* transmitted one what the device finds on the line between two edges.    *)
Heard(i) ==
  line' = CASE state \in {"INHIBIT", "RX_IDLE", "GEN_RQST"} \cup ErrState -> <<>>
            [] state = "DT_SAMPLE" /\ i.tc -> Append(line, i.dat)
            [] state = "TX_IDLE" /\ i.negedge -> Append(line, ps2_dat_od)
            [] OTHER -> line

ControllerStep(i) == NextState(i) /\ DataPath(i) /\ Heard(i)

-----------------------------------------------------------------------------
ControllerTypeOK ==
  /\ en \in BOOLEAN /\ tx_rqst \in BOOLEAN /\ tx_data \in Byte
  /\ state \in State
  /\ bitcnt \in 0 .. W + 3
  /\ shreg \in Byte /\ rx_data \in Byte
  /\ pbit \in Bit /\ ps2_dat_od \in Bit
  /\ line \in Seq(Bit) /\ Len(line) <= W + 3

(* A frame of the PS/2 bus: start bit, data, odd parity, stop bit.         *)
Ones(bits)   == Cardinality({k \in DOMAIN bits : bits[k] = 1})
IsFrame(f, b) ==
  /\ Len(f) = W + 3
  /\ f[1] = 0
  /\ SubSeq(f, 2, W + 1) = b
  /\ Ones(SubSeq(f, 2, W + 2)) % 2 = 1
  /\ f[W + 3] = 1
=============================================================================

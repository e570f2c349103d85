--------------------------- MODULE Ps2Peripheral ----------------------------
(***************************************************************************)
(* The keyboard port of the FPGA: PS/2 controller and receive FIFO behind  *)
(* an SPI slave (fpga/hdl/rtl/ps2_peripheral_spi_wrapper.sv,               *)
(* spi_slave.sv), one step per clock cycle.                                *)
(*                                                                         *)
(* Of the SPI slave there is left what its two clock domains exchange: the *)
(* packet sampled until the slave is selected, the strobes, and the packet *)
(* received.  The bits of a transfer take many cycles.                     *)
(***************************************************************************)
EXTENDS Ps2Controller, ScFifo

ASSUME WidthAssumption == Data = Byte

VARIABLES
  en_next,  (* the enable the controller gets after its pulse to low       *)
  spi,      (* the synchronised chip select: where a transfer is           *)
  oe,       (* the overrun flag                                            *)
  tx_q,     (* the packet that goes out: RXV, TXC and DATA                 *)
  mosi,     (* control bits of the last packet received                    *)
  sent      (* history: the byte last written for transmission             *)

vars == <<en, tx_rqst, tx_data, state, bitcnt, shreg, pbit, rx_data, ps2_dat_od, line,
          wptr, rptr, ram, q, empty, full, en_next, spi, oe, tx_q, mosi, sent>>

(* idle: not selected; strobe: tx_strobe, the first cycle selected; load:  *)
(* load_strobe, the first cycle deselected; rx: rx_strobe; gap: the master *)
(* leaves two cycles between a write and the next transfer (the test bench *)
(* waits for them, the driver's software is slower than that).             *)
SpiPhase == {"idle", "strobe", "selected", "load", "rx", "gap"}

Control == [wen : BOOLEAN, cen : BOOLEAN, bclr : BOOLEAN, txen : BOOLEAN]
Bits(set) == [wen |-> "wen" \in set, cen |-> "cen" \in set,
              bclr |-> "bclr" \in set, txen |-> "txen" \in set]

(* The packets the master sends: a read, the three writes of the keyboard  *)
(* driver, and the one that turns the controller off.                      *)
Packet ==
  { <<Bits({}), Zero>>,
    <<Bits({"wen", "cen", "bclr"}), Zero>>,
    <<Bits({"wen", "cen"}), Zero>>,
    <<Bits({"wen"}), Zero>> }
  \cup { <<Bits({"wen", "cen", "txen"}), b>> : b \in Payload }

Init ==
  /\ en = FALSE /\ tx_rqst = FALSE /\ tx_data = Zero
  /\ ControllerInit
  /\ FifoInit /\ ram = [a \in Addr |-> Zero] /\ q = Zero
  /\ en_next = FALSE
  /\ spi = "idle"
  /\ oe = FALSE
  /\ tx_q = [rxv |-> FALSE, txc |-> FALSE, data |-> Zero]
  /\ mosi = Bits({})
  /\ sent = Zero

-----------------------------------------------------------------------------
wr_strobe == spi = "rx" /\ mosi.wen

(* Seeded fault: a write does not take the enable signal low.              *)
EnableHeld ==
  /\ en_next' = IF wr_strobe THEN mosi.cen ELSE en_next
  /\ en' = en_next
  /\ tx_rqst' = IF wr_strobe THEN mosi.txen ELSE tx_rqst
  /\ sent' = IF wr_strobe /\ mosi.txen THEN tx_data ELSE sent

(* The enable signal is low for a cycle after every write.                 *)
Enable ==
  /\ en_next' = IF wr_strobe THEN mosi.cen ELSE en_next
  /\ en' = (~wr_strobe /\ en_next)
  /\ tx_rqst' = IF wr_strobe THEN mosi.txen ELSE tx_rqst
  /\ sent' = IF wr_strobe /\ mosi.txen THEN tx_data ELSE sent

(* FIFO cleared explicitly or for every transmission; not-full FIFO        *)
(* written when the controller has received; not-empty FIFO popped when a  *)
(* transfer begins.                                                        *)
sclr    == tx_rqst \/ (wr_strobe /\ mosi.bclr)
fifo_wr == ~tx_rqst /\ valid /\ ~error
we      == fifo_wr /\ ~full

(* Seeded fault: the FIFO is popped when the transfer has ended.           *)
ackLate == spi = "rx" /\ ~empty

ack == spi = "strobe" /\ ~empty

(* Overrun: cleared as soon as there is room again.                        *)
Overrun == oe' = (full /\ (fifo_wr \/ oe))

(* The outgoing packet follows the peripheral until the slave is selected. *)
txc  == tx_rqst /\ valid
miso == [rxv |-> ~empty, txc |-> txc, data |-> q]

Sample == tx_q' = IF spi \notin {"strobe", "selected"} THEN miso ELSE tx_q

Transfer ==
  \/ spi = "idle" /\ spi' \in {"idle", "strobe"} /\ UNCHANGED <<mosi, tx_data>>
  \/ spi = "strobe" /\ spi' = "selected" /\ UNCHANGED <<mosi, tx_data>>
  \/ spi = "selected" /\ spi' \in {"selected", "load"} /\ UNCHANGED <<mosi, tx_data>>
  \/ /\ spi = "load"
     /\ spi' = "rx"
     /\ \E p \in Packet : mosi' = p[1] /\ tx_data' = p[2]
  \/ spi = "rx" /\ spi' = "gap" /\ UNCHANGED <<mosi, tx_data>>
  \/ spi = "gap" /\ spi' = "idle" /\ UNCHANGED <<mosi, tx_data>>

Cycle(i) ==
  /\ ControllerStep(i)
  /\ FifoStep(sclr, rx_data, we, ack)
  /\ Enable
  /\ Overrun
  /\ Sample
  /\ Transfer

Next == \E i \in Input : Cycle(i)

(* The clock runs, and the delays of the timer end.                        *)
Tick == \E i \in Input : i.tc /\ Cycle(i)

Spec == Init /\ [][Next]_vars /\ WF_vars(Next) /\ WF_vars(Tick)

-----------------------------------------------------------------------------
(* Types of the state.                                                     *)
TypeOK ==
  /\ ControllerTypeOK
  /\ FifoTypeOK
  /\ en_next \in BOOLEAN
  /\ spi \in SpiPhase
  /\ oe \in BOOLEAN
  /\ tx_q \in [rxv : BOOLEAN, txc : BOOLEAN, data : Byte]
  /\ mosi \in Control
  /\ sent \in Byte

(* The FIFO, written and read through the wrapper's own strobes, is a      *)
(* bounded queue with its head on display, at every fill level and with    *)
(* write, read and flush in any combination of cycles.                     *)
FifoSpec == Queue!Spec

(* What the controller presents as received is the data of a whole frame   *)
(* with its start bit, parity and stop bit right: whatever the device      *)
(* sends, and wherever in a frame the controller was enabled.  And what    *)
(* the device acknowledges is a whole frame with the byte the master has   *)
(* asked for, whatever else the master has sent in the meantime.           *)
WholeFrames ==
  /\ state = "RX_DONE" => IsFrame(line, rx_data)
  /\ en /\ state \in {"DT_SAMPLE_ACK", "TX_DONE"} => IsFrame(line, sent)

(* spi_slave.sv: "the tx_data is latched internally at the value sampled   *)
(* in the previous cycle".  What a packet tells is so when it goes out:    *)
(* the byte in it, if it is valid, is the one the FIFO is popped of, so    *)
(* that none is delivered twice; one that goes unseen is the only one      *)
(* there is, for it has come in that very cycle; and TXC, "the             *)
(* transmission has completed (with or without errors)", is of the         *)
(* transmission asked for last, not of the frame or error before it.       *)
PacketTells ==
  spi = "strobe" =>
    /\ tx_q.rxv => ack /\ q = tx_q.data
    /\ ack /\ ~tx_q.rxv => Len(Contents) = 1
    /\ tx_q.txc => error \/ (state = "TX_DONE" /\ IsFrame(line, sent))

(* Watchdogs: a device that falls silent in the middle of a frame, or      *)
(* never takes up a request, does not keep the controller there.           *)
InFrame == {"DT_SAMPLE", "RX_WAIT"} \cup (TxState \ {"TX_DONE"})

FrameEnds == state \in InFrame ~> state \notin InFrame

(* "Not-full FIFO written when the PS/2 controller has successfully        *)
(* received data."                                                         *)
StoresOnlyReceived == we => state = "RX_DONE"
=============================================================================

------------------------------ MODULE Ps2Port -------------------------------
(***************************************************************************)
(* The keyboard port of the FPGA as its master sees it, one step per SPI   *)
(* transfer (ps2_peripheral_spi_wrapper.sv; Ps2Peripheral has the clock    *)
(* cycles of the same device).                                             *)
(***************************************************************************)
EXTENDS Naturals, Sequences, SequencesExt

CONSTANT Depth  (* places in the receive FIFO                              *)

ASSUME DepthAssumption == Depth \in Nat \ {0}

VARIABLES
  mode,   (* off; rx: receiving; tx: sending; done: has sent; err, txerr   *)
  fifo,   (* received, not transferred yet                                 *)
  last,   (* the controller's register for received bytes                  *)
  txd,    (* the byte to send                                              *)
  stale,  (* history: the head of fifo has been there before               *)
  loss    (* history: bytes of the keyboard have got lost: never, before   *)
          (* its last self test only, or since                             *)

portVars == <<mode, fifo, last, txd, stale, loss>>

PortMode == {"off", "rx", "tx", "done", "err", "txerr"}
Loss     == {"none", "before", "since"}

ACK_CODE  == \hFA
RESEND    == \hFE
BAT_CODE  == \hAA
Answer    == {ACK_CODE, RESEND}

PortInit ==
  /\ mode = "off"
  /\ fifo = <<>>
  /\ last = 0 /\ txd = 0
  /\ stale = FALSE
  /\ loss = "none"

(* The flags of a transfer; with rxv, its data is the head of the FIFO.    *)
rxv == fifo # <<>>
en  == mode \in {"rx", "tx"}
txc == mode \in {"done", "txerr"}
error == mode \in {"err", "txerr"}

(* The FIFO is popped when the transfer begins ...                         *)
Popped == IF rxv THEN Tail(fifo) ELSE <<>>

(* ... and a write takes effect when it ends.  MOSI_SEND empties the FIFO  *)
(* as long as the transmitter mode lasts.  A write that ends this mode     *)
(* after a transmission stores the byte received before it once more.      *)
Repeated == IF mode = "done" THEN <<last>> ELSE <<>>

(* The bytes that nobody looks at: all that a write clears, and the one    *)
(* transferred when the master does not take it for a scan code.           *)
Dropped(write, taken) ==
  (IF rxv /\ ~taken /\ ~stale THEN {Head(fifo)} ELSE {})
  \cup (IF write \in {"RST", "SEND"} THEN ToSet(Popped) ELSE {})

Transfer(write, data, taken) ==
  /\ mode' = CASE write = "none" -> mode
               [] write \in {"RST", "LISTEN"} -> "rx"
               [] write = "SEND" -> "tx"
  /\ fifo' = CASE write = "none" -> Popped
               [] write = "RST" -> Repeated
               [] write = "LISTEN" -> Popped \o Repeated
               [] write = "SEND" -> <<>>
  /\ txd' = IF write = "SEND" THEN data ELSE txd
  /\ stale' = (write \in {"RST", "LISTEN"} /\ mode = "done")
  /\ loss' = IF Dropped(write, taken) \subseteq Answer THEN loss ELSE "since"
  /\ UNCHANGED last

-----------------------------------------------------------------------------
(* The side of the device.                                                 *)

(* A byte is received: with a full FIFO it is lost.                        *)
Receive(byte) ==
  /\ mode = "rx"
  /\ last' = byte
  /\ fifo' = IF Len(fifo) < Depth THEN Append(fifo, byte) ELSE fifo
  /\ loss' = CASE Len(fifo) = Depth /\ byte \notin Answer -> "since"
               [] Len(fifo) < Depth /\ byte = BAT_CODE /\ loss # "none" -> "before"
               [] OTHER -> loss
  /\ UNCHANGED <<mode, txd, stale>>

(* A byte that arrives just as a transfer begins whose packet says that    *)
(* the FIFO is empty is popped by it all the same, and nobody gets it.     *)
ReceiveUnseen(byte) ==
  /\ mode = "rx" /\ fifo = <<>>
  /\ last' = byte
  /\ loss' = "since"
  /\ UNCHANGED <<mode, fifo, txd, stale>>

(* A byte is not: framing, parity, a clock that stops, or noise.           *)
ReceiveError ==
  /\ mode = "rx"
  /\ mode' = "err"
  /\ UNCHANGED <<fifo, last, txd, stale>>

(* The transmission ends.                                                  *)
Transmit(ok) ==
  /\ mode = "tx"
  /\ mode' = IF ok THEN "done" ELSE "txerr"
  /\ UNCHANGED <<fifo, last, txd, stale>>

PortTypeOK ==
  /\ mode \in PortMode
  /\ fifo \in Seq(0 .. 255) /\ Len(fifo) <= Depth
  /\ last \in 0 .. 255 /\ txd \in 0 .. 255
  /\ stale \in BOOLEAN
  /\ loss \in Loss
=============================================================================

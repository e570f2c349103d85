------------------------------- MODULE ScFifo -------------------------------
(***************************************************************************)
(* The single-clock show-ahead FIFO of the FPGA                            *)
(* (fpga/hdl/rtl/sa_sc_fifo.sv), one step per clock cycle.  The pointers   *)
(* have one bit more than the addresses; the read port of the RAM and both *)
(* flags are registers, which is what the latencies come from.             *)
(***************************************************************************)
EXTENDS Naturals, Sequences

CONSTANTS
  Data,     (* DATA_WIDTH bits                                             *)
  Depth     (* 2^ADDR_WIDTH                                                *)

ASSUME DepthAssumption == Depth \in Nat \ {0}

VARIABLES
  wptr,     (* next location to write, with the wrap bit                   *)
  rptr,     (* location on display, with the wrap bit                      *)
  ram,
  q,        (* the RAM's registered output                                 *)
  empty,
  full

fifoVars == <<wptr, rptr, ram, q, empty, full>>

Addr    == 0 .. Depth - 1
Pointer == 0 .. 2 * Depth - 1

FifoInit ==
  /\ wptr = 0
  /\ rptr = 0
  /\ ram \in [Addr -> Data]
  /\ q \in Data
  /\ empty = TRUE
  /\ full = FALSE

(* Seeded fault: a pointer that does not wrap.                             *)
AdvanceOn(ptr, by) == ptr + (IF by THEN 1 ELSE 0)

Advance(ptr, by) == (ptr + (IF by THEN 1 ELSE 0)) % (2 * Depth)

(* The same location with the opposite wrap bit.                           *)
Opposite(ptr) == (ptr + Depth) % (2 * Depth)

(* Seeded fault: a byte is shown in the cycle it enters the RAM.           *)
FifoStepEarly(sclr, d, we, ack) ==
  LET wptr_next == Advance(wptr, we)
      rptr_next == Advance(rptr, ack)
  IN  /\ wptr' = IF sclr THEN 0 ELSE wptr_next
      /\ rptr' = IF sclr THEN 0 ELSE rptr_next
      /\ empty' = (sclr \/ wptr_next = rptr_next)
      /\ full' = (~sclr /\ Opposite(wptr_next) = rptr_next)
      /\ ram' = IF we THEN [ram EXCEPT ![wptr % Depth] = d] ELSE ram
      /\ q' = ram[rptr_next % Depth]

(* One clock edge, with the data d, write enable and acknowledge of the    *)
(* cycle before it.  A location read while it is written shows what it     *)
(* had before.                                                             *)
FifoStep(sclr, d, we, ack) ==
  LET wptr_next == Advance(wptr, we)
      rptr_next == Advance(rptr, ack)
  IN  /\ wptr' = IF sclr THEN 0 ELSE wptr_next
      /\ rptr' = IF sclr THEN 0 ELSE rptr_next
      /\ empty' = (sclr \/ wptr = rptr_next)
      /\ full' = (~sclr /\ Opposite(wptr_next) = rptr_next)
      /\ ram' = IF we THEN [ram EXCEPT ![wptr % Depth] = d] ELSE ram
      /\ q' = ram[rptr_next % Depth]

-----------------------------------------------------------------------------
FifoTypeOK ==
  /\ wptr \in Pointer
  /\ rptr \in Pointer
  /\ ram \in [Addr -> Data]
  /\ q \in Data
  /\ empty \in BOOLEAN
  /\ full \in BOOLEAN

(* The bytes between the pointers, oldest first.                           *)
Contents ==
  [i \in 1 .. (wptr + 2 * Depth - rptr) % (2 * Depth) |-> ram[(rptr + i - 1) % Depth]]

Queue == INSTANCE ByteQueue WITH items <- Contents, Byte <- Data
=============================================================================

----------------------------- MODULE SpiMaster ------------------------------
(***************************************************************************)
(* The master of the SPI bus (fw/core/inc/SpiMaster).  Its clients, the    *)
(* drivers of the chips on the bus, register with the settings they need   *)
(* and get an id; the settings are written to the peripheral only when a   *)
(* transfer is for another slave than the one before it.  Calls come from  *)
(* main alone and block, so each of them is one step.                      *)
(*                                                                         *)
(* A pin stands for GPIO port and pin.  What the shift by frame width less *)
(* frame size does to a word depends on one thing only, whether the        *)
(* peripheral's width is the one the shift was made for.                   *)
(***************************************************************************)
EXTENDS Integers

CONSTANTS
  NMAX_SLAVES,  (* size of the slave table                                 *)
  Pin,          (* pins that select slaves                                 *)
  Unwired,      (* no pin: the null pointer that marks a free place        *)
  Digits,       (* bits of FrameT, the widest frame                        *)
  HalfClock     (* APB clock after the fixed division by two               *)

ASSUME SpiAssumption ==
  /\ NMAX_SLAVES \in Nat /\ Unwired \notin Pin
  /\ Digits \in Nat /\ HalfClock \in Nat

VARIABLES
  slaves,      (* _slaves                                                  *)
  active_cfg,  (* _active_cfg; NMAX_SLAVES for none                        *)
  spi,         (* settings of the peripheral, and the pull of the clock    *)
  asked,       (* history: per id, what its client has asked for           *)
  xfer         (* history: the transfer of the last step, if it was one    *)

spiVars == <<slaves, active_cfg, spi, asked, xfer>>

Sid == 0 .. NMAX_SLAVES - 1
Prescaler == 0 .. 7

(* A client's request; max is the highest clock frequency it can take.     *)
Request == [ssn : Pin, nbits : Nat, cpol : BOOLEAN, cpha : BOOLEAN, max : Nat]
Slave   == [ssn : Pin \cup {Unwired}, nbits : Nat, cpol : BOOLEAN, cpha : BOOLEAN,
            br_psc : Prescaler]

FreeSlave == [ssn |-> Unwired, nbits |-> 0, cpol |-> FALSE, cpha |-> FALSE, br_psc |-> 0]
NoRequest == [ssn |-> Unwired]
NoXfer    == [sid |-> NMAX_SLAVES]

(* Constructor and init(): the clock idles low for now.                    *)
SpiInit ==
  /\ slaves = [s \in Sid |-> FreeSlave]
  /\ active_cfg = NMAX_SLAVES
  /\ spi = [pull_up |-> FALSE, wide |-> FALSE, cpol |-> FALSE, cpha |-> FALSE, br |-> 0]
  /\ asked = [s \in Sid |-> NoRequest]
  /\ xfer = NoXfer

-----------------------------------------------------------------------------
IsValid(sid) == sid \in Sid /\ slaves[sid].ssn # Unwired

(* Seeded fault: the settings of a slave that is gone still count.         *)
ActiveKept(sid) == active_cfg

ActiveWithout(sid) == IF sid = active_cfg THEN NMAX_SLAVES ELSE active_cfg

(* The clock divided by a prescaler.                                       *)
Divided(psc) == HalfClock \div (2 ^ psc)

Feasible(max) == {psc \in Prescaler : Divided(psc) <= max}

(* A frame too wide, a clock the prescaler cannot make slow enough, or no  *)
(* free place.                                                             *)
Refuses(r) ==
  \/ r.nbits > Digits
  \/ Feasible(r.max) = {}
  \/ \A s \in Sid : IsValid(s)

(* addSlave(): the first free place, with the fastest feasible clock.      *)
AddSlave(r, sid) ==
  /\ ~Refuses(r)
  /\ sid \in Sid /\ ~IsValid(sid) /\ \A s \in Sid : s < sid => IsValid(s)
  /\ \E psc \in Feasible(r.max) :
       /\ \A other \in Feasible(r.max) : psc <= other
       /\ slaves' = [slaves EXCEPT ![sid] =
            [ssn |-> r.ssn, nbits |-> r.nbits, cpol |-> r.cpol, cpha |-> r.cpha,
             br_psc |-> psc]]
  /\ asked' = [asked EXCEPT ![sid] = r]
  /\ xfer' = NoXfer
  /\ UNCHANGED <<active_cfg, spi>>

(* removeSlave(): the id may go to another, so it is not the active one.   *)
RemoveSlave(sid) ==
  /\ IsValid(sid)
  /\ slaves' = [slaves EXCEPT ![sid].ssn = Unwired]
  /\ active_cfg' = ActiveWithout(sid)
  /\ asked' = [asked EXCEPT ![sid] = NoRequest]
  /\ xfer' = NoXfer
  /\ UNCHANGED spi

Wide(nbits) == nbits > 8

(* _applyCfg() *)
Settings(s) ==
  [pull_up |-> s.cpol, wide |-> Wide(s.nbits), cpol |-> s.cpol, cpha |-> s.cpha, br |-> s.br_psc]

(* txrx(): the settings are written if the slave has changed; its pin is   *)
(* low while word goes out and the reply comes in.                         *)
Txrx(sid, word) ==
  /\ IsValid(sid)
  /\ spi' = IF active_cfg # sid THEN Settings(slaves[sid]) ELSE spi
  /\ active_cfg' = sid
  /\ xfer' = [sid |-> sid, pin |-> slaves[sid].ssn, bus |-> spi', word |-> word,
              shifted_wide |-> Wide(slaves[sid].nbits)]
  /\ UNCHANGED <<slaves, asked>>

(* A step that does not use the bus.                                       *)
BusIdle == xfer' = NoXfer /\ UNCHANGED <<slaves, active_cfg, spi, asked>>

-----------------------------------------------------------------------------
SpiTypeOK ==
  /\ slaves \in [Sid -> Slave]
  /\ active_cfg \in 0 .. NMAX_SLAVES
  /\ spi \in [pull_up : BOOLEAN, wide : BOOLEAN, cpol : BOOLEAN, cpha : BOOLEAN, br : Prescaler]
  /\ asked \in [Sid -> Request \cup {NoRequest}]

(* The comment of txrx(), "Configure SPI only if the slave has changed":   *)
(* every transfer is made with what the client of its id has asked for,    *)
(* though ids are given again and settings written only on a change: the   *)
(* chip selected, frame width, clock polarity (and the pull that holds it  *)
(* between transfers) and phase, and a clock it can take, the fastest one. *)
Tuned ==
  xfer # NoXfer =>
    LET r == asked[xfer.sid] IN
      /\ xfer.pin = r.ssn
      /\ xfer.shifted_wide = xfer.bus.wide /\ xfer.bus.wide = Wide(r.nbits)
      /\ xfer.bus.cpol = r.cpol /\ xfer.bus.pull_up = r.cpol /\ xfer.bus.cpha = r.cpha
      /\ Divided(xfer.bus.br) <= r.max
      /\ \A psc \in Prescaler : psc < xfer.bus.br => ~(Divided(psc) <= r.max)
=============================================================================

------------------------------ MODULE LTC2308 -------------------------------
(***************************************************************************)
(* The driver of the analog-to-digital converter (fw/core/inc/LTC2308),    *)
(* and the converter, which starts a conversion at the end of every        *)
(* transfer, as the word just received tells it, and gives its result in   *)
(* the next one.  A read is a transfer to wake the converter if it sleeps, *)
(* one that triggers a conversion, and one for each sample.  A sample is   *)
(* two bytes; the second byte of one that is asked for by half is kept for *)
(* the next read.                                                          *)
(*                                                                         *)
(* T_CONV and T_REFWAKE are the data sheet's limits; a delay of that long  *)
(* ends when what it waits for has ended, provided it makes a tick of the  *)
(* timer at all.  A sample is its reading and what the reading depends on; *)
(* the bytes keep their order.                                             *)
(***************************************************************************)
EXTENDS SpiMaster, Sequences

CONSTANTS
  Reading,    (* readings of the converter                                 *)
  AllOnes,    (* the reading that sign extension makes NULL_FRAME, -1      *)
  Tick,       (* resolution of the alarms' timer, in nanoseconds           *)
  Config,     (* options: records of the fields channel and unipolar       *)
  AdcRequest  (* the settings the converter needs on the bus               *)

ASSUME AdcAssumption ==
  /\ AllOnes \in Reading /\ Tick \in Nat \ {0}
  /\ \A c \in Config : c.unipolar \in BOOLEAN
  /\ AdcRequest \in Request

VARIABLES
  id,          (* _id *)
  sdo,         (* _sdo without the sleep bit *)
  lp,          (* _lp *)
  sdi,         (* _sdi: a sample, or NULL_FRAME *)
  rpc,         (* where open() or read() is *)
  count,       (* bytes still asked for *)
  ntransfers,  (* transfers still to make *)
  adc,         (* external: the converter *)
  out,         (* history: bytes this read has delivered *)
  owed,        (* history: the sample whose first byte the last one ended with *)
  conv         (* history: conversions begun since the read began *)

ltcDriver == <<id, sdo, lp, sdi, rpc, count, ntransfers>>
ltcHistory == <<out, owed, conv>>
ltcVars == <<ltcDriver, adc, ltcHistory>>

NULL_FRAME == [reading |-> "null"]
None == [reading |-> "none"]

Byte(sample, half) == [sample |-> sample, half |-> half]

(* Seen from after the read it was taken in.                               *)
Aged(sample) == IF sample \in {NULL_FRAME, None} THEN sample ELSE [sample EXCEPT !.conv = 0]

AdcPowered(cfg) ==
  [busy |-> FALSE, sleep |-> FALSE, reference |-> "on",
   held |-> [reading |-> AllOnes, cfg |-> cfg, settled |-> FALSE,
            ended |-> TRUE, conv |-> 0]]

(* Constructor and setOptions().                                           *)
LtcInit(cfg, low_power) ==
  /\ id = NMAX_SLAVES /\ sdo = cfg /\ lp = low_power /\ sdi = NULL_FRAME
  /\ rpc = "idle" /\ count = 0 /\ ntransfers = 0
  /\ out = <<>> /\ owed = None /\ conv = 0

-----------------------------------------------------------------------------
(* The converter.  What it sends during a conversion may be any reading.   *)
Replies == IF adc.busy THEN {[adc.held EXCEPT !.reading = r, !.ended = FALSE] : r \in Reading}
                       ELSE {adc.held}

(* The end of a transfer begins a conversion; a word without the sleep bit *)
(* wakes the reference.                                                    *)
Convert(word) ==
  /\ conv' = conv + 1
  /\ \E r \in Reading :
       adc' = [busy |-> TRUE, sleep |-> word.sleep,
               reference |-> IF adc.reference = "off" /\ ~word.sleep THEN "waking" ELSE adc.reference,
               held |-> [reading |-> r, cfg |-> word.cfg, settled |-> adc.reference = "on",
                         ended |-> TRUE, conv |-> conv']]

ConversionEnds ==
  /\ adc.busy
  /\ adc' = [adc EXCEPT !.busy = FALSE, !.reference = IF adc.sleep THEN "off" ELSE @]
  /\ UNCHANGED <<ltcDriver, ltcHistory>>
  /\ BusIdle

ReferenceSettles ==
  /\ adc.reference = "waking"
  /\ adc' = [adc EXCEPT !.reference = "on"]
  /\ UNCHANGED <<ltcDriver, ltcHistory>>
  /\ BusIdle

-----------------------------------------------------------------------------
T_CONV    == 1600
T_REFWAKE == 200000000

(* delay(): a number of ticks, rounded; none is no delay at all.           *)
Waits(ns) == (ns + Tick \div 2) \div Tick > 0

Exchange(sleep) == Txrx(id, [cfg |-> sdo, sleep |-> sleep]) /\ Convert([cfg |-> sdo, sleep |-> sleep])

(* setOptions(), between two calls.                                        *)
SetOptions(cfg) ==
  /\ rpc = "idle"
  /\ sdo' = cfg
  /\ UNCHANGED <<id, lp, sdi, rpc, count, ntransfers, adc, ltcHistory>>
  /\ BusIdle

(* open() registers with the master ...                                    *)
LtcRegister(sid) ==
  /\ rpc = "idle"
  /\ AddSlave(AdcRequest, sid)
  /\ id' = sid
  /\ rpc' = "configure"
  /\ UNCHANGED <<sdo, lp, sdi, count, ntransfers, adc, ltcHistory>>

(* ... and writes the options, which may put the converter to sleep.       *)
LtcConfigure ==
  /\ rpc = "configure"
  /\ rpc' = "idle"
  /\ Exchange(lp)
  /\ UNCHANGED <<id, sdo, lp, sdi, count, ntransfers, out, owed>>

(* Seeded fault: the byte left over is forgotten, not delivered.           *)
ReadForgets(n) ==
  /\ rpc = "idle"
  /\ n > 0
  /\ out' = <<>> /\ count' = n /\ rpc' = "settle"
  /\ sdi' = NULL_FRAME
  /\ conv' = 0 /\ adc' = [adc EXCEPT !.held = Aged(@)]
  /\ UNCHANGED <<id, sdo, lp, ntransfers, owed>>
  /\ BusIdle

(* read() of n bytes: the byte left over comes first.                      *)
Read(n) ==
  /\ rpc = "idle"
  /\ n > 0
  /\ IF sdi = NULL_FRAME
       THEN out' = <<>> /\ count' = n /\ rpc' = "settle"
       ELSE /\ out' = <<Byte(sdi, 2)>>
            /\ count' = n - 1
            /\ rpc' = IF n = 1 THEN "return" ELSE "settle"
  /\ sdi' = NULL_FRAME
  /\ conv' = 0 /\ adc' = [adc EXCEPT !.held = Aged(@)]
  /\ UNCHANGED <<id, sdo, lp, ntransfers, owed>>
  /\ BusIdle

(* delay(T_CONV): the conversion the last transfer began.                  *)
Settle ==
  /\ rpc = "settle"
  /\ Waits(T_CONV) => ~adc.busy
  /\ rpc' = IF lp THEN "wake" ELSE "trigger"
  /\ UNCHANGED <<id, sdo, lp, sdi, count, ntransfers, adc, ltcHistory>>
  /\ BusIdle

Wake ==
  /\ rpc = "wake"
  /\ rpc' = "refwake"
  /\ Exchange(FALSE)
  /\ UNCHANGED <<id, sdo, lp, sdi, count, ntransfers, out, owed>>

(* delay(T_REFWAKE), much longer than a conversion.                        *)
RefWake ==
  /\ rpc = "refwake"
  /\ Waits(T_REFWAKE) => ~adc.busy /\ adc.reference = "on"
  /\ rpc' = "trigger"
  /\ UNCHANGED <<id, sdo, lp, sdi, count, ntransfers, adc, ltcHistory>>
  /\ BusIdle

(* A conversion of this read's own: the reply is of an earlier one.        *)
Trigger ==
  /\ rpc = "trigger"
  /\ rpc' = "convert"
  /\ ntransfers' = (count + 1) \div 2
  /\ Exchange(FALSE)
  /\ UNCHANGED <<id, sdo, lp, sdi, count, out, owed>>

(* delay(T_CONV) *)
AwaitSample ==
  /\ rpc = "convert"
  /\ Waits(T_CONV) => ~adc.busy
  /\ rpc' = "transfer"
  /\ UNCHANGED <<id, sdo, lp, sdi, count, ntransfers, adc, ltcHistory>>
  /\ BusIdle

(* Sign extension makes the reading -1 of a bipolar range NULL_FRAME.      *)
Ambiguous(sample) == ~sample.cfg.unipolar /\ sample.reading = AllOnes

(* What stays in _sdi when copied bytes of sample have been copied.        *)
Left(sample, copied) == IF copied = 2 \/ Ambiguous(sample) THEN NULL_FRAME ELSE sample

(* Seeded fault: both bytes are copied though one is asked for.            *)
TransferTwo ==
  /\ rpc = "transfer"
  /\ Exchange(lp /\ ntransfers = 1)
  /\ \E reply \in Replies : out' = out \o [half \in 1 .. 2 |-> Byte(reply, half)]
  /\ count' = count - 2
  /\ sdi' = NULL_FRAME
  /\ ntransfers' = ntransfers - 1
  /\ rpc' = IF ntransfers = 1 THEN "return" ELSE "convert"
  /\ UNCHANGED <<id, sdo, lp, owed>>

(* A sample comes in, the last transfer may put the converter to sleep; up *)
(* to two bytes are copied.                                                *)
Transfer ==
  /\ rpc = "transfer"
  /\ Exchange(lp /\ ntransfers = 1)
  /\ \E reply \in Replies :
       LET copied == IF count = 1 THEN 1 ELSE 2 IN
         /\ out' = out \o [half \in 1 .. copied |-> Byte(reply, half)]
         /\ count' = count - copied
         /\ sdi' = Left(reply, copied)
  /\ ntransfers' = ntransfers - 1
  /\ rpc' = IF ntransfers = 1 THEN "return" ELSE "convert"
  /\ UNCHANGED <<id, sdo, lp, owed>>

Return ==
  /\ rpc = "return"
  /\ rpc' = "idle"
  /\ LET last == out[Len(out)] IN
       owed' = IF last.half = 2 \/ Ambiguous(last.sample) THEN None ELSE Aged(last.sample)
  /\ sdi' = Aged(sdi)
  /\ out' = <<>> /\ conv' = 0 /\ adc' = [adc EXCEPT !.held = Aged(@)]
  /\ UNCHANGED <<id, sdo, lp, count, ntransfers>>
  /\ BusIdle

(* What the driver holds in memory is gone, in the middle of anything; the *)
(* converter does not notice.                                              *)
LtcForgotten ==
  /\ sdi' = NULL_FRAME /\ rpc' = "idle" /\ count' = 0 /\ ntransfers' = 0
  /\ out' = <<>> /\ owed' = None /\ conv' = 0 /\ adc' = [adc EXCEPT !.held = Aged(@)]
  /\ UNCHANGED lp

LtcCall ==
  \/ LtcConfigure
  \/ Settle \/ Wake \/ RefWake \/ Trigger \/ AwaitSample \/ Transfer \/ Return

Converter == ConversionEnds \/ ReferenceSettles

-----------------------------------------------------------------------------
Sample ==
  [reading : Reading, cfg : Config, settled : BOOLEAN, ended : BOOLEAN, conv : Nat]

LtcTypeOK ==
  /\ id \in 0 .. NMAX_SLAVES
  /\ sdo \in Config /\ lp \in BOOLEAN
  /\ sdi \in Sample \cup {NULL_FRAME} /\ owed \in Sample \cup {None}
  /\ rpc \in {"idle", "configure", "settle", "wake", "refwake", "trigger", "convert",
              "transfer", "return"}
  /\ count \in Nat /\ ntransfers \in Nat /\ conv \in Nat
  /\ adc \in [busy : BOOLEAN, sleep : BOOLEAN, reference : {"on", "off", "waking"}, held : Sample]
  /\ out \in Seq([sample : Sample, half : {1, 2}])

(* The comments of read(), "there is one leftover byte to transfer" and    *)
(* "trigger a new conversion": what a sequence of reads delivers is whole  *)
(* samples, however the reads divide it.  A read begins with the byte the  *)
(* one before it owes, unless the sample was ambiguous; all others are of  *)
(* consecutive conversions, begun since the read was called, with the      *)
(* options in force and the reference up.                                  *)
WholeSamples ==
  rpc = "return" =>
    LET led  == IF owed = None THEN 0 ELSE 1
        body == SubSeq(out, led + 1, Len(out))
    IN  /\ count = 0
        /\ led = 1 => out[1] = Byte(owed, 2)
        /\ \A k \in DOMAIN body :
             /\ body[k].half = IF k % 2 = 1 THEN 1 ELSE 2
             /\ body[k].sample.conv > 0 /\ body[k].sample.settled /\ body[k].sample.cfg = sdo
             /\ k > 1 => body[k].sample.conv =
                           body[k - 1].sample.conv + (IF k % 2 = 1 THEN 1 ELSE 0)

(* read()'s comment: "Wait for the conversion to terminate".  No sample is *)
(* taken before it has ended.  No run checks this: T_CONV is less than     *)
(* half a tick of the program's timer, so that delay(T_CONV) does not wait *)
(* and the time the code takes between two transfers has to be enough.     *)
Converted == \A k \in DOMAIN out : out[k].sample.ended
=============================================================================

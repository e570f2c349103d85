--------------------------- MODULE MotionPattern ----------------------------
(***************************************************************************)
(* The motion pattern in the flash sector of the microcontroller           *)
(* (fw/core/inc/MotionPattern).                                            *)
(*                                                                         *)
(* The sector is an array of chunks, a chunk an array of NMax entries, an  *)
(* entry four flash cells: speed, steps, direction and, programmed last,   *)
(* the attribute ERASED, WRITTEN or DIRTY.  A cell is the set of its bits  *)
(* that are one; programming can only clear bits.  One chunk is in use;    *)
(* clearing the pattern marks it DIRTY and moves on, and erases the sector *)
(* from the last one.                                                      *)
(*                                                                         *)
(* Each flash operation is a step, so that power can be lost between two   *)
(* of them, and, chunk by chunk, during an erasure.  What may go wrong is  *)
(* chosen with PowerLossAt and PgErrors.                                   *)
(***************************************************************************)
EXTENDS Naturals, Sequences, SequencesExt

CONSTANTS
  NChunks,      (* n_fchunks: chunks in the sector                         *)
  NMax,         (* NMAX_MOTION_SEGMENTS: entries in a chunk                *)
  Bit,          (* the bits of a cell                                      *)
  WrittenBits,  (* the bits that are one in the WRITTEN attribute          *)
  Segment,      (* the segments the application pushes                     *)
  PowerLossAt,  (* the program points at which power may be lost           *)
  PgErrors      (* TRUE: the controller may refuse a programming (PGERR)   *)

DataCell == {"milli_rev_per_minute", "steps", "direction"}
Cell     == DataCell \cup {"attr"}
Chunk    == 0 .. NChunks - 1
Entry    == 1 .. NMax

(* FlashChunkAttribute: 0xFF, 0xAA and 0x00.                               *)
ERASED  == Bit
WRITTEN == WrittenBits
DIRTY   == {}

(* Where pushBack, clear, erase and the constructor can be between two     *)
(* flash operations.  "off" is a device without power or in reset.         *)
PushPoints == DataCell \cup {"attr", "ack"}
Points     == {"off", "ready", "mark", "marked", "erase"} \cup PushPoints

(* At these points an entry may be half programmed.                        *)
TornPoints == {"steps", "direction", "attr"}

ASSUME SectorAssumption == NChunks \in Nat \ {0} /\ NMax \in Nat \ {0}
ASSUME BitAssumption == WrittenBits \subseteq Bit /\ WrittenBits \notin {{}, Bit}
ASSUME SegmentAssumption == Segment \subseteq [DataCell -> SUBSET Bit]
ASSUME FaultAssumption == PowerLossAt \subseteq Points \ {"off"} /\ PgErrors \in BOOLEAN

VARIABLES
  flash,       (* the sector: chunk, entry, cell -> bits that are one      *)
  locked,      (* the control register of the flash is locked              *)
  pgerr,       (* the PGERR flags of the flash controller                  *)
  fchunk_idx,  (* _fchunk_idx, the chunk in use                            *)
  cchunk,      (* the valid part of _cchunk; its length is _n              *)
  pc,          (* the program point                                        *)
  arg,         (* the argument of the pushBack in progress                 *)
  erasing,     (* chunks a sector erasure has still to erase               *)
  intact       (* history: no erasure cut short since the last whole one   *)

flashVars == <<flash, locked, pgerr>>
ramVars   == <<fchunk_idx, cchunk, arg>>
vars      == <<flash, locked, pgerr, fchunk_idx, cchunk, pc, arg, erasing, intact>>

-----------------------------------------------------------------------------
(* What a pattern in flash is.                                             *)

BlankEntry == [x \in Cell |-> ERASED]
Data(e)    == [x \in DataCell |-> e[x]]

Usable(f, c) == f[c][1]["attr"] # DIRTY

(* The constructor's scan: the first chunk not marked dirty, or NChunks.   *)
FirstUsable(f) ==
  CHOOSE c \in 0 .. NChunks :
    /\ \A d \in Chunk : d < c => ~Usable(f, d)
    /\ c \in Chunk => Usable(f, c)

(* The constructor's load: how many entries are written from the first on. *)
LoadCount(chunk) ==
  CHOOSE k \in 0 .. NMax :
    /\ \A i \in 1 .. k : chunk[i]["attr"] = WRITTEN
    /\ k + 1 \in Entry => chunk[k + 1]["attr"] # WRITTEN

Load(chunk) == [i \in 1 .. LoadCount(chunk) |-> Data(chunk[i])]

(* The pattern a reboot would find.                                        *)
Durable ==
  IF FirstUsable(flash) \in Chunk THEN Load(flash[FirstUsable(flash)]) ELSE <<>>

-----------------------------------------------------------------------------
Init ==
  /\ flash = [c \in Chunk |-> [i \in Entry |-> BlankEntry]]
  /\ locked = TRUE
  /\ pgerr = FALSE
  /\ fchunk_idx = 0
  /\ cchunk = <<>>
  /\ pc = "off"
  /\ arg \in Segment
  /\ erasing = {}
  /\ intact = TRUE

(* One write to a cell.  A locked or refused one changes nothing; the      *)
(* other ones clear bits.                                                  *)
Program(c, i, x, bits) ==
  \E refused \in {FALSE, PgErrors} :
    /\ pgerr' = (pgerr \/ refused)
    /\ flash' = IF refused \/ locked
                  THEN flash
                  ELSE [flash EXCEPT ![c][i][x] = @ \cap bits]

(* The constructor, run at every power on: it only reads, unless it has to *)
(* erase a sector in which every chunk is dirty.                           *)
Boot ==
  /\ pc = "off"
  /\ IF FirstUsable(flash) \in Chunk
       THEN /\ fchunk_idx' = FirstUsable(flash)
            /\ cchunk' = Load(flash[FirstUsable(flash)])
            /\ pc' = "ready"
            /\ UNCHANGED <<locked, erasing>>
       ELSE /\ pc' = "erase"
            /\ locked' = FALSE
            /\ erasing' = Chunk
            /\ UNCHANGED <<fchunk_idx, cchunk>>
  /\ UNCHANGED <<flash, pgerr, arg, intact>>

(* Seeded fault: the last chunk is only marked, the sector never erased.   *)
NeverErase ==
  /\ pc = "ready"
  /\ locked' = FALSE
  /\ pc' = "mark"
  /\ UNCHANGED <<flash, pgerr, fchunk_idx, cchunk, arg, erasing, intact>>

(* clear(): from the last chunk the whole sector is erased, from another   *)
(* one only a mark is written.                                             *)
Clear ==
  /\ pc = "ready"
  /\ locked' = FALSE
  /\ IF fchunk_idx = NChunks - 1
       THEN pc' = "erase" /\ erasing' = Chunk
       ELSE pc' = "mark" /\ UNCHANGED erasing
  /\ UNCHANGED <<flash, pgerr, fchunk_idx, cchunk, arg, intact>>

(* markDirty(), up to the write of the attribute.                          *)
MarkDirty ==
  /\ pc = "mark"
  /\ Program(fchunk_idx, 1, "attr", DIRTY)
  /\ pc' = "marked"
  /\ UNCHANGED <<locked, fchunk_idx, cchunk, arg, erasing, intact>>

(* Seeded fault: clear() does not reset _n.                                *)
CacheKept ==
  /\ pc = "marked"
  /\ locked' = TRUE
  /\ pc' = "ready"
  /\ fchunk_idx' = fchunk_idx + 1
  /\ UNCHANGED <<flash, pgerr, cchunk, arg, erasing, intact>>

(* The rest of markDirty() and of clear(); a failed mark resets the device.*)
ClearDone ==
  /\ pc = "marked"
  /\ locked' = TRUE
  /\ IF pgerr
       THEN /\ pc' = "off"
            /\ pgerr' = FALSE
            /\ fchunk_idx' = 0
       ELSE /\ pc' = "ready"
            /\ fchunk_idx' = fchunk_idx + 1
            /\ UNCHANGED pgerr
  /\ cchunk' = <<>>
  /\ UNCHANGED <<flash, arg, erasing, intact>>

(* erase(): the controller erases the chunks in an order of its own.       *)
EraseChunk(c) ==
  /\ pc = "erase"
  /\ c \in erasing
  /\ ~locked
  /\ flash' = [flash EXCEPT ![c] = [i \in Entry |-> BlankEntry]]
  /\ erasing' = erasing \ {c}
  /\ UNCHANGED <<locked, pgerr, fchunk_idx, cchunk, pc, arg, intact>>

EraseDone ==
  /\ pc = "erase"
  /\ erasing = {}
  /\ locked' = TRUE
  /\ fchunk_idx' = 0
  /\ cchunk' = <<>>
  /\ pc' = "ready"
  /\ intact' = TRUE
  /\ UNCHANGED <<flash, pgerr, arg, erasing>>

(* pushBack(s), called by main only while size() < max_size().             *)
PushBack(s) ==
  /\ pc = "ready"
  /\ Len(cchunk) < NMax
  /\ locked' = FALSE
  /\ arg' = s
  /\ pc' = "milli_rev_per_minute"
  /\ UNCHANGED <<flash, pgerr, fchunk_idx, cchunk, erasing, intact>>

NextPoint == [milli_rev_per_minute |-> "steps", steps |-> "direction", direction |-> "attr"]

ProgramData ==
  /\ pc \in DataCell
  /\ Program(fchunk_idx, Len(cchunk) + 1, pc, arg[pc])
  /\ pc' = NextPoint[pc]
  /\ UNCHANGED <<locked, fchunk_idx, cchunk, arg, erasing, intact>>

(* pushBack gives up after a refused data cell; it returns without lock(). *)
PushAbort ==
  /\ pc = "attr"
  /\ pgerr
  /\ pgerr' = FALSE
  /\ pc' = "ready"
  /\ UNCHANGED <<flash, locked, fchunk_idx, cchunk, arg, erasing, intact>>

ProgramAttr ==
  /\ pc = "attr"
  /\ ~pgerr
  /\ Program(fchunk_idx, Len(cchunk) + 1, "attr", WRITTEN)
  /\ pc' = "ack"
  /\ UNCHANGED <<locked, fchunk_idx, cchunk, arg, erasing, intact>>

(* Seeded fault: the second PGERR test is missing, a refused attribute is  *)
(* acknowledged.                                                           *)
AckUnchecked ==
  /\ pc = "ack"
  /\ locked' = TRUE
  /\ pgerr' = FALSE
  /\ cchunk' = Append(cchunk, arg)
  /\ pc' = "ready"
  /\ UNCHANGED <<flash, fchunk_idx, arg, erasing, intact>>

(* Seeded fault: _n is not incremented.                                    *)
AckForgotten ==
  /\ pc = "ack"
  /\ locked' = TRUE
  /\ pgerr' = FALSE
  /\ pc' = "ready"
  /\ UNCHANGED <<flash, fchunk_idx, cchunk, arg, erasing, intact>>

(* The rest of pushBack: lock, and put the segment in the cache unless its *)
(* attribute was refused.                                                  *)
PushDone ==
  /\ pc = "ack"
  /\ locked' = TRUE
  /\ pgerr' = FALSE
  /\ cchunk' = IF pgerr THEN cchunk ELSE Append(cchunk, arg)
  /\ pc' = "ready"
  /\ UNCHANGED <<flash, fchunk_idx, arg, erasing, intact>>

(* Power goes, and with it everything but the flash.                       *)
PowerLoss ==
  /\ pc \in PowerLossAt
  /\ pc' = "off"
  /\ locked' = TRUE
  /\ pgerr' = FALSE
  /\ fchunk_idx' = 0
  /\ cchunk' = <<>>
  /\ erasing' = {}
  /\ intact' = (intact /\ pc # "erase")
  /\ UNCHANGED <<flash, arg>>

Next ==
  \/ Boot
  \/ Clear \/ MarkDirty \/ ClearDone
  \/ \E c \in Chunk : EraseChunk(c)
  \/ EraseDone
  \/ \E s \in Segment : PushBack(s)
  \/ ProgramData \/ PushAbort \/ ProgramAttr \/ PushDone
  \/ PowerLoss

Spec == Init /\ [][Next]_vars

-----------------------------------------------------------------------------
(* Types of the state: one cell may be any set of bits.                    *)
TypeOK ==
  /\ flash \in [Chunk -> [Entry -> [Cell -> SUBSET Bit]]]
  /\ locked \in BOOLEAN
  /\ pgerr \in BOOLEAN
  /\ fchunk_idx \in Chunk
  /\ cchunk \in Seq([DataCell -> SUBSET Bit]) /\ Len(cchunk) <= NMax
  /\ pc \in Points
  /\ arg \in Segment
  /\ erasing \in SUBSET Chunk
  /\ intact \in BOOLEAN

Erased(c) == flash[c] = [i \in Entry |-> BlankEntry]
Behind(c) == \A d \in Chunk : d < c => ~Usable(flash, d)
Ahead(c)  == \A d \in Chunk : d > c => Erased(d)

(* In chunk c the first k entries are written, the next one is at most     *)
(* half programmed, and the others are erased.                             *)
Filled(c, k) ==
  \A i \in Entry :
    /\ i <= k     => flash[c][i]["attr"] = WRITTEN
    /\ i = k + 1  => flash[c][i]["attr"] = ERASED
    /\ i > k + 1  => flash[c][i] = BlankEntry

(* The layout every reader of the sector counts on (constructor, clear,    *)
(* pushBack): behind the chunk in use all is dirty, ahead of it all is     *)
(* erased, and in it the cached entries are written and the rest is free,  *)
(* whatever is refused and wherever power is lost.  An erasure cut short   *)
(* spoils it, until the next one that is not.                              *)
Layout ==
  intact /\ pc \notin {"off", "erase"} =>
    /\ Behind(fchunk_idx)
    /\ Ahead(fchunk_idx)
    /\ IF pc = "marked" /\ ~pgerr
         THEN ~Usable(flash, fchunk_idx)
         ELSE Filled(fchunk_idx, Len(cchunk) + IF pc = "ack" /\ ~pgerr THEN 1 ELSE 0)

(* No segment that a reboot would find is ever lost or altered by a later  *)
(* step, whatever is refused or wherever power is lost, unless the pattern *)
(* is being cleared, when it goes as a whole.  In a sector an erasure cut  *)
(* short has spoiled, clearing may bring back an older pattern.            *)
NothingLost ==
  [][\/ ~intact
     \/ IsPrefix(Durable, Durable')
     \/ pc \in {"mark", "erase"} /\ Durable' = <<>>]_vars

(* pushBack's comment: "Fail-safe update by changing the entry attribute   *)
(* last".  What the application was told is stored is what is stored.      *)
StoredAsAcknowledged == pc = "ready" => Durable = cchunk

(* clear()'s comment: "next chunk is erased", so long as no erasure was    *)
(* cut short.                                                              *)
NextChunkErased ==
  intact /\ pc = "mark" => Erased(fchunk_idx + 1)

(* The pattern is a PatternStore: what a reboot would find is its durable  *)
(* pattern, the valid part of the cache is what the application reads.     *)
Status == CASE pc = "off" -> "off" [] pc = "ready" -> "ready" [] OTHER -> "busy"

Store == INSTANCE PatternStore WITH
  stored <- Durable, shown <- cchunk, status <- Status, MaxSize <- NMax
=============================================================================

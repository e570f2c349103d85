------------------------ MODULE MotionPatternProofs -------------------------
(* Theorems about the motion pattern store, for every sector size, cell    *)
(* width and set of segments.                                              *)
EXTENDS PatternFaults, WellFoundedInduction, SequenceTheorems, TLAPS

-----------------------------------------------------------------------------
(* Lemmas about the operators of the model.                                *)

(* A non-empty set of numbers has a least element: the loops of the        *)
(* constructor, which look for a first chunk and a first entry, find one.  *)
LEMMA LeastNumber ==
  ASSUME NEW T, T \subseteq Nat, T # {}
  PROVE  \E x \in T : \A y \in T : x <= y
<1> DEFINE R == {ss \in Nat \X Nat : ss[1] < ss[2]}
<1>1. IsWellFoundedOn(R, Nat)
  BY NatLessThanWellFounded DEF OpToRel
<1>2. PICK x \in T : \A y \in T : ~ (<<y, x>> \in R)
  BY <1>1, WFMin
<1>3. \A y \in T : ~ (y < x)
  BY <1>2
<1>4. x \in Nat /\ \A y \in T : y \in Nat
  OBVIOUS
<1> HIDE DEF R
<1> QED  BY <1>2, <1>3, <1>4

(* The constructor's scan stops in the sector or right behind it.          *)
LEMMA Scan ==
  ASSUME NEW f
  PROVE  /\ FirstUsable(f) \in 0 .. NChunks
         /\ \A d \in Chunk : d < FirstUsable(f) => ~Usable(f, d)
         /\ FirstUsable(f) \in Chunk => Usable(f, FirstUsable(f))
<1> DEFINE T == {c \in 0 .. NChunks : c \in Chunk => Usable(f, c)}
<1>1. T \subseteq Nat /\ NChunks \in T
  BY SectorAssumption DEF Chunk
<1>2. PICK c \in T : \A d \in T : c <= d
  BY <1>1, LeastNumber
<1>3. \A d \in Chunk : d < c => ~Usable(f, d)
  BY <1>2, SectorAssumption DEF Chunk
<1>4. c \in 0 .. NChunks /\ (c \in Chunk => Usable(f, c))
  BY <1>2
<1> HIDE DEF T
<1> QED  BY <1>3, <1>4 DEF FirstUsable

(* The constructor's load stops at the first entry that is not written.    *)
LEMMA LoadStops ==
  ASSUME NEW chunk
  PROVE  /\ LoadCount(chunk) \in 0 .. NMax
         /\ \A i \in 1 .. LoadCount(chunk) : chunk[i]["attr"] = WRITTEN
         /\ LoadCount(chunk) + 1 \in Entry => chunk[LoadCount(chunk) + 1]["attr"] # WRITTEN
<1> DEFINE T == {k \in 0 .. NMax : k + 1 \in Entry => chunk[k + 1]["attr"] # WRITTEN}
<1>1. T \subseteq Nat /\ NMax \in T
  BY SectorAssumption DEF Entry
<1>2. PICK k \in T : \A j \in T : k <= j
  BY <1>1, LeastNumber
<1>3. ASSUME NEW i \in 1 .. k PROVE chunk[i]["attr"] = WRITTEN
  <2>1. i - 1 \in 0 .. NMax /\ i - 1 \notin T
    BY <1>2, SectorAssumption
  <2> QED  BY <2>1, SectorAssumption
<1>4. k \in 0 .. NMax /\ (k + 1 \in Entry => chunk[k + 1]["attr"] # WRITTEN)
  BY <1>2
<1> HIDE DEF T
<1> QED  BY <1>3, <1>4 DEF LoadCount

(* The chunk in use and its written entries determine what the constructor *)
(* finds: chunk c, and k segments.                                         *)
LEMMA ScanIs ==
  ASSUME NEW c \in Chunk, Behind(c), Usable(flash, c)
  PROVE  FirstUsable(flash) = c
<1>1. FirstUsable(flash) \in 0 .. NChunks
  BY Scan
<1>2. ~(FirstUsable(flash) < c)
  BY <1>1, Scan, SectorAssumption DEF Chunk, Behind
<1>3. ~(c < FirstUsable(flash))
  BY Scan
<1> QED  BY <1>1, <1>2, <1>3, SectorAssumption DEF Chunk

LEMMA LoadIs ==
  ASSUME NEW c \in Chunk, NEW k \in 0 .. NMax, Filled(c, k)
  PROVE  LoadCount(flash[c]) = k
<1> DEFINE n == LoadCount(flash[c])
<1>1. n \in 0 .. NMax
  BY LoadStops
<1>2. ASSUME n < k PROVE FALSE
  <2>1. n + 1 \in Entry /\ n + 1 <= k
    BY <1>1, <1>2, SectorAssumption DEF Entry
  <2>2. flash[c][n + 1]["attr"] = WRITTEN
    BY <2>1 DEF Filled
  <2> QED  BY <2>1, <2>2, LoadStops
<1>3. ASSUME k < n PROVE FALSE
  <2>1. k + 1 \in Entry /\ k + 1 \in 1 .. n
    BY <1>1, <1>3, SectorAssumption DEF Entry
  <2>2. flash[c][k + 1]["attr"] = WRITTEN
    BY <2>1, LoadStops
  <2>3. flash[c][k + 1]["attr"] = ERASED
    BY <2>1, SectorAssumption DEF Filled
  <2> QED  BY <2>2, <2>3, BitAssumption DEF ERASED, WRITTEN
<1> QED  BY <1>1, <1>2, <1>3, SectorAssumption

(* What the constructor loads is a list of segments no longer than NMax.   *)
LEMMA LoadType ==
  ASSUME TypeOK, NEW c \in Chunk
  PROVE  /\ Load(flash[c]) \in Seq([DataCell -> SUBSET Bit])
         /\ Len(Load(flash[c])) = LoadCount(flash[c])
<1> DEFINE n == LoadCount(flash[c])
<1>1. n \in 0 .. NMax
  BY LoadStops
<1>2. \A i \in 1 .. n : Data(flash[c][i]) \in [DataCell -> SUBSET Bit]
  BY <1>1, SectorAssumption DEF TypeOK, Data, Entry, Cell
<1> HIDE DEF n
<1>3. [i \in 1 .. n |-> Data(flash[c][i])] \in Seq([DataCell -> SUBSET Bit])
  BY <1>1, <1>2
<1>4. Len([i \in 1 .. n |-> Data(flash[c][i])]) = n
  BY <1>1
<1> QED  BY <1>3, <1>4 DEF Load, n

(* Programming a cell leaves the sector a sector.                          *)
LEMMA ProgramType ==
  ASSUME TypeOK, NEW c \in Chunk, NEW i \in Entry, NEW x \in Cell,
         NEW bits, Program(c, i, x, bits)
  PROVE  /\ flash' \in [Chunk -> [Entry -> [Cell -> SUBSET Bit]]]
         /\ pgerr' \in BOOLEAN
<1>1. flash[c][i] \in [Cell -> SUBSET Bit]
  BY DEF TypeOK
<1>2. [flash EXCEPT ![c][i][x] = @ \cap bits] \in [Chunk -> [Entry -> [Cell -> SUBSET Bit]]]
  BY <1>1 DEF TypeOK
<1>3. flash' \in [Chunk -> [Entry -> [Cell -> SUBSET Bit]]]
  BY <1>2 DEF Program, TypeOK
<1>4. pgerr' \in BOOLEAN
  BY FaultAssumption DEF Program, TypeOK
<1> QED  BY <1>3, <1>4

LEMMA BlankType == BlankEntry \in [Cell -> SUBSET Bit]
  BY DEF BlankEntry, ERASED

LEMMA EmptyPattern == <<>> \in Seq([DataCell -> SUBSET Bit]) /\ Len(<<>>) = 0
  OBVIOUS

-----------------------------------------------------------------------------
(* Types.                                                                  *)

(* What the program point says of the other variables; TypeOK is inductive *)
(* only together with it, because clear() and pushBack() increment an      *)
(* index some steps after having tested it.                                *)
Control ==
  /\ pc \in {"mark", "marked"} => fchunk_idx + 1 \in Chunk
  /\ pc \in PushPoints => Len(cchunk) < NMax
  /\ pc \notin {"off", "ready"} => ~locked
  /\ pc \in {"off", "ready", "mark", "erase", "milli_rev_per_minute"} => ~pgerr
  /\ pc # "erase" => erasing = {}

LEMMA TypedInit == Init => TypeOK /\ Control
<1> SUFFICES ASSUME Init PROVE TypeOK /\ Control
  OBVIOUS
<1>1. flash \in [Chunk -> [Entry -> [Cell -> SUBSET Bit]]]
  BY BlankType DEF Init
<1>2. fchunk_idx \in Chunk
  BY SectorAssumption DEF Init, Chunk
<1>3. cchunk \in Seq([DataCell -> SUBSET Bit]) /\ Len(cchunk) <= NMax
  BY SectorAssumption, EmptyPattern DEF Init
<1>4. pc \in Points
  BY DEF Init, Points
<1>5. Control
  BY DEF Init, Control, PushPoints, DataCell
<1> QED  BY <1>1, <1>2, <1>3, <1>4, <1>5 DEF Init, TypeOK

LEMMA TypedStep == TypeOK /\ Control /\ [Next]_vars => TypeOK' /\ Control'
<1> SUFFICES ASSUME TypeOK, Control, [Next]_vars PROVE TypeOK' /\ Control'
  OBVIOUS
<1> USE SectorAssumption
<1>a. Len(cchunk) \in Nat /\ fchunk_idx \in Chunk
  BY DEF TypeOK
<1>b. "attr" \in Cell /\ DataCell \subseteq Cell /\ 1 \in Entry
  BY DEF Cell, Entry
<1>1. CASE Boot
  <2>1. CASE FirstUsable(flash) \in Chunk
    <3>1. LoadCount(flash[FirstUsable(flash)]) \in 0 .. NMax
      BY LoadStops
    <3>2. cchunk' \in Seq([DataCell -> SUBSET Bit]) /\ Len(cchunk') <= NMax
      BY <1>1, <2>1, <3>1, LoadType DEF Boot
    <3> QED  BY <1>1, <2>1, <3>2 DEF Boot, TypeOK, Control, Points, PushPoints, DataCell
  <2>2. CASE FirstUsable(flash) \notin Chunk
    BY <1>1, <2>2 DEF Boot, TypeOK, Control, Points, PushPoints, DataCell
  <2> QED  BY <2>1, <2>2
<1>2. CASE Clear
  <2>1. pc' = "mark" => fchunk_idx' + 1 \in Chunk
    BY <1>2, <1>a DEF Clear, Chunk
  <2>2. pc' \in {"mark", "erase"} /\ ~pgerr' /\ ~locked'
    BY <1>2 DEF Clear, Control
  <2>3. erasing' \in SUBSET Chunk /\ (pc' # "erase" => erasing' = {})
    BY <1>2 DEF Clear, TypeOK, Control
  <2>4. TypeOK'
    BY <1>2, <2>2, <2>3 DEF Clear, TypeOK, Points
  <2> QED  BY <2>1, <2>2, <2>3, <2>4 DEF Control, PushPoints, DataCell
<1>3. CASE MarkDirty
  <2>1. flash' \in [Chunk -> [Entry -> [Cell -> SUBSET Bit]]] /\ pgerr' \in BOOLEAN
    BY <1>3, <1>a, <1>b, ProgramType DEF MarkDirty
  <2> QED  BY <1>3, <2>1 DEF MarkDirty, TypeOK, Control, Points, PushPoints, DataCell
<1>4. CASE ClearDone
  <2>1. fchunk_idx' \in Chunk
    BY <1>4, <1>a DEF ClearDone, Control, Chunk
  <2>2. cchunk' \in Seq([DataCell -> SUBSET Bit]) /\ Len(cchunk') <= NMax
    BY <1>4, EmptyPattern DEF ClearDone
  <2>3. pc' \in {"off", "ready"} /\ ~pgerr' /\ locked' = TRUE /\ erasing' = {}
    BY <1>4 DEF ClearDone, Control
  <2>4. TypeOK'
    BY <1>4, <2>1, <2>2, <2>3 DEF ClearDone, TypeOK, Points
  <2> QED  BY <2>3, <2>4 DEF Control, PushPoints, DataCell
<1>5. ASSUME NEW c \in Chunk, EraseChunk(c) PROVE TypeOK' /\ Control'
  <2>1. flash' \in [Chunk -> [Entry -> [Cell -> SUBSET Bit]]]
    BY <1>5, BlankType DEF EraseChunk, TypeOK
  <2> QED  BY <1>5, <2>1 DEF EraseChunk, TypeOK, Control, Points, PushPoints, DataCell
<1>6. CASE EraseDone
  BY <1>6, EmptyPattern DEF EraseDone, TypeOK, Control, Points, PushPoints, DataCell, Chunk
<1>7. ASSUME NEW s \in Segment, PushBack(s) PROVE TypeOK' /\ Control'
  BY <1>7 DEF PushBack, TypeOK, Control, Points, PushPoints, DataCell
<1>8. CASE ProgramData
  <2>1. Len(cchunk) + 1 \in Entry /\ pc \in Cell
    BY <1>8, <1>a, <1>b DEF ProgramData, Control, PushPoints, Entry
  <2>2. flash' \in [Chunk -> [Entry -> [Cell -> SUBSET Bit]]] /\ pgerr' \in BOOLEAN
    BY <1>8, <1>a, <2>1, ProgramType DEF ProgramData
  <2>3. pc' \in {"steps", "direction", "attr"}
    BY <1>8 DEF ProgramData, NextPoint, DataCell
  <2>4. pc' \in PushPoints /\ pc \in PushPoints /\ pc \notin {"off", "ready", "erase"}
    BY <1>8, <2>3 DEF ProgramData, PushPoints, DataCell
  <2> QED  BY <1>8, <2>2, <2>3, <2>4 DEF ProgramData, TypeOK, Control, Points
<1>9. CASE PushAbort
  BY <1>9 DEF PushAbort, TypeOK, Control, Points, PushPoints, DataCell
<1>10. CASE ProgramAttr
  <2>1. Len(cchunk) + 1 \in Entry
    BY <1>10, <1>a DEF ProgramAttr, Control, PushPoints, Entry
  <2>2. flash' \in [Chunk -> [Entry -> [Cell -> SUBSET Bit]]] /\ pgerr' \in BOOLEAN
    BY <1>10, <1>a, <1>b, <2>1, ProgramType DEF ProgramAttr
  <2> QED  BY <1>10, <2>2 DEF ProgramAttr, TypeOK, Control, Points, PushPoints, DataCell
<1>11. CASE PushDone
  <2>1. arg \in [DataCell -> SUBSET Bit] /\ Len(cchunk) < NMax
    BY <1>11, SegmentAssumption DEF PushDone, TypeOK, Control, PushPoints
  <2>2. cchunk' \in Seq([DataCell -> SUBSET Bit]) /\ Len(cchunk') <= NMax
    BY <1>11, <1>a, <2>1 DEF PushDone, TypeOK
  <2> QED  BY <1>11, <2>2 DEF PushDone, TypeOK, Control, Points, PushPoints, DataCell
<1>12. CASE PowerLoss
  <2>1. fchunk_idx' \in Chunk
    BY <1>12 DEF PowerLoss, Chunk
  <2>2. cchunk' \in Seq([DataCell -> SUBSET Bit]) /\ Len(cchunk') <= NMax
    BY <1>12, EmptyPattern DEF PowerLoss
  <2> QED  BY <1>12, <2>1, <2>2 DEF PowerLoss, TypeOK, Control, Points, PushPoints, DataCell
<1>13. CASE UNCHANGED vars
  BY <1>13 DEF vars, TypeOK, Control
<1> QED
  BY <1>1, <1>2, <1>3, <1>4, <1>5, <1>6, <1>7, <1>8, <1>9, <1>10, <1>11, <1>12, <1>13 DEF Next

(* Every index the code uses stays in the sector, in the chunk and in the  *)
(* cache, wherever power is lost and whatever the controller refuses.      *)
THEOREM Typing == Spec => []TypeOK
<1>1. Spec => [](TypeOK /\ Control)
  BY TypedInit, TypedStep, PTL DEF Spec
<1> QED  BY <1>1, PTL

-----------------------------------------------------------------------------
(* The layout of the sector.                                               *)

(* Without power the layout is what the next constructor has to find.      *)
SomeFilled(c) == \E k \in 0 .. NMax : Filled(c, k)
InUse(c)      == Behind(c) /\ Ahead(c) /\ (c \in Chunk => SomeFilled(c))
Recoverable   == intact /\ pc = "off" => \E c \in 0 .. NChunks : InUse(c)

ErasedSoFar == pc = "erase" => \A c \in Chunk \ erasing : Erased(c)

LEMMA SameFlash ==
  ASSUME flash' = flash, NEW c, NEW k
  PROVE  /\ Behind(c)' <=> Behind(c)
         /\ Ahead(c)' <=> Ahead(c)
         /\ Filled(c, k)' <=> Filled(c, k)
         /\ Erased(c)' <=> Erased(c)
  BY DEF Behind, Ahead, Filled, Erased, Usable

LEMMA FilledUsable ==
  ASSUME NEW c \in Chunk, NEW k \in 0 .. NMax, Filled(c, k)
  PROVE  Usable(flash, c)
<1>1. flash[c][1]["attr"] \in {WRITTEN, ERASED}
  <2>1. CASE k = 0
    BY <2>1, SectorAssumption DEF Filled, Entry
  <2>2. CASE k # 0
    BY <2>2, SectorAssumption DEF Filled, Entry
  <2> QED  BY <2>1, <2>2
<1> QED  BY <1>1, BitAssumption DEF Usable, WRITTEN, ERASED, DIRTY

LEMMA ErasedFilled ==
  ASSUME NEW c \in Chunk, Erased(c)
  PROVE  Filled(c, 0)
  BY SectorAssumption DEF Erased, Filled, Entry, BlankEntry, Cell

(* A data cell of the first free entry may be programmed.                  *)
LEMMA ProgramDataLayout ==
  ASSUME TypeOK, NEW c \in Chunk, NEW k \in 0 .. NMax, k < NMax,
         Behind(c), Ahead(c), Filled(c, k),
         NEW x \in DataCell, NEW bits, Program(c, k + 1, x, bits)
  PROVE  Behind(c)' /\ Ahead(c)' /\ Filled(c, k)'
<1>1. CASE flash' = flash
  BY <1>1, SameFlash
<1>2. CASE flash' = [flash EXCEPT ![c][k + 1][x] = @ \cap bits]
  <2>1. k + 1 \in Entry /\ x # "attr" /\ x \in Cell
    BY SectorAssumption DEF Entry, DataCell, Cell
  <2>2. \A d \in Chunk : d # c => flash'[d] = flash[d]
    BY <1>2 DEF TypeOK
  <2>3. \A i \in Entry : /\ flash'[c][i]["attr"] = flash[c][i]["attr"]
                         /\ i # k + 1 => flash'[c][i] = flash[c][i]
    BY <1>2, <2>1 DEF TypeOK, Cell
  <2>4. Behind(c)' /\ Ahead(c)'
    BY <2>2, SectorAssumption DEF Behind, Ahead, Usable, Erased, Chunk
  <2>5. Filled(c, k)'
    BY <2>3, SectorAssumption DEF Filled, Entry
  <2> QED  BY <2>4, <2>5
<1> QED  BY <1>1, <1>2 DEF Program

(* The attribute of the first free entry takes it into the pattern.        *)
LEMMA ProgramAttrLayout ==
  ASSUME TypeOK, NEW c \in Chunk, NEW k \in 0 .. NMax, k < NMax,
         Behind(c), Ahead(c), Filled(c, k), ~locked, ~pgerr,
         Program(c, k + 1, "attr", WRITTEN)
  PROVE  /\ Behind(c)' /\ Ahead(c)'
         /\ pgerr' => flash' = flash /\ Filled(c, k)'
         /\ ~pgerr' => Filled(c, k + 1)'
<1>1. CASE pgerr'
  <2>1. flash' = flash
    BY <1>1, FaultAssumption DEF Program
  <2> QED  BY <1>1, <2>1, SameFlash
<1>2. CASE ~pgerr'
  <2>0. flash' = [flash EXCEPT ![c][k + 1]["attr"] = @ \cap WRITTEN]
    BY <1>2 DEF Program
  <2>1. k + 1 \in Entry /\ "attr" \in Cell
    BY SectorAssumption DEF Entry, Cell
  <2>2. \A d \in Chunk : d # c => flash'[d] = flash[d]
    BY <2>0 DEF TypeOK
  <2>3. \A i \in Entry : i # k + 1 => flash'[c][i] = flash[c][i]
    BY <2>0, <2>1 DEF TypeOK
  <2>4. flash'[c][k + 1]["attr"] = WRITTEN
    <3>1. flash[c][k + 1]["attr"] = ERASED
      BY <2>1 DEF Filled
    <3>2. flash'[c][k + 1]["attr"] = flash[c][k + 1]["attr"] \cap WRITTEN
      BY <2>0, <2>1 DEF TypeOK
    <3> QED  BY <3>1, <3>2, BitAssumption DEF WRITTEN, ERASED
  <2>5. Behind(c)' /\ Ahead(c)'
    BY <2>2, SectorAssumption DEF Behind, Ahead, Usable, Erased, Chunk
  <2>6. \A i \in Entry : i > k + 1 => flash'[c][i] = BlankEntry
    BY <2>3, SectorAssumption DEF Filled, Entry
  <2>7. BlankEntry["attr"] = ERASED
    BY DEF BlankEntry, Cell
  <2>8. Filled(c, k + 1)'
    BY <2>3, <2>4, <2>6, <2>7, SectorAssumption DEF Filled, Entry
  <2> QED  BY <1>2, <2>5, <2>8
<1> QED  BY <1>1, <1>2

(* The DIRTY mark takes the whole chunk out of use.                        *)
LEMMA MarkLayout ==
  ASSUME TypeOK, NEW c \in Chunk, NEW k \in 0 .. NMax,
         Behind(c), Ahead(c), Filled(c, k), ~locked, ~pgerr,
         Program(c, 1, "attr", DIRTY)
  PROVE  /\ Behind(c)' /\ Ahead(c)'
         /\ IF pgerr' THEN Filled(c, k)' ELSE ~Usable(flash', c)
<1>1. CASE pgerr'
  <2>1. flash' = flash
    BY <1>1, FaultAssumption DEF Program
  <2> QED  BY <1>1, <2>1, SameFlash
<1>2. CASE ~pgerr'
  <2>0. flash' = [flash EXCEPT ![c][1]["attr"] = @ \cap DIRTY]
    BY <1>2 DEF Program
  <2>1. 1 \in Entry /\ "attr" \in Cell
    BY SectorAssumption DEF Entry, Cell
  <2>2. \A d \in Chunk : d # c => flash'[d] = flash[d]
    BY <2>0 DEF TypeOK
  <2>3. flash'[c][1]["attr"] = DIRTY
    BY <2>0, <2>1 DEF TypeOK, DIRTY
  <2>4. Behind(c)' /\ Ahead(c)'
    BY <2>2, SectorAssumption DEF Behind, Ahead, Usable, Erased, Chunk
  <2> QED  BY <1>2, <2>3, <2>4 DEF Usable
<1> QED  BY <1>1, <1>2

LInv == Layout /\ Recoverable /\ ErasedSoFar

(* What the constructor finds is the chunk in use and what was written.    *)
LEMMA Recovers ==
  ASSUME TypeOK, Recoverable, intact, pc = "off"
  PROVE  \/ /\ FirstUsable(flash) \notin Chunk
            /\ \A d \in Chunk : ~Usable(flash, d)
         \/ /\ FirstUsable(flash) \in Chunk
            /\ LoadCount(flash[FirstUsable(flash)]) \in 0 .. NMax
            /\ Behind(FirstUsable(flash)) /\ Ahead(FirstUsable(flash))
            /\ Filled(FirstUsable(flash), LoadCount(flash[FirstUsable(flash)]))
<1>0. PICK c \in 0 .. NChunks : InUse(c)
  BY DEF Recoverable
<1>1. Behind(c) /\ Ahead(c) /\ (c \in Chunk => SomeFilled(c))
  BY <1>0 DEF InUse
<1>2. CASE c \notin Chunk
  <2>1. \A d \in Chunk : ~Usable(flash, d)
    BY <1>1, <1>2, SectorAssumption DEF Behind, Chunk
  <2> QED  BY <2>1, Scan
<1>3. CASE c \in Chunk
  <2>1. PICK k \in 0 .. NMax : Filled(c, k)
    BY <1>1, <1>3 DEF SomeFilled
  <2>2. FirstUsable(flash) = c
    BY <1>1, <1>3, <2>1, FilledUsable, ScanIs
  <2>3. LoadCount(flash[c]) = k
    BY <1>3, <2>1, LoadIs
  <2> QED  BY <1>1, <1>3, <2>1, <2>2, <2>3
<1> QED  BY <1>2, <1>3

LEMMA LayoutInit == Init => LInv
<1> SUFFICES ASSUME Init PROVE LInv
  OBVIOUS
<1>1. 0 \in Chunk /\ \A c \in Chunk : Erased(c)
  BY SectorAssumption DEF Init, Erased, Chunk
<1>2. Behind(0) /\ Ahead(0) /\ Filled(0, 0)
  BY <1>1, ErasedFilled, SectorAssumption DEF Behind, Ahead, Chunk
<1>3. Recoverable
  BY <1>1, <1>2, SectorAssumption DEF Recoverable, InUse, SomeFilled
<1> QED  BY <1>3 DEF LInv, Layout, ErasedSoFar, Init

(* A completed erasure makes the layout good, whatever it was before.      *)
LEMMA ErasedLayout ==
  ASSUME ErasedSoFar, EraseDone
  PROVE  LInv'
<1> USE SectorAssumption
<1>1. flash' = flash /\ fchunk_idx' = 0 /\ Len(cchunk') = 0 /\ pc' = "ready"
  BY DEF EraseDone
<1>2. 0 \in Chunk /\ \A c \in Chunk : Erased(c)
  BY DEF EraseDone, ErasedSoFar, Chunk
<1>3. Behind(0) /\ Ahead(0) /\ Filled(0, 0)
  BY <1>2, ErasedFilled DEF Behind, Ahead, Chunk
<1>4. Behind(fchunk_idx)' /\ Ahead(fchunk_idx)' /\ Filled(fchunk_idx, 0)'
  BY <1>1, <1>3 DEF Behind, Ahead, Filled, Usable, Erased
<1> QED  BY <1>1, <1>4 DEF LInv, Layout, Recoverable, ErasedSoFar

LEMMA LayoutStep ==
  ASSUME intact, TypeOK, Control, LInv, [Next]_vars
  PROVE  LInv'
<1> USE SectorAssumption
<1> DEFINE k == Len(cchunk)
<1>a. k \in 0 .. NMax /\ fchunk_idx \in Chunk
  BY DEF TypeOK
<1>b. ASSUME pc \notin {"off", "erase", "marked", "ack"}
      PROVE  Behind(fchunk_idx) /\ Ahead(fchunk_idx) /\ Filled(fchunk_idx, k)
  BY <1>a, <1>b DEF LInv, Layout
<1>c. ASSUME pc' \notin {"off", "erase", "marked", "ack"},
             flash' = flash, fchunk_idx' = fchunk_idx, cchunk' = cchunk,
             pc \notin {"off", "erase", "marked", "ack"}
      PROVE  LInv'
  <2>1. Behind(fchunk_idx)' /\ Ahead(fchunk_idx)' /\ Filled(fchunk_idx, Len(cchunk))'
    BY <1>b, <1>c DEF Behind, Ahead, Filled, Usable, Erased
  <2> QED  BY <1>a, <1>c, <2>1 DEF LInv, Layout, Recoverable, ErasedSoFar
<1>1. CASE Boot
  <2> DEFINE c == FirstUsable(flash)
  <2>1. CASE c \in Chunk
    <3>1. /\ Behind(c) /\ Ahead(c) /\ Filled(c, LoadCount(flash[c]))
          /\ LoadCount(flash[c]) \in 0 .. NMax
      BY <1>1, <2>1, Recovers DEF Boot, LInv
    <3>2. fchunk_idx' = c /\ Len(cchunk') = LoadCount(flash[c]) /\ flash' = flash /\ pc' = "ready"
      BY <1>1, <2>1, LoadType DEF Boot
    <3>3. Behind(fchunk_idx)' /\ Ahead(fchunk_idx)' /\ Filled(fchunk_idx, Len(cchunk))'
      BY <3>1, <3>2 DEF Behind, Ahead, Filled, Usable, Erased
    <3> QED  BY <3>1, <3>2, <3>3 DEF LInv, Layout, Recoverable, ErasedSoFar
  <2>2. CASE c \notin Chunk
    BY <1>1, <2>2 DEF Boot, LInv, Layout, Recoverable, ErasedSoFar
  <2> QED  BY <2>1, <2>2
<1>2. CASE Clear
  <2>1. CASE fchunk_idx = NChunks - 1
    BY <1>2, <2>1 DEF Clear, LInv, Layout, Recoverable, ErasedSoFar
  <2>2. CASE fchunk_idx # NChunks - 1
    BY <1>2, <2>2, <1>c DEF Clear
  <2> QED  BY <2>1, <2>2
<1>3. CASE MarkDirty
  <2>1. pc = "mark" /\ ~locked /\ ~pgerr
    BY <1>3 DEF MarkDirty, Control
  <2>2. /\ Behind(fchunk_idx)' /\ Ahead(fchunk_idx)'
        /\ IF pgerr' THEN Filled(fchunk_idx, k)' ELSE ~Usable(flash', fchunk_idx)
    BY <1>3, <1>a, <1>b, <2>1, MarkLayout DEF MarkDirty, Behind, Ahead, Filled
  <2> QED  BY <1>3, <1>a, <2>2 DEF MarkDirty, LInv, Layout, Recoverable, ErasedSoFar
<1>4. CASE ClearDone
  <2>1. Behind(fchunk_idx) /\ Ahead(fchunk_idx) /\ fchunk_idx + 1 \in Chunk
    BY <1>4 DEF ClearDone, LInv, Layout, Control
  <2>2. CASE pgerr
    <3>1. Filled(fchunk_idx, k)
      BY <1>4, <1>a, <2>2 DEF ClearDone, LInv, Layout
    <3>2. Behind(fchunk_idx) /\ Ahead(fchunk_idx) /\ fchunk_idx \in 0 .. NChunks
      BY <2>1, <1>a DEF Chunk
    <3>3. InUse(fchunk_idx)
      BY <3>1, <3>2, <1>a DEF InUse, SomeFilled
    <3>4. \A d : InUse(d)' <=> InUse(d)
      BY <1>4, <2>2 DEF ClearDone, InUse, SomeFilled, Behind, Ahead, Filled, Usable, Erased
    <3>5. Recoverable'
      BY <3>2, <3>3, <3>4 DEF Recoverable
    <3> QED  BY <1>4, <2>2, <3>5 DEF ClearDone, LInv, Layout, ErasedSoFar
  <2>3. CASE ~pgerr
    <3>1. ~Usable(flash, fchunk_idx) /\ flash' = flash /\ fchunk_idx' = fchunk_idx + 1
      BY <1>4, <2>3 DEF ClearDone, LInv, Layout
    <3>2. Erased(fchunk_idx + 1) /\ Behind(fchunk_idx + 1) /\ Ahead(fchunk_idx + 1)
      BY <2>1, <3>1, <1>a DEF Behind, Ahead, Chunk
    <3>3. Filled(fchunk_idx + 1, 0)
      BY <2>1, <3>2, ErasedFilled
    <3>4. Behind(fchunk_idx)' /\ Ahead(fchunk_idx)' /\ Filled(fchunk_idx, 0)'
      BY <3>1, <3>2, <3>3 DEF Behind, Ahead, Filled, Usable, Erased
    <3>5. Len(cchunk') = 0
      BY <1>4 DEF ClearDone
    <3> QED  BY <1>4, <2>3, <3>4, <3>5 DEF ClearDone, LInv, Layout, Recoverable, ErasedSoFar
  <2> QED  BY <2>2, <2>3
<1>5. ASSUME NEW c \in Chunk, EraseChunk(c) PROVE LInv'
  <2>1. \A d \in Chunk \ erasing' : Erased(d)'
    BY <1>5 DEF EraseChunk, TypeOK, LInv, ErasedSoFar, Erased
  <2> QED  BY <1>5, <2>1 DEF EraseChunk, LInv, Layout, Recoverable, ErasedSoFar
<1>6. CASE EraseDone
  BY <1>6, ErasedLayout DEF LInv
<1>7. ASSUME NEW s \in Segment, PushBack(s) PROVE LInv'
  BY <1>7, <1>c DEF PushBack
<1>8. CASE ProgramData
  <2>1. pc \in DataCell /\ pc \notin {"off", "erase", "marked", "ack"} /\ k < NMax
    BY <1>8 DEF ProgramData, DataCell, Control, PushPoints
  <2>2. Behind(fchunk_idx)' /\ Ahead(fchunk_idx)' /\ Filled(fchunk_idx, k)'
    BY <1>8, <1>a, <1>b, <2>1, ProgramDataLayout DEF ProgramData, Behind, Ahead, Filled
  <2>3. pc' \in {"steps", "direction", "attr"}
    BY <1>8 DEF ProgramData, NextPoint, DataCell
  <2> QED  BY <1>8, <1>a, <2>2, <2>3 DEF ProgramData, LInv, Layout, Recoverable, ErasedSoFar
<1>9. CASE PushAbort
  BY <1>9, <1>c DEF PushAbort
<1>10. CASE ProgramAttr
  <2>1. pc = "attr" /\ ~locked /\ ~pgerr /\ k < NMax
    BY <1>10 DEF ProgramAttr, Control, PushPoints
  <2>2. /\ Behind(fchunk_idx)' /\ Ahead(fchunk_idx)'
        /\ pgerr' => Filled(fchunk_idx, k)'
        /\ ~pgerr' => Filled(fchunk_idx, k + 1)'
    BY <1>10, <1>a, <1>b, <2>1, ProgramAttrLayout DEF ProgramAttr, Behind, Ahead, Filled
  <2> QED  BY <1>10, <1>a, <2>2 DEF ProgramAttr, LInv, Layout, Recoverable, ErasedSoFar
<1>11. CASE PushDone
  <2>1. /\ Behind(fchunk_idx) /\ Ahead(fchunk_idx)
        /\ Filled(fchunk_idx, IF pgerr THEN k ELSE k + 1)
    BY <1>11, <1>a DEF PushDone, LInv, Layout
  <2>2. Len(cchunk') = IF pgerr THEN k ELSE k + 1
    BY <1>11, SegmentAssumption DEF PushDone, TypeOK
  <2>3. Behind(fchunk_idx)' /\ Ahead(fchunk_idx)' /\ Filled(fchunk_idx, Len(cchunk))'
    BY <1>11, <2>1, <2>2 DEF PushDone, Behind, Ahead, Filled, Usable, Erased
  <2> QED  BY <1>11, <1>a, <2>2, <2>3 DEF PushDone, LInv, Layout, Recoverable, ErasedSoFar
<1>12a. CASE PowerLoss /\ pc = "erase"
  BY <1>12a DEF PowerLoss, LInv, Layout, Recoverable, ErasedSoFar
<1>12b. CASE PowerLoss /\ pc # "erase"
  <2>1. pc \notin {"off", "erase"}
    BY <1>12b, FaultAssumption DEF PowerLoss
  <2>2. Behind(fchunk_idx) /\ Ahead(fchunk_idx)
    BY <2>1 DEF LInv, Layout
  <2>3. \E c \in 0 .. NChunks : InUse(c)
    <3>1. CASE pc = "marked" /\ ~pgerr
      <4>1. fchunk_idx + 1 \in Chunk /\ fchunk_idx + 1 \in 0 .. NChunks
        BY <3>1 DEF Control, Chunk
      <4>2. ~Usable(flash, fchunk_idx)
        BY <3>1 DEF LInv, Layout
      <4>3. Behind(fchunk_idx + 1) /\ Ahead(fchunk_idx + 1) /\ Erased(fchunk_idx + 1)
        BY <2>2, <4>1, <4>2, <1>a DEF Behind, Ahead, Chunk
      <4>4. SomeFilled(fchunk_idx + 1)
        BY <4>1, <4>3, ErasedFilled DEF SomeFilled
      <4> QED  BY <4>1, <4>3, <4>4 DEF InUse
    <3>2. CASE ~(pc = "marked" /\ ~pgerr)
      <4>1. Filled(fchunk_idx, k + IF pc = "ack" /\ ~pgerr THEN 1 ELSE 0)
        BY <2>1, <3>2 DEF LInv, Layout
      <4>2. k + (IF pc = "ack" /\ ~pgerr THEN 1 ELSE 0) \in 0 .. NMax
        BY <1>a DEF Control, PushPoints
      <4>3. SomeFilled(fchunk_idx) /\ fchunk_idx \in 0 .. NChunks
        BY <4>1, <4>2, <1>a DEF SomeFilled, Chunk
      <4> QED  BY <2>2, <4>3 DEF InUse
    <3> QED  BY <3>1, <3>2
  <2>4. \A c : InUse(c)' <=> InUse(c)
    BY <1>12b DEF PowerLoss, InUse, SomeFilled, Behind, Ahead, Filled, Usable, Erased
  <2>5. Recoverable'
    BY <2>3, <2>4 DEF Recoverable
  <2> QED  BY <1>12b, <2>5 DEF PowerLoss, LInv, Layout, ErasedSoFar
<1>13. CASE UNCHANGED vars
  <2>1. \A c : InUse(c)' <=> InUse(c)
    BY <1>13 DEF vars, InUse, SomeFilled, Behind, Ahead, Filled, Usable, Erased
  <2>2. Recoverable'
    BY <1>13, <2>1 DEF vars, LInv, Recoverable
  <2>3. Layout' /\ ErasedSoFar'
    BY <1>13 DEF vars, LInv, Layout, ErasedSoFar, Behind, Ahead, Filled, Usable, Erased
  <2> QED  BY <2>2, <2>3 DEF LInv
<1> QED
  BY <1>1, <1>2, <1>3, <1>4, <1>5, <1>6, <1>7, <1>8, <1>9, <1>10, <1>11, <1>12a, <1>12b, <1>13
  DEF Next

(* In a sector an erasure cut short has spoiled, only what has been erased *)
(* since matters.                                                          *)
LEMMA SpoiledStep ==
  ASSUME ~intact, TypeOK, Control, LInv, [Next]_vars
  PROVE  LInv'
<1>1. CASE EraseDone
  BY <1>1, ErasedLayout DEF LInv
<1>2. ASSUME NEW c \in Chunk, EraseChunk(c) PROVE LInv'
  <2>1. \A d \in Chunk \ erasing' : Erased(d)'
    BY <1>2 DEF EraseChunk, TypeOK, LInv, ErasedSoFar, Erased
  <2> QED  BY <1>2, <2>1 DEF EraseChunk, LInv, Layout, Recoverable, ErasedSoFar
<1>3. CASE Boot
  BY <1>3 DEF Boot, LInv, Layout, Recoverable, ErasedSoFar
<1>4. CASE Clear
  BY <1>4 DEF Clear, LInv, Layout, Recoverable, ErasedSoFar
<1>5. CASE MarkDirty \/ ClearDone
  BY <1>5 DEF MarkDirty, ClearDone, LInv, Layout, Recoverable, ErasedSoFar
<1>6. ASSUME NEW s \in Segment, PushBack(s) PROVE LInv'
  BY <1>6 DEF PushBack, LInv, Layout, Recoverable, ErasedSoFar
<1>7. CASE ProgramData
  <2>1. pc' # "erase"
    BY <1>7 DEF ProgramData, NextPoint, DataCell
  <2> QED  BY <1>7, <2>1 DEF ProgramData, LInv, Layout, Recoverable, ErasedSoFar
<1>8. CASE PushAbort \/ ProgramAttr \/ PushDone \/ PowerLoss
  <2>1. ~intact' /\ pc' # "erase"
    <3>1. CASE PushAbort \/ ProgramAttr \/ PushDone
      BY <3>1 DEF PushAbort, ProgramAttr, PushDone
    <3>2. CASE PowerLoss
      BY <3>2 DEF PowerLoss
    <3> QED  BY <1>8, <3>1, <3>2
  <2> QED  BY <2>1 DEF LInv, Layout, Recoverable, ErasedSoFar
<1>9. CASE UNCHANGED vars
  BY <1>9 DEF vars, LInv, Layout, Recoverable, ErasedSoFar, Erased
<1> QED
  BY <1>1, <1>2, <1>3, <1>4, <1>5, <1>6, <1>7, <1>8, <1>9 DEF Next

(* The layout on which constructor, clear() and pushBack() rely is kept    *)
(* wherever power is lost and whatever the flash controller refuses, and   *)
(* once an erasure has been cut short it is restored by the next whole one.*)
THEOREM LayoutKept == Spec => []Layout
<1>1. Init => TypeOK /\ Control /\ LInv
  BY TypedInit, LayoutInit
<1>2. TypeOK /\ Control /\ LInv /\ [Next]_vars => (TypeOK /\ Control /\ LInv)'
  BY TypedStep, LayoutStep, SpoiledStep
<1>3. LInv => Layout
  BY DEF LInv
<1> QED  BY <1>1, <1>2, <1>3, PTL DEF Spec

(* clear() finds the next chunk erased, as its comment says, if no erasure *)
(* was cut short since the sector was last erased as a whole.              *)
THEOREM NextChunkIsErased == Spec => []NextChunkErased
<1>1. TypeOK /\ Control /\ Layout => NextChunkErased
  BY DEF TypeOK, Control, Layout, NextChunkErased, Ahead, Chunk
<1>2. Spec => [](TypeOK /\ Control)
  BY TypedInit, TypedStep, PTL DEF Spec
<1> QED  BY <1>1, <1>2, LayoutKept, PTL

-----------------------------------------------------------------------------
(* What a reboot would find.                                               *)

(* The chunk in use and its written entries determine it.                  *)
Determined ==
  \A c \in Chunk, k \in 0 .. NMax :
    Behind(c) /\ Filled(c, k) =>
      /\ FirstUsable(flash) = c /\ LoadCount(flash[c]) = k
      /\ Durable = [i \in 1 .. k |-> Data(flash[c][i])]

LEMMA Found == Determined
<1> SUFFICES ASSUME NEW c \in Chunk, NEW k \in 0 .. NMax, Behind(c), Filled(c, k)
             PROVE  /\ FirstUsable(flash) = c /\ LoadCount(flash[c]) = k
                    /\ Durable = [i \in 1 .. k |-> Data(flash[c][i])]
  BY DEF Determined
<1>1. FirstUsable(flash) = c  BY FilledUsable, ScanIs
<1>2. LoadCount(flash[c]) = k  BY LoadIs
<1> QED  BY <1>1, <1>2 DEF Durable, Load

LEMMA FoundNext == Determined'
  BY Found, PTL

(* The pattern is empty if there is no usable chunk, or the first one is   *)
(* erased.                                                                 *)
NoneUsable == \A d \in Chunk : ~Usable(flash, d)

Emptied ==
  /\ NoneUsable => Durable = <<>>
  /\ \A c \in Chunk : Behind(c) /\ Erased(c) => Durable = <<>>

LEMMA FoundNothing == Emptied
<1>1. NoneUsable => Durable = <<>>
  BY Scan DEF Durable, NoneUsable
<1>2. ASSUME NEW c \in Chunk, Behind(c), Erased(c) PROVE Durable = <<>>
  <2>1. Filled(c, 0) /\ 0 \in 0 .. NMax  BY <1>2, ErasedFilled, SectorAssumption
  <2>2. Durable = [i \in 1 .. 0 |-> Data(flash[c][i])]
    BY <1>2, <2>1, Found DEF Determined
  <2> QED  BY <2>2
<1> QED  BY <1>1, <1>2 DEF Emptied

LEMMA FoundNothingNext == Emptied'
  BY FoundNothing, PTL

LEMMA DurableType ==
  ASSUME TypeOK
  PROVE  Durable \in Seq([DataCell -> SUBSET Bit]) /\ Len(Durable) <= NMax
<1>1. CASE FirstUsable(flash) \in Chunk
  <2>1. LoadCount(flash[FirstUsable(flash)]) \in 0 .. NMax  BY LoadStops
  <2> QED  BY <1>1, <2>1, LoadType, SectorAssumption DEF Durable
<1>2. CASE FirstUsable(flash) \notin Chunk
  BY <1>2, EmptyPattern, SectorAssumption DEF Durable
<1> QED  BY <1>1, <1>2

(* Sequences that agree as long as the first one lasts.                    *)
LEMMA PrefixOf ==
  ASSUME NEW S, NEW s \in Seq(S), NEW t \in Seq(S), Len(s) <= Len(t),
         \A i \in 1 .. Len(s) : s[i] = t[i]
  PROVE  IsPrefix(s, t)
<1> DEFINE n == Len(s)
           a == SubSeq(s, 1, n)
           b == SubSeq(t, 1, n)
<1>1. n \in Nat /\ n - 1 + 1 = n /\ (1 <= n \/ n = 0)
  BY LenProperties
<1>2. \A i \in 1 .. n : s[i] \in S /\ t[i] \in S
  BY <1>1, ElementOfSeq, LenProperties
<1>3. /\ a \in Seq(S) /\ Len(a) = n /\ \A i \in 1 .. n : a[i] = s[i]
      /\ b \in Seq(S) /\ Len(b) = n /\ \A i \in 1 .. n : b[i] = t[i]
  <2>1. /\ a \in Seq(S) /\ Len(a) = IF 1 <= n THEN n - 1 + 1 ELSE 0
        /\ \A i \in 1 .. n - 1 + 1 : a[i] = s[1 + i - 1]
    BY <1>1, <1>2, SubSeqProperties
  <2>2. /\ b \in Seq(S) /\ Len(b) = IF 1 <= n THEN n - 1 + 1 ELSE 0
        /\ \A i \in 1 .. n - 1 + 1 : b[i] = t[1 + i - 1]
    BY <1>1, <1>2, SubSeqProperties
  <2> HIDE DEF a, b, n
  <2> QED  BY <1>1, <2>1, <2>2
<1> HIDE DEF a, b
<1>4. a = b  BY <1>3, SeqEqual
<1> QED  BY <1>4 DEF IsPrefix, a, b

LEMMA SamePrefix ==
  ASSUME TypeOK, Durable' = Durable
  PROVE  IsPrefix(Durable, Durable')
<1>1. Durable \in Seq([DataCell -> SUBSET Bit])  BY DurableType
<1>2. Len(Durable) \in Nat  BY <1>1, LenProperties
<1> QED  BY <1>1, <1>2, PrefixOf

-----------------------------------------------------------------------------
(* Nothing is lost.                                                        *)

(* While a whole sector is being erased, in whatever order, the chunks not *)
(* done yet are out of use but for the last one.                           *)
Spent == intact /\ pc = "erase" => \A d \in erasing : d < NChunks - 1 => ~Usable(flash, d)

LEMMA SpentStep ==
  ASSUME TypeOK, Control, LInv, Spent, [Next]_vars
  PROVE  Spent'
<1>1. CASE Boot
  <2>1. intact /\ pc' = "erase" => FirstUsable(flash) \notin Chunk /\ flash' = flash
    BY <1>1 DEF Boot
  <2>2. intact /\ pc' = "erase" => \A d \in Chunk : ~Usable(flash, d)
    BY <1>1, <2>1, Recovers DEF Boot, LInv
  <2> QED  BY <1>1, <2>1, <2>2 DEF Boot, Spent
<1>2. CASE Clear
  <2>1. intact /\ pc' = "erase" => Behind(NChunks - 1) /\ flash' = flash /\ erasing' = Chunk
    BY <1>2 DEF Clear, LInv, Layout
  <2> QED  BY <1>2, <2>1 DEF Clear, Spent, Behind
<1>3. ASSUME NEW c \in Chunk, EraseChunk(c) PROVE Spent'
  <2>1. \A d \in erasing' : flash'[d] = flash[d] /\ d \in erasing
    BY <1>3 DEF EraseChunk, TypeOK
  <2> QED  BY <1>3, <2>1 DEF EraseChunk, Spent, Usable
<1>4. ASSUME pc' # "erase" PROVE Spent'
  BY <1>4 DEF Spent
<1>5. CASE UNCHANGED vars
  BY <1>5 DEF vars, Spent
<1>6. CASE MarkDirty \/ ClearDone \/ EraseDone \/ PushAbort \/ ProgramAttr \/ PushDone \/ PowerLoss
  BY <1>4, <1>6 DEF MarkDirty, ClearDone, EraseDone, PushAbort, ProgramAttr, PushDone, PowerLoss
<1>7. CASE ProgramData
  BY <1>4, <1>7 DEF ProgramData, NextPoint, DataCell
<1>8. ASSUME NEW s \in Segment, PushBack(s) PROVE Spent'
  BY <1>4, <1>8 DEF PushBack
<1> QED  BY <1>1, <1>2, <1>3, <1>5, <1>6, <1>7, <1>8 DEF Next

(* As soon as one chunk is erased, a reboot finds an empty pattern.        *)
LEMMA ErasureEmpties ==
  ASSUME intact, TypeOK, LInv, Spent, NEW c \in Chunk, EraseChunk(c), LInv', Spent'
  PROVE  Durable' = <<>>
<1>0. PICK u : u = FirstUsable(flash')  OBVIOUS
<1>1. pc' = "erase" /\ intact' /\ c \notin erasing'
  BY DEF EraseChunk
<1>2. \A d \in Chunk \ erasing' : flash'[d] = [i \in Entry |-> BlankEntry]
  BY <1>1 DEF LInv, ErasedSoFar, Erased
<1>3. \A d \in Chunk \ erasing' : Usable(flash', d)
  <2>1. 1 \in Entry /\ "attr" \in Cell  BY SectorAssumption DEF Entry, Cell
  <2> QED  BY <1>2, <2>1, BitAssumption DEF Usable, BlankEntry, ERASED, DIRTY
<1>4. u \in 0 .. NChunks /\ (\A d \in Chunk : d < u => ~Usable(flash', d))
      /\ (u \in Chunk => Usable(flash', u))
  BY <1>0, Scan
<1>5. u \in Chunk /\ u <= c
  BY <1>1, <1>3, <1>4, SectorAssumption DEF Chunk
<1>6. u \notin erasing'
  <2> SUFFICES ASSUME u \in erasing' PROVE FALSE  OBVIOUS
  <2>1. ~(u < NChunks - 1)  BY <1>1, <1>4, <1>5 DEF Spent
  <2>2. u = c  BY <1>5, <2>1, SectorAssumption DEF Chunk
  <2> QED  BY <1>1, <2>2
<1>7. Behind(u)' /\ Erased(u)'
  BY <1>2, <1>4, <1>5, <1>6 DEF Behind, Erased
<1> QED  BY <1>5, <1>7, FoundNothingNext DEF Emptied

(* What each programming does to the pattern.                              *)
LEMMA DataKeeps ==
  ASSUME TypeOK, NEW c \in Chunk, NEW k \in 0 .. NMax, k < NMax,
         Behind(c), Ahead(c), Filled(c, k),
         NEW x \in DataCell, NEW bits, Program(c, k + 1, x, bits)
  PROVE  Durable' = Durable
<1>1. Behind(c)' /\ Filled(c, k)'  BY ProgramDataLayout
<1>2. \A i \in 1 .. k : flash'[c][i] = flash[c][i]
  <2>1. \A i \in 1 .. k : i \in Entry /\ i # k + 1  BY SectorAssumption DEF Entry
  <2> QED  BY <2>1 DEF Program, TypeOK
<1>3. Durable = [i \in 1 .. k |-> Data(flash[c][i])]
  BY Found DEF Determined
<1>4. Durable' = [i \in 1 .. k |-> Data(flash'[c][i])]
  BY <1>1, FoundNext DEF Determined
<1> QED  BY <1>2, <1>3, <1>4

LEMMA AttrAppends ==
  ASSUME TypeOK, NEW c \in Chunk, NEW k \in 0 .. NMax, k < NMax,
         Behind(c), Ahead(c), Filled(c, k), ~locked, ~pgerr,
         Program(c, k + 1, "attr", WRITTEN)
  PROVE  IF pgerr' THEN Durable' = Durable
                   ELSE Durable' = Append(Durable, Data(flash[c][k + 1]))
<1>1. CASE pgerr'
  <2>1. flash' = flash  BY <1>1, ProgramAttrLayout
  <2> QED  BY <1>1, <2>1 DEF Durable
<1>2. CASE ~pgerr'
  <2>1. Behind(c)' /\ Filled(c, k + 1)' /\ k + 1 \in 0 .. NMax
    BY <1>2, ProgramAttrLayout, SectorAssumption
  <2>2. \A i \in 1 .. k + 1 : Data(flash'[c][i]) = Data(flash[c][i])
    <3>1. \A i \in 1 .. k + 1 : i \in Entry  BY SectorAssumption DEF Entry
    <3>2. \A i \in Entry : \A x \in DataCell : flash'[c][i][x] = flash[c][i][x]
      BY DEF Program, TypeOK, DataCell, Cell
    <3> QED  BY <3>1, <3>2 DEF Data
  <2> DEFINE D == [i \in 1 .. k |-> Data(flash[c][i])]
             E == [i \in 1 .. k + 1 |-> Data(flash[c][i])]
             S == [DataCell -> SUBSET Bit]
  <2>3. Durable = D  BY Found DEF Determined
  <2>4. Durable' = E
    <3>1. Durable' = [i \in 1 .. k + 1 |-> Data(flash'[c][i])]
      BY <2>1, FoundNext DEF Determined
    <3> QED  BY <2>2, <3>1
  <2>5. \A i \in 1 .. k + 1 : Data(flash[c][i]) \in S
    <3>1. \A i \in 1 .. k + 1 : i \in Entry  BY SectorAssumption DEF Entry
    <3> QED  BY <3>1 DEF TypeOK, Data, Cell
  <2>6. D \in Seq(S) /\ Len(D) = k /\ E \in Seq(S) /\ Len(E) = k + 1
    <3> HIDE DEF S
    <3>1. k \in Nat /\ k + 1 \in Nat  BY SectorAssumption
    <3> QED  BY <2>5, <3>1
  <2>7. E = Append(D, Data(flash[c][k + 1]))
    <3> DEFINE A == Append(D, Data(flash[c][k + 1]))
    <3>1. k + 1 \in 1 .. k + 1 /\ Data(flash[c][k + 1]) \in S  BY <2>5, SectorAssumption
    <3> HIDE DEF S
    <3>2. A \in Seq(S) /\ Len(A) = k + 1 /\ A[k + 1] = Data(flash[c][k + 1])
          /\ \A i \in 1 .. k : A[i] = D[i]
      <4> HIDE DEF D
      <4> QED  BY <2>6, <3>1, AppendProperties
    <3>3. \A i \in 1 .. k : D[i] = Data(flash[c][i])  OBVIOUS
    <3>4. \A i \in 1 .. k + 1 : E[i] = Data(flash[c][i])  OBVIOUS
    <3> HIDE DEF A, D, E
    <3>5. \A i \in 1 .. k + 1 : i = k + 1 \/ i \in 1 .. k  BY SectorAssumption
    <3>6. \A i \in 1 .. k : i \in 1 .. k + 1  BY SectorAssumption
    <3>7. \A i \in 1 .. k + 1 : E[i] = A[i]  BY <3>2, <3>3, <3>4, <3>5, <3>6
    <3>8. E = A  BY <2>6, <3>2, <3>7, SeqEqual
    <3> QED  BY <3>8 DEF A
  <2> QED  BY <1>2, <2>3, <2>4, <2>7
<1> QED  BY <1>1, <1>2

LEMMA MarkEmpties ==
  ASSUME TypeOK, NEW c \in Chunk, c + 1 \in Chunk, NEW k \in 0 .. NMax,
         Behind(c), Ahead(c), Filled(c, k), ~locked, ~pgerr,
         Program(c, 1, "attr", DIRTY)
  PROVE  IF pgerr' THEN Durable' = Durable ELSE Durable' = <<>>
<1>1. CASE pgerr'
  <2>1. flash' = flash  BY <1>1, FaultAssumption DEF Program
  <2> QED  BY <1>1, <2>1 DEF Durable
<1>2. CASE ~pgerr'
  <2>1. Behind(c)' /\ Ahead(c)' /\ ~Usable(flash', c)
    BY <1>2, MarkLayout
  <2>2. Behind(c + 1)' /\ Erased(c + 1)'
    BY <2>1, SectorAssumption DEF Behind, Ahead, Chunk
  <2> QED  BY <1>2, <2>2, FoundNothingNext DEF Emptied
<1> QED  BY <1>1, <1>2

NothingLostInv == TypeOK /\ Control /\ LInv /\ Spent

LEMMA NothingLostInvariant == Spec => []NothingLostInv
<1>1. Init => NothingLostInv
  <2>1. Init => Spent  BY DEF Init, Spent
  <2> QED  BY <2>1, TypedInit, LayoutInit DEF NothingLostInv
<1>2. NothingLostInv /\ [Next]_vars => NothingLostInv'
  BY TypedStep, LayoutStep, SpoiledStep, SpentStep DEF NothingLostInv
<1> QED  BY <1>1, <1>2, PTL DEF Spec

(* What the programming steps do, where the layout holds.                  *)
LEMMA InChunk ==
  ASSUME intact, NothingLostInv
  PROVE  /\ Len(cchunk) \in 0 .. NMax /\ fchunk_idx \in Chunk
         /\ pc \in {"mark", "attr"} \cup DataCell =>
              Behind(fchunk_idx) /\ Ahead(fchunk_idx) /\ Filled(fchunk_idx, Len(cchunk))
<1>1. Len(cchunk) \in 0 .. NMax /\ fchunk_idx \in Chunk
  BY SectorAssumption DEF NothingLostInv, TypeOK
<1>2. Len(cchunk) + 0 = Len(cchunk)
  BY <1>1
<1> QED  BY <1>1, <1>2 DEF NothingLostInv, LInv, Layout, DataCell

LEMMA Marks ==
  ASSUME intact, NothingLostInv, MarkDirty
  PROVE  /\ IF pgerr' THEN Durable' = Durable ELSE Durable' = <<>>
         /\ fchunk_idx + 1 \in Chunk
         /\ Behind(fchunk_idx)' /\ Ahead(fchunk_idx)'
         /\ ~pgerr' => ~Usable(flash', fchunk_idx)
<1> DEFINE k == Len(cchunk)
<1>1. /\ fchunk_idx + 1 \in Chunk /\ ~locked /\ ~pgerr
      /\ pc = "mark" /\ Program(fchunk_idx, 1, "attr", DIRTY) /\ fchunk_idx' = fchunk_idx
  BY DEF MarkDirty, Control, NothingLostInv
<1>2. /\ Behind(fchunk_idx) /\ Ahead(fchunk_idx) /\ Filled(fchunk_idx, k)
      /\ k \in 0 .. NMax /\ fchunk_idx \in Chunk /\ TypeOK
  BY <1>1, InChunk DEF NothingLostInv
<1> HIDE DEF k
<1>3. IF pgerr' THEN Durable' = Durable ELSE Durable' = <<>>
  BY <1>1, <1>2, MarkEmpties
<1>4. PICK c \in Chunk : c = fchunk_idx
  BY <1>2
<1>5. Behind(c)' /\ Ahead(c)' /\ (~pgerr' => ~Usable(flash', c))
  BY <1>1, <1>2, <1>4, MarkLayout
<1>6. Behind(fchunk_idx)' /\ Ahead(fchunk_idx)'
  BY <1>1, <1>4, <1>5 DEF Behind, Ahead, Erased
<1> QED  BY <1>1, <1>3, <1>4, <1>5, <1>6

LEMMA Programs ==
  ASSUME intact, NothingLostInv, ProgramData
  PROVE  /\ Durable' = Durable
         /\ Len(cchunk) < NMax
         /\ Behind(fchunk_idx) /\ Filled(fchunk_idx, Len(cchunk))
         /\ ~locked
<1> DEFINE k == Len(cchunk)
<1>1. pc \in DataCell /\ pc \in PushPoints /\ pc \notin {"off", "ready"} /\ TypeOK /\ Control
  BY DEF ProgramData, PushPoints, DataCell, NothingLostInv
<1>2. k < NMax /\ ~locked /\ Program(fchunk_idx, k + 1, pc, arg[pc])
  BY <1>1 DEF ProgramData, Control
<1>3. /\ Behind(fchunk_idx) /\ Ahead(fchunk_idx) /\ Filled(fchunk_idx, k)
      /\ k \in 0 .. NMax /\ fchunk_idx \in Chunk
  BY <1>1, InChunk
<1> HIDE DEF k
<1>4. Durable' = Durable
  BY <1>1, <1>2, <1>3, DataKeeps
<1> QED  BY <1>2, <1>3, <1>4 DEF k

LEMMA Appends ==
  ASSUME intact, NothingLostInv, ProgramAttr
  PROVE  /\ IF pgerr' THEN Durable' = Durable
                       ELSE Durable' = Append(Durable, Data(flash[fchunk_idx][Len(cchunk) + 1]))
         /\ Len(cchunk) < NMax /\ Len(cchunk) + 1 \in Entry
         /\ ~pgerr' => Behind(fchunk_idx)' /\ Filled(fchunk_idx, Len(cchunk) + 1)'
         /\ Filled(fchunk_idx, Len(cchunk))
<1> DEFINE k == Len(cchunk)
<1>1. pc = "attr" /\ pc \in PushPoints /\ pc \notin {"off", "ready"} /\ ~pgerr /\ TypeOK /\ Control
  BY DEF ProgramAttr, PushPoints, NothingLostInv
<1>2. /\ k < NMax /\ ~locked /\ Program(fchunk_idx, k + 1, "attr", WRITTEN)
      /\ cchunk' = cchunk /\ fchunk_idx' = fchunk_idx
  BY <1>1 DEF ProgramAttr, Control
<1>3. /\ Behind(fchunk_idx) /\ Ahead(fchunk_idx) /\ Filled(fchunk_idx, k)
      /\ k \in 0 .. NMax /\ fchunk_idx \in Chunk
  BY <1>1, InChunk
<1>4. k + 1 \in Entry
  BY <1>2, <1>3, SectorAssumption DEF Entry
<1>5. PICK c \in Chunk, n \in 0 .. NMax : c = fchunk_idx /\ n = k
  BY <1>3
<1>6. IF pgerr' THEN Durable' = Durable ELSE Durable' = Append(Durable, Data(flash[c][n + 1]))
  <2> HIDE DEF k
  <2> QED  BY <1>1, <1>2, <1>3, <1>5, AttrAppends
<1>7. ~pgerr' => Behind(c)' /\ Filled(c, n + 1)'
  <2> HIDE DEF k
  <2> QED  BY <1>1, <1>2, <1>3, <1>5, ProgramAttrLayout
<1>8. ~pgerr' => Behind(fchunk_idx)' /\ Filled(fchunk_idx, k + 1)'
  BY <1>2, <1>5, <1>7 DEF Behind, Filled
<1> QED  BY <1>2, <1>3, <1>4, <1>5, <1>6, <1>8

LEMMA LosesNothing ==
  ASSUME intact, NothingLostInv, NothingLostInv', [Next]_vars
  PROVE  IsPrefix(Durable, Durable') \/ (pc \in {"mark", "erase"} /\ Durable' = <<>>)
<1>a. TypeOK
  BY DEF NothingLostInv
<1>b. ASSUME flash' = flash PROVE IsPrefix(Durable, Durable')
  <2>1. Durable' = Durable  BY <1>b DEF Durable
  <2> QED  BY <1>a, <2>1, SamePrefix
<1>1. CASE MarkDirty
  BY <1>a, <1>1, Marks, SamePrefix DEF MarkDirty
<1>2. ASSUME NEW c \in Chunk, EraseChunk(c) PROVE pc = "erase" /\ Durable' = <<>>
  BY <1>2, ErasureEmpties DEF EraseChunk, NothingLostInv
<1>3. CASE ProgramData
  BY <1>a, <1>3, Programs, SamePrefix
<1>4. CASE ProgramAttr
  <2> DEFINE e == Data(flash[fchunk_idx][Len(cchunk) + 1])
             S == [DataCell -> SUBSET Bit]
  <2>1. e \in S
    <3>1. Len(cchunk) + 1 \in Entry /\ fchunk_idx \in Chunk  BY <1>4, Appends, InChunk
    <3> QED  BY <1>a, <3>1 DEF TypeOK, Data, Cell
  <2>2. Durable' = Durable \/ Durable' = Append(Durable, e)
    BY <1>4, Appends
  <2>3. Durable \in Seq(S)  BY <1>a, DurableType
  <2> HIDE DEF e, S
  <2>4. ASSUME Durable' = Append(Durable, e) PROVE IsPrefix(Durable, Durable')
    <3>1. /\ Durable' \in Seq(S) /\ Len(Durable') = Len(Durable) + 1
          /\ \A i \in 1 .. Len(Durable) : Durable'[i] = Durable[i]
      BY <2>1, <2>3, <2>4, AppendProperties
    <3>2. Len(Durable) \in Nat  BY <2>3, LenProperties
    <3> QED  BY <2>3, <3>1, <3>2, PrefixOf
  <2> QED  BY <1>a, <2>2, <2>4, SamePrefix
<1>5. CASE Boot \/ Clear \/ ClearDone \/ EraseDone \/ PushAbort \/ PushDone \/ PowerLoss
  BY <1>5, <1>b DEF Boot, Clear, ClearDone, EraseDone, PushAbort, PushDone, PowerLoss
<1>6. ASSUME NEW s \in Segment, PushBack(s) PROVE IsPrefix(Durable, Durable')
  BY <1>6, <1>b DEF PushBack
<1>7. CASE UNCHANGED vars
  BY <1>7, <1>b DEF vars
<1> QED  BY <1>1, <1>2, <1>3, <1>4, <1>5, <1>6, <1>7 DEF Next

(* No segment that a reboot would find is lost or altered by a later step, *)
(* of any call, power loss or refusal, but by the two that clear the       *)
(* pattern, and those leave nothing of it.                                 *)
THEOREM NothingIsLost == Spec => NothingLost
<1>1. NothingLostInv /\ NothingLostInv' /\ [Next]_vars =>
        [\/ ~intact
         \/ IsPrefix(Durable, Durable')
         \/ pc \in {"mark", "erase"} /\ Durable' = <<>>]_vars
  BY LosesNothing
<1> QED  BY <1>1, NothingLostInvariant, PTL DEF Spec, NothingLost

-----------------------------------------------------------------------------
(* Until a fault the pattern is a PatternStore.                            *)

(* The entry behind the pattern is untouched between two calls, and in a   *)
(* pushBack holds the cells programmed so far: programming only clears     *)
(* bits, so that anything else there would spoil the next segment.         *)
Fresh ==
  \A c \in Chunk, k \in 0 .. NMax :
    Behind(c) /\ Filled(c, k) /\ k < NMax => flash[c][k + 1] = BlankEntry

Programmed == [steps     |-> {"milli_rev_per_minute"},
               direction |-> {"milli_rev_per_minute", "steps"},
               attr      |-> DataCell]

InProgress ==
  pc \in TornPoints =>
    /\ \A x \in Programmed[pc] : flash[fchunk_idx][Len(cchunk) + 1][x] = arg[x]
    /\ \A x \in DataCell \ Programmed[pc] : flash[fchunk_idx][Len(cchunk) + 1][x] = ERASED

(* What a reboot would find, by the point a call has reached.              *)
Stored ==
  /\ pc \in {"ready", "mark", "attr"} \cup DataCell => Durable = cchunk
  /\ pc = "marked" => Durable = <<>>
  /\ pc = "ack" => Durable = Append(cchunk, arg)

Faultless == intact /\ ~pgerr /\ Stored /\ InProgress /\ (pc \notin TornPoints \cup {"erase"} => Fresh)

StoreInv == faulty \in BOOLEAN /\ (~faulty => Faultless)

StatusIs ==
  /\ pc = "off" => Status = "off"
  /\ pc = "ready" => Status = "ready"
  /\ pc \notin {"off", "ready"} => Status = "busy"

LEMMA StatusOf == StatusIs
  BY DEF StatusIs, Status

LEMMA StatusOfNext == StatusIs'
  BY StatusOf, PTL

FreshAt ==
  /\ \A c \in Chunk, k \in 0 .. NMax :
       Behind(c) /\ Filled(c, k) /\ (k < NMax => flash[c][k + 1] = BlankEntry) => Fresh
  /\ \A c \in Chunk : Behind(c) /\ Erased(c) => Fresh

LEMMA FreshBehind == FreshAt
<1>1. ASSUME NEW c \in Chunk, NEW k \in 0 .. NMax,
             Behind(c), Filled(c, k), k < NMax => flash[c][k + 1] = BlankEntry
      PROVE  Fresh
  <2> SUFFICES ASSUME NEW d \in Chunk, NEW n \in 0 .. NMax, Behind(d), Filled(d, n), n < NMax
               PROVE  flash[d][n + 1] = BlankEntry
    BY DEF Fresh
  <2>1. d = c  BY <1>1, Found DEF Determined
  <2>2. n = k  BY <1>1, <2>1, Found DEF Determined
  <2> QED  BY <1>1, <2>1, <2>2
<1>2. ASSUME NEW c \in Chunk, Behind(c), Erased(c) PROVE Fresh
  <2>1. Filled(c, 0) /\ 0 \in 0 .. NMax  BY <1>2, ErasedFilled, SectorAssumption
  <2>2. flash[c][0 + 1] = BlankEntry  BY <1>2, SectorAssumption DEF Erased, Entry
  <2> QED  BY <1>1, <1>2, <2>1, <2>2
<1> QED  BY <1>1, <1>2 DEF FreshAt

LEMMA FreshBehindNext == FreshAt'
  BY FreshBehind, PTL

LEMMA SamePattern ==
  ASSUME flash' = flash
  PROVE  Durable' = Durable /\ (Fresh' <=> Fresh)
  BY DEF Durable, Fresh, Behind, Filled, Usable

(* A power on, and the start and the end of a call.                        *)
LEMMA BootStores ==
  ASSUME Faultless, Boot
  PROVE  Faultless' /\ Store!Next
<1>1. /\ pc = "off" /\ flash' = flash /\ intact' /\ ~pgerr' /\ Fresh
      /\ Durable' = Durable /\ Fresh'
  BY SamePattern DEF Boot, Faultless, TornPoints
<1>2. CASE FirstUsable(flash) \in Chunk
  <2>1. pc' = "ready" /\ cchunk' = Durable
    BY <1>2 DEF Boot, Durable
  <2>2. Faultless'
    BY <1>1, <2>1 DEF Faultless, Stored, InProgress, TornPoints
  <2>3. Status = "off" /\ Status' = "ready"
    BY <1>1, <2>1, StatusOf, StatusOfNext DEF StatusIs
  <2>4. Store!Ready
    BY <1>1, <2>1, <2>3 DEF Store!Ready
  <2> QED  BY <2>2, <2>4 DEF Store!Next
<1>3. CASE FirstUsable(flash) \notin Chunk
  <2>1. pc' = "erase" /\ cchunk' = cchunk
    BY <1>3 DEF Boot
  <2>2. Faultless'
    BY <1>1, <2>1 DEF Faultless, Stored, InProgress, TornPoints, DataCell
  <2>3. Status = "off" /\ Status' = "busy"
    BY <1>1, <2>1, StatusOf, StatusOfNext DEF StatusIs
  <2>4. Store!Begin
    BY <1>1, <2>1, <2>3 DEF Store!Begin
  <2> QED  BY <2>2, <2>4 DEF Store!Next
<1> QED  BY <1>2, <1>3

LEMMA CallStores ==
  ASSUME Faultless, Clear \/ \E s \in Segment : PushBack(s)
  PROVE  Faultless' /\ Store!Next
<1>0. /\ pc = "ready" /\ flash' = flash /\ cchunk' = cchunk /\ intact' = intact /\ pgerr' = pgerr
      /\ pc' \in {"mark", "erase", "milli_rev_per_minute"}
  <2>1. CASE Clear  BY <2>1 DEF Clear
  <2>2. ASSUME NEW s \in Segment, PushBack(s) 
        PROVE  /\ pc = "ready" /\ flash' = flash /\ cchunk' = cchunk /\ intact' = intact /\ pgerr' = pgerr
               /\ pc' = "milli_rev_per_minute"
    BY <2>2 DEF PushBack
  <2> QED  BY <2>1, <2>2
<1>1. Durable = cchunk /\ Fresh /\ Durable' = Durable /\ Fresh' /\ intact' /\ ~pgerr'
  BY <1>0, SamePattern DEF Faultless, Stored, TornPoints
<1>2. Faultless'
  BY <1>0, <1>1 DEF Faultless, Stored, InProgress, TornPoints, DataCell
<1>3. Status = "ready" /\ Status' = "busy"
  BY <1>0, StatusOf, StatusOfNext DEF StatusIs
<1>4. Store!Begin
  BY <1>0, <1>1, <1>3 DEF Store!Begin
<1> QED  BY <1>2, <1>4 DEF Store!Next

LEMMA ReturnStores ==
  ASSUME NothingLostInv, Faultless, ClearDone \/ EraseDone \/ PushDone
  PROVE  Faultless' /\ Store!Next
<1>1. CASE ClearDone
  <2>1. /\ pc = "marked" /\ pc' = "ready" /\ flash' = flash /\ cchunk' = <<>> /\ intact' /\ ~pgerr'
        /\ Durable = <<>> /\ Durable' = Durable /\ Fresh'
    BY <1>1, SamePattern DEF ClearDone, Faultless, Stored, TornPoints
  <2>2. Faultless'
    BY <2>1 DEF Faultless, Stored, InProgress, TornPoints
  <2>3. Status = "busy" /\ Status' = "ready"
    BY <2>1, StatusOf, StatusOfNext DEF StatusIs
  <2>4. Store!Ready
    BY <2>1, <2>3 DEF Store!Ready
  <2> QED  BY <2>2, <2>4 DEF Store!Next
<1>2. CASE EraseDone
  <2>1. /\ pc = "erase" /\ pc' = "ready" /\ flash' = flash /\ cchunk' = <<>> /\ intact' /\ ~pgerr'
        /\ Durable' = Durable /\ (Fresh' <=> Fresh)
    BY <1>2, SamePattern DEF EraseDone, Faultless
  <2>2. 0 \in Chunk /\ Behind(0) /\ Erased(0)
    BY <1>2, SectorAssumption DEF EraseDone, NothingLostInv, LInv, ErasedSoFar, Behind, Chunk
  <2>3. Durable = <<>> /\ Fresh
    BY <2>2, FoundNothing, FreshBehind DEF Emptied, FreshAt
  <2>4. Faultless'
    BY <2>1, <2>3 DEF Faultless, Stored, InProgress, TornPoints
  <2>5. Status = "busy" /\ Status' = "ready"
    BY <2>1, StatusOf, StatusOfNext DEF StatusIs
  <2>6. Store!Ready
    BY <2>1, <2>3, <2>5 DEF Store!Ready
  <2> QED  BY <2>4, <2>6 DEF Store!Next
<1>3. CASE PushDone
  <2>1. /\ pc = "ack" /\ pc' = "ready" /\ flash' = flash /\ cchunk' = Append(cchunk, arg)
        /\ intact' /\ ~pgerr'
        /\ Durable = Append(cchunk, arg) /\ Durable' = Durable /\ Fresh'
    BY <1>3, SamePattern DEF PushDone, Faultless, Stored, TornPoints
  <2>2. Faultless'
    BY <2>1 DEF Faultless, Stored, InProgress, TornPoints
  <2>3. Status = "busy" /\ Status' = "ready"
    BY <2>1, StatusOf, StatusOfNext DEF StatusIs
  <2>4. Store!Ready
    BY <2>1, <2>3 DEF Store!Ready
  <2> QED  BY <2>2, <2>4 DEF Store!Next
<1> QED  BY <1>1, <1>2, <1>3

(* The flash operations: a mark, one chunk of an erasure, a data cell, an  *)
(* attribute.                                                              *)
LEMMA MarkStores ==
  ASSUME NothingLostInv, NothingLostInv', Faultless, MarkDirty, ~pgerr'
  PROVE  Faultless' /\ Store!Next
<1>1. /\ pc = "mark" /\ pc' = "marked" /\ cchunk' = cchunk /\ intact' = intact
      /\ fchunk_idx' = fchunk_idx
  BY DEF MarkDirty
<1>2. intact /\ ~pgerr
  BY DEF Faultless
<1>3. /\ Durable' = <<>> /\ fchunk_idx + 1 \in Chunk
      /\ Behind(fchunk_idx)' /\ Ahead(fchunk_idx)' /\ ~Usable(flash', fchunk_idx)
  BY <1>2, Marks
<1>4. Fresh'
  <2>1. PICK c \in Chunk : c = fchunk_idx
    BY <1>2, InChunk
  <2>2. Behind(c)' /\ Ahead(c)'
    BY <1>1, <1>3, <2>1 DEF Behind, Ahead, Erased
  <2>3. c + 1 \in Chunk /\ Behind(c + 1)' /\ Erased(c + 1)'
    BY <1>3, <2>1, <2>2, SectorAssumption DEF Behind, Ahead, Chunk
  <2> QED  BY <2>3, FreshBehindNext DEF FreshAt
<1>5. Faultless'
  BY <1>1, <1>2, <1>3, <1>4 DEF Faultless, Stored, InProgress, TornPoints, DataCell
<1>6. Status = "busy" /\ Status' = "busy"
  BY <1>1, StatusOf, StatusOfNext DEF StatusIs
<1>7. Store!Clear
  BY <1>1, <1>3, <1>6 DEF Store!Clear
<1> QED  BY <1>5, <1>7 DEF Store!Next

LEMMA EraseStores ==
  ASSUME NothingLostInv, NothingLostInv', Faultless, NEW c \in Chunk, EraseChunk(c)
  PROVE  Faultless' /\ Store!Next
<1>1. /\ pc = "erase" /\ pc' = "erase" /\ cchunk' = cchunk /\ intact' = intact /\ pgerr' = pgerr
  BY DEF EraseChunk
<1>2. Durable' = <<>>
  BY ErasureEmpties DEF NothingLostInv, Faultless
<1>3. Faultless'
  BY <1>1 DEF Faultless, Stored, InProgress, TornPoints, DataCell
<1>4. Status = "busy" /\ Status' = "busy"
  BY <1>1, StatusOf, StatusOfNext DEF StatusIs
<1>5. Store!Clear
  BY <1>1, <1>2, <1>4 DEF Store!Clear
<1> QED  BY <1>3, <1>5 DEF Store!Next

LEMMA DataStores ==
  ASSUME NothingLostInv, Faultless, ProgramData, ~pgerr'
  PROVE  Faultless' /\ UNCHANGED Store!vars
<1> DEFINE k == Len(cchunk)
           done == IF pc = "milli_rev_per_minute" THEN {} ELSE Programmed[pc]
<1>1. /\ pc \in DataCell /\ pc' = NextPoint[pc] /\ cchunk' = cchunk /\ intact' = intact
      /\ fchunk_idx' = fchunk_idx /\ arg' = arg /\ Program(fchunk_idx, k + 1, pc, arg[pc])
  BY DEF ProgramData
<1>2. intact /\ ~pgerr /\ TypeOK
  BY DEF Faultless, NothingLostInv
<1>3. /\ Durable' = Durable /\ k < NMax /\ Behind(fchunk_idx) /\ Filled(fchunk_idx, k) /\ ~locked
      /\ k \in 0 .. NMax /\ fchunk_idx \in Chunk
  BY <1>2, Programs, InChunk
<1>4. pc' \in TornPoints /\ Programmed[pc'] = done \cup {pc}
  <2>1. pc \in {"milli_rev_per_minute", "steps", "direction"}  BY <1>1 DEF DataCell
  <2> QED  BY <1>1, <2>1 DEF NextPoint, TornPoints, Programmed, DataCell
<1>5. \A x \in DataCell : flash[fchunk_idx][k + 1][x] = IF x \in done THEN arg[x] ELSE ERASED
  <2>1. CASE pc = "milli_rev_per_minute"
    <3>1. Fresh  BY <2>1 DEF Faultless, TornPoints
    <3>2. flash[fchunk_idx][k + 1] = BlankEntry  BY <1>3, <3>1 DEF Fresh
    <3> QED  BY <2>1, <3>2 DEF BlankEntry, Cell
  <2>2. CASE pc # "milli_rev_per_minute"
    <3>1. pc \in TornPoints /\ done = Programmed[pc]
      BY <1>1, <2>2 DEF TornPoints, DataCell
    <3>2. InProgress  BY DEF Faultless
    <3> HIDE DEF done
    <3> QED  BY <3>1, <3>2 DEF InProgress
  <2> QED  BY <2>1, <2>2
<1>6. k + 1 \in Entry
  BY <1>3, SectorAssumption DEF Entry
<1>7. flash' = [flash EXCEPT ![fchunk_idx][k + 1][pc] = @ \cap arg[pc]]
  BY <1>1, <1>3 DEF Program
<1>8. \A x \in DataCell : flash'[fchunk_idx][k + 1][x] =
        IF x = pc THEN flash[fchunk_idx][k + 1][x] \cap arg[pc] ELSE flash[fchunk_idx][k + 1][x]
  <2>1. pc \in Cell /\ \A x \in DataCell : x \in Cell  BY <1>1 DEF Cell
  <2> HIDE DEF k
  <2> QED  BY <1>2, <1>3, <1>6, <1>7, <2>1 DEF TypeOK
<1>9. arg[pc] \subseteq Bit /\ pc \notin done
  <2>1. arg \in [DataCell -> SUBSET Bit]  BY <1>2, SegmentAssumption DEF TypeOK
  <2>2. pc \in {"milli_rev_per_minute", "steps", "direction"}  BY <1>1 DEF DataCell
  <2>3. pc \notin done  BY <2>2 DEF Programmed
  <2> QED  BY <1>1, <2>1, <2>3
<1> HIDE DEF k, done
<1>10. \A x \in DataCell : flash'[fchunk_idx][k + 1][x] =
         IF x \in done \cup {pc} THEN arg[x] ELSE ERASED
  <2> TAKE x \in DataCell
  <2>1. CASE x = pc
    <3>1. flash'[fchunk_idx][k + 1][x] = ERASED \cap arg[x]  BY <1>5, <1>8, <1>9, <2>1
    <3> QED  BY <1>9, <2>1, <3>1 DEF ERASED
  <2>2. CASE x # pc
    <3>1. flash'[fchunk_idx][k + 1][x] = flash[fchunk_idx][k + 1][x]  BY <1>8, <2>2
    <3> QED  BY <1>5, <2>2, <3>1
  <2> QED  BY <2>1, <2>2
<1>11. InProgress'
  <2>1. Len(cchunk') = k  BY <1>1 DEF k
  <2>2. done \cup {pc} \subseteq DataCell
    BY <1>1 DEF done, Programmed, DataCell
  <2> QED  BY <1>1, <1>4, <1>10, <2>1, <2>2 DEF InProgress
<1>12. Stored'
  <2>1. pc' \in {"steps", "direction", "attr"} /\ Durable = cchunk
    BY <1>1, <1>4 DEF TornPoints, Faultless, Stored
  <2> QED  BY <1>1, <1>3, <2>1 DEF Stored
<1>13. Faultless'
  BY <1>1, <1>2, <1>4, <1>11, <1>12 DEF Faultless
<1>14. Status = "busy" /\ Status' = "busy"
  BY <1>1, <1>4, StatusOf, StatusOfNext DEF StatusIs, DataCell, TornPoints
<1> QED  BY <1>1, <1>3, <1>13, <1>14 DEF Store!vars

LEMMA AttrStores ==
  ASSUME NothingLostInv, Faultless, ProgramAttr, ~pgerr'
  PROVE  Faultless' /\ Store!Next
<1> DEFINE k == Len(cchunk)
           e == flash[fchunk_idx][k + 1]
<1>1. /\ pc = "attr" /\ pc' = "ack" /\ cchunk' = cchunk /\ intact' = intact /\ arg' = arg
      /\ fchunk_idx' = fchunk_idx /\ Program(fchunk_idx, k + 1, "attr", WRITTEN)
  BY DEF ProgramAttr
<1>2. intact /\ ~pgerr /\ TypeOK /\ InProgress /\ Durable = cchunk
  BY <1>1 DEF Faultless, NothingLostInv, Stored
<1>3. /\ k < NMax /\ k + 1 \in Entry /\ k \in 0 .. NMax /\ fchunk_idx \in Chunk
      /\ Durable' = Append(Durable, Data(e))
      /\ Behind(fchunk_idx)' /\ Filled(fchunk_idx, k + 1)' /\ Filled(fchunk_idx, k)
  BY <1>2, Appends, InChunk
<1>4. Data(e) = arg
  <2>1. \A x \in DataCell : e[x] = arg[x]
    BY <1>1, <1>2 DEF InProgress, TornPoints, Programmed
  <2>2. arg \in [DataCell -> SUBSET Bit]  BY <1>2, SegmentAssumption DEF TypeOK
  <2> HIDE DEF e
  <2> QED  BY <2>1, <2>2 DEF Data
<1>5. Durable' = Append(cchunk, arg)
  BY <1>2, <1>3, <1>4
<1> HIDE DEF e, k
<1>6. Fresh'
  <2>1. PICK c \in Chunk, n \in 0 .. NMax : c = fchunk_idx /\ n = k + 1
    BY <1>3, SectorAssumption
  <2>2. Behind(c)' /\ Filled(c, n)'
    BY <1>1, <1>3, <2>1 DEF Behind, Filled, k
  <2>3. ASSUME n < NMax PROVE flash'[c][n + 1] = BlankEntry
    <3>1. n + 1 \in Entry /\ n + 1 > k + 1 /\ n + 1 # k + 1
      BY <1>3, <2>1, <2>3, SectorAssumption DEF Entry
    <3>2. flash[c][n + 1] = BlankEntry
      BY <1>3, <2>1, <3>1 DEF Filled
    <3>3. flash'[c][n + 1] = flash[c][n + 1]
      BY <1>1, <1>2, <2>1, <3>1 DEF Program, TypeOK
    <3> QED  BY <3>2, <3>3
  <2> QED  BY <2>2, <2>3, FreshBehindNext DEF FreshAt
<1>7. Faultless'
  BY <1>1, <1>2, <1>5, <1>6 DEF Faultless, Stored, InProgress, TornPoints, DataCell
<1>8. Status = "busy" /\ Status' = "busy"
  BY <1>1, StatusOf, StatusOfNext DEF StatusIs
<1>9. arg \in Segment /\ Len(Durable) < NMax
  BY <1>2, <1>3 DEF TypeOK, k
<1>10. Store!Push(arg)
  BY <1>1, <1>2, <1>5, <1>8, <1>9 DEF Store!Push
<1> QED  BY <1>7, <1>9, <1>10 DEF Store!Next

LEMMA PowerLossStores ==
  ASSUME Faultless, PowerLoss, pc \notin TornPoints, intact'
  PROVE  Faultless' /\ Store!Next
<1>1. /\ pc \notin TornPoints \cup {"erase"} /\ pc' = "off" /\ flash' = flash /\ cchunk' = <<>>
      /\ ~pgerr' /\ pc # "off"
  BY FaultAssumption DEF PowerLoss
<1>2. Durable' = Durable /\ Fresh'
  BY <1>1, SamePattern DEF Faultless
<1>3. Faultless'
  BY <1>1, <1>2 DEF Faultless, Stored, InProgress, TornPoints, DataCell
<1>4. Status # "off" /\ Status' = "off"
  BY <1>1, StatusOf, StatusOfNext DEF StatusIs
<1>5. Store!PowerLoss
  BY <1>1, <1>2, <1>4 DEF Store!PowerLoss
<1> QED  BY <1>3, <1>5 DEF Store!Next

LEMMA FaultlessStep ==
  ASSUME NothingLostInv, NothingLostInv', Faultless, [Next]_vars,
         ~pgerr', ~(pc \in TornPoints /\ pc' = "off"), intact'
  PROVE  Faultless' /\ [Store!Next]_(Store!vars)
<1>1. CASE PushAbort
  BY <1>1 DEF PushAbort, Faultless
<1>2. CASE PowerLoss
  <2>1. pc \notin TornPoints  BY <1>2 DEF PowerLoss
  <2> QED  BY <1>2, <2>1, PowerLossStores
<1>3. CASE UNCHANGED vars
  <2>1. Durable' = Durable /\ (Fresh' <=> Fresh) /\ Status' = Status /\ cchunk' = cchunk
    BY <1>3, SamePattern DEF vars, Status
  <2>2. Faultless'
    BY <1>3, <2>1 DEF vars, Faultless, Stored, InProgress
  <2> QED  BY <2>1, <2>2 DEF Store!vars
<1> QED  BY <1>1, <1>2, <1>3, BootStores, CallStores, ReturnStores, MarkStores, EraseStores,
            DataStores, AttrStores DEF Next

(* Until an entry has been left half programmed, a cell has been refused   *)
(* or an erasure was cut short, the constructor, clear() and pushBack()    *)
(* do what PatternStore says, wherever else power is lost: the one step    *)
(* that stores a segment is the write of its attribute, and what the       *)
(* application is shown between two calls is what is stored.               *)
THEOREM StoreRefined == FaultSpec => StoreUntilFault
<1> DEFINE I == NothingLostInv /\ StoreInv
<1>1. FaultInit => I /\ Store!Init
  <2> SUFFICES ASSUME FaultInit PROVE I /\ Store!Init
    OBVIOUS
  <2>1. Init /\ faulty = FALSE  BY DEF FaultInit
  <2>2. NothingLostInv
    BY <2>1, TypedInit, LayoutInit DEF NothingLostInv, Spent, Init
  <2>3. 0 \in Chunk /\ Behind(0) /\ Erased(0)
    BY <2>1, SectorAssumption DEF Init, Behind, Erased, Chunk
  <2>4. Durable = <<>> /\ Fresh
    BY <2>3, FoundNothing, FreshBehind DEF Emptied, FreshAt
  <2>5. Faultless
    BY <2>1, <2>4 DEF Init, Faultless, Stored, InProgress, TornPoints, DataCell
  <2>6. Status = "off"
    BY <2>1, StatusOf DEF StatusIs, Init
  <2>7. Store!Init
    BY <2>1, <2>4, <2>6 DEF Init, Store!Init
  <2> QED  BY <2>1, <2>2, <2>5, <2>7 DEF StoreInv
<1>2. I /\ [FaultNext]_<<vars, faulty>> => I' /\ [faulty' \/ Store!Next]_<<Store!vars>>
  <2> SUFFICES ASSUME NothingLostInv, StoreInv, [FaultNext]_<<vars, faulty>>
               PROVE  I' /\ [faulty' \/ Store!Next]_<<Store!vars>>
    OBVIOUS
  <2>1. [Next]_vars  BY DEF FaultNext
  <2>2. NothingLostInv'
    BY <2>1, TypedStep, LayoutStep, SpoiledStep, SpentStep DEF NothingLostInv
  <2>3. faulty' \in BOOLEAN
    <3>1. pgerr' \in BOOLEAN /\ intact' \in BOOLEAN  BY <2>2 DEF NothingLostInv, TypeOK
    <3> QED  BY <3>1 DEF FaultNext, StoreInv
  <2>4. CASE faulty'
    BY <2>2, <2>3, <2>4 DEF StoreInv
  <2>5. CASE ~faulty'
    <3>1. Faultless /\ ~pgerr' /\ ~(pc \in TornPoints /\ pc' = "off") /\ intact'
      <4>1. CASE FaultNext
        BY <2>5, <4>1 DEF FaultNext, StoreInv
      <4>2. CASE UNCHANGED <<vars, faulty>>
        BY <2>5, <4>2 DEF vars, StoreInv, Faultless, TornPoints
      <4> QED  BY <4>1, <4>2
    <3>2. Faultless' /\ [Store!Next]_(Store!vars)
      BY <2>1, <2>2, <3>1, FaultlessStep
    <3> QED  BY <2>2, <2>3, <2>5, <3>2 DEF StoreInv
  <2> QED  BY <2>3, <2>4, <2>5
<1> QED  BY <1>1, <1>2, PTL DEF FaultSpec, StoreUntilFault
=============================================================================

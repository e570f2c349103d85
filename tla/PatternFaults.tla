---------------------------- MODULE PatternFaults ----------------------------
(***************************************************************************)
(* MotionPattern with a record of faults.  Until the first one, wherever   *)
(* else power is lost, the pattern in flash is a PatternStore; after it    *)
(* only the layout of the sector is certain (MotionPattern!Layout).        *)
(***************************************************************************)
EXTENDS MotionPattern

(* History: an entry may have been left half programmed, power lost inside *)
(* one or a cell refused, or chunks half erased.                           *)
VARIABLE faulty

FaultInit == Init /\ faulty = FALSE
FaultNext ==
  /\ Next
  /\ faulty' = (faulty \/ pgerr' \/ (pc \in TornPoints /\ pc' = "off") \/ ~intact')
FaultSpec == FaultInit /\ [][FaultNext]_<<vars, faulty>>

(* Until something may have been left half done, the pattern in flash      *)
(* is a PatternStore: constructor, clear and pushBack map to its steps     *)
(* wherever else power is lost.                                            *)
StoreUntilFault ==
  Store!Init /\ [][faulty' \/ Store!Next]_<<Store!vars>>
=============================================================================

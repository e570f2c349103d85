---------------------------- MODULE PatternStore ----------------------------
(***************************************************************************)
(* What the motion pattern promises to the application, without flash: a   *)
(* bounded list of segments that survives power losses, to which one       *)
(* segment at a time is appended, and which is only ever emptied as a      *)
(* whole.  What the application reads is a copy taken of it, exact         *)
(* whenever no call is in progress.                                        *)
(***************************************************************************)
EXTENDS Naturals, Sequences

CONSTANTS
  Segment,  (* the motion segments that may be stored                      *)
  MaxSize   (* capacity of the pattern                                     *)

VARIABLES
  stored,   (* the pattern that survives a power loss                      *)
  shown,    (* the pattern the application reads                           *)
  status    (* "off", "ready" for a call, or "busy" with one               *)

vars == <<stored, shown, status>>

Init ==
  /\ stored = <<>>
  /\ shown = <<>>
  /\ status = "off"

(* A call begins: nothing has changed yet.  At power on the store may also *)
(* become busy, on its own account.                                        *)
Begin ==
  /\ status \in {"ready", "off"}
  /\ status' = "busy"
  /\ UNCHANGED <<stored, shown>>

(* The one point at which an appended segment becomes durable.             *)
Push(s) ==
  /\ status = "busy"
  /\ Len(stored) < MaxSize
  /\ stored' = Append(stored, s)
  /\ UNCHANGED <<shown, status>>

(* The one point at which the whole pattern is dropped.                    *)
Clear ==
  /\ status = "busy"
  /\ stored' = <<>>
  /\ UNCHANGED <<shown, status>>

(* A call ends, or power comes back: the application sees what is stored.  *)
Ready ==
  /\ status \in {"busy", "off"}
  /\ status' = "ready"
  /\ shown' = stored
  /\ UNCHANGED stored

PowerLoss ==
  /\ status # "off"
  /\ status' = "off"
  /\ shown' = <<>>
  /\ UNCHANGED stored

Next ==
  \/ Begin
  \/ \E s \in Segment : Push(s)
  \/ Clear
  \/ Ready
  \/ PowerLoss

Spec == Init /\ [][Next]_vars
=============================================================================

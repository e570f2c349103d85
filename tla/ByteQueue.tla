----------------------------- MODULE ByteQueue ------------------------------
(***************************************************************************)
(* What a show-ahead FIFO promises its reader and its writer: a bounded    *)
(* queue whose head is on display.  full is true of the queue as it is;    *)
(* empty and q speak of what was left of the queue in the last cycle, so   *)
(* that a byte is seen one cycle after it has entered.                     *)
(***************************************************************************)
EXTENDS Naturals, Sequences

CONSTANTS
  Byte,     (* what is queued                                              *)
  Depth     (* capacity of the queue                                       *)

VARIABLES
  items,    (* the queue                                                   *)
  q,        (* the byte on display, meaningless when empty                 *)
  empty,    (* there is no byte on display                                 *)
  full      (* there is no room                                            *)

vars == <<items, q, empty, full>>

Init ==
  /\ items = <<>>
  /\ q \in Byte
  /\ empty = TRUE
  /\ full = FALSE

(* What is left of the queue is shown; put, one byte or none, is added.    *)
Show(rest, put) ==
  /\ items' = rest \o put
  /\ full' = (Len(items') = Depth)
  /\ empty' = (rest = <<>>)
  /\ IF rest = <<>> THEN q' \in Byte ELSE q' = Head(rest)

Put  == {<<>>} \cup {<<b>> : b \in Byte}

Clocked ==
  \E put \in Put :
    /\ put # <<>> => ~full
    /\ \/ Show(items, put)
       \/ ~empty /\ Show(Tail(items), put)

Flush ==
  /\ items' = <<>>
  /\ empty' = TRUE
  /\ full' = FALSE
  /\ q' \in Byte

Next == Clocked \/ Flush

Spec == Init /\ [][Next]_vars
=============================================================================

----------------------------- MODULE MCKeyboard -----------------------------
(* A letter, the end of the line, and keys of every kind of sequence.      *)
EXTENDS KeyboardSystem

MCKey == {KB_Q, KB_RETURN, KB_LSHIFT, KB_RALT, KB_CAPSLOCK, KB_PAUSE}
=============================================================================

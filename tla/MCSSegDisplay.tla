--------------------------- MODULE MCSSegDisplay ----------------------------
(* SSegDisplay with two displays and characters of two bits: pieces of     *)
(* strings that fit, cleared or not, and pieces that have to scroll, alone *)
(* or put together.  The codes are such that every one means something:    *)
(* a character received wrong is still a character.                        *)
EXTENDS SSegDisplay

MCText == {<<Clear, "a">>, <<"b", "a">>, <<"a", "b", "b">>}
MCCode == [c \in Char \cup {Clear} |->
             CASE c = "a" -> <<1, 0>> [] c = "b" -> <<0, 1>>
               [] c = " " -> <<0, 0>> [] OTHER -> <<1, 1>>]
=============================================================================

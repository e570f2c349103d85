--------------------------- MODULE ScanCodeParser ---------------------------
(***************************************************************************)
(* Scan code set 2 (fw/core/src/Keyboard/ScanCodeParser.cpp): one byte at  *)
(* a time from the keyboard, a key made or broken at the last byte of its  *)
(* sequence.  A key is named by its index in KeysLut; two indices hold the *)
(* same key twice (KB_PSCREEN, KB_COMBO).                                  *)
(***************************************************************************)
EXTENDS Naturals

Code == 0 .. 255

KB_NONE     == 0
KB_COMBO    == \h92
KB_PSCREEN  == \h84
KB_PAUSE    == \hFE
KB_LSHIFT   == \h12
KB_RSHIFT   == \h59
KB_RALT     == \h91
KB_CAPSLOCK == \h58
KB_NUMLOCK  == \h77

Unassigned ==
  { 0, 2, \h17, \h19, \h1F, \h2F, \h37, \h39, \h3F, \h47, \h4F, \h53, \h56, \h5C,
    \h5E, \h60, \h65, \h68, \h6E, \h6F, \h7F }
  \cup ((\h80 .. \hFF) \
        { \h83, \h84, \h90, \h91, \h92, \h94, \h95, \h98, \h9F, \hA0, \hA1, \hA3, \hA7,
          \hA8, \hAB, \hAF, \hB0, \hB2, \hB4, \hB7, \hB8, \hBA, \hBB, \hBF, \hC0, \hC8,
          \hCA, \hCD, \hD0, \hD9, \hDA, \hDE, \hE9, \hEB, \hEC, \hF0, \hF1, \hF2, \hF4,
          \hF5, \hFA, \hFC, \hFD, \hFE })

KeysLut ==
  [ i \in Code |-> CASE i \in Unassigned -> KB_NONE
                     [] i = \hD9 -> KB_COMBO
                     [] i = \hFC -> KB_PSCREEN
                     [] OTHER -> i ]

(* code |= 0x80 for an escaped one.  The layout's key 0x5D types nothing   *)
(* in either layout and keeps its index.                                   *)
KeyOf(code, escaped) == KeysLut[IF escaped /\ code < 128 THEN code + 128 ELSE code]

-----------------------------------------------------------------------------
ParserState ==
  { "MAKE_START", "BREAK_F0", "MAKE_E0", "BREAK_E0_F0", "MAKE_E1", "MAKE_E1_14",
    "MAKE_E1_14_77", "BREAK_E1", "BREAK_E1_F0", "BREAK_E1_F0_14", "BREAK_E1_F0_14_F0" }

(* What parse() returns, together with the state it leaves.                *)
Parsed(s, action, key) == [state |-> s, action |-> action, key |-> key]
Prefix(s) == Parsed(s, "NONE", KB_NONE)
Reset     == Parsed("MAKE_START", "RESET", KB_NONE)

Plain(action, key) ==
  IF key \in {KB_NONE, KB_COMBO} THEN Reset ELSE Parsed("MAKE_START", action, key)

Escaped(action, key) ==
  CASE key = KB_NONE  -> Reset
    [] key = KB_COMBO -> Prefix("MAKE_START")
    [] OTHER          -> Parsed("MAKE_START", action, key)

(* The sequence of Pause, which has no other: the byte each of its states  *)
(* expects, and what it gives.                                             *)
PauseStep ==
  [ MAKE_E1           |-> <<\h14, Prefix("MAKE_E1_14")>>,
    MAKE_E1_14        |-> <<\h77, Parsed("MAKE_E1_14_77", "MAKE", KB_PAUSE)>>,
    MAKE_E1_14_77     |-> <<\hE1, Prefix("BREAK_E1")>>,
    BREAK_E1          |-> <<\hF0, Prefix("BREAK_E1_F0")>>,
    BREAK_E1_F0       |-> <<\h14, Prefix("BREAK_E1_F0_14")>>,
    BREAK_E1_F0_14    |-> <<\hF0, Prefix("BREAK_E1_F0_14_F0")>>,
    BREAK_E1_F0_14_F0 |-> <<\h77, Parsed("MAKE_START", "BREAK", KB_PAUSE)>> ]

InState(s, code) ==
  CASE s = "MAKE_START" ->
         (CASE code = \hE0 -> Prefix("MAKE_E0")
            [] code = \hE1 -> Prefix("MAKE_E1")
            [] code = \hF0 -> Prefix("BREAK_F0")
            [] OTHER       -> Plain("MAKE", KeyOf(code, FALSE)))
    [] s = "BREAK_F0" -> Plain("BREAK", KeyOf(code, FALSE))
    [] s = "MAKE_E0" -> IF code = \hF0 THEN Prefix("BREAK_E0_F0")
                        ELSE Escaped("MAKE", KeyOf(code, TRUE))
    [] s = "BREAK_E0_F0" -> Escaped("BREAK", KeyOf(code, TRUE))
    [] OTHER -> IF code = PauseStep[s][1] THEN PauseStep[s][2] ELSE Reset

(* Seeded fault: the prefix of an escaped key is forgotten at its break.   *)
ParseBreakUnescaped(s, code) ==
  IF s = "BREAK_E0_F0" THEN InState("BREAK_F0", code)
  ELSE IF code \in {0, \hAA, \hFC} THEN Reset ELSE InState(s, code)

(* Overrun and the self test's result, in whatever state.                  *)
Parse(s, code) == IF code \in {0, \hAA, \hFC} THEN Reset ELSE InState(s, code)
=============================================================================

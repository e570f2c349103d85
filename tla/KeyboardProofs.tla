--------------------------- MODULE KeyboardProofs ---------------------------
(***************************************************************************)
(* Proofs about the keyboard, its port and its driver.                     *)
(*                                                                         *)
(* The invariant says that the bytes between the user's fingers and the    *)
(* driver - taken with an error, in the FIFO, still in the keyboard -      *)
(* account for the difference between what the driver knows and what the   *)
(* user means (Accounts).  First the bytes: what each does to the driver,  *)
(* and that every key's sequence adds up to the key (MakeRun, BreakRun).   *)
(* Then the code of the driver: what _step and its callers do with a byte, *)
(* and where the port stands in each exchange.                             *)
(***************************************************************************)
EXTENDS KeyboardSystem, SequenceTheorems, WellFoundedInduction, TLAPS

-----------------------------------------------------------------------------
(* A set of numbers that is not empty has a least element.                 *)
LEMMA LeastNat ==
  ASSUME NEW T, T \subseteq Nat, T # {}
  PROVE  \E x \in T : \A y \in T : x <= y
<1>1. PICK x \in T : \A y \in T : ~(<<y, x>> \in OpToRel(<, Nat))
  BY WFMin, NatLessThanWellFounded
<1>2. \A y \in T : ~(y < x)
  BY <1>1 DEF OpToRel
<1> QED  BY <1>2

Glyph == Character \cup {NoChar}

(* What a byte does to the driver, apart from the exchange with the LEDs.  *)
DriverSt == [lshift : BOOLEAN, rshift : BOOLEAN, alt_gr : BOOLEAN,
             caps_lock : KeyState, num_lock : KeyState]
DriverState == [parser : ParserState, st : DriverSt]

TurnedLock(s, make) == IF make = Pressed(s) THEN s ELSE (s + 1) % 4

Turned(s, key, make) ==
  CASE key = KB_CAPSLOCK -> [s EXCEPT !.caps_lock = TurnedLock(s.caps_lock, make)]
    [] key = KB_NUMLOCK  -> [s EXCEPT !.num_lock = TurnedLock(s.num_lock, make)]
    [] key = KB_LSHIFT   -> [s EXCEPT !.lshift = make]
    [] key = KB_RSHIFT   -> [s EXCEPT !.rshift = make]
    [] key = KB_RALT     -> [s EXCEPT !.alt_gr = make]
    [] OTHER             -> s

AfterKey(s, p) ==
  CASE p.action = "RESET" -> Off
    [] p.action = "NONE"  -> s
    [] OTHER              -> Turned(s, p.key, p.action = "MAKE")

AfterByte(s, b) ==
  [parser |-> Parse(s.parser, b).state, st |-> AfterKey(s.st, Parse(s.parser, b))]

Silent == {KB_CAPSLOCK, KB_NUMLOCK, KB_LSHIFT, KB_RSHIFT, KB_RALT}

CharOf(s, b) ==
  LET p == Parse(s.parser, b)
  IN IF p.action = "MAKE" /\ p.key \notin Silent THEN Map(s.st, p.key) ELSE NoChar

Restarted == [parser |-> "MAKE_START", st |-> Off]

Action == {"MAKE", "BREAK", "RESET", "NONE"}

LEMMA LutType == KeysLut \in [Code -> Code]
  BY DEF KeysLut, Code, KB_COMBO, KB_NONE, KB_PSCREEN

LEMMA KeyOfType ==
  ASSUME NEW b \in Code, NEW e \in BOOLEAN
  PROVE  KeyOf(b, e) \in Code
<1>1. (IF e /\ b < 128 THEN b + 128 ELSE b) \in Code
  BY DEF Code
<1> QED  BY <1>1, LutType DEF KeyOf

ParsedSet == [state : ParserState, action : Action, key : Code]

LEMMA ParsedType ==
  ASSUME NEW s \in ParserState, NEW a \in Action, NEW k \in Code
  PROVE  Parsed(s, a, k) \in ParsedSet
  BY DEF Parsed, ParsedSet

LEMMA PiecesType ==
  /\ Reset \in ParsedSet
  /\ \A s \in ParserState : Prefix(s) \in ParsedSet
  /\ \A a \in {"MAKE", "BREAK"}, k \in Code : Plain(a, k) \in ParsedSet /\ Escaped(a, k) \in ParsedSet
<1>1. Reset \in ParsedSet /\ \A s \in ParserState : Prefix(s) \in ParsedSet
  BY ParsedType DEF Reset, Prefix, Action, ParserState, Code, KB_NONE
<1>2. ASSUME NEW a \in {"MAKE", "BREAK"}, NEW k \in Code
      PROVE  Plain(a, k) \in ParsedSet /\ Escaped(a, k) \in ParsedSet
  <2>1. Parsed("MAKE_START", a, k) \in ParsedSet
    BY ParsedType DEF Action, ParserState
  <2>2. Prefix("MAKE_START") \in ParsedSet
    BY <1>1 DEF ParserState
  <2> QED  BY <1>1, <2>1, <2>2 DEF Plain, Escaped
<1> QED  BY <1>1, <1>2

Pausing == {"MAKE_E1", "MAKE_E1_14", "MAKE_E1_14_77", "BREAK_E1", "BREAK_E1_F0", "BREAK_E1_F0_14",
            "BREAK_E1_F0_14_F0"}

LEMMA PauseType == \A s \in Pausing : PauseStep[s][2] \in ParsedSet
<1>1. \A s \in Pausing : \/ \E t \in ParserState : PauseStep[s][2] = Prefix(t)
                         \/ \E t \in ParserState, a \in Action : PauseStep[s][2] = Parsed(t, a, KB_PAUSE)
  BY DEF PauseStep, Pausing, ParserState, Action
<1> QED  BY <1>1, ParsedType, PiecesType DEF Code, KB_PAUSE

LEMMA ParseType ==
  ASSUME NEW s \in ParserState, NEW b \in Code
  PROVE  Parse(s, b) \in ParsedSet
<1>1. KeyOf(b, TRUE) \in Code /\ KeyOf(b, FALSE) \in Code
  BY KeyOfType
<1>2. s \in Pausing \/ s \in {"MAKE_START", "BREAK_F0", "MAKE_E0", "BREAK_E0_F0"}
  BY DEF ParserState, Pausing
<1>3. CASE s \in Pausing
  <2>1. InState(s, b) \in ParsedSet
    BY <1>3, PauseType, PiecesType DEF InState, Pausing
  <2> QED  BY <2>1, PiecesType DEF Parse
<1>4. CASE s \in {"MAKE_START", "BREAK_F0", "MAKE_E0", "BREAK_E0_F0"}
  <2>1. InState(s, b) \in ParsedSet
    BY <1>1, <1>4, PiecesType DEF InState, ParserState
  <2> QED  BY <2>1, PiecesType DEF Parse
<1> QED  BY <1>2, <1>3, <1>4

(* The parser, state by state.                                             *)
LEMMA InStart ==
  ASSUME NEW b \in Code, NEW s, s = "MAKE_START"
  PROVE  /\ b = 224 => InState(s, b) = Prefix("MAKE_E0")
         /\ b = 225 => InState(s, b) = Prefix("MAKE_E1")
         /\ b = 240 => InState(s, b) = Prefix("BREAK_F0")
         /\ b \notin {224, 225, 240} => InState(s, b) = Plain("MAKE", KeyOf(b, FALSE))
<1>1. b = 224 => InState(s, b) = Prefix("MAKE_E0")
  BY DEF InState
<1>2. b = 225 => InState(s, b) = Prefix("MAKE_E1")
  BY DEF InState
<1>3. b = 240 => InState(s, b) = Prefix("BREAK_F0")
  BY DEF InState
<1>4. b \notin {224, 225, 240} => InState(s, b) = Plain("MAKE", KeyOf(b, FALSE))
  BY DEF InState
<1> QED  BY <1>1, <1>2, <1>3, <1>4

LEMMA InPrefix ==
  ASSUME NEW b \in Code, NEW s
  PROVE  /\ s = "BREAK_F0" => InState(s, b) = Plain("BREAK", KeyOf(b, FALSE))
         /\ s = "MAKE_E0" /\ b = 240 => InState(s, b) = Prefix("BREAK_E0_F0")
         /\ s = "MAKE_E0" /\ b # 240 => InState(s, b) = Escaped("MAKE", KeyOf(b, TRUE))
         /\ s = "BREAK_E0_F0" => InState(s, b) = Escaped("BREAK", KeyOf(b, TRUE))
         /\ s \in Pausing /\ b = PauseStep[s][1] => InState(s, b) = PauseStep[s][2]
<1>1. s = "BREAK_F0" => InState(s, b) = Plain("BREAK", KeyOf(b, FALSE))
  BY DEF InState
<1>2. /\ s = "MAKE_E0" /\ b = 240 => InState(s, b) = Prefix("BREAK_E0_F0")
      /\ s = "MAKE_E0" /\ b # 240 => InState(s, b) = Escaped("MAKE", KeyOf(b, TRUE))
  BY DEF InState
<1>3. s = "BREAK_E0_F0" => InState(s, b) = Escaped("BREAK", KeyOf(b, TRUE))
  BY DEF InState
<1>4. s \in Pausing /\ b = PauseStep[s][1] => InState(s, b) = PauseStep[s][2]
  BY DEF InState, Pausing
<1> QED  BY <1>1, <1>2, <1>3, <1>4

LEMMA ParseIs ==
  ASSUME NEW s, NEW b \in Code, b \notin {0, 170, 252}
  PROVE  Parse(s, b) = InState(s, b)
  BY DEF Parse

LEMMA TurnedType ==
  ASSUME NEW s \in DriverSt, NEW k \in Code, NEW make \in BOOLEAN
  PROVE  Turned(s, k, make) \in DriverSt
<1>1. \A l \in KeyState : TurnedLock(l, make) \in KeyState
  BY DEF TurnedLock, KeyState
<1> QED  BY <1>1 DEF Turned, DriverSt

LEMMA OffType == Off \in DriverSt /\ Restarted \in DriverState
  BY DEF Off, DriverSt, KeyState, Restarted, DriverState, ParserState

LEMMA AfterByteType ==
  ASSUME NEW s \in DriverState, NEW b \in Code
  PROVE  AfterByte(s, b) \in DriverState
<1>1. s.parser \in ParserState /\ s.st \in DriverSt
  BY DEF DriverState
<1>2. Parse(s.parser, b) \in ParsedSet
  BY <1>1, ParseType
<1> DEFINE p == Parse(s.parser, b)
<1>3. p.state \in ParserState /\ p.key \in Code /\ (p.action = "MAKE") \in BOOLEAN
  BY <1>2 DEF ParsedSet
<1> HIDE DEF p
<1>4. AfterKey(s.st, p) \in DriverSt
  BY <1>1, <1>3, TurnedType, OffType DEF AfterKey
<1> QED  BY <1>3, <1>4 DEF AfterByte, DriverState, p

Sound(s, b) ==
  /\ b \in Answer => s.parser = "MAKE_START"
  /\ b = BAT_CODE \/ Parse(s.parser, b).action # "RESET"

(* The keys 0xFA and 0xFE are not made with their own code.                *)
LEMMA AfterAnswer ==
  ASSUME NEW s \in DriverState, s.parser = "MAKE_START", NEW b \in Answer
  PROVE  AfterByte(s, b) = s /\ CharOf(s, b) = NoChar /\ Sound(s, b)
<1>1. KeysLut[250] = 250 /\ KeysLut[254] = 254
  BY DEF KeysLut, Code, Unassigned, KB_COMBO, KB_NONE, KB_PSCREEN
<1>2. b \in {250, 254}
  BY DEF Answer, ACK_CODE, RESEND
<1>3. KeyOf(b, FALSE) = b
  BY <1>1, <1>2 DEF KeyOf
<1>4. Parse("MAKE_START", b) = Parsed("MAKE_START", "MAKE", b)
  <2>1. Plain("MAKE", b) = Parsed("MAKE_START", "MAKE", b)
    BY <1>2 DEF Plain, KB_NONE, KB_COMBO
  <2>2. InState("MAKE_START", b) = Plain("MAKE", b)
    <3>1. b \in Code /\ b \notin {224, 225, 240}
      BY <1>2 DEF Code
    <3>2. InState("MAKE_START", b) = Plain("MAKE", KeyOf(b, FALSE))
      BY <3>1, InStart
    <3> QED  BY <1>3, <3>2
  <2> QED  BY <1>2, <2>1, <2>2, ParseIs DEF Code
<1>5. Turned(s.st, b, TRUE) = s.st /\ b \notin Silent
  BY <1>2 DEF Turned, Silent, KB_CAPSLOCK, KB_NUMLOCK, KB_LSHIFT, KB_RSHIFT, KB_RALT
<1>6. AfterByte(s, b) = s
  <2>1. s = [parser |-> s.parser, st |-> s.st]
    BY DEF DriverState
  <2>2. AfterKey(s.st, Parsed("MAKE_START", "MAKE", b)) = s.st
    BY <1>5 DEF AfterKey, Parsed
  <2>3. Parsed("MAKE_START", "MAKE", b).state = s.parser
    BY DEF Parsed
  <2> QED  BY <1>4, <2>1, <2>2, <2>3 DEF AfterByte
<1>7. AsciiLut(b) = <<NoChar, NoChar, NoChar, NoChar>>
  <2>1. b \notin {KB_A, KB_Q, KB_7, KB_RETURN, KP_1, KP_DOT, KP_SLASH}
    BY <1>2 DEF KB_A, KB_Q, KB_7, KB_RETURN, KP_1, KP_DOT, KP_SLASH
  <2> QED  BY <2>1 DEF AsciiLut
<1>8. Map(s.st, b) = NoChar
  <2>1. b \notin KeyPad
    BY <1>2 DEF KeyPad, KP_1, KP_DOT, KP_SLASH
  <2>2. ~isalpha(NoChar)
    BY DEF isalpha, NoChar
  <2>3. \A i \in 1 .. 4 : AsciiLut(b)[i] = NoChar
    BY <1>7
  <2> HIDE DEF NoChar
  <2> QED  BY <2>1, <2>2, <2>3 DEF Map
<1>9. Sound(s, b)
  BY <1>4 DEF Sound, Parsed
<1> QED  BY <1>4, <1>5, <1>6, <1>8, <1>9 DEF CharOf, Parsed

LEMMA AfterBat ==
  ASSUME NEW s \in DriverState
  PROVE  AfterByte(s, BAT_CODE) = Restarted /\ CharOf(s, BAT_CODE) = NoChar
<1>1. Parse(s.parser, BAT_CODE) = Reset
  BY DEF Parse, BAT_CODE
<1> QED  BY <1>1 DEF AfterByte, AfterKey, CharOf, Reset, Parsed, Restarted

-----------------------------------------------------------------------------
(* What is on its way to the driver.  now is the driver's state, user what *)
(* it has to be in the end, p the bytes on their way.  w is what they make *)
(* of it one by one, from the last self test's result on if some before it *)
(* have been lost; an answer comes between two keys only, and nothing but  *)
(* that result resets the driver.                                          *)
Leads(now, user, p, n, w) ==
  /\ n \in 0 .. Len(p) /\ w \in [0 .. Len(p) -> DriverState]
  /\ IF n = 0 THEN w[0] = now ELSE p[n] = BAT_CODE /\ w[n] = Restarted
  /\ \A i \in n + 1 .. Len(p) :
       /\ w[i] = AfterByte(w[i - 1], p[i])
       /\ Sound(w[i - 1], p[i])
  /\ w[Len(p)] = user

(* The characters are those typed: v[i] of them are typed when p[i] has    *)
(* been seen, one before the first if there is one peeked at.              *)
Types1(s, b, text, i, j) ==
  IF CharOf(s, b) = NoChar THEN j = i ELSE j = i + 1 /\ text[j] = CharOf(s, b)

Writes(p, w, v, text, peeked) ==
  /\ v \in [0 .. Len(p) -> Nat]
  /\ \A i, j \in 0 .. Len(p) : i <= j => v[i] <= v[j]
  /\ v[Len(p)] = Len(text)
  /\ IF peeked = NoChar THEN v[0] = 0 ELSE v[0] = 1 /\ text[1] = peeked
  /\ \A i \in 1 .. Len(p) : Types1(w[i - 1], p[i], text, v[i - 1], v[i])

Accounts(now, user, p, whole, text, peeked) ==
  \E n \in 0 .. Len(p), w \in [0 .. Len(p) -> DriverState], v \in [0 .. Len(p) -> Nat] :
    /\ Leads(now, user, p, n, w)
    /\ whole => n = 0 /\ Writes(p, w, v, text, peeked)

LEMMA AccountsNone ==
  ASSUME NEW now \in DriverState
  PROVE  Accounts(now, now, <<>>, TRUE, <<>>, NoChar)
<1> DEFINE w == [i \in 0 .. 0 |-> now]
           v == [i \in 0 .. 0 |-> 0]
<1>1. Len(<<>>) = 0
  OBVIOUS
<1>2. Leads(now, now, <<>>, 0, w)
  BY <1>1 DEF Leads
<1>3. Writes(<<>>, w, v, <<>>, NoChar)
  BY <1>1 DEF Writes
<1>4. 0 \in 0 .. 0 /\ w \in [0 .. 0 -> DriverState] /\ v \in [0 .. 0 -> Nat]
  OBVIOUS
<1> HIDE DEF w, v
<1> QED  BY <1>1, <1>2, <1>3, <1>4 DEF Accounts

(* The result of the self test makes up for whatever came before.          *)
LEMMA AccountsBat ==
  ASSUME NEW now \in DriverState, NEW p \in Seq(Code), NEW text, NEW peeked
  PROVE  Accounts(now, Restarted, Append(p, BAT_CODE), FALSE, text, peeked)
<1> DEFINE q == Append(p, BAT_CODE)
           w == [i \in 0 .. Len(p) + 1 |-> Restarted]
           v == [i \in 0 .. Len(p) + 1 |-> 0]
<1>1. Len(q) = Len(p) + 1 /\ q[Len(p) + 1] = BAT_CODE /\ Len(p) \in Nat
  BY AppendProperties, LenProperties
<1> HIDE DEF q
<1>2. Leads(now, Restarted, q, Len(p) + 1, w)
  BY <1>1, OffType DEF Leads
<1>3. Len(p) + 1 \in 0 .. Len(q) /\ w \in [0 .. Len(q) -> DriverState] /\ v \in [0 .. Len(q) -> Nat]
  BY <1>1, OffType
<1> HIDE DEF w, v
<1>4. Accounts(now, Restarted, q, FALSE, text, peeked)
  BY <1>2, <1>3 DEF Accounts
<1> QED  BY <1>4 DEF q

(* A byte of a key more.                                                   *)
LEMMA AccountsPush ==
  ASSUME NEW now \in DriverState, NEW user \in DriverState, NEW p \in Seq(Code), NEW whole \in BOOLEAN,
         NEW text \in Seq(Character), NEW peeked \in Glyph, NEW b \in Code \ Answer,
         Accounts(now, user, p, whole, text, peeked),
         NEW text2 \in Seq(Character),
         text2 = IF CharOf(user, b) = NoChar THEN text ELSE Append(text, CharOf(user, b)),
         CharOf(user, b) \in Glyph, Sound(user, b)
  PROVE  Accounts(now, AfterByte(user, b), Append(p, b), whole, text2, peeked)
<1> DEFINE L == Len(p)
           q == Append(p, b)
           c == CharOf(user, b)
           next == AfterByte(user, b)
<1>1. PICK n \in 0 .. L, w \in [0 .. L -> DriverState], v \in [0 .. L -> Nat] :
        /\ Leads(now, user, p, n, w)
        /\ whole => n = 0 /\ Writes(p, w, v, text, peeked)
  BY DEF Accounts
<1> DEFINE x == [i \in 0 .. L + 1 |-> IF i <= L THEN w[i] ELSE next]
           y == [i \in 0 .. L + 1 |-> IF i <= L THEN v[i] ELSE Len(text2)]
<1>2. /\ L \in Nat /\ Len(q) = L + 1 /\ q[L + 1] = b
      /\ \A i \in 1 .. L : q[i] = p[i]
  BY AppendProperties, LenProperties
<1>3. next \in DriverState
  BY AfterByteType
<1>4. /\ Len(text) \in Nat /\ Len(text2) \in Nat
      /\ c = NoChar => Len(text2) = Len(text)
      /\ c # NoChar => Len(text2) = Len(text) + 1 /\ text2[Len(text2)] = c
      /\ \A i \in 1 .. Len(text) : text2[i] = text[i]
  BY AppendProperties, LenProperties
<1> HIDE DEF L, q, c, next
<1>5. x \in [0 .. L + 1 -> DriverState] /\ y \in [0 .. L + 1 -> Nat]
  BY <1>2, <1>3, <1>4
<1>6. /\ \A i \in 0 .. L : x[i] = w[i] /\ y[i] = v[i]
      /\ x[L + 1] = next /\ y[L + 1] = Len(text2)
  BY <1>2
<1> HIDE DEF x, y
<1>7. Leads(now, next, q, n, x)
  <2>1. IF n = 0 THEN x[0] = now ELSE q[n] = BAT_CODE /\ x[n] = Restarted
    BY <1>1, <1>2, <1>6 DEF Leads, L
  <2>2. ASSUME NEW i \in n + 1 .. L + 1
        PROVE  /\ x[i] = AfterByte(x[i - 1], q[i])
               /\ Sound(x[i - 1], q[i])
    <3>1. CASE i <= L
      <4>1. i \in n + 1 .. L /\ i \in 1 .. L /\ i - 1 \in 0 .. L /\ i \in 0 .. L
        BY <1>2, <2>2, <3>1
      <4> QED  BY <1>1, <1>2, <1>6, <4>1 DEF Leads, L
    <3>2. CASE i = L + 1
      <4>1. x[i] = next /\ x[i - 1] = user /\ q[i] = b
        BY <1>1, <1>2, <1>6, <3>2 DEF Leads, L
      <4> QED  BY <4>1 DEF next
    <3> QED  BY <1>2, <2>2, <3>1, <3>2
  <2>3. n \in 0 .. Len(q) /\ x \in [0 .. Len(q) -> DriverState]
    BY <1>2, <1>5
  <2>4. x[Len(q)] = next
    BY <1>2, <1>6
  <2>5. \A i \in n + 1 .. Len(q) :
          /\ x[i] = AfterByte(x[i - 1], q[i])
          /\ Sound(x[i - 1], q[i])
    BY <1>2, <2>2
  <2> QED  BY <2>1, <2>3, <2>4, <2>5 DEF Leads
<1>8. ASSUME whole
      PROVE  Writes(q, x, y, text2, peeked)
  <2>0. n = 0 /\ Writes(p, w, v, text, peeked)
    BY <1>1, <1>8
  <2>1. v[L] = Len(text) /\ \A i, j \in 0 .. L : i <= j => v[i] <= v[j]
    BY <2>0 DEF Writes, L
  <2>2. \A i, j \in 0 .. L + 1 : i <= j => y[i] <= y[j]
    <3>1. \A i \in 0 .. L : v[i] <= Len(text2)
      <4>1. Len(text) <= Len(text2)
        BY <1>4
      <4>2. \A i \in 0 .. L : v[i] <= Len(text)
        BY <1>2, <2>1
      <4>3. \A i \in 0 .. L : v[i] \in Nat
        OBVIOUS
      <4>4. Len(text) \in Nat /\ Len(text2) \in Nat
        BY <1>4
      <4> QED  BY <4>1, <4>2, <4>3, <4>4
    <3> QED  BY <1>1, <1>2, <1>4, <1>6, <2>1, <3>1
  <2>3. IF peeked = NoChar THEN y[0] = 0 ELSE y[0] = 1 /\ text2[1] = peeked
    <3>1. IF peeked = NoChar THEN v[0] = 0 ELSE v[0] = 1 /\ text[1] = peeked
      BY <2>0 DEF Writes
    <3>2. v[0] <= Len(text)
      BY <1>2, <2>1
    <3> QED  BY <1>2, <1>4, <1>6, <3>1, <3>2
  <2>4. ASSUME NEW i \in 1 .. L + 1
        PROVE  Types1(x[i - 1], q[i], text2, y[i - 1], y[i])
    <3>1. CASE i <= L
      <4>1. i \in 1 .. L /\ i - 1 \in 0 .. L /\ i \in 0 .. L
        BY <1>2, <2>4, <3>1
      <4>2. Types1(w[i - 1], p[i], text, v[i - 1], v[i])
        BY <2>0, <4>1 DEF Writes, L
      <4>3. v[i] <= Len(text) /\ v[i] \in Nat /\ v[i - 1] \in Nat
        BY <1>1, <1>2, <2>1, <4>1
      <4>4. v[i] # v[i - 1] + 1 \/ text2[v[i]] = text[v[i]]
        BY <1>4, <4>3
      <4> QED  BY <1>2, <1>6, <4>1, <4>2, <4>4 DEF Types1
    <3>2. CASE i = L + 1
      <4>1. /\ x[i - 1] = user /\ q[i] = b /\ y[i] = Len(text2)
            /\ y[i - 1] = Len(text)
        BY <1>1, <1>2, <1>6, <2>1, <3>2 DEF Leads, L
      <4> QED  BY <1>4, <4>1 DEF Types1, c
    <3> QED  BY <1>2, <2>4, <3>1, <3>2
  <2> QED  BY <1>2, <1>5, <1>6, <2>2, <2>3, <2>4 DEF Writes
<1>9. n \in 0 .. Len(q)
  BY <1>2
<1>10. Accounts(now, next, q, whole, text2, peeked)
  BY <1>1, <1>2, <1>5, <1>7, <1>8, <1>9 DEF Accounts
<1> QED  BY <1>10 DEF next, q

(* The driver takes the first byte.                                        *)
LEMMA AccountsPop ==
  ASSUME NEW now \in DriverState, NEW user \in DriverState, NEW p \in Seq(Code), NEW whole \in BOOLEAN,
         NEW text \in Seq(Character), p # <<>>,
         Accounts(now, user, p, whole, text, NoChar)
  PROVE  Accounts(AfterByte(now, Head(p)), user, Tail(p), whole, text, CharOf(now, Head(p)))
<1> DEFINE M == Len(p) - 1
           q == Tail(p)
           c == CharOf(now, Head(p))
           next == AfterByte(now, Head(p))
<1>1. /\ M \in Nat /\ Len(p) = M + 1 /\ Len(q) = M
      /\ \A i \in 1 .. M : q[i] = p[i + 1]
      /\ Head(p) = p[1] /\ Head(p) \in Code
  BY EmptySeq, HeadTailProperties, LenProperties, ElementOfSeq
<1>2. PICK n \in 0 .. M + 1, w \in [0 .. M + 1 -> DriverState], v \in [0 .. M + 1 -> Nat] :
        /\ Leads(now, user, p, n, w)
        /\ whole => n = 0 /\ Writes(p, w, v, text, NoChar)
  BY <1>1 DEF Accounts
<1> DEFINE x == [i \in 0 .. M |-> w[i + 1]]
           y == [i \in 0 .. M |-> v[i + 1]]
           m == IF n = 0 THEN 0 ELSE n - 1
<1> HIDE DEF M
<1>3. x \in [0 .. M -> DriverState] /\ y \in [0 .. M -> Nat] /\ m \in 0 .. M
  BY <1>1
<1>4. \A i \in 0 .. M : x[i] = w[i + 1] /\ y[i] = v[i + 1]
  OBVIOUS
<1> HIDE DEF x, y, q, next, c
<1>5. ASSUME n \in {0, 1} PROVE w[1] = next
  <2>1. CASE n = 0
    <3>1. w[0] = now /\ w[1] = AfterByte(w[0], p[1])
      BY <1>1, <1>2, <2>1 DEF Leads
    <3> QED  BY <1>1, <3>1 DEF next
  <2>2. CASE n = 1
    <3>1. p[1] = BAT_CODE /\ w[1] = Restarted
      BY <1>2, <2>2 DEF Leads
    <3> QED  BY <1>1, <3>1, AfterBat DEF next
  <2> QED  BY <1>5, <2>1, <2>2
<1>6. Leads(next, user, q, m, x)
  <2>1. IF m = 0 THEN x[0] = next ELSE q[m] = BAT_CODE /\ x[m] = Restarted
    <3>1. CASE n \in {0, 1}
      BY <1>1, <1>3, <1>4, <1>5, <3>1
    <3>2. CASE n > 1
      <4>1. m = n - 1 /\ m \in 1 .. M
        BY <1>1, <3>2
      <4>2. p[n] = BAT_CODE /\ w[n] = Restarted
        BY <1>2, <3>2 DEF Leads
      <4>3. q[m] = p[n] /\ x[m] = w[n]
        BY <1>1, <1>4, <4>1
      <4> QED  BY <4>1, <4>2, <4>3
    <3> QED  BY <3>1, <3>2
  <2>2. ASSUME NEW i \in m + 1 .. M
        PROVE  /\ x[i] = AfterByte(x[i - 1], q[i])
               /\ Sound(x[i - 1], q[i])
    <3>1. i + 1 \in n + 1 .. M + 1 /\ i \in 1 .. M /\ i - 1 \in 0 .. M /\ i \in 0 .. M /\ (i - 1) + 1 = i
          /\ (i + 1) - 1 = i
      BY <1>1
    <3>2. /\ w[i + 1] = AfterByte(w[i], p[i + 1])
          /\ Sound(w[i], p[i + 1])
      BY <1>1, <1>2, <3>1 DEF Leads
    <3> QED  BY <1>1, <1>4, <3>1, <3>2
  <2>3. x[M] = user
    BY <1>1, <1>2, <1>4 DEF Leads
  <2> QED  BY <1>1, <1>3, <2>1, <2>2, <2>3 DEF Leads
<1>7. ASSUME whole
      PROVE  m = 0 /\ Writes(q, x, y, text, c)
  <2>0. n = 0 /\ m = 0 /\ Writes(p, w, v, text, NoChar)
    BY <1>2, <1>7
  <2>1. \A i, j \in 0 .. M : i <= j => y[i] <= y[j]
    <3>1. \A i, j \in 0 .. M + 1 : i <= j => v[i] <= v[j]
      BY <1>1, <2>0 DEF Writes
    <3>2. \A i, j \in 0 .. M : i <= j => i + 1 <= j + 1 /\ i + 1 \in 0 .. M + 1 /\ j + 1 \in 0 .. M + 1
      BY <1>1
    <3> QED  BY <1>4, <3>1, <3>2
  <2>2. y[M] = Len(text)
    BY <1>1, <1>4, <2>0 DEF Writes
  <2>3. IF c = NoChar THEN y[0] = 0 ELSE y[0] = 1 /\ text[1] = c
    <3>1. v[0] = 0 /\ Types1(w[0], p[1], text, v[0], v[1])
      BY <1>1, <2>0 DEF Writes
    <3>2. w[0] = now
      BY <1>2, <2>0 DEF Leads
    <3>3. y[0] = v[1]
      BY <1>1, <1>4
    <3> QED  BY <1>1, <3>1, <3>2, <3>3 DEF Types1, c
  <2>4. ASSUME NEW i \in 1 .. M
        PROVE  Types1(x[i - 1], q[i], text, y[i - 1], y[i])
    <3>1. i + 1 \in 1 .. M + 1 /\ i - 1 \in 0 .. M /\ i \in 0 .. M /\ (i - 1) + 1 = i /\ (i + 1) - 1 = i
      BY <1>1
    <3>2. Types1(w[i], p[i + 1], text, v[i], v[i + 1])
      BY <1>1, <2>0, <3>1 DEF Writes
    <3> QED  BY <1>1, <1>4, <3>1, <3>2
  <2> QED  BY <1>1, <1>3, <2>0, <2>1, <2>2, <2>3, <2>4 DEF Writes
<1> HIDE DEF m
<1>8. Accounts(next, user, q, whole, text, c)
  BY <1>1, <1>3, <1>6, <1>7 DEF Accounts
<1> QED  BY <1>8 DEF next, q, c

(* The application takes the character peeked at: it is the next one.      *)
LEMMA AccountsRead ==
  ASSUME NEW now, NEW user, NEW p \in Seq(Code), NEW whole \in BOOLEAN,
         NEW text \in Seq(Character), NEW peeked \in Glyph, peeked # NoChar,
         Accounts(now, user, p, whole, text, peeked),
         NEW text2, whole => text2 = Tail(text)
  PROVE  /\ whole => text # <<>> /\ Head(text) = peeked
         /\ Accounts(now, user, p, whole, text2, NoChar)
<1> DEFINE L == Len(p)
<1>1. PICK n \in 0 .. L, w \in [0 .. L -> DriverState], v \in [0 .. L -> Nat] :
        /\ Leads(now, user, p, n, w)
        /\ whole => n = 0 /\ Writes(p, w, v, text, peeked)
  BY DEF Accounts
<1> DEFINE y == [i \in 0 .. L |-> IF v[i] = 0 THEN 0 ELSE v[i] - 1]
<1>2. L \in Nat
  BY LenProperties
<1> HIDE DEF L
<1>3. y \in [0 .. L -> Nat]
  OBVIOUS
<1>4. \A i \in 0 .. L : y[i] = IF v[i] = 0 THEN 0 ELSE v[i] - 1
  OBVIOUS
<1> HIDE DEF y
<1>5. ASSUME whole
      PROVE  /\ text # <<>> /\ Head(text) = peeked
             /\ Writes(p, w, y, text2, NoChar)
  <2>0. n = 0 /\ Writes(p, w, v, text, peeked)
    BY <1>1, <1>5
  <2>1. /\ v[0] = 1 /\ text[1] = peeked
        /\ v[L] = Len(text)
        /\ \A i, j \in 0 .. L : i <= j => v[i] <= v[j]
    BY <2>0 DEF Writes, L
  <2>2. \A i \in 0 .. L : v[i] >= 1 /\ v[i] <= Len(text) /\ y[i] = v[i] - 1
    <3>1. \A i \in 0 .. L : v[0] <= v[i] /\ v[i] <= v[L]
      BY <1>2, <2>1
    <3> QED  BY <1>2, <1>4, <2>1, <3>1
  <2>3. Len(text) \in Nat /\ Len(text) >= 1
    BY <1>2, <2>1, <2>2, LenProperties
  <2>4. text # <<>>
    BY <2>3
  <2>5. /\ Head(text) = text[1] /\ Len(Tail(text)) = Len(text) - 1
        /\ \A i \in 1 .. Len(text) - 1 : Tail(text)[i] = text[i + 1]
    BY <2>4, HeadTailProperties, EmptySeq
  <2>6. text2 = Tail(text)
    BY <1>5
  <2>7. \A i, j \in 0 .. L : i <= j => y[i] <= y[j]
    BY <2>1, <2>2
  <2>8. y[0] = 0 /\ y[L] = Len(text2)
    BY <1>2, <2>1, <2>2, <2>5, <2>6
  <2>9. ASSUME NEW i \in 1 .. L
        PROVE  Types1(w[i - 1], p[i], text2, y[i - 1], y[i])
    <3>1. i \in 0 .. L /\ i - 1 \in 0 .. L
      BY <1>2
    <3>2. Types1(w[i - 1], p[i], text, v[i - 1], v[i])
      BY <2>0 DEF Writes, L
    <3>3. /\ v[i - 1] \in Nat /\ v[i] \in Nat /\ v[i - 1] >= 1
          /\ v[i] <= Len(text) /\ y[i] = v[i] - 1 /\ y[i - 1] = v[i - 1] - 1
      BY <2>2, <3>1
    <3>4. ASSUME v[i] = v[i - 1] + 1
          PROVE  text2[y[i]] = text[v[i]] /\ y[i] = y[i - 1] + 1
      <4>1. y[i] \in 1 .. Len(text) - 1 /\ y[i] + 1 = v[i]
        BY <2>3, <3>3, <3>4
      <4> QED  BY <2>5, <2>6, <3>3, <3>4, <4>1
    <3>5. v[i] = v[i - 1] => y[i] = y[i - 1]
      BY <3>3
    <3> QED  BY <3>2, <3>4, <3>5 DEF Types1
  <2>10. Len(p) = L
    BY DEF L
  <2> QED  BY <1>3, <2>1, <2>4, <2>5, <2>7, <2>8, <2>9, <2>10 DEF Writes
<1> QED  BY <1>1, <1>3, <1>5 DEF Accounts, L

(* Answers among the bytes change nothing: they may get lost ...           *)
LEMMA AccountsDrop ==
  ASSUME NEW now \in DriverState, NEW user, NEW q \in Seq(Code), NEW r \in Seq(Code),
         NEW whole \in BOOLEAN, NEW text, NEW peeked,
         \A i \in 1 .. Len(q) : q[i] \in Answer,
         Accounts(now, user, q \o r, whole, text, peeked)
  PROVE  Accounts(now, user, r, whole, text, peeked)
<1> DEFINE K == Len(q)
           M == Len(r)
           p == q \o r
<1>1. /\ K \in Nat /\ M \in Nat /\ Len(p) = K + M
      /\ \A i \in 1 .. K : p[i] = q[i] /\ p[i] \in Answer
      /\ \A i \in 1 .. M : p[i + K] = r[i]
  BY ConcatProperties, LenProperties
<1> HIDE DEF K, p
<1>2. PICK n \in 0 .. K + M, w \in [0 .. K + M -> DriverState], v \in [0 .. K + M -> Nat] :
        /\ Leads(now, user, p, n, w)
        /\ whole => n = 0 /\ Writes(p, w, v, text, peeked)
  BY <1>1 DEF Accounts, p
<1> HIDE DEF M
<1> DEFINE x == [i \in 0 .. M |-> w[i + K]]
           y == [i \in 0 .. M |-> v[i + K]]
           m == IF n = 0 THEN 0 ELSE n - K
<1>3. n = 0 \/ n > K
  <2>1. n > 0 => p[n] = BAT_CODE
    BY <1>2 DEF Leads
  <2>2. BAT_CODE \notin Answer
    BY DEF BAT_CODE, Answer, ACK_CODE, RESEND
  <2> QED  BY <1>1, <2>1, <2>2
<1>4. x \in [0 .. M -> DriverState] /\ y \in [0 .. M -> Nat] /\ m \in 0 .. M
  BY <1>1, <1>3
<1>5. \A i \in 0 .. M : x[i] = w[i + K] /\ y[i] = v[i + K]
  OBVIOUS
<1> HIDE DEF x, y
<1>6. ASSUME n = 0
      PROVE  \A i \in 0 .. K : w[i] = now /\ (whole => v[i] = v[0])
  <2> DEFINE T == {i \in 0 .. K : ~(w[i] = now /\ (whole => v[i] = v[0]))}
  <2> SUFFICES ASSUME T # {} PROVE FALSE
    OBVIOUS
  <2>1. T \subseteq Nat
    BY <1>1
  <2>2. PICK i \in T : \A j \in T : i <= j
    BY <2>1, LeastNat
  <2>3. w[0] = now
    BY <1>2, <1>6 DEF Leads
  <2>4. i \in 1 .. K /\ i - 1 \in 0 .. K /\ i - 1 \notin T
    BY <1>1, <2>1, <2>2, <2>3
  <2>5. w[i - 1] = now /\ (whole => v[i - 1] = v[0])
    BY <2>4
  <2>6. w[i] = AfterByte(w[i - 1], p[i]) /\ p[i] \in Answer /\ w[i - 1].parser = "MAKE_START"
    BY <1>1, <1>2, <1>6, <2>4 DEF Leads, Sound
  <2>7. w[i] = now /\ CharOf(w[i - 1], p[i]) = NoChar
    BY <2>5, <2>6, AfterAnswer
  <2>8. ASSUME whole PROVE v[i] = v[0]
    <3>1. Types1(w[i - 1], p[i], text, v[i - 1], v[i])
      BY <1>1, <1>2, <2>4, <2>8 DEF Writes
    <3> QED  BY <2>5, <2>7, <2>8, <3>1 DEF Types1
  <2> QED  BY <2>2, <2>7, <2>8
<1>7. Leads(now, user, r, m, x)
  <2>1. IF m = 0 THEN x[0] = now ELSE r[m] = BAT_CODE /\ x[m] = Restarted
    <3>1. CASE n = 0
      <4>1. m = 0 /\ 0 \in 0 .. M /\ K \in 0 .. K /\ 0 + K = K
        BY <1>1, <3>1
      <4>2. x[0] = now
        BY <1>5, <1>6, <3>1, <4>1
      <4> QED  BY <4>1, <4>2
    <3>2. CASE n > K
      <4>1. m = n - K /\ m \in 1 .. M /\ m + K = n
        BY <1>1, <3>2
      <4>2. p[n] = BAT_CODE /\ w[n] = Restarted
        BY <1>1, <1>2, <3>2 DEF Leads
      <4> QED  BY <1>1, <1>5, <4>1, <4>2
    <3> QED  BY <1>3, <3>1, <3>2
  <2>2. ASSUME NEW i \in m + 1 .. M
        PROVE  /\ x[i] = AfterByte(x[i - 1], r[i])
               /\ Sound(x[i - 1], r[i])
    <3>1. /\ i + K \in n + 1 .. K + M /\ i \in 1 .. M /\ i - 1 \in 0 .. M /\ i \in 0 .. M
          /\ (i + K) - 1 = (i - 1) + K
      BY <1>1, <1>3
    <3>2. /\ w[i + K] = AfterByte(w[(i - 1) + K], p[i + K])
          /\ Sound(w[(i - 1) + K], p[i + K])
      BY <1>1, <1>2, <3>1 DEF Leads
    <3> QED  BY <1>1, <1>5, <3>1, <3>2
  <2>3. x[M] = user
    <3>1. M + K = K + M /\ M \in 0 .. M
      BY <1>1
    <3> QED  BY <1>1, <1>2, <1>5, <3>1 DEF Leads
  <2> QED  BY <1>4, <2>1, <2>2, <2>3 DEF Leads, M
<1>8. ASSUME whole
      PROVE  m = 0 /\ Writes(r, x, y, text, peeked)
  <2>0. n = 0 /\ m = 0 /\ Writes(p, w, v, text, peeked)
    BY <1>2, <1>8
  <2>1. \A i, j \in 0 .. M : i <= j => y[i] <= y[j]
    <3>1. \A i, j \in 0 .. K + M : i <= j => v[i] <= v[j]
      BY <1>1, <2>0 DEF Writes
    <3>2. \A i, j \in 0 .. M : i <= j => i + K <= j + K /\ i + K \in 0 .. K + M /\ j + K \in 0 .. K + M
      BY <1>1
    <3> QED  BY <1>5, <3>1, <3>2
  <2>2. y[M] = Len(text)
    <3>1. M + K = K + M /\ M \in 0 .. M
      BY <1>1
    <3> QED  BY <1>1, <1>5, <2>0, <3>1 DEF Writes
  <2>3. IF peeked = NoChar THEN y[0] = 0 ELSE y[0] = 1 /\ text[1] = peeked
    <3>1. 0 + K = K /\ K \in 0 .. K /\ 0 \in 0 .. M
      BY <1>1
    <3>2. y[0] = v[0]
      BY <1>5, <1>6, <1>8, <2>0, <3>1
    <3> QED  BY <2>0, <3>2 DEF Writes
  <2>4. ASSUME NEW i \in 1 .. M
        PROVE  Types1(x[i - 1], r[i], text, y[i - 1], y[i])
    <3>1. /\ i + K \in 1 .. K + M /\ i - 1 \in 0 .. M /\ i \in 0 .. M
          /\ (i + K) - 1 = (i - 1) + K
      BY <1>1
    <3>2. Types1(w[(i - 1) + K], p[i + K], text, v[(i - 1) + K], v[i + K])
      BY <1>1, <2>0, <3>1 DEF Writes
    <3> QED  BY <1>1, <1>5, <3>1, <3>2
  <2> QED  BY <1>4, <2>0, <2>1, <2>2, <2>3, <2>4 DEF Writes, M
<1> HIDE DEF m
<1> QED  BY <1>4, <1>7, <1>8 DEF Accounts, M

(* ... or come in.                                                         *)
LEMMA AccountsAnswer ==
  ASSUME NEW now \in DriverState, now.parser = "MAKE_START", NEW user, NEW p \in Seq(Code),
         NEW whole \in BOOLEAN, NEW text, NEW peeked, NEW a \in Answer,
         Accounts(now, user, p, whole, text, peeked)
  PROVE  Accounts(now, user, <<a>> \o p, whole, text, peeked)
<1> DEFINE L == Len(p)
           q == <<a>> \o p
<1>1. /\ L \in Nat /\ Len(q) = L + 1 /\ q[1] = a
      /\ \A i \in 1 .. L : q[i + 1] = p[i]
  <2>1. a \in Code /\ <<a>> \in Seq(Code) /\ Len(<<a>>) = 1 /\ <<a>>[1] = a
    BY DEF Answer, Code, ACK_CODE, RESEND
  <2> QED  BY <2>1, ConcatProperties, LenProperties
<1>2. PICK n \in 0 .. L, w \in [0 .. L -> DriverState], v \in [0 .. L -> Nat] :
        /\ Leads(now, user, p, n, w)
        /\ whole => n = 0 /\ Writes(p, w, v, text, peeked)
  BY DEF Accounts
<1> DEFINE x == [i \in 0 .. L + 1 |-> IF i = 0 THEN now ELSE w[i - 1]]
           y == [i \in 0 .. L + 1 |-> IF i = 0 THEN v[0] ELSE v[i - 1]]
           m == IF n = 0 THEN 0 ELSE n + 1
<1> HIDE DEF L, q
<1>3. x \in [0 .. L + 1 -> DriverState] /\ y \in [0 .. L + 1 -> Nat] /\ m \in 0 .. L + 1
  BY <1>1
<1>4. /\ x[0] = now /\ y[0] = v[0]
      /\ \A i \in 0 .. L : x[i + 1] = w[i] /\ y[i + 1] = v[i]
  BY <1>1
<1> HIDE DEF x, y
<1>5. AfterByte(now, a) = now /\ CharOf(now, a) = NoChar /\ Sound(now, a)
  BY AfterAnswer
<1>6. Leads(now, user, q, m, x)
  <2>1. IF m = 0 THEN x[0] = now ELSE q[m] = BAT_CODE /\ x[m] = Restarted
    <3>1. CASE n = 0
      BY <1>4, <3>1
    <3>2. CASE n > 0
      <4>1. p[n] = BAT_CODE /\ w[n] = Restarted
        BY <1>2, <3>2 DEF Leads
      <4> QED  BY <1>1, <1>4, <3>2, <4>1
    <3> QED  BY <3>1, <3>2
  <2>2. ASSUME NEW i \in m + 1 .. L + 1
        PROVE  /\ x[i] = AfterByte(x[i - 1], q[i])
               /\ Sound(x[i - 1], q[i])
    <3>1. CASE i = 1
      <4>1. n = 0 /\ w[0] = now
        BY <1>1, <1>2, <3>1, <2>2 DEF Leads
      <4>2. x[i] = now /\ x[i - 1] = now /\ q[i] = a
        BY <1>1, <1>4, <3>1, <4>1
      <4> QED  BY <1>5, <4>2
    <3>2. CASE i > 1
      <4>1. i - 1 \in n + 1 .. L /\ i - 1 \in 1 .. L /\ (i - 1) + 1 = i /\ (i - 1) - 1 \in 0 .. L
            /\ ((i - 1) - 1) + 1 = i - 1 /\ i - 1 \in 0 .. L
        BY <1>1, <3>2
      <4>2. /\ w[i - 1] = AfterByte(w[(i - 1) - 1], p[i - 1])
            /\ Sound(w[(i - 1) - 1], p[i - 1])
        BY <1>2, <4>1 DEF Leads, L
      <4>3. x[i] = w[i - 1] /\ q[i] = p[i - 1]
        BY <1>1, <1>4, <4>1
      <4>4. x[i - 1] = w[(i - 1) - 1]
        BY <1>4, <4>1
      <4> QED  BY <4>2, <4>3, <4>4
    <3> QED  BY <1>1, <3>1, <3>2
  <2>3. x[L + 1] = user
    BY <1>1, <1>2, <1>4 DEF Leads, L
  <2> QED  BY <1>1, <1>3, <2>1, <2>2, <2>3 DEF Leads
<1>7. ASSUME whole
      PROVE  m = 0 /\ Writes(q, x, y, text, peeked)
  <2>0. n = 0 /\ m = 0 /\ Writes(p, w, v, text, peeked)
    BY <1>2, <1>7
  <2>1. \A i, j \in 0 .. L + 1 : i <= j => y[i] <= y[j]
    <3>1. \A i, j \in 0 .. L : i <= j => v[i] <= v[j]
      BY <2>0 DEF Writes, L
    <3>2. ASSUME NEW i \in 0 .. L + 1
          PROVE  \E k \in 0 .. L : y[i] = v[k] /\ (i = 0 => k = 0) /\ (i > 0 => k = i - 1)
      <4>1. CASE i = 0
        BY <1>1, <1>4, <4>1
      <4>2. CASE i > 0
        <5>1. i - 1 \in 0 .. L /\ (i - 1) + 1 = i
          BY <1>1, <4>2
        <5>2. y[i] = v[i - 1]
          BY <1>4, <5>1
        <5> QED  BY <4>2, <5>1, <5>2
      <4> QED  BY <4>1, <4>2
    <3>3. ASSUME NEW i \in 0 .. L + 1, NEW j \in 0 .. L + 1, i <= j
          PROVE  y[i] <= y[j]
      <4>1. PICK k \in 0 .. L : y[i] = v[k] /\ (i = 0 => k = 0) /\ (i > 0 => k = i - 1)
        BY <3>2
      <4>2. PICK l \in 0 .. L : y[j] = v[l] /\ (j = 0 => l = 0) /\ (j > 0 => l = j - 1)
        BY <3>2
      <4>3. k <= l
        BY <1>1, <3>3, <4>1, <4>2
      <4> QED  BY <3>1, <4>1, <4>2, <4>3
    <3> QED  BY <3>3
  <2>2. y[L + 1] = Len(text)
    BY <1>1, <1>4, <2>0 DEF Writes, L
  <2>3. IF peeked = NoChar THEN y[0] = 0 ELSE y[0] = 1 /\ text[1] = peeked
    BY <1>4, <2>0 DEF Writes
  <2>4. ASSUME NEW i \in 1 .. L + 1
        PROVE  Types1(x[i - 1], q[i], text, y[i - 1], y[i])
    <3>1. CASE i = 1
      <4>1. y[1] = v[0] /\ y[0] = v[0] /\ x[0] = now /\ q[1] = a
        <5>1. 0 \in 0 .. L /\ 0 + 1 = 1
          BY <1>1
        <5> QED  BY <1>1, <1>4, <5>1
      <4> QED  BY <1>5, <3>1, <4>1 DEF Types1
    <3>2. CASE i > 1
      <4>1. i - 1 \in 1 .. L /\ (i - 1) + 1 = i /\ (i - 1) - 1 \in 0 .. L
            /\ ((i - 1) - 1) + 1 = i - 1 /\ i - 1 \in 0 .. L
        BY <1>1, <3>2
      <4>2. Types1(w[(i - 1) - 1], p[i - 1], text, v[(i - 1) - 1], v[i - 1])
        BY <2>0, <4>1 DEF Writes, L
      <4>3. x[i] = w[i - 1] /\ y[i] = v[i - 1] /\ q[i] = p[i - 1]
        BY <1>1, <1>4, <4>1
      <4>4. x[i - 1] = w[(i - 1) - 1] /\ y[i - 1] = v[(i - 1) - 1]
        BY <1>4, <4>1
      <4> QED  BY <4>2, <4>3, <4>4
    <3> QED  BY <1>1, <3>1, <3>2
  <2> QED  BY <1>1, <1>3, <2>0, <2>1, <2>2, <2>3, <2>4 DEF Writes
<1> HIDE DEF m
<1>8. Accounts(now, user, q, whole, text, peeked)
  BY <1>1, <1>3, <1>6, <1>7 DEF Accounts
<1> QED  BY <1>8 DEF q

-----------------------------------------------------------------------------
(* The keyboard's sequences.                                               *)
At(q, s) == [parser |-> q, st |-> s]

Typing(s, k) == IF k \in Silent THEN NoChar ELSE Map(s, k)

TextOf(text, c) == IF c = NoChar THEN text ELSE Append(text, c)

LEMMA MapType ==
  ASSUME NEW s \in DriverSt, NEW k \in Code
  PROVE  Map(s, k) \in Glyph /\ Typing(s, k) \in Glyph
<1>1. \A i \in 1 .. 4 : AsciiLut(k)[i] \in Glyph
  <2> SUFFICES ASSUME NEW i \in 1 .. 4, AsciiLut(k)[i] # NoChar
               PROVE  AsciiLut(k)[i] \in Character
    BY DEF Glyph
  <2> DEFINE T == {AsciiLut(k)[j] : j \in 1 .. 4}
             S == {{AsciiLut(l)[j] : j \in 1 .. 4} : l \in Code}
             c == AsciiLut(k)[i]
  <2>1. c \in T /\ T \in S
    OBVIOUS
  <2>2. Character = (UNION S) \ {NoChar}
    BY DEF Character
  <2> HIDE DEF T, S, c
  <2>3. c \in UNION S
    BY <2>1
  <2> QED  BY <2>2, <2>3 DEF c
<1> DEFINE c(sh) == AsciiLut(k)[1 + (IF s.alt_gr THEN 2 ELSE 0) + (IF sh THEN 1 ELSE 0)]
<1>3. \A sh \in BOOLEAN : c(sh) \in Glyph
  BY <1>1
<1>4. NoChar \in Glyph
  BY DEF Glyph
<1>5. Map(s, k) \in {NoChar, c(s.lshift \/ s.rshift), c((s.lshift \/ s.rshift) # LockOn(s.caps_lock))}
  BY DEF Map
<1>6. (s.lshift \/ s.rshift) \in BOOLEAN /\ ((s.lshift \/ s.rshift) # LockOn(s.caps_lock)) \in BOOLEAN
  OBVIOUS
<1> HIDE DEF c
<1>7. Map(s, k) \in Glyph
  BY <1>3, <1>4, <1>5, <1>6
<1> QED  BY <1>4, <1>7 DEF Typing

LEMMA AtType ==
  ASSUME NEW s \in DriverSt, NEW q \in ParserState
  PROVE  At(q, s) \in DriverState /\ At(q, s).parser = q /\ At(q, s).st = s
  BY DEF At, DriverState

(* What the parser goes to at a byte of a key's sequence, without or with  *)
(* a key made or broken.                                                   *)
OfKeys(q, b, t) == q \in ParserState /\ t \in ParserState /\ b \in Code \ Answer

Moves(q, b, t)     == OfKeys(q, b, t) /\ Parse(q, b) = Prefix(t)
Makes(q, b, t, k)  == OfKeys(q, b, t) /\ Parse(q, b) = Parsed(t, "MAKE", k)
Breaks(q, b, t, k) == OfKeys(q, b, t) /\ Parse(q, b) = Parsed(t, "BREAK", k)

LEMMA AfterKeyIs ==
  ASSUME NEW s, NEW p
  PROVE  /\ p.action = "MAKE" => AfterKey(s, p) = Turned(s, p.key, TRUE)
         /\ p.action = "BREAK" => AfterKey(s, p) = Turned(s, p.key, FALSE)
         /\ p.action = "NONE" => AfterKey(s, p) = s
         /\ p.action = "RESET" => AfterKey(s, p) = Off
<1>1. p.action = "MAKE" => (p.action = "MAKE") = TRUE
  OBVIOUS
<1>2. p.action = "BREAK" => (p.action = "MAKE") = FALSE
  OBVIOUS
<1>3. p.action = "MAKE" => AfterKey(s, p) = Turned(s, p.key, TRUE)
  BY <1>1 DEF AfterKey
<1>4. p.action = "BREAK" => AfterKey(s, p) = Turned(s, p.key, FALSE)
  BY <1>2 DEF AfterKey
<1>5. p.action = "NONE" => AfterKey(s, p) = s
  BY DEF AfterKey
<1>6. p.action = "RESET" => AfterKey(s, p) = Off
  BY DEF AfterKey
<1> QED  BY <1>3, <1>4, <1>5, <1>6

LEMMA ConcatAppend ==
  ASSUME NEW p \in Seq(Code), NEW c \in Seq(Code), NEW b \in Code
  PROVE  p \o Append(c, b) = Append(p \o c, b)
  OBVIOUS

LEMMA PushPrefix ==
  ASSUME NEW now \in DriverState, NEW s \in DriverSt, NEW p \in Seq(Code), NEW whole \in BOOLEAN,
         NEW text \in Seq(Character), NEW peeked \in Glyph,
         NEW c \in Seq(Code), NEW q, NEW b, NEW t, Moves(q, b, t),
         Accounts(now, At(q, s), p \o c, whole, text, peeked)
  PROVE  Accounts(now, At(t, s), p \o Append(c, b), whole, text, peeked)
<1>0. q \in ParserState /\ t \in ParserState /\ b \in Code \ Answer /\ Parse(q, b) = Prefix(t)
  BY DEF Moves, OfKeys
<1>1. At(q, s) \in DriverState /\ At(q, s).parser = q /\ At(q, s).st = s
  BY <1>0, AtType
<1>9. Sound(At(q, s), b)
  BY <1>0, <1>1 DEF Sound, Parsed, Prefix
<1>2. AfterByte(At(q, s), b) = At(t, s) /\ CharOf(At(q, s), b) = NoChar
  BY <1>0, <1>1 DEF AfterByte, AfterKey, CharOf, Prefix, Parsed, At
<1>3. p \o c \in Seq(Code) /\ NoChar \in Glyph
  BY ConcatProperties DEF Glyph
<1>4. Accounts(now, AfterByte(At(q, s), b), Append(p \o c, b), whole, text, peeked)
  BY <1>1, <1>2, <1>3, <1>0, <1>9, AccountsPush
<1> QED  BY <1>2, <1>4, <1>0, ConcatAppend

LEMMA PushMade ==
  ASSUME NEW now \in DriverState, NEW s \in DriverSt, NEW p \in Seq(Code), NEW whole \in BOOLEAN,
         NEW text \in Seq(Character), NEW peeked \in Glyph,
         NEW c \in Seq(Code), NEW q, NEW b, NEW t, NEW k \in Code, Makes(q, b, t, k),
         Accounts(now, At(q, s), p \o c, whole, text, peeked)
  PROVE  Accounts(now, At(t, Turned(s, k, TRUE)), p \o Append(c, b), whole, TextOf(text, Typing(s, k)), peeked)
<1>0. q \in ParserState /\ t \in ParserState /\ b \in Code \ Answer /\ Parse(q, b) = Parsed(t, "MAKE", k)
  BY DEF Makes, OfKeys
<1>1. At(q, s) \in DriverState /\ At(q, s).parser = q /\ At(q, s).st = s
  BY <1>0, AtType
<1>9. Sound(At(q, s), b)
  BY <1>0, <1>1 DEF Sound, Parsed
<1>2. AfterByte(At(q, s), b) = At(t, Turned(s, k, TRUE))
  <2> DEFINE r == Parsed(t, "MAKE", k)
  <2>1. r.action = "MAKE" /\ r.key = k /\ r.state = t
    BY DEF Parsed
  <2> HIDE DEF r
  <2>2. AfterKey(s, r) = Turned(s, k, TRUE)
    BY <2>1, AfterKeyIs
  <2>3. Parse(q, b) = r
    BY <1>0 DEF r
  <2> QED  BY <1>1, <2>1, <2>2, <2>3 DEF AfterByte, At
<1>3. CharOf(At(q, s), b) = Typing(s, k) /\ Typing(s, k) \in Glyph
  BY <1>0, <1>1, MapType DEF CharOf, Parsed, Typing
<1>4. TextOf(text, Typing(s, k)) \in Seq(Character)
  BY <1>3, AppendProperties DEF TextOf, Glyph
<1>5. p \o c \in Seq(Code)
  BY ConcatProperties
<1>6. Accounts(now, AfterByte(At(q, s), b), Append(p \o c, b), whole, TextOf(text, Typing(s, k)), peeked)
  BY <1>1, <1>3, <1>4, <1>5, <1>0, <1>9, AccountsPush DEF TextOf
<1> QED  BY <1>2, <1>6, <1>0, ConcatAppend

LEMMA PushBroken ==
  ASSUME NEW now \in DriverState, NEW s \in DriverSt, NEW p \in Seq(Code), NEW whole \in BOOLEAN,
         NEW text \in Seq(Character), NEW peeked \in Glyph,
         NEW c \in Seq(Code), NEW q, NEW b, NEW t, NEW k \in Code, Breaks(q, b, t, k),
         Accounts(now, At(q, s), p \o c, whole, text, peeked)
  PROVE  Accounts(now, At(t, Turned(s, k, FALSE)), p \o Append(c, b), whole, text, peeked)
<1>0. q \in ParserState /\ t \in ParserState /\ b \in Code \ Answer /\ Parse(q, b) = Parsed(t, "BREAK", k)
  BY DEF Breaks, OfKeys
<1>1. At(q, s) \in DriverState /\ At(q, s).parser = q /\ At(q, s).st = s
  BY <1>0, AtType
<1>9. Sound(At(q, s), b)
  BY <1>0, <1>1 DEF Sound, Parsed
<1>2. AfterByte(At(q, s), b) = At(t, Turned(s, k, FALSE)) /\ CharOf(At(q, s), b) = NoChar
  <2> DEFINE r == Parsed(t, "BREAK", k)
  <2>1. r.action = "BREAK" /\ r.key = k /\ r.state = t
    BY DEF Parsed
  <2> HIDE DEF r
  <2>2. AfterKey(s, r) = Turned(s, k, FALSE)
    BY <2>1, AfterKeyIs
  <2>3. Parse(q, b) = r
    BY <1>0 DEF r
  <2> QED  BY <1>1, <2>1, <2>2, <2>3 DEF AfterByte, At, CharOf
<1>3. p \o c \in Seq(Code) /\ NoChar \in Glyph
  BY ConcatProperties DEF Glyph
<1>4. Accounts(now, AfterByte(At(q, s), b), Append(p \o c, b), whole, text, peeked)
  BY <1>1, <1>2, <1>3, <1>0, <1>9, AccountsPush
<1> QED  BY <1>2, <1>4, <1>0, ConcatAppend

(* Pause and Print Screen type nothing.                                    *)
LEMMA NothingTyped ==
  ASSUME NEW s \in DriverSt, NEW k \in {KB_PAUSE, KB_PSCREEN}, NEW make \in BOOLEAN
  PROVE  Turned(s, k, make) = s /\ Typing(s, k) = NoChar
<1>1. Turned(s, k, make) = s /\ k \notin Silent
  BY DEF Turned, Silent, KB_PAUSE, KB_PSCREEN, KB_CAPSLOCK, KB_NUMLOCK, KB_LSHIFT, KB_RSHIFT, KB_RALT
<1>2. k \notin {KB_A, KB_Q, KB_7, KB_RETURN, KP_1, KP_DOT, KP_SLASH}
  BY DEF KB_PAUSE, KB_PSCREEN, KB_A, KB_Q, KB_7, KB_RETURN, KP_1, KP_DOT, KP_SLASH
<1>3. AsciiLut(k) = <<NoChar, NoChar, NoChar, NoChar>>
  BY <1>2 DEF AsciiLut
<1>4. Map(s, k) = NoChar
  <2>1. k \notin KeyPad
    BY <1>2 DEF KeyPad
  <2>2. ~isalpha(NoChar)
    BY DEF isalpha, NoChar
  <2>3. \A i \in 1 .. 4 : AsciiLut(k)[i] = NoChar
    BY <1>3
  <2> HIDE DEF NoChar
  <2> QED  BY <2>1, <2>2, <2>3 DEF Map
<1> QED  BY <1>1, <1>4 DEF Typing

LEMMA KeyIs ==
  ASSUME NEW k \in Key
  PROVE  /\ k \in Code /\ KeysLut[k] = k
         /\ k \notin {KB_NONE, KB_COMBO, 0, 146, 170, 252}
<1>1. k \in Code /\ KeysLut[k] = k /\ k \notin {KB_NONE, KB_COMBO}
  BY KeyAssumption
<1>2. KeysLut[170] = KB_NONE /\ KeysLut[252] = KB_PSCREEN
  BY DEF KeysLut, Code, Unassigned, KB_COMBO, KB_NONE, KB_PSCREEN
<1> QED  BY <1>1, <1>2 DEF KB_NONE, KB_COMBO, KB_PSCREEN

Making(s, k)   == At("MAKE_START", Turned(s, k, TRUE))
Breaking(s, k) == At("MAKE_START", Turned(s, k, FALSE))

Regular(k) == ~Extended(k) /\ k \notin {KB_PAUSE, KB_PSCREEN}

LEMMA CodesAre ==
  ASSUME NEW k \in Key
  PROVE  /\ k = KB_PAUSE => /\ MakeCode(k) = <<225, 20, 119, 225, 240, 20, 240, 119>>
                            /\ BreakCode(k) = <<>>
         /\ k = KB_PSCREEN => /\ MakeCode(k) = <<224, 18, 224, 124>>
                              /\ BreakCode(k) = <<224, 240, 124, 224, 240, 18>>
         /\ Extended(k) => MakeCode(k) = <<224, k - 128>> /\ BreakCode(k) = <<224, 240, k - 128>>
         /\ Regular(k) => MakeCode(k) = <<k>> /\ BreakCode(k) = <<240, k>>
<1>1. KB_PAUSE # KB_PSCREEN /\ ~Extended(KB_PAUSE) /\ ~Extended(KB_PSCREEN)
  BY DEF KB_PAUSE, KB_PSCREEN, Extended
<1>2. CASE k = KB_PAUSE
  BY <1>1, <1>2 DEF MakeCode, BreakCode, Regular
<1>3. CASE k = KB_PSCREEN
  BY <1>1, <1>3 DEF MakeCode, BreakCode, Regular
<1>4. CASE Extended(k)
  BY <1>1, <1>4 DEF MakeCode, BreakCode, Regular
<1>5. CASE Regular(k)
  BY <1>1, <1>5 DEF MakeCode, BreakCode, Regular
<1> QED  BY <1>2, <1>3, <1>4, <1>5 DEF Regular

LEMMA ParseRegular ==
  ASSUME NEW k \in Key, Regular(k)
  PROVE  /\ k \in Code \ Answer
         /\ Parse("MAKE_START", k) = Parsed("MAKE_START", "MAKE", k)
         /\ Parse("BREAK_F0", k) = Parsed("MAKE_START", "BREAK", k)
         /\ Parse("MAKE_START", 240) = Prefix("BREAK_F0")
<1>1. /\ k \in Code /\ KeysLut[k] = k /\ k \notin {KB_NONE, KB_COMBO, 0, 146, 170, 252}
  BY KeyIs
<1>2. k < 128 \/ k = 131
  <2>1. k \notin 128 .. 255 \/ k \in {131, 254, 132}
    BY DEF Regular, Extended, KB_F7, KB_PAUSE, KB_PSCREEN
  <2> QED  BY <1>1, <2>1 DEF Code, Regular, KB_PAUSE, KB_PSCREEN
<1>3. k \notin {224, 225, 240, 250, 254}
  BY <1>2
<1>4. KeyOf(k, FALSE) = k
  BY <1>1 DEF KeyOf
<1>5. Plain("MAKE", k) = Parsed("MAKE_START", "MAKE", k) /\ Plain("BREAK", k) = Parsed("MAKE_START", "BREAK", k)
  BY <1>1 DEF Plain
<1>6. InState("MAKE_START", k) = Plain("MAKE", KeyOf(k, FALSE))
  BY <1>1, <1>3, InStart
<1>7. InState("BREAK_F0", k) = Plain("BREAK", KeyOf(k, FALSE))
  BY <1>1, InPrefix
<1>8. 240 \in Code
  BY DEF Code
<1>9. InState("MAKE_START", 240) = Prefix("BREAK_F0")
  BY <1>8, InStart
<1>10. /\ Parse("MAKE_START", k) = InState("MAKE_START", k) /\ Parse("BREAK_F0", k) = InState("BREAK_F0", k)
       /\ Parse("MAKE_START", 240) = InState("MAKE_START", 240)
  BY <1>1, <1>8, ParseIs
<1>11. k \notin Answer
  BY <1>3 DEF Answer, ACK_CODE, RESEND
<1> QED  BY <1>1, <1>4, <1>5, <1>6, <1>7, <1>9, <1>10, <1>11

LEMMA ParseEscape ==
  /\ Parse("MAKE_START", 224) = Prefix("MAKE_E0")
  /\ Parse("MAKE_E0", 240) = Prefix("BREAK_E0_F0")
<1>1. 224 \in Code /\ 240 \in Code
  BY DEF Code
<1>2. InState("MAKE_START", 224) = Prefix("MAKE_E0")
  BY <1>1, InStart
<1>3. InState("MAKE_E0", 240) = Prefix("BREAK_E0_F0")
  BY <1>1, InPrefix
<1> QED  BY <1>1, <1>2, <1>3, ParseIs

LEMMA ParseExtended ==
  ASSUME NEW k \in Key, Extended(k)
  PROVE  /\ k - 128 \in Code \ Answer
         /\ Parse("MAKE_E0", k - 128) = Parsed("MAKE_START", "MAKE", k)
         /\ Parse("BREAK_E0_F0", k - 128) = Parsed("MAKE_START", "BREAK", k)
<1>1. /\ k \in Code /\ KeysLut[k] = k /\ k \notin {KB_NONE, KB_COMBO, 0, 146, 170, 252}
  BY KeyIs
<1>2. k \in 128 .. 255 /\ k # 128
  <2>1. KeysLut[128] = KB_NONE
    BY DEF KeysLut, Code, Unassigned
  <2> QED  BY <1>1, <2>1 DEF Extended, KB_NONE
<1> DEFINE b == k - 128
<1>3. b \in 1 .. 127 /\ b + 128 = k
  BY <1>2
<1> HIDE DEF b
<1>4. b \in Code /\ b \notin {0, 170, 252, 240} /\ b \notin Answer
  BY <1>3 DEF Code, Answer, ACK_CODE, RESEND
<1>5. KeyOf(b, TRUE) = k
  BY <1>1, <1>3 DEF KeyOf
<1>6. Escaped("MAKE", k) = Parsed("MAKE_START", "MAKE", k) /\ Escaped("BREAK", k) = Parsed("MAKE_START", "BREAK", k)
  BY <1>1 DEF Escaped
<1>7. /\ InState("MAKE_E0", b) = Escaped("MAKE", KeyOf(b, TRUE))
      /\ InState("BREAK_E0_F0", b) = Escaped("BREAK", KeyOf(b, TRUE))
  BY <1>4, InPrefix
<1>8. Parse("MAKE_E0", b) = InState("MAKE_E0", b) /\ Parse("BREAK_E0_F0", b) = InState("BREAK_E0_F0", b)
  BY <1>4, ParseIs
<1> QED  BY <1>4, <1>5, <1>6, <1>7, <1>8 DEF b

(* The fake shifts of Print Screen are no keys.                            *)
LEMMA ParsePrintScreen ==
  /\ Parse("MAKE_E0", 18) = Prefix("MAKE_START")
  /\ Parse("BREAK_E0_F0", 18) = Prefix("MAKE_START")
  /\ Parse("MAKE_E0", 124) = Parsed("MAKE_START", "MAKE", KB_PSCREEN)
  /\ Parse("BREAK_E0_F0", 124) = Parsed("MAKE_START", "BREAK", KB_PSCREEN)
<1>1. KeysLut[146] = KB_COMBO /\ KeysLut[252] = KB_PSCREEN
  BY DEF KeysLut, Code, Unassigned, KB_COMBO, KB_NONE, KB_PSCREEN
<1>2. KeyOf(18, TRUE) = KB_COMBO /\ KeyOf(124, TRUE) = KB_PSCREEN
  BY <1>1 DEF KeyOf
<1>3. 18 \in Code /\ 124 \in Code
  BY DEF Code
<1>4. KB_COMBO # KB_NONE /\ KB_PSCREEN # KB_NONE /\ KB_PSCREEN # KB_COMBO
  BY DEF KB_COMBO, KB_NONE, KB_PSCREEN
<1>5. \A a \in {"MAKE", "BREAK"} : /\ Escaped(a, KB_COMBO) = Prefix("MAKE_START")
                                   /\ Escaped(a, KB_PSCREEN) = Parsed("MAKE_START", a, KB_PSCREEN)
  BY <1>4 DEF Escaped
<1>6. /\ InState("MAKE_E0", 18) = Escaped("MAKE", KB_COMBO) /\ InState("BREAK_E0_F0", 18) = Escaped("BREAK", KB_COMBO)
      /\ InState("MAKE_E0", 124) = Escaped("MAKE", KB_PSCREEN)
      /\ InState("BREAK_E0_F0", 124) = Escaped("BREAK", KB_PSCREEN)
  <2>1. \A b \in Code \ {240} : InState("MAKE_E0", b) = Escaped("MAKE", KeyOf(b, TRUE))
    BY InPrefix
  <2>2. \A b \in Code : InState("BREAK_E0_F0", b) = Escaped("BREAK", KeyOf(b, TRUE))
    BY InPrefix
  <2>0. 18 \in Code \ {240} /\ 124 \in Code \ {240}
    BY <1>3
  <2>3. InState("MAKE_E0", 18) = Escaped("MAKE", KB_COMBO)
    <3>1. InState("MAKE_E0", 18) = Escaped("MAKE", KeyOf(18, TRUE))
      BY <2>0, <2>1
    <3> QED  BY <1>2, <3>1
  <2>4. InState("MAKE_E0", 124) = Escaped("MAKE", KB_PSCREEN)
    <3>1. InState("MAKE_E0", 124) = Escaped("MAKE", KeyOf(124, TRUE))
      BY <2>0, <2>1
    <3> QED  BY <1>2, <3>1
  <2>5. InState("BREAK_E0_F0", 18) = Escaped("BREAK", KB_COMBO)
    <3>1. InState("BREAK_E0_F0", 18) = Escaped("BREAK", KeyOf(18, TRUE))
      BY <1>3, <2>2
    <3> QED  BY <1>2, <3>1
  <2>6. InState("BREAK_E0_F0", 124) = Escaped("BREAK", KB_PSCREEN)
    <3>1. InState("BREAK_E0_F0", 124) = Escaped("BREAK", KeyOf(124, TRUE))
      BY <1>3, <2>2
    <3> QED  BY <1>2, <3>1
  <2> QED  BY <2>3, <2>4, <2>5, <2>6
<1>7. \A s \in {"MAKE_E0", "BREAK_E0_F0"} : Parse(s, 18) = InState(s, 18) /\ Parse(s, 124) = InState(s, 124)
  BY <1>3, ParseIs
<1> QED  BY <1>5, <1>6, <1>7

LEMMA ParsePause ==
  /\ Parse("MAKE_START", 225) = Prefix("MAKE_E1")
  /\ Parse("MAKE_E1", 20) = Prefix("MAKE_E1_14")
  /\ Parse("MAKE_E1_14", 119) = Parsed("MAKE_E1_14_77", "MAKE", KB_PAUSE)
  /\ Parse("MAKE_E1_14_77", 225) = Prefix("BREAK_E1")
  /\ Parse("BREAK_E1", 240) = Prefix("BREAK_E1_F0")
  /\ Parse("BREAK_E1_F0", 20) = Prefix("BREAK_E1_F0_14")
  /\ Parse("BREAK_E1_F0_14", 240) = Prefix("BREAK_E1_F0_14_F0")
  /\ Parse("BREAK_E1_F0_14_F0", 119) = Parsed("MAKE_START", "BREAK", KB_PAUSE)
<1>1. 225 \in Code /\ 20 \in Code /\ 119 \in Code /\ 240 \in Code
  BY DEF Code
<1>2. InState("MAKE_START", 225) = Prefix("MAKE_E1")
  BY <1>1, InStart
<1>3. \A s \in Pausing, b \in Code : b = PauseStep[s][1] => InState(s, b) = PauseStep[s][2]
  BY InPrefix
<1>4. /\ PauseStep["MAKE_E1"] = <<20, Prefix("MAKE_E1_14")>>
      /\ PauseStep["MAKE_E1_14"] = <<119, Parsed("MAKE_E1_14_77", "MAKE", KB_PAUSE)>>
      /\ PauseStep["MAKE_E1_14_77"] = <<225, Prefix("BREAK_E1")>>
      /\ PauseStep["BREAK_E1"] = <<240, Prefix("BREAK_E1_F0")>>
      /\ PauseStep["BREAK_E1_F0"] = <<20, Prefix("BREAK_E1_F0_14")>>
      /\ PauseStep["BREAK_E1_F0_14"] = <<240, Prefix("BREAK_E1_F0_14_F0")>>
      /\ PauseStep["BREAK_E1_F0_14_F0"] = <<119, Parsed("MAKE_START", "BREAK", KB_PAUSE)>>
  BY DEF PauseStep
<1>5. \A x, y : <<x, y>>[1] = x /\ <<x, y>>[2] = y
  OBVIOUS
<1>6. "MAKE_E1" \in Pausing /\ "MAKE_E1_14" \in Pausing /\ "MAKE_E1_14_77" \in Pausing /\ "BREAK_E1" \in Pausing
      /\ "BREAK_E1_F0" \in Pausing /\ "BREAK_E1_F0_14" \in Pausing /\ "BREAK_E1_F0_14_F0" \in Pausing
  BY DEF Pausing
<1>7. \A s, b : b \in {225, 20, 119, 240} => Parse(s, b) = InState(s, b)
  BY <1>1, ParseIs
<1>8. /\ InState("MAKE_E1", 20) = Prefix("MAKE_E1_14")
      /\ InState("MAKE_E1_14", 119) = Parsed("MAKE_E1_14_77", "MAKE", KB_PAUSE)
      /\ InState("MAKE_E1_14_77", 225) = Prefix("BREAK_E1")
      /\ InState("BREAK_E1", 240) = Prefix("BREAK_E1_F0")
  BY <1>1, <1>3, <1>4, <1>5, <1>6
<1>9. /\ InState("BREAK_E1_F0", 20) = Prefix("BREAK_E1_F0_14")
      /\ InState("BREAK_E1_F0_14", 240) = Prefix("BREAK_E1_F0_14_F0")
      /\ InState("BREAK_E1_F0_14_F0", 119) = Parsed("MAKE_START", "BREAK", KB_PAUSE)
  BY <1>1, <1>3, <1>4, <1>5, <1>6
<1> QED  BY <1>2, <1>7, <1>8, <1>9

(* Tuples byte by byte.                                                    *)
LEMMA Grows ==
  ASSUME NEW s \in Seq(Code), NEW t \in Seq(Code), NEW b \in Code, Len(t) = Len(s) + 1,
         \A i \in 1 .. Len(s) : t[i] = s[i], t[Len(s) + 1] = b
  PROVE  Append(s, b) = t
<1>1. /\ Append(s, b) \in Seq(Code) /\ Len(Append(s, b)) = Len(s) + 1 /\ Append(s, b)[Len(s) + 1] = b
      /\ \A i \in 1 .. Len(s) : Append(s, b)[i] = s[i]
  BY AppendProperties
<1>2. Len(s) \in Nat
  BY LenProperties
<1>3. \A i \in 1 .. Len(t) : Append(s, b)[i] = t[i]
  BY <1>1, <1>2
<1> QED  BY <1>1, <1>2, <1>3, SeqEqual

LEMMA Grow2 ==
  ASSUME NEW a \in Code, NEW b \in Code
  PROVE  Append(<<a>>, b) = <<a, b>>
<1> DEFINE s == <<a>>
           t == <<a, b>>
<1>1. s \in Seq(Code) /\ Len(s) = 1 /\ t \in Seq(Code) /\ Len(t) = 2
  OBVIOUS
<1>2. (\A i \in 1 .. 1 : t[i] = s[i]) /\ t[2] = b
  OBVIOUS
<1> HIDE DEF s, t
<1>3. Len(t) = Len(s) + 1 /\ (\A i \in 1 .. Len(s) : t[i] = s[i]) /\ t[Len(s) + 1] = b
  BY <1>1, <1>2
<1>4. Append(s, b) = t
  BY <1>1, <1>3, Grows
<1> QED  BY <1>4 DEF s, t

LEMMA Grow3 ==
  ASSUME NEW a \in Code, NEW b \in Code, NEW c \in Code
  PROVE  Append(<<a, b>>, c) = <<a, b, c>>
<1> DEFINE s == <<a, b>>
           t == <<a, b, c>>
<1>1. s \in Seq(Code) /\ Len(s) = 2 /\ t \in Seq(Code) /\ Len(t) = 3
  OBVIOUS
<1>2. (\A i \in 1 .. 2 : t[i] = s[i]) /\ t[3] = c
  OBVIOUS
<1> HIDE DEF s, t
<1>3. Len(t) = Len(s) + 1 /\ (\A i \in 1 .. Len(s) : t[i] = s[i]) /\ t[Len(s) + 1] = c
  BY <1>1, <1>2
<1>4. Append(s, c) = t
  BY <1>1, <1>3, Grows
<1> QED  BY <1>4 DEF s, t

LEMMA Grow4 ==
  ASSUME NEW a \in Code, NEW b \in Code, NEW c \in Code, NEW d \in Code
  PROVE  Append(<<a, b, c>>, d) = <<a, b, c, d>>
<1> DEFINE s == <<a, b, c>>
           t == <<a, b, c, d>>
<1>1. s \in Seq(Code) /\ Len(s) = 3 /\ t \in Seq(Code) /\ Len(t) = 4
  OBVIOUS
<1>2. (\A i \in 1 .. 3 : t[i] = s[i]) /\ t[4] = d
  OBVIOUS
<1> HIDE DEF s, t
<1>3. Len(t) = Len(s) + 1 /\ (\A i \in 1 .. Len(s) : t[i] = s[i]) /\ t[Len(s) + 1] = d
  BY <1>1, <1>2
<1>4. Append(s, d) = t
  BY <1>1, <1>3, Grows
<1> QED  BY <1>4 DEF s, t

LEMMA Grow5 ==
  ASSUME NEW a \in Code, NEW b \in Code, NEW c \in Code, NEW d \in Code, NEW e \in Code
  PROVE  Append(<<a, b, c, d>>, e) = <<a, b, c, d, e>>
<1> DEFINE s == <<a, b, c, d>>
           t == <<a, b, c, d, e>>
<1>1. s \in Seq(Code) /\ Len(s) = 4 /\ t \in Seq(Code) /\ Len(t) = 5
  OBVIOUS
<1>2. (\A i \in 1 .. 4 : t[i] = s[i]) /\ t[5] = e
  OBVIOUS
<1> HIDE DEF s, t
<1>3. Len(t) = Len(s) + 1 /\ (\A i \in 1 .. Len(s) : t[i] = s[i]) /\ t[Len(s) + 1] = e
  BY <1>1, <1>2
<1>4. Append(s, e) = t
  BY <1>1, <1>3, Grows
<1> QED  BY <1>4 DEF s, t

LEMMA Grow6 ==
  ASSUME NEW a \in Code, NEW b \in Code, NEW c \in Code, NEW d \in Code, NEW e \in Code,
         NEW f \in Code
  PROVE  Append(<<a, b, c, d, e>>, f) = <<a, b, c, d, e, f>>
<1> DEFINE s == <<a, b, c, d, e>>
           t == <<a, b, c, d, e, f>>
<1>1. s \in Seq(Code) /\ Len(s) = 5 /\ t \in Seq(Code) /\ Len(t) = 6
  OBVIOUS
<1>2. (\A i \in 1 .. 5 : t[i] = s[i]) /\ t[6] = f
  OBVIOUS
<1> HIDE DEF s, t
<1>3. Len(t) = Len(s) + 1 /\ (\A i \in 1 .. Len(s) : t[i] = s[i]) /\ t[Len(s) + 1] = f
  BY <1>1, <1>2
<1>4. Append(s, f) = t
  BY <1>1, <1>3, Grows
<1> QED  BY <1>4 DEF s, t

LEMMA BytesOfKeys ==
  /\ 225 \in Code \ Answer /\ 20 \in Code \ Answer /\ 119 \in Code \ Answer /\ 240 \in Code \ Answer
  /\ 224 \in Code \ Answer /\ 18 \in Code \ Answer /\ 124 \in Code \ Answer
  BY DEF Code, Answer, ACK_CODE, RESEND

LEMMA PrefixMoves ==
  /\ Moves("MAKE_START", 240, "BREAK_F0") /\ Moves("MAKE_START", 224, "MAKE_E0")
  /\ Moves("MAKE_E0", 240, "BREAK_E0_F0")
<1>1. /\ OfKeys("MAKE_START", 240, "BREAK_F0") /\ OfKeys("MAKE_START", 224, "MAKE_E0")
      /\ OfKeys("MAKE_E0", 240, "BREAK_E0_F0")
  BY BytesOfKeys DEF OfKeys, ParserState
<1>2. Parse("MAKE_START", 240) = Prefix("BREAK_F0")
  <2>1. 240 \in Code
    BY DEF Code
  <2>2. InState("MAKE_START", 240) = Prefix("BREAK_F0")
    BY <2>1, InStart
  <2> QED  BY <2>1, <2>2, ParseIs
<1> QED  BY <1>1, <1>2, ParseEscape DEF Moves

LEMMA ScreenMoves ==
  /\ Moves("MAKE_E0", 18, "MAKE_START") /\ Moves("BREAK_E0_F0", 18, "MAKE_START")
  /\ Makes("MAKE_E0", 124, "MAKE_START", KB_PSCREEN) /\ Breaks("BREAK_E0_F0", 124, "MAKE_START", KB_PSCREEN)
<1>1. /\ OfKeys("MAKE_E0", 18, "MAKE_START") /\ OfKeys("BREAK_E0_F0", 18, "MAKE_START")
      /\ OfKeys("MAKE_E0", 124, "MAKE_START") /\ OfKeys("BREAK_E0_F0", 124, "MAKE_START")
  BY BytesOfKeys DEF OfKeys, ParserState
<1> QED  BY <1>1, ParsePrintScreen DEF Moves, Makes, Breaks

LEMMA PauseMoves ==
  /\ Moves("MAKE_START", 225, "MAKE_E1") /\ Moves("MAKE_E1", 20, "MAKE_E1_14")
  /\ Makes("MAKE_E1_14", 119, "MAKE_E1_14_77", KB_PAUSE)
  /\ Moves("MAKE_E1_14_77", 225, "BREAK_E1") /\ Moves("BREAK_E1", 240, "BREAK_E1_F0")
  /\ Moves("BREAK_E1_F0", 20, "BREAK_E1_F0_14") /\ Moves("BREAK_E1_F0_14", 240, "BREAK_E1_F0_14_F0")
  /\ Breaks("BREAK_E1_F0_14_F0", 119, "MAKE_START", KB_PAUSE)
<1>1. /\ OfKeys("MAKE_START", 225, "MAKE_E1") /\ OfKeys("MAKE_E1", 20, "MAKE_E1_14")
      /\ OfKeys("MAKE_E1_14", 119, "MAKE_E1_14_77") /\ OfKeys("MAKE_E1_14_77", 225, "BREAK_E1")
      /\ OfKeys("BREAK_E1", 240, "BREAK_E1_F0") /\ OfKeys("BREAK_E1_F0", 20, "BREAK_E1_F0_14")
      /\ OfKeys("BREAK_E1_F0_14", 240, "BREAK_E1_F0_14_F0") /\ OfKeys("BREAK_E1_F0_14_F0", 119, "MAKE_START")
  BY BytesOfKeys DEF OfKeys, ParserState
<1> QED  BY <1>1, ParsePause DEF Moves, Makes, Breaks

LEMMA RegularMoves ==
  ASSUME NEW k \in Key, Regular(k)
  PROVE  Makes("MAKE_START", k, "MAKE_START", k) /\ Breaks("BREAK_F0", k, "MAKE_START", k)
  BY ParseRegular DEF Makes, Breaks, OfKeys, ParserState

LEMMA ExtendedMoves ==
  ASSUME NEW k \in Key, Extended(k)
  PROVE  /\ Makes("MAKE_E0", k - 128, "MAKE_START", k)
         /\ Breaks("BREAK_E0_F0", k - 128, "MAKE_START", k)
  BY ParseExtended DEF Makes, Breaks, OfKeys, ParserState

(* Whatever key is pressed or repeated, in the end the driver has it made, *)
(* and typed the character that goes with what it knew of the others.      *)
LEMMA MakeRun ==
  ASSUME NEW now \in DriverState, NEW s \in DriverSt, NEW p \in Seq(Code), NEW whole \in BOOLEAN,
         NEW text \in Seq(Character), NEW peeked \in Glyph, NEW k \in Key,
         Accounts(now, At("MAKE_START", s), p, whole, text, peeked)
  PROVE  /\ MakeCode(k) \in Seq(Code)
         /\ Accounts(now, Making(s, k), p \o MakeCode(k), whole, TextOf(text, Typing(s, k)), peeked)
<1>0. p \o <<>> = p /\ <<>> \in Seq(Code)
  OBVIOUS
<1>1. k \in Code
  BY KeyIs
<1> DEFINE Here(q, c) == Accounts(now, At(q, s), p \o c, whole, text, peeked)
<1>3. Here("MAKE_START", <<>>)
  BY <1>0
<1>4. ASSUME NEW q, NEW b, NEW t, Moves(q, b, t)
      PROVE  \A c \in Seq(Code) : \A d : d = Append(c, b) /\ Here(q, c) => Here(t, d)
  BY <1>4, PushPrefix
<1>5. ASSUME NEW q, NEW b, NEW t, Makes(q, b, t, k), NEW c \in Seq(Code), NEW d, d = Append(c, b), Here(q, c)
      PROVE  Accounts(now, At(t, Turned(s, k, TRUE)), p \o d, whole, TextOf(text, Typing(s, k)), peeked)
  BY <1>1, <1>5, PushMade
<1>6. ASSUME NEW q, NEW b, NEW t, Breaks(q, b, t, k), NEW c \in Seq(Code), NEW d, d = Append(c, b), Here(q, c)
      PROVE  Accounts(now, At(t, Turned(s, k, FALSE)), p \o d, whole, text, peeked)
  BY <1>1, <1>6, PushBroken
<1>7. CASE Regular(k)
  <2> DEFINE c0 == <<>>
             c1 == <<k>>
  <2>1. c0 \in Seq(Code)
    OBVIOUS
  <2>2. c1 \in Seq(Code) /\ c1 = Append(c0, k)
    BY BytesOfKeys, <1>1
  <2>3. MakeCode(k) = c1
    BY <1>7, CodesAre
  <2>4. Here("MAKE_START", c0)
    BY <1>3
  <2> HIDE DEF Here, c0, c1
  <2>5. Accounts(now, At("MAKE_START", Turned(s, k, TRUE)), p \o c1, whole, TextOf(text, Typing(s, k)), peeked)
    <3>1. Makes("MAKE_START", k, "MAKE_START", k)
      BY <1>7, RegularMoves
    <3>2. c0 \in Seq(Code) /\ c1 = Append(c0, k)
      BY <2>1, <2>2
    <3> QED  BY <3>1, <3>2, <2>4, <1>5
  <2> QED  BY <2>2, <2>3, <2>5 DEF Making
<1>8. CASE Extended(k)
  <2> DEFINE c0 == <<>>
             c1 == <<224>>
             c2 == <<224, k - 128>>
  <2>1. c0 \in Seq(Code)
    OBVIOUS
  <2>2. c1 \in Seq(Code) /\ c1 = Append(c0, 224)
    BY BytesOfKeys
  <2>3. c2 \in Seq(Code) /\ c2 = Append(c1, k - 128)
    BY BytesOfKeys, <1>8, ParseExtended, Grow2
  <2>4. MakeCode(k) = c2
    BY <1>8, CodesAre
  <2>5. Here("MAKE_START", c0)
    BY <1>3
  <2> HIDE DEF Here, c0, c1, c2
  <2>6. Here("MAKE_E0", c1)
    <3>0. Moves("MAKE_START", 224, "MAKE_E0")
      BY PrefixMoves
    <3>1. \A c \in Seq(Code) : \A d : d = Append(c, 224) /\ Here("MAKE_START", c) => Here("MAKE_E0", d)
      BY <3>0, <1>4
    <3>2. c0 \in Seq(Code) /\ c1 = Append(c0, 224)
      BY <2>1, <2>2
    <3> QED  BY <3>1, <3>2, <2>5
  <2>7. Accounts(now, At("MAKE_START", Turned(s, k, TRUE)), p \o c2, whole, TextOf(text, Typing(s, k)), peeked)
    <3>1. Makes("MAKE_E0", k - 128, "MAKE_START", k)
      BY <1>8, ExtendedMoves
    <3>2. c1 \in Seq(Code) /\ c2 = Append(c1, k - 128)
      BY <2>2, <2>3
    <3> QED  BY <3>1, <3>2, <2>6, <1>5
  <2> QED  BY <2>3, <2>4, <2>7 DEF Making
<1>9. CASE k = KB_PSCREEN
  <2> DEFINE c0 == <<>>
             c1 == <<224>>
             c2 == <<224, 18>>
             c3 == <<224, 18, 224>>
             c4 == <<224, 18, 224, 124>>
  <2>1. c0 \in Seq(Code)
    OBVIOUS
  <2>2. c1 \in Seq(Code) /\ c1 = Append(c0, 224)
    BY BytesOfKeys
  <2>3. c2 \in Seq(Code) /\ c2 = Append(c1, 18)
    BY BytesOfKeys, Grow2
  <2>4. c3 \in Seq(Code) /\ c3 = Append(c2, 224)
    BY BytesOfKeys, Grow3
  <2>5. c4 \in Seq(Code) /\ c4 = Append(c3, 124)
    BY BytesOfKeys, Grow4
  <2>6. MakeCode(k) = c4
    BY <1>9, CodesAre
  <2>7. Here("MAKE_START", c0)
    BY <1>3
  <2> HIDE DEF Here, c0, c1, c2, c3, c4
  <2>8. Here("MAKE_E0", c1)
    <3>0. Moves("MAKE_START", 224, "MAKE_E0")
      BY PrefixMoves
    <3>1. \A c \in Seq(Code) : \A d : d = Append(c, 224) /\ Here("MAKE_START", c) => Here("MAKE_E0", d)
      BY <3>0, <1>4
    <3>2. c0 \in Seq(Code) /\ c1 = Append(c0, 224)
      BY <2>1, <2>2
    <3> QED  BY <3>1, <3>2, <2>7
  <2>9. Here("MAKE_START", c2)
    <3>0. Moves("MAKE_E0", 18, "MAKE_START")
      BY ScreenMoves
    <3>1. \A c \in Seq(Code) : \A d : d = Append(c, 18) /\ Here("MAKE_E0", c) => Here("MAKE_START", d)
      BY <3>0, <1>4
    <3>2. c1 \in Seq(Code) /\ c2 = Append(c1, 18)
      BY <2>2, <2>3
    <3> QED  BY <3>1, <3>2, <2>8
  <2>10. Here("MAKE_E0", c3)
    <3>0. Moves("MAKE_START", 224, "MAKE_E0")
      BY PrefixMoves
    <3>1. \A c \in Seq(Code) : \A d : d = Append(c, 224) /\ Here("MAKE_START", c) => Here("MAKE_E0", d)
      BY <3>0, <1>4
    <3>2. c2 \in Seq(Code) /\ c3 = Append(c2, 224)
      BY <2>3, <2>4
    <3> QED  BY <3>1, <3>2, <2>9
  <2>11. Accounts(now, At("MAKE_START", Turned(s, k, TRUE)), p \o c4, whole, TextOf(text, Typing(s, k)), peeked)
    <3>1. Makes("MAKE_E0", 124, "MAKE_START", k)
      BY <1>9, ScreenMoves
    <3>2. c3 \in Seq(Code) /\ c4 = Append(c3, 124)
      BY <2>4, <2>5
    <3> QED  BY <3>1, <3>2, <2>10, <1>5
  <2> QED  BY <2>5, <2>6, <2>11 DEF Making
<1>10. CASE k = KB_PAUSE
  <2> DEFINE c0 == <<>>
             c1 == <<225>>
             c2 == <<225, 20>>
             c3 == <<225, 20, 119>>
             c4 == <<225, 20, 119, 225>>
             c5 == <<225, 20, 119, 225, 240>>
             c6 == <<225, 20, 119, 225, 240, 20>>
             c7 == <<225, 20, 119, 225, 240, 20, 240>>
             c8 == <<225, 20, 119, 225, 240, 20, 240, 119>>
  <2>1. c0 \in Seq(Code)
    OBVIOUS
  <2>2. c1 \in Seq(Code) /\ c1 = Append(c0, 225)
    BY BytesOfKeys
  <2>3. c2 \in Seq(Code) /\ c2 = Append(c1, 20)
    BY BytesOfKeys, Grow2
  <2>4. c3 \in Seq(Code) /\ c3 = Append(c2, 119)
    BY BytesOfKeys, Grow3
  <2>5. c4 \in Seq(Code) /\ c4 = Append(c3, 225)
    BY BytesOfKeys, Grow4
  <2>6. c5 \in Seq(Code) /\ c5 = Append(c4, 240)
    BY BytesOfKeys, Grow5
  <2>7. c6 \in Seq(Code) /\ c6 = Append(c5, 20)
    BY BytesOfKeys, Grow6
  <2>8. c7 \in Seq(Code) /\ c7 = Append(c6, 240)
    <3>1. 225 \in Code /\ 20 \in Code /\ 119 \in Code /\ 240 \in Code
      BY BytesOfKeys
    <3>2. c6 \in Seq(Code) /\ Len(c6) = 6 /\ c7 \in Seq(Code) /\ Len(c7) = 7
      BY <3>1
    <3>3. (\A i \in 1 .. 6 : c7[i] = c6[i]) /\ c7[7] = 240
      OBVIOUS
    <3> HIDE DEF c6, c7
    <3>4. Len(c7) = Len(c6) + 1 /\ (\A i \in 1 .. Len(c6) : c7[i] = c6[i]) /\ c7[Len(c6) + 1] = 240
      BY <3>2, <3>3
    <3>5. 240 \in Code /\ 119 \in Code
      BY <3>1
    <3>6. c6 \in Seq(Code) /\ c7 \in Seq(Code)
      BY <3>2
    <3>7. Append(c6, 240) = c7
      BY <3>4, <3>5, <3>6, Grows
    <3> QED  BY <3>6, <3>7
  <2>9. c8 \in Seq(Code) /\ c8 = Append(c7, 119)
    <3>1. 225 \in Code /\ 20 \in Code /\ 119 \in Code /\ 240 \in Code
      BY BytesOfKeys
    <3>2. c7 \in Seq(Code) /\ Len(c7) = 7 /\ c8 \in Seq(Code) /\ Len(c8) = 8
      BY <3>1
    <3>3. (\A i \in 1 .. 7 : c8[i] = c7[i]) /\ c8[8] = 119
      OBVIOUS
    <3> HIDE DEF c7, c8
    <3>4. Len(c8) = Len(c7) + 1 /\ (\A i \in 1 .. Len(c7) : c8[i] = c7[i]) /\ c8[Len(c7) + 1] = 119
      BY <3>2, <3>3
    <3>5. 240 \in Code /\ 119 \in Code
      BY <3>1
    <3>6. c7 \in Seq(Code) /\ c8 \in Seq(Code)
      BY <3>2
    <3>7. Append(c7, 119) = c8
      BY <3>4, <3>5, <3>6, Grows
    <3> QED  BY <3>6, <3>7
  <2>10. MakeCode(k) = c8
    BY <1>10, CodesAre
  <2>11. Here("MAKE_START", c0)
    BY <1>3
  <2> HIDE DEF Here, c0, c1, c2, c3, c4, c5, c6, c7, c8
  <2>12. /\ Turned(s, k, TRUE) = s /\ Turned(s, k, FALSE) = s
        /\ TextOf(text, Typing(s, k)) = text
    BY <1>10, NothingTyped DEF TextOf
  <2>13. Here("MAKE_E1", c1)
    <3>0. Moves("MAKE_START", 225, "MAKE_E1")
      BY PauseMoves
    <3>1. \A c \in Seq(Code) : \A d : d = Append(c, 225) /\ Here("MAKE_START", c) => Here("MAKE_E1", d)
      BY <3>0, <1>4
    <3>2. c0 \in Seq(Code) /\ c1 = Append(c0, 225)
      BY <2>1, <2>2
    <3> QED  BY <3>1, <3>2, <2>11
  <2>14. Here("MAKE_E1_14", c2)
    <3>0. Moves("MAKE_E1", 20, "MAKE_E1_14")
      BY PauseMoves
    <3>1. \A c \in Seq(Code) : \A d : d = Append(c, 20) /\ Here("MAKE_E1", c) => Here("MAKE_E1_14", d)
      BY <3>0, <1>4
    <3>2. c1 \in Seq(Code) /\ c2 = Append(c1, 20)
      BY <2>2, <2>3
    <3> QED  BY <3>1, <3>2, <2>13
  <2>15. Here("MAKE_E1_14_77", c3)
    <3>1. Makes("MAKE_E1_14", 119, "MAKE_E1_14_77", k)
      BY <1>10, PauseMoves
    <3>2. c2 \in Seq(Code) /\ c3 = Append(c2, 119)
      BY <2>3, <2>4
    <3>3. Accounts(now, At("MAKE_E1_14_77", Turned(s, k, TRUE)), p \o c3, whole, TextOf(text, Typing(s, k)), peeked)
      BY <3>1, <3>2, <2>14, <1>5
    <3> QED  BY <3>3, <2>12 DEF Here
  <2>16. Here("BREAK_E1", c4)
    <3>0. Moves("MAKE_E1_14_77", 225, "BREAK_E1")
      BY PauseMoves
    <3>1. \A c \in Seq(Code) : \A d : d = Append(c, 225) /\ Here("MAKE_E1_14_77", c) => Here("BREAK_E1", d)
      BY <3>0, <1>4
    <3>2. c3 \in Seq(Code) /\ c4 = Append(c3, 225)
      BY <2>4, <2>5
    <3> QED  BY <3>1, <3>2, <2>15
  <2>17. Here("BREAK_E1_F0", c5)
    <3>0. Moves("BREAK_E1", 240, "BREAK_E1_F0")
      BY PauseMoves
    <3>1. \A c \in Seq(Code) : \A d : d = Append(c, 240) /\ Here("BREAK_E1", c) => Here("BREAK_E1_F0", d)
      BY <3>0, <1>4
    <3>2. c4 \in Seq(Code) /\ c5 = Append(c4, 240)
      BY <2>5, <2>6
    <3> QED  BY <3>1, <3>2, <2>16
  <2>18. Here("BREAK_E1_F0_14", c6)
    <3>0. Moves("BREAK_E1_F0", 20, "BREAK_E1_F0_14")
      BY PauseMoves
    <3>1. \A c \in Seq(Code) : \A d : d = Append(c, 20) /\ Here("BREAK_E1_F0", c) => Here("BREAK_E1_F0_14", d)
      BY <3>0, <1>4
    <3>2. c5 \in Seq(Code) /\ c6 = Append(c5, 20)
      BY <2>6, <2>7
    <3> QED  BY <3>1, <3>2, <2>17
  <2>19. Here("BREAK_E1_F0_14_F0", c7)
    <3>0. Moves("BREAK_E1_F0_14", 240, "BREAK_E1_F0_14_F0")
      BY PauseMoves
    <3>1. \A c \in Seq(Code) : \A d : d = Append(c, 240) /\ Here("BREAK_E1_F0_14", c) => Here("BREAK_E1_F0_14_F0", d)
      BY <3>0, <1>4
    <3>2. c6 \in Seq(Code) /\ c7 = Append(c6, 240)
      BY <2>7, <2>8
    <3> QED  BY <3>1, <3>2, <2>18
  <2>20. Accounts(now, At("MAKE_START", Turned(s, k, FALSE)), p \o c8, whole, text, peeked)
    <3>1. Breaks("BREAK_E1_F0_14_F0", 119, "MAKE_START", k)
      BY <1>10, PauseMoves
    <3>2. c7 \in Seq(Code) /\ c8 = Append(c7, 119)
      BY <2>8, <2>9
    <3> QED  BY <3>1, <3>2, <2>19, <1>6
  <2> QED  BY <2>9, <2>10, <2>20, <2>12 DEF Making
<1> QED  BY <1>7, <1>8, <1>9, <1>10 DEF Regular

LEMMA BreakRun ==
  ASSUME NEW now \in DriverState, NEW s \in DriverSt, NEW p \in Seq(Code), NEW whole \in BOOLEAN,
         NEW text \in Seq(Character), NEW peeked \in Glyph, NEW k \in Key,
         Accounts(now, At("MAKE_START", s), p, whole, text, peeked)
  PROVE  /\ BreakCode(k) \in Seq(Code)
         /\ Accounts(now, Breaking(s, k), p \o BreakCode(k), whole, text, peeked)
<1>0. p \o <<>> = p /\ <<>> \in Seq(Code)
  OBVIOUS
<1>1. k \in Code
  BY KeyIs
<1> DEFINE Here(q, c) == Accounts(now, At(q, s), p \o c, whole, text, peeked)
<1>3. Here("MAKE_START", <<>>)
  BY <1>0
<1>4. ASSUME NEW q, NEW b, NEW t, Moves(q, b, t)
      PROVE  \A c \in Seq(Code) : \A d : d = Append(c, b) /\ Here(q, c) => Here(t, d)
  BY <1>4, PushPrefix
<1>5. ASSUME NEW q, NEW b, NEW t, Breaks(q, b, t, k), NEW c \in Seq(Code), NEW d, d = Append(c, b), Here(q, c)
      PROVE  Accounts(now, At(t, Turned(s, k, FALSE)), p \o d, whole, text, peeked)
  BY <1>1, <1>5, PushBroken
<1>6. CASE Regular(k)
  <2> DEFINE c0 == <<>>
             c1 == <<240>>
             c2 == <<240, k>>
  <2>1. c0 \in Seq(Code)
    OBVIOUS
  <2>2. c1 \in Seq(Code) /\ c1 = Append(c0, 240)
    BY BytesOfKeys, <1>1
  <2>3. c2 \in Seq(Code) /\ c2 = Append(c1, k)
    BY BytesOfKeys, <1>1, Grow2
  <2>4. BreakCode(k) = c2
    BY <1>6, CodesAre
  <2>5. Here("MAKE_START", c0)
    BY <1>3
  <2> HIDE DEF Here, c0, c1, c2
  <2>6. Here("BREAK_F0", c1)
    <3>0. Moves("MAKE_START", 240, "BREAK_F0")
      BY PrefixMoves
    <3>1. \A c \in Seq(Code) : \A d : d = Append(c, 240) /\ Here("MAKE_START", c) => Here("BREAK_F0", d)
      BY <3>0, <1>4
    <3>2. c0 \in Seq(Code) /\ c1 = Append(c0, 240)
      BY <2>1, <2>2
    <3> QED  BY <3>1, <3>2, <2>5
  <2>7. Accounts(now, At("MAKE_START", Turned(s, k, FALSE)), p \o c2, whole, text, peeked)
    <3>1. Breaks("BREAK_F0", k, "MAKE_START", k)
      BY <1>6, RegularMoves
    <3>2. c1 \in Seq(Code) /\ c2 = Append(c1, k)
      BY <2>2, <2>3
    <3> QED  BY <3>1, <3>2, <2>6, <1>5
  <2> QED  BY <2>3, <2>4, <2>7 DEF Breaking
<1>7. CASE Extended(k)
  <2> DEFINE c0 == <<>>
             c1 == <<224>>
             c2 == <<224, 240>>
             c3 == <<224, 240, k - 128>>
  <2>1. c0 \in Seq(Code)
    OBVIOUS
  <2>2. c1 \in Seq(Code) /\ c1 = Append(c0, 224)
    BY BytesOfKeys
  <2>3. c2 \in Seq(Code) /\ c2 = Append(c1, 240)
    BY BytesOfKeys, Grow2
  <2>4. c3 \in Seq(Code) /\ c3 = Append(c2, k - 128)
    BY BytesOfKeys, <1>7, ParseExtended, Grow3
  <2>5. BreakCode(k) = c3
    BY <1>7, CodesAre
  <2>6. Here("MAKE_START", c0)
    BY <1>3
  <2> HIDE DEF Here, c0, c1, c2, c3
  <2>7. Here("MAKE_E0", c1)
    <3>0. Moves("MAKE_START", 224, "MAKE_E0")
      BY PrefixMoves
    <3>1. \A c \in Seq(Code) : \A d : d = Append(c, 224) /\ Here("MAKE_START", c) => Here("MAKE_E0", d)
      BY <3>0, <1>4
    <3>2. c0 \in Seq(Code) /\ c1 = Append(c0, 224)
      BY <2>1, <2>2
    <3> QED  BY <3>1, <3>2, <2>6
  <2>8. Here("BREAK_E0_F0", c2)
    <3>0. Moves("MAKE_E0", 240, "BREAK_E0_F0")
      BY PrefixMoves
    <3>1. \A c \in Seq(Code) : \A d : d = Append(c, 240) /\ Here("MAKE_E0", c) => Here("BREAK_E0_F0", d)
      BY <3>0, <1>4
    <3>2. c1 \in Seq(Code) /\ c2 = Append(c1, 240)
      BY <2>2, <2>3
    <3> QED  BY <3>1, <3>2, <2>7
  <2>9. Accounts(now, At("MAKE_START", Turned(s, k, FALSE)), p \o c3, whole, text, peeked)
    <3>1. Breaks("BREAK_E0_F0", k - 128, "MAKE_START", k)
      BY <1>7, ExtendedMoves
    <3>2. c2 \in Seq(Code) /\ c3 = Append(c2, k - 128)
      BY <2>3, <2>4
    <3> QED  BY <3>1, <3>2, <2>8, <1>5
  <2> QED  BY <2>4, <2>5, <2>9 DEF Breaking
<1>8. CASE k = KB_PSCREEN
  <2> DEFINE c0 == <<>>
             c1 == <<224>>
             c2 == <<224, 240>>
             c3 == <<224, 240, 124>>
             c4 == <<224, 240, 124, 224>>
             c5 == <<224, 240, 124, 224, 240>>
             c6 == <<224, 240, 124, 224, 240, 18>>
  <2>1. c0 \in Seq(Code)
    OBVIOUS
  <2>2. c1 \in Seq(Code) /\ c1 = Append(c0, 224)
    BY BytesOfKeys
  <2>3. c2 \in Seq(Code) /\ c2 = Append(c1, 240)
    BY BytesOfKeys, Grow2
  <2>4. c3 \in Seq(Code) /\ c3 = Append(c2, 124)
    BY BytesOfKeys, Grow3
  <2>5. c4 \in Seq(Code) /\ c4 = Append(c3, 224)
    BY BytesOfKeys, Grow4
  <2>6. c5 \in Seq(Code) /\ c5 = Append(c4, 240)
    BY BytesOfKeys, Grow5
  <2>7. c6 \in Seq(Code) /\ c6 = Append(c5, 18)
    BY BytesOfKeys, Grow6
  <2>8. BreakCode(k) = c6
    BY <1>8, CodesAre
  <2>9. Here("MAKE_START", c0)
    BY <1>3
  <2> HIDE DEF Here, c0, c1, c2, c3, c4, c5, c6
  <2>10. Turned(s, k, FALSE) = s
    BY <1>8, NothingTyped
  <2>11. Here("MAKE_E0", c1)
    <3>0. Moves("MAKE_START", 224, "MAKE_E0")
      BY PrefixMoves
    <3>1. \A c \in Seq(Code) : \A d : d = Append(c, 224) /\ Here("MAKE_START", c) => Here("MAKE_E0", d)
      BY <3>0, <1>4
    <3>2. c0 \in Seq(Code) /\ c1 = Append(c0, 224)
      BY <2>1, <2>2
    <3> QED  BY <3>1, <3>2, <2>9
  <2>12. Here("BREAK_E0_F0", c2)
    <3>0. Moves("MAKE_E0", 240, "BREAK_E0_F0")
      BY PrefixMoves
    <3>1. \A c \in Seq(Code) : \A d : d = Append(c, 240) /\ Here("MAKE_E0", c) => Here("BREAK_E0_F0", d)
      BY <3>0, <1>4
    <3>2. c1 \in Seq(Code) /\ c2 = Append(c1, 240)
      BY <2>2, <2>3
    <3> QED  BY <3>1, <3>2, <2>11
  <2>13. Here("MAKE_START", c3)
    <3>1. Breaks("BREAK_E0_F0", 124, "MAKE_START", k)
      BY <1>8, ScreenMoves
    <3>2. c2 \in Seq(Code) /\ c3 = Append(c2, 124)
      BY <2>3, <2>4
    <3>3. Accounts(now, At("MAKE_START", Turned(s, k, FALSE)), p \o c3, whole, text, peeked)
      BY <3>1, <3>2, <2>12, <1>5
    <3> QED  BY <3>3, <2>10 DEF Here
  <2>14. Here("MAKE_E0", c4)
    <3>0. Moves("MAKE_START", 224, "MAKE_E0")
      BY PrefixMoves
    <3>1. \A c \in Seq(Code) : \A d : d = Append(c, 224) /\ Here("MAKE_START", c) => Here("MAKE_E0", d)
      BY <3>0, <1>4
    <3>2. c3 \in Seq(Code) /\ c4 = Append(c3, 224)
      BY <2>4, <2>5
    <3> QED  BY <3>1, <3>2, <2>13
  <2>15. Here("BREAK_E0_F0", c5)
    <3>0. Moves("MAKE_E0", 240, "BREAK_E0_F0")
      BY PrefixMoves
    <3>1. \A c \in Seq(Code) : \A d : d = Append(c, 240) /\ Here("MAKE_E0", c) => Here("BREAK_E0_F0", d)
      BY <3>0, <1>4
    <3>2. c4 \in Seq(Code) /\ c5 = Append(c4, 240)
      BY <2>5, <2>6
    <3> QED  BY <3>1, <3>2, <2>14
  <2>16. Here("MAKE_START", c6)
    <3>0. Moves("BREAK_E0_F0", 18, "MAKE_START")
      BY ScreenMoves
    <3>1. \A c \in Seq(Code) : \A d : d = Append(c, 18) /\ Here("BREAK_E0_F0", c) => Here("MAKE_START", d)
      BY <3>0, <1>4
    <3>2. c5 \in Seq(Code) /\ c6 = Append(c5, 18)
      BY <2>6, <2>7
    <3> QED  BY <3>1, <3>2, <2>15
  <2>17. Breaking(s, k) = At("MAKE_START", s)
    BY <2>10 DEF Breaking
  <2>18. BreakCode(k) \in Seq(Code)
    BY <2>7, <2>8
  <2>19. Accounts(now, At("MAKE_START", s), p \o c6, whole, text, peeked)
    BY <2>16 DEF Here
  <2> QED  BY <2>8, <2>17, <2>18, <2>19
<1>9. CASE k = KB_PAUSE
  <2>1. Turned(s, k, FALSE) = s /\ BreakCode(k) = <<>>
    BY <1>9, NothingTyped, CodesAre
  <2> QED  BY <1>0, <1>3, <2>1 DEF Breaking
<1> QED  BY <1>6, <1>7, <1>8, <1>9 DEF Regular

-----------------------------------------------------------------------------
(* With nothing on its way the driver has got there.                       *)
LEMMA AccountsDone ==
  ASSUME NEW now, NEW user, NEW whole, NEW text, NEW peeked,
         Accounts(now, user, <<>>, whole, text, peeked)
  PROVE  now = user
<1>1. Len(<<>>) = 0
  OBVIOUS
<1>2. PICK n \in 0 .. 0, w \in [0 .. 0 -> DriverState] : Leads(now, user, <<>>, n, w)
  BY <1>1 DEF Accounts
<1>3. n = 0
  OBVIOUS
<1> QED  BY <1>1, <1>2, <1>3 DEF Leads

(* The next byte does not reset the driver, unless a self test is over.    *)
LEMMA AccountsSound ==
  ASSUME NEW now, NEW user, NEW p \in Seq(Code), NEW whole, NEW text, NEW peeked,
         p # <<>>, \A i \in 1 .. Len(p) : p[i] # BAT_CODE,
         Accounts(now, user, p, whole, text, peeked)
  PROVE  Sound(now, Head(p))
<1>1. PICK n \in 0 .. Len(p), w \in [0 .. Len(p) -> DriverState] : Leads(now, user, p, n, w)
  BY DEF Accounts
<1>2. Len(p) \in Nat /\ Len(p) >= 1 /\ Head(p) = p[1]
  BY EmptySeq, LenProperties
<1>3. n = 0
  <2>1. n > 0 => p[n] = BAT_CODE /\ n \in 1 .. Len(p)
    BY <1>1, <1>2 DEF Leads
  <2> QED  BY <1>2, <2>1
<1>4. w[0] = now
  BY <1>1, <1>3 DEF Leads
<1>5. 1 \in n + 1 .. Len(p) /\ 1 - 1 = 0
  BY <1>2, <1>3
<1>6. Sound(w[1 - 1], p[1])
  BY <1>1, <1>5 DEF Leads
<1> QED  BY <1>2, <1>4, <1>5, <1>6

(* The sequences of the keys hold neither answers nor the self test's      *)
(* result.                                                                 *)
Clean == Code \ (Answer \cup {BAT_CODE})

LEMMA CodesAreClean ==
  ASSUME NEW k \in Key
  PROVE  MakeCode(k) \in Seq(Clean) /\ BreakCode(k) \in Seq(Clean)
<1>1. /\ 225 \in Clean /\ 20 \in Clean /\ 119 \in Clean /\ 240 \in Clean
      /\ 224 \in Clean /\ 18 \in Clean /\ 124 \in Clean
  BY DEF Clean, Code, Answer, ACK_CODE, RESEND, BAT_CODE
<1>2. CASE k = KB_PAUSE
  <2>1. MakeCode(k) = <<225, 20, 119, 225, 240, 20, 240, 119>> /\ BreakCode(k) = <<>>
    BY <1>2, CodesAre
  <2>2. <<225, 20, 119, 225, 240, 20, 240, 119>> \in Seq(Clean)
    BY <1>1
  <2>3. <<>> \in Seq(Clean)
    BY <1>1
  <2> QED  BY <2>1, <2>2, <2>3
<1>3. CASE k = KB_PSCREEN
  <2>1. MakeCode(k) = <<224, 18, 224, 124>> /\ BreakCode(k) = <<224, 240, 124, 224, 240, 18>>
    BY <1>3, CodesAre
  <2>2. <<224, 18, 224, 124>> \in Seq(Clean)
    BY <1>1
  <2>3. <<224, 240, 124, 224, 240, 18>> \in Seq(Clean)
    BY <1>1
  <2> QED  BY <2>1, <2>2, <2>3
<1>4. CASE Extended(k)
  <2>0. k - 128 \in Clean
    BY <1>4, KeyIs DEF Extended, Clean, Code, Answer, ACK_CODE, RESEND, BAT_CODE
  <2>1. MakeCode(k) = <<224, k - 128>> /\ BreakCode(k) = <<224, 240, k - 128>>
    BY <1>4, CodesAre
  <2>2. <<224, k - 128>> \in Seq(Clean)
    BY <1>1, <2>0
  <2>3. <<224, 240, k - 128>> \in Seq(Clean)
    BY <1>1, <2>0
  <2> QED  BY <2>1, <2>2, <2>3
<1>5. CASE Regular(k)
  <2>0. k \in Clean
    BY <1>5, KeyIs DEF Regular, Extended, Clean, Code, Answer, ACK_CODE, RESEND, BAT_CODE, KB_F7, KB_PAUSE,
      KB_PSCREEN
  <2>1. MakeCode(k) = <<k>> /\ BreakCode(k) = <<240, k>>
    BY <1>5, CodesAre
  <2>2. <<k>> \in Seq(Clean)
    BY <1>1, <2>0
  <2>3. <<240, k>> \in Seq(Clean)
    BY <1>1, <2>0
  <2> QED  BY <2>1, <2>2, <2>3
<1> QED  BY <1>2, <1>3, <1>4, <1>5 DEF Regular

-----------------------------------------------------------------------------
(* What the driver has to know in the end is what the user knows.          *)
LockState(on, down) == IF down THEN (IF on THEN 1 ELSE 3) ELSE (IF on THEN 2 ELSE 0)

Meant(h, l) ==
  [lshift |-> KB_LSHIFT \in h, rshift |-> KB_RSHIFT \in h, alt_gr |-> KB_RALT \in h,
   caps_lock |-> LockState(l.caps, KB_CAPSLOCK \in h),
   num_lock |-> LockState(l.num, KB_NUMLOCK \in h)]

Locks == [caps : BOOLEAN, num : BOOLEAN]

LEMMA MeantIs ==
  ASSUME NEW h, NEW l \in Locks
  PROVE  /\ Meant(h, l) \in DriverSt
         /\ Meant(h, l).lshift <=> KB_LSHIFT \in h
         /\ Meant(h, l).rshift <=> KB_RSHIFT \in h
         /\ Meant(h, l).alt_gr <=> KB_RALT \in h
         /\ Meant(h, l).caps_lock = LockState(l.caps, KB_CAPSLOCK \in h)
         /\ Meant(h, l).num_lock = LockState(l.num, KB_NUMLOCK \in h)
<1>1. l.caps \in BOOLEAN /\ l.num \in BOOLEAN
  BY DEF Locks
<1>3. LockState(l.caps, KB_CAPSLOCK \in h) \in KeyState
  BY <1>1 DEF LockState, KeyState
<1>4. LockState(l.num, KB_NUMLOCK \in h) \in KeyState
  BY <1>1 DEF LockState, KeyState
<1>5. (KB_LSHIFT \in h) \in BOOLEAN /\ (KB_RSHIFT \in h) \in BOOLEAN /\ (KB_RALT \in h) \in BOOLEAN
  OBVIOUS
<1>6. Meant(h, l) \in DriverSt
  BY <1>3, <1>4, <1>5 DEF Meant, DriverSt
<1>7. /\ Meant(h, l).lshift <=> KB_LSHIFT \in h
      /\ Meant(h, l).rshift <=> KB_RSHIFT \in h
      /\ Meant(h, l).alt_gr <=> KB_RALT \in h
  BY DEF Meant
<1>8. /\ Meant(h, l).caps_lock = LockState(l.caps, KB_CAPSLOCK \in h)
      /\ Meant(h, l).num_lock = LockState(l.num, KB_NUMLOCK \in h)
  BY DEF Meant
<1> QED  BY <1>6, <1>7, <1>8

LEMMA SameSt ==
  ASSUME NEW s \in DriverSt, NEW t \in DriverSt, s.lshift <=> t.lshift, s.rshift <=> t.rshift,
         s.alt_gr <=> t.alt_gr, s.caps_lock = t.caps_lock, s.num_lock = t.num_lock
  PROVE  s = t
  BY DEF DriverSt

(* The rows of AsciiLut: letters in the first two columns or in none.      *)
LEMMA RowsAre ==
  ASSUME NEW k
  PROVE  /\ k \in KeyPad => ~isalpha(AsciiLut(k)[1])
         /\ k \notin KeyPad /\ ~isalpha(AsciiLut(k)[1]) => \A i \in 1 .. 4 : ~isalpha(AsciiLut(k)[i])
         /\ isalpha(AsciiLut(k)[1]) => /\ isalpha(AsciiLut(k)[2])
                                       /\ ~isalpha(AsciiLut(k)[3]) /\ ~isalpha(AsciiLut(k)[4])
         /\ k \in Silent => k \notin KeyPad /\ \A i \in 1 .. 4 : AsciiLut(k)[i] = NoChar
<1> USE DEF KB_A, KB_Q, KB_7, KB_RETURN, KP_1, KP_DOT, KP_SLASH
<1>1. CASE k = KB_A
  <2>1. /\ AsciiLut(k)[1] = "a" /\ AsciiLut(k)[2] = "A"
        /\ AsciiLut(k)[3] = NoChar /\ AsciiLut(k)[4] = NoChar
    BY <1>1 DEF AsciiLut
  <2>2. k \notin Silent
    BY <1>1 DEF Silent, KB_CAPSLOCK, KB_NUMLOCK, KB_LSHIFT, KB_RSHIFT, KB_RALT
  <2>3. k \notin KeyPad
    BY <1>1 DEF KeyPad
  <2> QED  BY <2>1, <2>2, <2>3 DEF isalpha, NoChar
<1>2. CASE k = KB_Q
  <2>1. /\ AsciiLut(k)[1] = "q" /\ AsciiLut(k)[2] = "Q"
        /\ AsciiLut(k)[3] = "@" /\ AsciiLut(k)[4] = NoChar
    BY <1>2 DEF AsciiLut
  <2>2. k \notin Silent
    BY <1>2 DEF Silent, KB_CAPSLOCK, KB_NUMLOCK, KB_LSHIFT, KB_RSHIFT, KB_RALT
  <2>3. k \notin KeyPad
    BY <1>2 DEF KeyPad
  <2> QED  BY <2>1, <2>2, <2>3 DEF isalpha, NoChar
<1>3. CASE k = KB_7
  <2>1. /\ AsciiLut(k)[1] = "7" /\ AsciiLut(k)[2] = "/"
        /\ AsciiLut(k)[3] = "{" /\ AsciiLut(k)[4] = NoChar
    BY <1>3 DEF AsciiLut
  <2>2. k \notin Silent
    BY <1>3 DEF Silent, KB_CAPSLOCK, KB_NUMLOCK, KB_LSHIFT, KB_RSHIFT, KB_RALT
  <2>3. \A i \in 1 .. 4 : ~isalpha(AsciiLut(k)[i])
    <3>1. \A i \in 1 .. 4 : i = 1 \/ i = 2 \/ i = 3 \/ i = 4
      OBVIOUS
    <3>2. /\ ~isalpha(AsciiLut(k)[1]) /\ ~isalpha(AsciiLut(k)[2])
          /\ ~isalpha(AsciiLut(k)[3]) /\ ~isalpha(AsciiLut(k)[4])
      BY <2>1 DEF isalpha, NoChar, Newline
    <3> QED  BY <3>1, <3>2
  <2> QED  BY <2>2, <2>3
<1>4. CASE k = KB_RETURN
  <2>1. /\ AsciiLut(k)[1] = Newline /\ AsciiLut(k)[2] = Newline
        /\ AsciiLut(k)[3] = Newline /\ AsciiLut(k)[4] = Newline
    BY <1>4 DEF AsciiLut
  <2>2. k \notin Silent
    BY <1>4 DEF Silent, KB_CAPSLOCK, KB_NUMLOCK, KB_LSHIFT, KB_RSHIFT, KB_RALT
  <2>3. \A i \in 1 .. 4 : ~isalpha(AsciiLut(k)[i])
    <3>1. \A i \in 1 .. 4 : i = 1 \/ i = 2 \/ i = 3 \/ i = 4
      OBVIOUS
    <3>2. /\ ~isalpha(AsciiLut(k)[1]) /\ ~isalpha(AsciiLut(k)[2])
          /\ ~isalpha(AsciiLut(k)[3]) /\ ~isalpha(AsciiLut(k)[4])
      BY <2>1 DEF isalpha, NoChar, Newline
    <3> QED  BY <3>1, <3>2
  <2> QED  BY <2>2, <2>3
<1>5. CASE k = KP_1
  <2>1. /\ AsciiLut(k)[1] = "1" /\ AsciiLut(k)[2] = NoChar
        /\ AsciiLut(k)[3] = "1" /\ AsciiLut(k)[4] = NoChar
    BY <1>5 DEF AsciiLut
  <2>2. k \notin Silent
    BY <1>5 DEF Silent, KB_CAPSLOCK, KB_NUMLOCK, KB_LSHIFT, KB_RSHIFT, KB_RALT
  <2>3. \A i \in 1 .. 4 : ~isalpha(AsciiLut(k)[i])
    <3>1. \A i \in 1 .. 4 : i = 1 \/ i = 2 \/ i = 3 \/ i = 4
      OBVIOUS
    <3>2. /\ ~isalpha(AsciiLut(k)[1]) /\ ~isalpha(AsciiLut(k)[2])
          /\ ~isalpha(AsciiLut(k)[3]) /\ ~isalpha(AsciiLut(k)[4])
      BY <2>1 DEF isalpha, NoChar, Newline
    <3> QED  BY <3>1, <3>2
  <2> QED  BY <2>2, <2>3
<1>6. CASE k = KP_DOT
  <2>1. /\ AsciiLut(k)[1] = "." /\ AsciiLut(k)[2] = NoChar
        /\ AsciiLut(k)[3] = "." /\ AsciiLut(k)[4] = NoChar
    BY <1>6 DEF AsciiLut
  <2>2. k \notin Silent
    BY <1>6 DEF Silent, KB_CAPSLOCK, KB_NUMLOCK, KB_LSHIFT, KB_RSHIFT, KB_RALT
  <2>3. \A i \in 1 .. 4 : ~isalpha(AsciiLut(k)[i])
    <3>1. \A i \in 1 .. 4 : i = 1 \/ i = 2 \/ i = 3 \/ i = 4
      OBVIOUS
    <3>2. /\ ~isalpha(AsciiLut(k)[1]) /\ ~isalpha(AsciiLut(k)[2])
          /\ ~isalpha(AsciiLut(k)[3]) /\ ~isalpha(AsciiLut(k)[4])
      BY <2>1 DEF isalpha, NoChar, Newline
    <3> QED  BY <3>1, <3>2
  <2> QED  BY <2>2, <2>3
<1>7. CASE k = KP_SLASH
  <2>1. /\ AsciiLut(k)[1] = "/" /\ AsciiLut(k)[2] = "/"
        /\ AsciiLut(k)[3] = "/" /\ AsciiLut(k)[4] = "/"
    BY <1>7 DEF AsciiLut
  <2>2. k \notin Silent
    BY <1>7 DEF Silent, KB_CAPSLOCK, KB_NUMLOCK, KB_LSHIFT, KB_RSHIFT, KB_RALT
  <2>3. \A i \in 1 .. 4 : ~isalpha(AsciiLut(k)[i])
    <3>1. \A i \in 1 .. 4 : i = 1 \/ i = 2 \/ i = 3 \/ i = 4
      OBVIOUS
    <3>2. /\ ~isalpha(AsciiLut(k)[1]) /\ ~isalpha(AsciiLut(k)[2])
          /\ ~isalpha(AsciiLut(k)[3]) /\ ~isalpha(AsciiLut(k)[4])
      BY <2>1 DEF isalpha, NoChar, Newline
    <3> QED  BY <3>1, <3>2
  <2> QED  BY <2>2, <2>3
<1>8. CASE k \notin {KB_A, KB_Q, KB_7, KB_RETURN, KP_1, KP_DOT, KP_SLASH}
  <2>1. AsciiLut(k) = <<NoChar, NoChar, NoChar, NoChar>>
    BY <1>8 DEF AsciiLut
  <2>2. \A i \in 1 .. 4 : AsciiLut(k)[i] = NoChar
    BY <2>1
  <2>3. ~isalpha(NoChar) /\ k \notin KeyPad
    BY <1>8 DEF isalpha, NoChar, KeyPad
  <2> QED  BY <2>2, <2>3
<1> QED  BY <1>1, <1>2, <1>3, <1>4, <1>5, <1>6, <1>7, <1>8

(* A driver that knows the keys types what the user means.                 *)
LEMMA TypesAre ==
  ASSUME locks \in Locks, NEW k \in Code
  PROVE  Typing(Meant(held, locks), k) = Types(k)
<1> DEFINE row == AsciiLut(k)
           s == Meant(held, locks)
<1>1. (s.alt_gr <=> AltGr) /\ (s.lshift \/ s.rshift <=> Shift)
  BY MeantIs DEF AltGr, Shift
<1>2. (LockOn(s.caps_lock) <=> locks.caps) /\ (LockOn(s.num_lock) <=> locks.num)
  <2>1. locks.caps \in BOOLEAN /\ locks.num \in BOOLEAN
    BY DEF Locks
  <2> QED  BY <2>1, MeantIs DEF LockState, LockOn
<1>3. (Shift \in BOOLEAN) /\ (AltGr \in BOOLEAN) /\ locks.caps \in BOOLEAN /\ locks.num \in BOOLEAN
  BY DEF Shift, AltGr, Locks
<1>4. /\ k \in KeyPad => ~isalpha(row[1])
      /\ k \notin KeyPad /\ ~isalpha(row[1]) => \A i \in 1 .. 4 : ~isalpha(row[i])
      /\ isalpha(row[1]) => isalpha(row[2]) /\ ~isalpha(row[3]) /\ ~isalpha(row[4])
      /\ k \in Silent => k \notin KeyPad /\ \A i \in 1 .. 4 : row[i] = NoChar
  BY RowsAre
<1> DEFINE sh == s.lshift \/ s.rshift
           col == 1 + (IF s.alt_gr THEN 2 ELSE 0) + (IF sh THEN 1 ELSE 0)
           flip == 1 + (IF s.alt_gr THEN 2 ELSE 0) + (IF sh # LockOn(s.caps_lock) THEN 1 ELSE 0)
           upper == isalpha(row[1]) /\ locks.caps
           c == CASE ~AltGr /\ Shift = upper -> row[1]
                  [] ~AltGr /\ Shift # upper -> row[2]
                  [] AltGr /\ ~Shift -> row[3]
                  [] AltGr /\ Shift -> row[4]
<1>5. Map(s, k) = CASE k \in KeyPad -> IF isdigit(row[col]) /\ ~LockOn(s.num_lock) THEN NoChar ELSE row[col]
                    [] k \notin KeyPad /\ isalpha(row[col]) -> row[flip]
                    [] OTHER -> row[col]
  BY DEF Map
<1>6. Types(k) = IF k \in KeyPad /\ isdigit(c) /\ ~locks.num THEN NoChar ELSE c
  BY DEF Types
<1>7. c \in {row[1], row[2], row[3], row[4]}
  BY <1>3
<1>8. CASE k \in Silent
  <2>1. c = NoChar
    BY <1>4, <1>7, <1>8
  <2> HIDE DEF c
  <2> QED  BY <1>4, <1>6, <1>8, <2>1 DEF Typing
<1>9. CASE k \in KeyPad
  <2>1. c = row[col]
    BY <1>1, <1>3, <1>4, <1>9
  <2> HIDE DEF c, col, flip
  <2>2. k \notin Silent
    BY <1>4, <1>9
  <2> QED  BY <1>2, <1>5, <1>6, <1>9, <2>1, <2>2 DEF Typing
<1>10. CASE k \notin KeyPad /\ k \notin Silent
  <2>1. Map(s, k) = c
    <3>1. CASE ~isalpha(row[1])
      <4>1. c = row[col] /\ col \in 1 .. 4
        BY <1>1, <1>3, <3>1
      <4> HIDE DEF c, col, flip
      <4> QED  BY <1>4, <1>5, <1>10, <3>1, <4>1
    <3>2. CASE isalpha(row[1])
      <4>1. CASE AltGr
        <5>1. c = row[col] /\ col \in {3, 4}
          BY <1>1, <1>3, <4>1
        <5> HIDE DEF c, col, flip
        <5> QED  BY <1>4, <1>5, <1>10, <3>2, <5>1
      <4>2. CASE ~AltGr
        <5>1. c = row[flip] /\ col \in {1, 2}
          <6>1. col \in {1, 2} /\ (upper <=> locks.caps)
            BY <1>1, <1>3, <3>2, <4>2
          <6>2. CASE locks.caps
            <7>1. (sh # LockOn(s.caps_lock)) <=> ~Shift
              BY <1>1, <1>2, <1>3, <6>2
            <7>2. flip = IF Shift THEN 1 ELSE 2
              BY <1>1, <4>2, <7>1
            <7>3. c = IF Shift THEN row[1] ELSE row[2]
              BY <1>3, <4>2, <6>1, <6>2
            <7> QED  BY <6>1, <7>2, <7>3
          <6>3. CASE ~locks.caps
            <7>1. (sh # LockOn(s.caps_lock)) <=> Shift
              <8>1. LockOn(s.caps_lock) = FALSE /\ sh = Shift
                BY <1>1, <1>2, <1>3, <6>3 DEF LockOn
              <8>2. CASE Shift
                BY <8>1, <8>2
              <8>3. CASE ~Shift
                BY <8>1, <8>3
              <8> QED  BY <8>2, <8>3
            <7>2. flip = IF Shift THEN 2 ELSE 1
              BY <1>1, <4>2, <7>1
            <7>3. c = IF Shift THEN row[2] ELSE row[1]
              BY <1>3, <4>2, <6>1, <6>3
            <7> QED  BY <6>1, <7>2, <7>3
          <6> QED  BY <6>2, <6>3
        <5> HIDE DEF c, col, flip
        <5> QED  BY <1>4, <1>5, <1>10, <3>2, <5>1
      <4> QED  BY <4>1, <4>2
    <3> QED  BY <3>1, <3>2
  <2> HIDE DEF c
  <2> QED  BY <1>6, <1>10, <2>1 DEF Typing
<1> QED  BY <1>8, <1>9, <1>10

(* And follows each key.                                                   *)
LEMMA KeysFollowed ==
  ASSUME NEW h, NEW l \in Locks, NEW k \in Code, NEW g, NEW m \in Locks, NEW make \in BOOLEAN,
         \A j \in Code : j # k => (j \in g <=> j \in h), make <=> k \in g,
         m.caps <=> (l.caps <=> ~(k = KB_CAPSLOCK /\ make /\ k \notin h)),
         m.num <=> (l.num <=> ~(k = KB_NUMLOCK /\ make /\ k \notin h))
  PROVE  Turned(Meant(h, l), k, make) = Meant(g, m)
<1> DEFINE s == Meant(h, l)
           t == Meant(g, m)
           u == Turned(s, k, make)
<1>1. l.caps \in BOOLEAN /\ l.num \in BOOLEAN /\ m.caps \in BOOLEAN /\ m.num \in BOOLEAN
  BY DEF Locks
<1>2. /\ s \in DriverSt
      /\ s.lshift <=> KB_LSHIFT \in h
      /\ s.rshift <=> KB_RSHIFT \in h
      /\ s.alt_gr <=> KB_RALT \in h
      /\ s.caps_lock = LockState(l.caps, KB_CAPSLOCK \in h)
      /\ s.num_lock = LockState(l.num, KB_NUMLOCK \in h)
  BY MeantIs
<1>3. /\ t \in DriverSt
      /\ t.lshift <=> KB_LSHIFT \in g
      /\ t.rshift <=> KB_RSHIFT \in g
      /\ t.alt_gr <=> KB_RALT \in g
      /\ t.caps_lock = LockState(m.caps, KB_CAPSLOCK \in g)
      /\ t.num_lock = LockState(m.num, KB_NUMLOCK \in g)
  BY MeantIs
<1>4. u \in DriverSt
  BY <1>2, TurnedType
<1>5. /\ KB_LSHIFT \in Code /\ KB_RSHIFT \in Code /\ KB_RALT \in Code
      /\ KB_CAPSLOCK \in Code /\ KB_NUMLOCK \in Code
  BY DEF Code, KB_CAPSLOCK, KB_NUMLOCK, KB_LSHIFT, KB_RSHIFT, KB_RALT
<1>6. /\ u.lshift = IF k = KB_LSHIFT THEN make ELSE s.lshift
      /\ u.rshift = IF k = KB_RSHIFT THEN make ELSE s.rshift
      /\ u.alt_gr = IF k = KB_RALT THEN make ELSE s.alt_gr
      /\ u.caps_lock = IF k = KB_CAPSLOCK THEN TurnedLock(s.caps_lock, make) ELSE s.caps_lock
      /\ u.num_lock = IF k = KB_NUMLOCK THEN TurnedLock(s.num_lock, make) ELSE s.num_lock
  BY <1>2 DEF Turned, DriverSt, KB_CAPSLOCK, KB_NUMLOCK, KB_LSHIFT, KB_RSHIFT, KB_RALT
<1> HIDE DEF s, t, u
<1>7. (u.lshift <=> t.lshift) /\ (u.rshift <=> t.rshift) /\ (u.alt_gr <=> t.alt_gr)
  BY <1>2, <1>3, <1>5, <1>6
<1>8. u.caps_lock = t.caps_lock
  <2>1. CASE k = KB_CAPSLOCK
    BY <1>1, <1>2, <1>3, <1>6, <2>1 DEF TurnedLock, Pressed, LockState
  <2>2. CASE k # KB_CAPSLOCK
    BY <1>1, <1>2, <1>3, <1>5, <1>6, <2>2 DEF LockState
  <2> QED  BY <2>1, <2>2
<1>9. u.num_lock = t.num_lock
  <2>1. CASE k = KB_NUMLOCK
    BY <1>1, <1>2, <1>3, <1>6, <2>1 DEF TurnedLock, Pressed, LockState
  <2>2. CASE k # KB_NUMLOCK
    BY <1>1, <1>2, <1>3, <1>5, <1>6, <2>2 DEF LockState
  <2> QED  BY <2>1, <2>2
<1>10. u = t
  BY <1>3, <1>4, <1>7, <1>8, <1>9, SameSt
<1> QED  BY <1>10 DEF s, t, u

-----------------------------------------------------------------------------
(* The code of the driver does what AfterByte and CharOf say.              *)
Now == At(parser, st)

LEMMA ParseNone ==
  ASSUME NEW s \in ParserState, NEW b \in Code, Parse(s, b).action \in {"NONE", "RESET"}
  PROVE  Parse(s, b).key = KB_NONE
<1>1. Reset.key = KB_NONE /\ \A t : Prefix(t).key = KB_NONE
  BY DEF Reset, Prefix, Parsed
<1>2. \A k : \A a \in {"MAKE", "BREAK"} :
        /\ Plain(a, k).key = KB_NONE \/ Plain(a, k).action = a
        /\ Escaped(a, k).key = KB_NONE \/ Escaped(a, k).action = a
  BY <1>1 DEF Plain, Escaped, Parsed
<1>3. CASE s \in Pausing
  <2>1. PauseStep[s][2].action \in {"MAKE", "BREAK"} \/ PauseStep[s][2].key = KB_NONE
    BY <1>3 DEF PauseStep, Pausing, Prefix, Parsed
  <2>2. InState(s, b) \in {PauseStep[s][2], Reset}
    BY <1>3 DEF InState, Pausing
  <2> QED  BY <1>1, <2>1, <2>2 DEF Parse
<1>4. CASE s \in {"MAKE_START", "BREAK_F0", "MAKE_E0", "BREAK_E0_F0"}
  <2>1. s = "MAKE_START" => \/ \E t : InState(s, b) = Prefix(t)
                            \/ \E k : InState(s, b) = Plain("MAKE", k)
    BY InStart
  <2>2. s # "MAKE_START" => \/ \E t : InState(s, b) = Prefix(t)
                            \/ \E k : \E a \in {"MAKE", "BREAK"} : InState(s, b) = Plain(a, k)
                            \/ \E k : \E a \in {"MAKE", "BREAK"} : InState(s, b) = Escaped(a, k)
    BY <1>4, InPrefix
  <2>3. InState(s, b).action \in {"NONE", "RESET"} => InState(s, b).key = KB_NONE
    <3>1. CASE s = "MAKE_START"
      BY <1>1, <1>2, <2>1, <3>1
    <3>2. CASE s # "MAKE_START"
      BY <1>1, <1>2, <2>2, <3>2
    <3> QED  BY <3>1, <3>2
  <2>4. Parse(s, b) \in {Reset, InState(s, b)}
    BY DEF Parse
  <2> QED  BY <1>1, <2>3, <2>4
<1> QED  BY <1>3, <1>4 DEF ParserState, Pausing

LEMMA ParseMakes ==
  ASSUME NEW s \in ParserState, NEW b \in Code,
         Parse(s, b).action \notin {"NONE", "RESET"}, Parse(s, b).key # KB_PAUSE
  PROVE  Parse(s, b).state = "MAKE_START"
<1>1. \A a, k : /\ Plain(a, k) = Reset \/ Plain(a, k).state = "MAKE_START"
                /\ Escaped(a, k) = Reset \/ Escaped(a, k).state = "MAKE_START"
  BY DEF Plain, Escaped, Prefix, Parsed
<1>2. Reset.action = "RESET"
  BY DEF Reset, Parsed
<1>3. Parse(s, b) = InState(s, b)
  BY <1>2 DEF Parse
<1>4. CASE s \in Pausing
  <2>1. PauseStep[s][2].action \in {"NONE", "RESET"} \/ PauseStep[s][2].key = KB_PAUSE
    BY <1>4 DEF PauseStep, Pausing, Prefix, Parsed
  <2>2. InState(s, b) \in {PauseStep[s][2], Reset}
    BY <1>4 DEF InState, Pausing
  <2> QED  BY <1>2, <1>3, <2>1, <2>2
<1>5. CASE s \in {"MAKE_START", "BREAK_F0", "MAKE_E0", "BREAK_E0_F0"}
  <2>1. \/ \E t : InState(s, b) = Prefix(t)
        \/ \E a, k : InState(s, b) = Plain(a, k)
        \/ \E a, k : InState(s, b) = Escaped(a, k)
    <3>1. s = "MAKE_START" => \/ \E t : InState(s, b) = Prefix(t)
                              \/ \E a, k : InState(s, b) = Plain(a, k)
      BY InStart
    <3>2. s # "MAKE_START" => \/ \E t : InState(s, b) = Prefix(t)
                              \/ \E a, k : InState(s, b) = Plain(a, k)
                              \/ \E a, k : InState(s, b) = Escaped(a, k)
      BY <1>5, InPrefix
    <3> QED  BY <3>1, <3>2
  <2>2. \A t : Prefix(t).action = "NONE"
    BY DEF Prefix, Parsed
  <2> QED  BY <1>1, <1>2, <1>3, <2>1, <2>2
<1> QED  BY <1>4, <1>5 DEF ParserState, Pausing

Locked(s) == <<LockOn(s.caps_lock), LockOn(s.num_lock)>>

LEMMA LockIs ==
  ASSUME NEW s \in KeyState, NEW make \in BOOLEAN
  PROVE  /\ make = Pressed(s) => TurnedLock(s, make) = s
         /\ make # Pressed(s) => TurnedLock(s, make) = (s + 1) % 4
         /\ make /\ ~Pressed(s) => (s + 1) % 4 = s + 1
         /\ ~make /\ Pressed(s) => LockOn((s + 1) % 4) = LockOn(s)
         /\ TurnedLock(s, make) \in KeyState
  BY DEF TurnedLock, KeyState, Pressed, LockOn

LEMMA StepIs ==
  ASSUME NEW call, NEW code \in Code, parser \in ParserState, st \in DriverSt, Step(call, code)
  PROVE  /\ Now' = AfterByte(Now, code)
         /\ \/ TrySet /\ CharOf(Now, code) = NoChar /\ parser' = "MAKE_START"
            \/ /\ StepReturn(call, CharOf(Now, code))
               /\ Parse(parser, code).action # "RESET" => Locked(st') = Locked(st)
<1> DEFINE p == Parse(parser, code)
           make == p.action = "MAKE"
<1>1. /\ parser' = p.state
      /\ CASE p.action = "RESET" -> st' = Off /\ StepReturn(call, NoChar)
           [] p.action = "NONE" -> UNCHANGED st /\ StepReturn(call, NoChar)
           [] p.key = KB_CAPSLOCK -> LockKey(call, "caps_lock", make)
           [] p.key = KB_NUMLOCK -> LockKey(call, "num_lock", make)
           [] p.key = KB_LSHIFT -> Modifier(call, "lshift", make)
           [] p.key = KB_RSHIFT -> Modifier(call, "rshift", make)
           [] p.key = KB_RALT -> Modifier(call, "alt_gr", make)
           [] OTHER -> /\ UNCHANGED st
                       /\ StepReturn(call, IF make THEN Map(st, p.key) ELSE NoChar)
  BY DEF Step
<1>2. p \in ParsedSet
  BY ParseType
<1>3. p.action \in Action /\ p.key \in Code /\ p.state \in ParserState
  BY <1>2 DEF ParsedSet
<1>4. AfterByte(Now, code) = At(p.state, AfterKey(st, p))
  BY DEF Now, At, AfterByte
<1>5. CharOf(Now, code) = IF p.action = "MAKE" /\ p.key \notin Silent THEN Map(st, p.key) ELSE NoChar
  BY DEF Now, At, CharOf
<1>6. p.action \notin {"NONE", "RESET"} /\ p.key # KB_PAUSE => p.state = "MAKE_START"
  BY ParseMakes
<1>12. p.action \in {"NONE", "RESET"} => p.key = KB_NONE
  BY ParseNone
<1> HIDE DEF p
<1>7. st.caps_lock \in KeyState /\ st.num_lock \in KeyState
  BY DEF DriverSt
<1> DEFINE Done ==
             /\ st' = AfterKey(st, p)
             /\ \/ TrySet /\ CharOf(Now, code) = NoChar /\ p.state = "MAKE_START"
                \/ /\ StepReturn(call, CharOf(Now, code))
                   /\ p.action # "RESET" => Locked(st') = Locked(st)
<1> SUFFICES Done
  <2>1. ASSUME Done PROVE Now' = At(p.state, AfterKey(st, p))
    BY <1>1, <2>1 DEF Now, At
  <2> QED  BY <1>1, <1>4, <2>1 DEF p
<1> USE DEF KB_CAPSLOCK, KB_NUMLOCK, KB_LSHIFT, KB_RSHIFT, KB_RALT, KB_PAUSE, KB_NONE
<1>8. CASE p.action \in {"RESET", "NONE"}
  <2>1. CharOf(Now, code) = NoChar
    BY <1>5, <1>8
  <2>2. CASE p.action = "RESET"
    <3>1. st' = Off /\ StepReturn(call, NoChar)
      BY <1>1, <1>12, <2>2
    <3>2. AfterKey(st, p) = Off
      BY <2>2 DEF AfterKey
    <3> QED  BY <2>1, <2>2, <3>1, <3>2
  <2>3. CASE p.action = "NONE"
    <3>1. st' = st /\ StepReturn(call, NoChar)
      BY <1>1, <1>12, <2>3
    <3>2. AfterKey(st, p) = st
      BY <2>3 DEF AfterKey
    <3> QED  BY <2>1, <3>1, <3>2
  <2> QED  BY <1>8, <2>2, <2>3
<1>9. CASE p.action \in {"MAKE", "BREAK"}
  <2>1. AfterKey(st, p) = Turned(st, p.key, make)
    BY <1>9 DEF AfterKey
  <2>2. CASE p.key = KB_CAPSLOCK
    <3>1. LockKey(call, "caps_lock", make) /\ CharOf(Now, code) = NoChar /\ p.state = "MAKE_START"
      BY <1>1, <1>5, <1>6, <1>9, <2>2 DEF Silent
    <3>2. Turned(st, p.key, make) = [st EXCEPT !.caps_lock = TurnedLock(st.caps_lock, make)]
      BY <2>2 DEF Turned
    <3>3. \/ TrySet /\ st' = [st EXCEPT !.caps_lock = TurnedLock(st.caps_lock, make)]
          \/ /\ StepReturn(call, NoChar)
             /\ st' = [st EXCEPT !.caps_lock = TurnedLock(st.caps_lock, make)]
             /\ LockOn(TurnedLock(st.caps_lock, make)) = LockOn(st.caps_lock)
      BY <1>7, <3>1, LockIs DEF LockKey, DriverSt
    <3> QED  BY <2>1, <3>1, <3>2, <3>3 DEF Locked, DriverSt
  <2>3. CASE p.key = KB_NUMLOCK
    <3>1. LockKey(call, "num_lock", make) /\ CharOf(Now, code) = NoChar /\ p.state = "MAKE_START"
      BY <1>1, <1>5, <1>6, <1>9, <2>3 DEF Silent
    <3>2. Turned(st, p.key, make) = [st EXCEPT !.num_lock = TurnedLock(st.num_lock, make)]
      BY <2>3 DEF Turned
    <3>3. \/ TrySet /\ st' = [st EXCEPT !.num_lock = TurnedLock(st.num_lock, make)]
          \/ /\ StepReturn(call, NoChar)
             /\ st' = [st EXCEPT !.num_lock = TurnedLock(st.num_lock, make)]
             /\ LockOn(TurnedLock(st.num_lock, make)) = LockOn(st.num_lock)
      BY <1>7, <3>1, LockIs DEF LockKey, DriverSt
    <3> QED  BY <2>1, <3>1, <3>2, <3>3 DEF Locked, DriverSt
  <2>4. CASE p.key \in {KB_LSHIFT, KB_RSHIFT, KB_RALT}
    <3>1. CharOf(Now, code) = NoChar
      BY <1>5, <2>4 DEF Silent
    <3>2. StepReturn(call, NoChar) /\ st' = Turned(st, p.key, make)
      BY <1>1, <1>9, <2>4 DEF Modifier, Turned
    <3>3. Locked(Turned(st, p.key, make)) = Locked(st)
      BY <2>4 DEF Turned, Locked, DriverSt
    <3> QED  BY <2>1, <3>1, <3>2, <3>3
  <2>5. CASE p.key \notin Silent
    <3>1. st' = st /\ StepReturn(call, IF make THEN Map(st, p.key) ELSE NoChar)
      BY <1>1, <1>9, <2>5 DEF Silent
    <3>2. Turned(st, p.key, make) = st
      BY <2>5 DEF Turned, Silent
    <3>3. CharOf(Now, code) = IF make THEN Map(st, p.key) ELSE NoChar
      BY <1>5, <2>5
    <3> QED  BY <2>1, <3>1, <3>2, <3>3
  <2> QED  BY <2>2, <2>3, <2>4, <2>5 DEF Silent
<1> QED  BY <1>3, <1>8, <1>9 DEF Action

(* The end of a call, with a character or with none.                       *)
Resting == {"select", "fgets", "getc"}

LEMMA HandKeeps ==
  ASSUME NEW now \in DriverState, NEW user \in DriverState, NEW p \in Seq(Code), NEW whole \in BOOLEAN,
         NEW c \in Glyph, c # NoChar, typed \in Seq(Character),
         Accounts(now, user, p, whole, typed, c), Hand(c)
  PROVE  Accounts(now, user, p, whole, typed', NoChar) /\ (whole => alien' = alien)
<1>1. whole => typed # <<>> /\ Head(typed) = c
  BY AccountsRead
<1>2. whole => typed' = Tail(typed) /\ alien' = alien
  BY <1>1 DEF Hand
<1>3. Accounts(now, user, p, whole, typed', NoChar)
  BY <1>2, AccountsRead
<1> QED  BY <1>2, <1>3

LEMMA HandControls ==
  ASSUME NEW c, typed \in Seq(Character), alien \in BOOLEAN, Hand(c)
  PROVE  typed' \in Seq(Character) /\ alien' \in BOOLEAN /\ pc' \in {"select", "fgets"}
<1>1. typed # <<>> => Tail(typed) \in Seq(Character)
  BY HeadTailProperties, EmptySeq
<1>2. typed' = typed \/ (typed # <<>> /\ typed' = Tail(typed))
  BY DEF Hand
<1>3. alien' \in BOOLEAN /\ pc' \in {"select", "fgets"}
  BY DEF Hand
<1> QED  BY <1>1, <1>2, <1>3

LEMMA ReturnKeeps ==
  ASSUME NEW now \in DriverState, NEW user \in DriverState, NEW p \in Seq(Code), NEW whole \in BOOLEAN,
         NEW call, NEW c \in Glyph, typed \in Seq(Character), peek = NoChar,
         Accounts(now, user, p, whole, typed, c), Return(call, c)
  PROVE  Accounts(now, user, p, whole, typed', peek') /\ (whole => alien' = alien)
<1>1. \/ UNCHANGED <<typed, alien>> /\ peek' = c
      \/ Hand(c) /\ UNCHANGED peek /\ c # NoChar
      \/ c = NoChar /\ UNCHANGED <<peek, typed, alien>>
  BY DEF Return
<1>2. CASE Hand(c) /\ UNCHANGED peek /\ c # NoChar
  BY <1>2, HandKeeps
<1>3. CASE UNCHANGED <<typed, alien>> /\ peek' = c
  BY <1>3
<1> QED  BY <1>1, <1>2, <1>3

LEMMA ReturnControls ==
  ASSUME NEW call, NEW c \in Glyph, typed \in Seq(Character), alien \in BOOLEAN, peek = NoChar, Return(call, c)
  PROVE  /\ typed' \in Seq(Character) /\ alien' \in BOOLEAN
         /\ peek' \in Glyph /\ pc' \in Resting /\ (peek' # NoChar => pc' = "fgets")
<1>1. CASE call = "getc" /\ c # NoChar
  BY <1>1, HandControls DEF Return, Resting, Glyph
<1>2. CASE ~(call = "getc" /\ c # NoChar)
  BY <1>2 DEF Return, Resting, Glyph
<1> QED  BY <1>1, <1>2

(* And of a step of the driver.                                            *)
LEMMA SteppedNow ==
  ASSUME NEW call, NEW code \in Code \cup {NoScan}, parser \in ParserState, st \in DriverSt,
         Stepped(call, code)
  PROVE  /\ Now \in DriverState /\ Now' \in DriverState /\ parser' \in ParserState /\ st' \in DriverSt
         /\ Now' = IF code = NoScan THEN Now ELSE AfterByte(Now, code)
         /\ \/ TrySet /\ code # NoScan /\ CharOf(Now, code) = NoChar /\ parser' = "MAKE_START"
            \/ /\ StepReturn(call, IF code = NoScan THEN NoChar ELSE CharOf(Now, code))
               /\ code # NoScan /\ Parse(parser, code).action # "RESET" => Locked(st') = Locked(st)
               /\ code = NoScan => parser' = parser /\ st' = st
<1>1. Now \in DriverState
  BY AtType DEF Now
<1>2. CASE code = NoScan
  BY <1>1, <1>2 DEF Stepped, Now
<1>3. CASE code # NoScan
  <2>1. code \in Code /\ Step(call, code)
    BY <1>3 DEF Stepped
  <2>2. Now' = AfterByte(Now, code) /\ Now' \in DriverState
    BY <1>1, <2>1, StepIs, AfterByteType
  <2>3. parser' = Now'.parser /\ st' = Now'.st
    BY DEF Now, At
  <2>4. parser' \in ParserState /\ st' \in DriverSt
    BY <2>2, <2>3 DEF DriverState
  <2> QED  BY <1>1, <1>3, <2>1, <2>2, <2>4, StepIs
<1> QED  BY <1>2, <1>3

LEMMA CharOfType ==
  ASSUME NEW s \in DriverState, NEW b \in Code
  PROVE  CharOf(s, b) \in Glyph
<1>1. s.parser \in ParserState /\ s.st \in DriverSt
  BY DEF DriverState
<1>2. Parse(s.parser, b).key \in Code
  BY <1>1, ParseType DEF ParsedSet
<1>3. Map(s.st, Parse(s.parser, b).key) \in Glyph
  BY <1>1, <1>2, MapType
<1> QED  BY <1>3 DEF CharOf, Glyph

LEMMA SteppedControls ==
  ASSUME NEW call, NEW code \in Code \cup {NoScan}, parser \in ParserState, st \in DriverSt,
         typed \in Seq(Character), alien \in BOOLEAN, peek = NoChar, Stepped(call, code)
  PROVE  /\ typed' \in Seq(Character) /\ alien' \in BOOLEAN /\ UNCHANGED polls
         /\ \/ /\ pc' = "start" /\ stage' = "cmd" /\ parser' = "MAKE_START"
               /\ peek' = NoChar
            \/ pc' \in Resting /\ UNCHANGED stage /\ peek' \in Glyph /\ (peek' # NoChar => pc' = "fgets")
<1>1. Now \in DriverState
  BY AtType DEF Now
<1>2. NoChar \in Glyph /\ (code # NoScan => CharOf(Now, code) \in Glyph)
  BY <1>1, CharOfType DEF Glyph
<1>3. CASE TrySet /\ parser' = "MAKE_START"
  BY <1>3 DEF TrySet
<1>4. CASE StepReturn(call, IF code = NoScan THEN NoChar ELSE CharOf(Now, code))
  <2> DEFINE c == IF code = NoScan THEN NoChar ELSE CharOf(Now, code)
  <2>1. c \in Glyph
    BY <1>2
  <2> HIDE DEF c
  <2>2. Return(call, c) /\ UNCHANGED <<stage, polls>>
    BY <1>4 DEF StepReturn, c
  <2> QED  BY <2>1, <2>2, ReturnControls
<1> QED  BY <1>3, <1>4, SteppedNow

LEMMA SteppedKeeps ==
  ASSUME NEW call, NEW code \in Code \cup {NoScan}, parser \in ParserState, st \in DriverSt,
         typed \in Seq(Character), peek = NoChar, Stepped(call, code),
         NEW user \in DriverState, NEW rest \in Seq(Code), NEW whole \in BOOLEAN,
         Accounts(Now, user, (IF code = NoScan THEN <<>> ELSE <<code>>) \o rest, whole, typed, NoChar)
  PROVE  Accounts(Now', user, rest, whole, typed', peek') /\ (whole => alien' = alien)
<1> DEFINE c == IF code = NoScan THEN NoChar ELSE CharOf(Now, code)
<1>1. Now \in DriverState /\ Now' \in DriverState
  BY SteppedNow
<1>2. c \in Glyph
  BY <1>1, CharOfType DEF Glyph
<1>3. Accounts(Now', user, rest, whole, typed, c)
  <2>1. CASE code = NoScan
    <3>1. <<>> \o rest = rest /\ Now' = Now
      BY <2>1, SteppedNow
    <3> QED  BY <2>1, <3>1
  <2>2. CASE code # NoScan
    <3> DEFINE p == <<code>> \o rest
    <3>1. p \in Seq(Code) /\ p # <<>> /\ Head(p) = code /\ Tail(p) = rest
      BY <2>2
    <3>2. Accounts(Now, user, p, whole, typed, NoChar)
      BY <2>2
    <3> HIDE DEF p
    <3>3. Accounts(AfterByte(Now, code), user, rest, whole, typed, CharOf(Now, code))
      BY <1>1, <3>1, <3>2, AccountsPop
    <3>4. Now' = AfterByte(Now, code)
      BY <2>2, SteppedNow
    <3> QED  BY <2>2, <3>3, <3>4
  <2> QED  BY <2>1, <2>2
<1>4. CASE TrySet /\ c = NoChar
  <2>1. UNCHANGED <<typed, alien, peek>>
    BY <1>4 DEF TrySet
  <2> QED  BY <1>3, <1>4, <2>1
<1>5. CASE StepReturn(call, c)
  <2>1. Return(call, c)
    BY <1>5 DEF StepReturn
  <2> HIDE DEF c
  <2> QED  BY <1>1, <1>2, <1>3, <2>1, ReturnKeeps
<1> QED  BY <1>4, <1>5, SteppedNow

-----------------------------------------------------------------------------
(* The inductive invariant.  Where the port is at each step of the driver; *)
Exchange == {"cmd", "arg"}
Answers  == {"ack", "ack2"}

Stages ==
  /\ pc = "closed" => mode = "off" /\ stage = "rst" /\ caller = "open" /\ fifo = <<>>
  /\ pc = "start" /\ stage = "rst" => mode = "off" /\ caller = "open" /\ fifo = <<>>
  /\ pc = "start" /\ stage \in Exchange => mode \in {"rx", "err"}
  /\ pc = "start" /\ stage \in Answers => mode \in {"done", "txerr"} /\ fifo = <<>>
  /\ pc = "await" /\ stage = "rst" => mode \in {"rx", "err"} /\ caller = "open"
  /\ pc = "await" /\ stage \in Exchange => mode \in {"tx", "done", "txerr"} /\ fifo = <<>>
  /\ pc = "await" /\ stage \in Answers => mode \in {"rx", "err"}
  /\ pc \in Resting \cup {"exit", "reset"} => mode \in {"rx", "err"} /\ stage = "rst"
  /\ pc = "reset" => mode = "err" /\ caller # "open"
  /\ pc = "exit" => caller = "open"

(* what goes with it in the driver: no exchange begins in the middle of a  *)
(* sequence, and open() knows no key yet; what the driver has seen of the  *)
(* FIFO already is the byte stored once more when an answer is awaited;    *)
Books ==
  /\ (polls > 0) <=> pc = "await"
  /\ scan # NoScan => pc = "reset"
  /\ peek # NoChar => pc = "fgets"
  /\ pc \in {"closed", "start", "await"} => parser = "MAKE_START"
  /\ pc \in {"closed", "start", "await"} /\ caller = "open" => st = Off
  /\ stale => pc = "await" /\ stage \in Answers /\ fifo # <<>>
  /\ txd \in {0, 2, 4, 6, CMD_CODE}

Seen == IF stale THEN Tail(fifo) ELSE fifo

(* on the side of the keyboard, an answer is sent before any further key,  *)
(* and the result of a self test comes when no key is down.                *)
Keyed ==
  /\ answer # 0 => parser = "MAKE_START" /\ scan = NoScan /\ Seen = <<>>
  /\ \/ out \in Seq(Clean)
     \/ out = <<BAT_CODE>> /\ held = {} /\ locks = [caps |-> FALSE, num |-> FALSE]

(* What is on its way accounts for what the user knows and has typed.      *)
Taken   == IF scan = NoScan THEN <<>> ELSE <<scan>>
Pending == Taken \o (Seen \o out)
UserState == At("MAKE_START", Meant(held, locks))

Account ==
  loss # "since" => Accounts(Now, UserState, Pending, loss = "none", typed, peek)

(* The LEDs, from the first command of an exchange to its last answer,     *)
(* unless a self test, which turns them off, is not known of yet.          *)
HasBat(p) == \E i \in 1 .. Len(p) : p[i] = BAT_CODE

Coming == scan = BAT_CODE \/ HasBat(Seen) \/ HasBat(out)

Lit ==
  /\ pc \in Resting \cup {"reset"} => leds = CmdArg(LockOn(st.caps_lock), LockOn(st.num_lock))
  /\ pc = "await" /\ stage = "cmd" => (mode = "tx" /\ txd = CMD_CODE) \/ (mode = "done" /\ expect)
  /\ pc = "start" /\ stage = "ack" => expect /\ mode = "done"
  /\ pc = "await" /\ stage = "ack" => expect /\ stale
  /\ pc = "start" /\ stage = "arg" => expect
  /\ pc = "await" /\ stage = "arg" => (mode = "tx" /\ txd = Leds /\ expect) \/ (mode = "done" /\ leds = Leds)
  /\ pc \in {"start", "await"} /\ stage = "ack2" => leds = Leds

Lights ==
  /\ Coming => leds = 0
  /\ ~Coming /\ loss # "since" => Lit

WellTyped == TypeOK /\ locks \in Locks /\ expect \in BOOLEAN
Control   == WellTyped /\ Stages /\ Books /\ Keyed
KInv      == Control /\ Account /\ ReadIsTyped /\ Lights

-----------------------------------------------------------------------------
(* Types, and what a transfer does.                                        *)
LEMMA Typings ==
  ASSUME WellTyped
  PROVE  /\ mode \in PortMode /\ fifo \in Seq(Code) /\ Len(fifo) <= Depth /\ last \in Code /\ txd \in Code
         /\ stale \in BOOLEAN /\ loss \in Loss
         /\ pc \in PC /\ caller \in Caller /\ stage \in Stage /\ polls \in 0 .. NPolls
         /\ scan \in Code \cup {NoScan} /\ parser \in ParserState /\ st \in DriverSt /\ peek \in Glyph
         /\ held \subseteq Key /\ leds \in 0 .. 7 /\ out \in Seq(Code) /\ answer \in Answer \cup {0}
         /\ typed \in Seq(Character) /\ alien \in BOOLEAN /\ locks \in Locks /\ expect \in BOOLEAN
  BY DEF WellTyped, TypeOK, PortTypeOK, DriverTypeOK, DriverSt, Glyph, Code

LEMMA TypingsNext ==
  ASSUME /\ mode' \in PortMode /\ fifo' \in Seq(Code) /\ Len(fifo') <= Depth /\ last' \in Code /\ txd' \in Code
         /\ stale' \in BOOLEAN /\ loss' \in Loss,
         /\ pc' \in PC /\ caller' \in Caller /\ stage' \in Stage /\ polls' \in 0 .. NPolls
         /\ scan' \in Code \cup {NoScan} /\ parser' \in ParserState /\ st' \in DriverSt /\ peek' \in Glyph,
         /\ held' \subseteq Key /\ leds' \in 0 .. 7 /\ out' \in Seq(Code) /\ answer' \in Answer \cup {0}
         /\ typed' \in Seq(Character) /\ alien' \in BOOLEAN /\ locks' \in Locks /\ expect' \in BOOLEAN
  PROVE  WellTyped'
  BY DEF WellTyped, TypeOK, PortTypeOK, DriverTypeOK, DriverSt, Glyph, Code

LEMMA PoppedType ==
  ASSUME fifo \in Seq(Code), Len(fifo) <= Depth
  PROVE  /\ Popped \in Seq(Code) /\ Len(Popped) <= Depth /\ (fifo = <<>> => Popped = <<>>)
         /\ fifo # <<>> => Popped = Tail(fifo) /\ Len(Popped) = Len(fifo) - 1 /\ Head(fifo) \in Code
         /\ Received \in Code \cup {NoScan} /\ (Received = NoScan <=> fifo = <<>>)
         /\ fifo # <<>> => Received = Head(fifo)
<1>1. Len(fifo) \in Nat /\ Depth \in Nat
  BY DepthAssumption, LenProperties
<1>2. CASE fifo = <<>>
  BY <1>1, <1>2 DEF Popped, Received, rxv
<1>3. CASE fifo # <<>>
  <2>1. Tail(fifo) \in Seq(Code) /\ Len(Tail(fifo)) = Len(fifo) - 1 /\ Head(fifo) \in Code
    BY <1>3, HeadTailProperties, EmptySeq
  <2>2. Head(fifo) # NoScan
    <3>1. \A b \in Code : b # NoScan
      BY DEF NoScan, Code
    <3> QED  BY <2>1, <3>1
  <2> QED  BY <1>1, <1>3, <2>1, <2>2 DEF Popped, Received, rxv
<1> QED  BY <1>2, <1>3

LEMMA Reading ==
  ASSUME NEW taken \in BOOLEAN, Transfer("none", 0, taken)
  PROVE  /\ mode' = mode /\ fifo' = Popped /\ txd' = txd /\ stale' = FALSE /\ last' = last
         /\ loss' \in {loss, "since"} /\ (taken => loss' = loss)
         /\ loss' # "since" /\ fifo # <<>> /\ ~taken /\ ~stale => Head(fifo) \in Answer
<1>1. /\ mode' = mode /\ fifo' = Popped /\ txd' = txd /\ stale' = FALSE /\ last' = last
      /\ loss' = IF Dropped("none", taken) \subseteq Answer THEN loss ELSE "since"
  BY DEF Transfer
<1>2. Dropped("none", taken) = IF rxv /\ ~taken /\ ~stale THEN {Head(fifo)} ELSE {}
  BY DEF Dropped
<1> QED  BY <1>1, <1>2 DEF rxv

-----------------------------------------------------------------------------
(* _tryRead.                                                               *)
LEMMA TryReadControls ==
  ASSUME Control, pc \in {"select", "getc"}, NEW call \in {"poll", "getc"}, TryRead(call),
         UNCHANGED <<userVars, deviceVars>>
  PROVE  Control'
<1> USE Typings DEF Control
<1>1. /\ mode' = mode /\ fifo' = Popped /\ txd' = txd /\ stale' = FALSE /\ last' = last /\ loss' = loss
      /\ caller' = call
  BY Reading DEF TryRead
<1>2. /\ UNCHANGED <<held, locks, leds, out, answer, expect>>
      /\ mode \in {"rx", "err"} /\ stage = "rst" /\ stale = FALSE /\ peek = NoChar /\ scan = NoScan /\ polls = 0
      /\ txd \in {0, 2, 4, 6, CMD_CODE} /\ Seen = fifo
  BY DEF Stages, Books, userVars, deviceVars, Resting, Seen
<1>3. Popped \in Seq(Code) /\ Len(Popped) <= Depth /\ (fifo = <<>> => Popped = <<>>)
      /\ Received \in Code \cup {NoScan} /\ (Received = NoScan <=> fifo = <<>>)
  BY PoppedType
<1>4. Seen' = fifo'
  BY <1>1 DEF Seen
<1>5. CASE ~en
  <2>1. /\ scan' = Received /\ pc' = "reset" /\ mode = "err"
        /\ UNCHANGED <<stage, polls, parser, st, peek, typed, alien>>
    BY <1>2, <1>5 DEF TryRead, en
  <2>2. WellTyped'
    BY <1>1, <1>2, <1>3, <2>1, TypingsNext DEF PC, Caller
  <2>3. Stages'
    BY <1>1, <1>2, <2>1 DEF Stages, Resting
  <2>4. Books'
    BY <1>1, <1>2, <2>1 DEF Books
  <2>5. Keyed'
    BY <1>1, <1>2, <1>3, <1>4, <2>1 DEF Keyed
  <2> QED  BY <2>2, <2>3, <2>4, <2>5
<1>6. CASE en
  <2>1. /\ Stepped(call, Received) /\ scan' = scan /\ mode = "rx"
    BY <1>2, <1>6 DEF TryRead, en
  <2>2. /\ typed' \in Seq(Character) /\ alien' \in BOOLEAN /\ UNCHANGED polls
        /\ \/ /\ pc' = "start" /\ stage' = "cmd" /\ parser' = "MAKE_START"
              /\ peek' = NoChar
           \/ pc' \in Resting /\ UNCHANGED stage /\ peek' \in Glyph /\ (peek' # NoChar => pc' = "fgets")
    BY <1>2, <1>3, <2>1, SteppedControls
  <2>3. parser' \in ParserState /\ st' \in DriverSt /\ (Received = NoScan => parser' = parser)
    BY <1>3, <2>1, SteppedNow DEF TrySet
  <2>4. WellTyped'
    BY <1>1, <1>2, <1>3, <2>1, <2>2, <2>3, TypingsNext DEF PC, Caller, Stage, Glyph, Resting
  <2>5. Stages'
    BY <1>1, <1>2, <2>1, <2>2 DEF Stages, Resting, Exchange, Answers
  <2>6. Books'
    BY <1>1, <1>2, <2>1, <2>2 DEF Books, Resting
  <2>7. Keyed'
    BY <1>1, <1>2, <1>3, <1>4, <2>1, <2>3 DEF Keyed
  <2> QED  BY <2>4, <2>5, <2>6, <2>7
<1> QED  BY <1>5, <1>6

(* The second transfer, that resets the port.                              *)
LEMMA ResetControls ==
  ASSUME Control, ResetStalled, UNCHANGED <<userVars, deviceVars>>
  PROVE  Control' /\ fifo' = <<>> /\ stale' = FALSE /\ mode' = "rx"
<1> USE Typings DEF Control
<1>1. /\ UNCHANGED <<held, locks, leds, out, answer, expect>>
      /\ pc = "reset" /\ mode = "err" /\ caller # "open" /\ stage = "rst" /\ stale = FALSE /\ peek = NoChar
      /\ polls = 0 /\ txd \in {0, 2, 4, 6, CMD_CODE} /\ Seen = fifo
  BY DEF Stages, Books, userVars, deviceVars, Resting, Seen, ResetStalled
<1>2. /\ mode' = "rx" /\ fifo' = <<>> /\ txd' = txd /\ stale' = FALSE /\ last' = last /\ loss' \in {loss, "since"}
      /\ caller' = caller /\ scan' = NoScan
  BY <1>1 DEF ResetStalled, Transfer, Repeated
<1>3. Stepped(caller, scan)
  BY DEF ResetStalled
<1>4. Seen' = <<>>
  BY <1>2 DEF Seen
<1>5. /\ typed' \in Seq(Character) /\ alien' \in BOOLEAN /\ UNCHANGED polls
      /\ \/ /\ pc' = "start" /\ stage' = "cmd" /\ parser' = "MAKE_START"
            /\ peek' = NoChar
         \/ pc' \in Resting /\ UNCHANGED stage /\ peek' \in Glyph /\ (peek' # NoChar => pc' = "fgets")
  BY <1>1, <1>3, SteppedControls
<1>6. parser' \in ParserState /\ st' \in DriverSt /\ (scan = NoScan => parser' = parser)
  BY <1>3, SteppedNow DEF TrySet
<1>7. WellTyped'
  <2>1. fifo' \in Seq(Code) /\ Len(fifo') <= Depth
    BY <1>2, DepthAssumption
  <2>2. mode' \in PortMode /\ loss' \in Loss
    BY <1>2 DEF PortMode, Loss
  <2> QED  BY <1>1, <1>2, <1>5, <1>6, <2>1, <2>2, TypingsNext DEF PC, Caller, Stage, Glyph, Resting
<1>8. Stages'
  BY <1>1, <1>2, <1>5 DEF Stages, Resting, Exchange, Answers
<1>9. Books'
  BY <1>1, <1>2, <1>5 DEF Books, Resting
<1>10. Keyed'
  BY <1>1, <1>2, <1>4, <1>6 DEF Keyed
<1> QED  BY <1>2, <1>7, <1>8, <1>9, <1>10

-----------------------------------------------------------------------------
(* _pollTxRx.  Its write:                                                  *)
LEMMA LedsType ==
  ASSUME st \in DriverSt
  PROVE  /\ Leds \in {0, 2, 4, 6} /\ CMD_CODE \in Code /\ CMD_CODE \notin {0, 2, 4, 6}
         /\ (caller = "open" /\ st = Off) \/ caller # "open"
              => Leds = CmdArg(LockOn(st.caps_lock), LockOn(st.num_lock))
  BY DEF Leds, CmdArg, LockOn, DriverSt, Off, CMD_CODE, Code

LEMMA AllOf ==
  ASSUME NEW s \in Seq(Code), s # <<>>, NEW A, {Head(s)} \cup ToSet(Tail(s)) \subseteq A
  PROVE  \A i \in 1 .. Len(s) : s[i] \in A
<1> DEFINE t == Tail(s)
<1>1. /\ Head(s) = s[1] /\ t \in Seq(Code) /\ Len(t) = Len(s) - 1 /\ Len(s) \in Nat
      /\ \A i \in 1 .. Len(s) - 1 : t[i] = s[i + 1]
  BY HeadTailProperties, EmptySeq, LenProperties
<1>2. Head(s) \in A /\ ToSet(t) \subseteq A
  OBVIOUS
<1> HIDE DEF t
<1>3. \A i \in 1 .. Len(t) : t[i] \in A
  BY <1>1, <1>2 DEF ToSet
<1>4. ASSUME NEW i \in 1 .. Len(s), i # 1
      PROVE  s[i] \in A
  <2>1. i - 1 \in 1 .. Len(t) /\ i - 1 \in 1 .. Len(s) - 1 /\ (i - 1) + 1 = i
    BY <1>1, <1>4
  <2>2. t[i - 1] = s[(i - 1) + 1]
    BY <1>1, <2>1
  <2> QED  BY <1>3, <2>1, <2>2
<1> QED  BY <1>1, <1>2, <1>4

LEMMA StartPollIs ==
  ASSUME Control, StartPoll, UNCHANGED <<userVars, deviceVars>>
  PROVE  /\ UNCHANGED <<caller, stage, scan, parser, st, peek, typed, alien>>
         /\ UNCHANGED <<held, locks, leds, out, answer, expect>>
         /\ pc = "start" /\ pc' = "await" /\ polls' = NPolls /\ scan = NoScan /\ stale = FALSE /\ last' = last
         /\ peek = NoChar /\ Seen = fifo /\ Seen' = <<>>
         /\ loss' \in {loss, "since"} /\ (loss' # "since" => \A i \in 1 .. Len(fifo) : fifo[i] \in Answer)
         /\ stage = "rst" => mode' = "rx" /\ fifo' = <<>> /\ txd' = txd /\ stale' = FALSE
         /\ stage \in Exchange => /\ mode' = "tx" /\ fifo' = <<>> /\ stale' = FALSE
                                  /\ txd' = IF stage = "cmd" THEN CMD_CODE ELSE Leds
         /\ stage \in Answers => /\ mode' = "rx" /\ fifo = <<>> /\ stale' = (mode = "done") /\ txd' = txd
                                 /\ fifo' = IF mode = "done" THEN <<last>> ELSE <<>>
<1> USE Typings DEF Control
<1>1. /\ UNCHANGED <<caller, stage, scan, parser, st, peek, typed, alien>>
      /\ UNCHANGED <<held, locks, leds, out, answer, expect>>
      /\ pc = "start" /\ pc' = "await" /\ polls' = NPolls /\ scan = NoScan /\ stale = FALSE
      /\ peek = NoChar /\ Seen = fifo
  BY DEF Books, userVars, deviceVars, Seen, StartPoll
<1>2. /\ stage = "rst" => Transfer("RST", Leds, FALSE)
      /\ stage \in Exchange => Transfer("SEND", IF stage = "cmd" THEN CMD_CODE ELSE Leds, FALSE)
      /\ stage \in Answers => Transfer("LISTEN", Leds, FALSE)
  BY DEF StartPoll, Exchange, Answers
<1>3. stage = "rst" \/ stage \in Exchange \/ stage \in Answers
  BY DEF Stage, Exchange, Answers
<1>5. CASE stage = "rst"
  <2>1. mode = "off" /\ fifo = <<>>
    BY <1>1, <1>5 DEF Stages
  <2>2. mode' = "rx" /\ fifo' = <<>> /\ txd' = txd /\ stale' = FALSE /\ last' = last /\ loss' \in {loss, "since"}
    BY <1>2, <1>5, <2>1 DEF Transfer, Repeated
  <2>3. \A i \in 1 .. Len(fifo) : fifo[i] \in Answer
    BY <2>1
  <2> QED  BY <1>1, <1>5, <2>1, <2>2, <2>3 DEF Seen, Exchange, Answers
<1>6. CASE stage \in Exchange
  <2>1. mode \in {"rx", "err"}
    BY <1>1, <1>6 DEF Stages
  <2>2. /\ mode' = "tx" /\ fifo' = <<>> /\ stale' = FALSE /\ last' = last /\ loss' \in {loss, "since"}
        /\ txd' = IF stage = "cmd" THEN CMD_CODE ELSE Leds
    BY <1>2, <1>6, <2>1 DEF Transfer
  <2>3. loss' # "since" => Dropped("SEND", FALSE) \subseteq Answer
    BY <1>2, <1>6 DEF Transfer
  <2>4. fifo # <<>> => Dropped("SEND", FALSE) = {Head(fifo)} \cup ToSet(Tail(fifo))
    BY <1>1 DEF Dropped, rxv, Popped
  <2>6. loss' # "since" => \A i \in 1 .. Len(fifo) : fifo[i] \in Answer
    <3>1. CASE fifo = <<>>
      BY <3>1
    <3>2. CASE fifo # <<>>
      <4>1. ASSUME loss' # "since"
            PROVE  {Head(fifo)} \cup ToSet(Tail(fifo)) \subseteq Answer
        BY <2>3, <2>4, <3>2, <4>1
      <4> QED  BY <3>2, <4>1, AllOf
    <3> QED  BY <3>1, <3>2
  <2>7. Seen' = <<>>
    BY <2>2 DEF Seen
  <2> QED  BY <1>1, <1>6, <2>2, <2>6, <2>7 DEF Exchange, Answers
<1>7. CASE stage \in Answers
  <2>1. mode \in {"done", "txerr"} /\ fifo = <<>>
    BY <1>1, <1>7 DEF Stages
  <2>2. /\ mode' = "rx" /\ stale' = (mode = "done") /\ last' = last /\ loss' \in {loss, "since"} /\ txd' = txd
        /\ fifo' = Popped \o Repeated
    BY <1>2, <1>7, <2>1 DEF Transfer
  <2>3. Popped = <<>> /\ \A i \in 1 .. Len(fifo) : fifo[i] \in Answer
    BY <2>1 DEF Popped, rxv
  <2>4. fifo' = IF mode = "done" THEN <<last>> ELSE <<>>
    BY <2>2, <2>3 DEF Repeated
  <2>5. Seen' = <<>>
    <3>1. CASE mode = "done"
      <4>1. Tail(<<last>>) = <<>>
        OBVIOUS
      <4> QED  BY <2>2, <2>4, <3>1, <4>1 DEF Seen
    <3>2. CASE mode # "done"
      BY <2>2, <2>4, <3>2 DEF Seen
    <3> QED  BY <3>1, <3>2
  <2> QED  BY <1>1, <1>7, <2>1, <2>2, <2>3, <2>4, <2>5 DEF Exchange, Answers
<1> QED  BY <1>3, <1>5, <1>6, <1>7

LEMMA StartPollControls ==
  ASSUME Control, StartPoll, UNCHANGED <<userVars, deviceVars>>
  PROVE  Control'
<1>0. /\ UNCHANGED <<caller, stage, scan, parser, st, peek, typed, alien>>
      /\ UNCHANGED <<held, locks, leds, out, answer, expect>>
      /\ pc = "start" /\ pc' = "await" /\ polls' = NPolls /\ scan = NoScan /\ stale = FALSE /\ last' = last
      /\ peek = NoChar /\ Seen = fifo /\ Seen' = <<>>
      /\ loss' \in {loss, "since"}
  BY StartPollIs
<1>1. /\ stage = "rst" => mode' = "rx" /\ fifo' = <<>> /\ txd' = txd /\ stale' = FALSE
      /\ stage \in Exchange => /\ mode' = "tx" /\ fifo' = <<>> /\ stale' = FALSE
                               /\ txd' = IF stage = "cmd" THEN CMD_CODE ELSE Leds
      /\ stage \in Answers => /\ mode' = "rx" /\ fifo = <<>> /\ stale' = (mode = "done") /\ txd' = txd
                              /\ fifo' = IF mode = "done" THEN <<last>> ELSE <<>>
  BY StartPollIs
<1> USE Typings DEF Control
<1>2. stage = "rst" \/ stage \in Exchange \/ stage \in Answers
  BY DEF Stage, Exchange, Answers
<1>3. txd \in {0, 2, 4, 6, CMD_CODE} /\ txd' \in {0, 2, 4, 6, CMD_CODE} /\ txd' \in Code
  BY <1>1, <1>2, LedsType DEF Books, Code
<1>4. mode' \in PortMode /\ stale' \in BOOLEAN /\ loss' \in Loss
  BY <1>0, <1>1, <1>2 DEF PortMode, Loss
<1>5. fifo' \in Seq(Code) /\ Len(fifo') <= Depth
  <2>1. fifo' \in {<<>>, <<last>>}
    BY <1>1, <1>2
  <2>2. <<last>> \in Seq(Code) /\ Len(<<last>>) = 1 /\ <<>> \in Seq(Code) /\ Len(<<>>) = 0
    OBVIOUS
  <2>3. 1 <= Depth /\ 0 <= Depth
    BY DepthAssumption
  <2> QED  BY <2>1, <2>2, <2>3
<1>6. polls' \in 0 .. NPolls /\ polls' > 0
  BY <1>0, PollsAssumption
<1>7. WellTyped'
  BY <1>0, <1>3, <1>4, <1>5, <1>6, TypingsNext DEF PC
<1>8. Stages'
  <2>1. stage = "rst" => caller = "open"
    BY <1>0 DEF Stages
  <2> QED  BY <1>0, <1>1, <2>1 DEF Stages, Resting, Exchange, Answers
<1>9. Books'
  <2>1. parser = "MAKE_START" /\ (caller = "open" => st = Off)
    BY <1>0 DEF Books
  <2>2. stale' => stage \in Answers /\ fifo' # <<>>
    <3>1. stage \notin Answers => stale' = FALSE
      BY <1>1, <1>2
    <3>2. stage \in Answers /\ mode # "done" => stale' = FALSE
      BY <1>1
    <3>3. stage \in Answers /\ mode = "done" => fifo' = <<last>>
      BY <1>1
    <3>4. <<last>> # <<>>
      OBVIOUS
    <3> QED  BY <3>1, <3>2, <3>3, <3>4
  <2> QED  BY <1>0, <1>3, <1>6, <2>1, <2>2 DEF Books
<1>10. Keyed'
  BY <1>0 DEF Keyed
<1> QED  BY <1>7, <1>8, <1>9, <1>10

(* and its reads.                                                          *)
LEMMA PollControls ==
  ASSUME Control, Poll, UNCHANGED <<userVars, deviceVars>>
  PROVE  /\ Control'
         /\ UNCHANGED <<scan, parser, st, held, locks, out, answer, expect, leds>>
         /\ pc = "await" /\ scan = NoScan /\ peek = NoChar /\ parser = "MAKE_START"
         /\ mode' = mode /\ txd' = txd /\ Seen' = (IF stale THEN Seen ELSE Popped)
         /\ loss' \in {loss, "since"}
         /\ loss' # "since" /\ fifo # <<>> /\ ~stale => Head(fifo) \in Answer
         /\ \/ Answered /\ stage # "ack2" /\ pc' = "start" /\ stage' = NextStage[stage]
               /\ UNCHANGED <<peek, typed, alien>>
            \/ ~Answered /\ UNCHANGED <<pc, stage, peek, typed, alien>>
            \/ /\ (Answered /\ stage = "ack2") \/ (~Answered /\ polls = 1)
               /\ \/ pc' \in Resting /\ caller # "open" /\ Return(caller, NoChar)
                  \/ pc' \in {"select", "exit"} /\ caller = "open" /\ UNCHANGED <<peek, typed, alien>>
<1> USE Typings DEF Control
<1>1. /\ pc = "await" /\ mode' = mode /\ fifo' = Popped /\ txd' = txd /\ stale' = FALSE /\ last' = last
      /\ loss' \in {loss, "since"}
      /\ loss' # "since" /\ fifo # <<>> /\ ~stale => Head(fifo) \in Answer
      /\ UNCHANGED <<caller, scan, parser>>
  BY Reading DEF Poll
<1>2. /\ UNCHANGED <<held, locks, leds, out, answer, expect>>
      /\ polls > 0 /\ scan = NoScan /\ peek = NoChar /\ parser = "MAKE_START" /\ (caller = "open" => st = Off)
      /\ txd \in {0, 2, 4, 6, CMD_CODE} /\ (stale => stage \in Answers /\ fifo # <<>>)
  BY <1>1 DEF Books, userVars, deviceVars
<1>3. /\ mode = "tx" => polls > 1
      /\ \/ /\ Answered /\ stage # "ack2"
            /\ stage' = NextStage[stage]
            /\ pc' = "start" /\ polls' = 0
            /\ UNCHANGED <<st, peek, typed, alien>>
         \/ /\ Answered /\ stage = "ack2"
            /\ SetDone(Head(fifo) = ACK_CODE)
         \/ /\ ~Answered
            /\ NoAnswer
  BY DEF Poll
<1>4. /\ Popped \in Seq(Code) /\ Len(Popped) <= Depth /\ (fifo = <<>> => Popped = <<>>)
      /\ fifo # <<>> => Popped = Tail(fifo)
  BY PoppedType
<1>5. Seen' = IF stale THEN Seen ELSE Popped
  BY <1>1, <1>2, <1>4 DEF Seen
<1>6. ASSUME NEW ok \in BOOLEAN, SetDone(ok)
      PROVE  /\ stage' = "rst" /\ polls' = 0 /\ st' = st /\ typed' \in Seq(Character) /\ alien' \in BOOLEAN
             /\ peek' \in Glyph /\ (peek' # NoChar => pc' = "fgets")
             /\ \/ pc' \in Resting /\ caller # "open" /\ Return(caller, NoChar)
                \/ pc' \in {"select", "exit"} /\ caller = "open" /\ UNCHANGED <<peek, typed, alien>>
  <2>1. CASE caller = "open"
    BY <1>2, <1>6, <2>1 DEF SetDone
  <2>2. CASE caller # "open"
    <3>1. stage' = "rst" /\ polls' = 0 /\ st' = st /\ Return(caller, NoChar) /\ NoChar \in Glyph
      BY <1>6, <2>2 DEF SetDone, Glyph
    <3> QED  BY <1>2, <2>2, <3>1, ReturnControls
  <2> QED  BY <2>1, <2>2
<1> DEFINE Ends == /\ stage' = "rst" /\ polls' = 0 /\ typed' \in Seq(Character) /\ alien' \in BOOLEAN
                   /\ peek' \in Glyph /\ (peek' # NoChar => pc' = "fgets")
                   /\ \/ pc' \in Resting /\ caller # "open" /\ Return(caller, NoChar)
                      \/ pc' \in {"select", "exit"} /\ caller = "open" /\ UNCHANGED <<peek, typed, alien>>
<1>7. /\ st' = st
      /\ \/ /\ Answered /\ stage # "ack2" /\ stage' = NextStage[stage]
            /\ pc' = "start" /\ polls' = 0 /\ UNCHANGED <<peek, typed, alien>>
         \/ /\ ~Answered /\ pc' = pc /\ polls > 1 /\ polls' = polls - 1
            /\ UNCHANGED <<stage, peek, typed, alien>>
         \/ Answered /\ stage = "ack2" /\ Ends
         \/ ~Answered /\ polls = 1 /\ Ends
  <2>1. CASE Answered /\ stage # "ack2"
    BY <1>3, <2>1
  <2>2. CASE Answered /\ stage = "ack2"
    <3>1. (Head(fifo) = ACK_CODE) \in BOOLEAN /\ SetDone(Head(fifo) = ACK_CODE)
      BY <1>3, <2>2
    <3> QED  BY <1>6, <2>2, <3>1
  <2>3. CASE ~Answered /\ polls > 1 /\ ~SetDone(FALSE)
    BY <1>3, <2>3 DEF NoAnswer
  <2>4. CASE ~Answered /\ SetDone(FALSE)
    BY <1>3, <1>6, <2>4 DEF NoAnswer
  <2> QED  BY <1>2, <1>3, <2>1, <2>2, <2>3, <2>4 DEF NoAnswer

<1> HIDE DEF Ends
<1>8. Answered /\ stage # "ack2" => \/ stage = "rst" /\ stage' = "cmd" /\ mode \in {"rx", "tx"}
                                    \/ stage = "cmd" /\ stage' = "ack" /\ mode \in {"done", "txerr"}
                                    \/ stage = "ack" /\ stage' = "arg"
                                    \/ stage = "arg" /\ stage' = "ack2" /\ mode \in {"done", "txerr"}
  <2>1. Answered /\ stage # "ack2" => stage' = NextStage[stage]
    BY <1>3
  <2>2. stage = "rst" /\ Answered => en
    BY DEF Answered
  <2>3. stage \in {"cmd", "arg"} /\ Answered => txc
    BY DEF Answered
  <2>4. stage \in {"rst", "cmd", "ack", "arg", "ack2"}
    BY DEF Stage
  <2> QED  BY <2>1, <2>2, <2>3, <2>4 DEF NextStage, en, txc
<1>9. stage \in Exchange /\ polls = 1 => Answered
  <2>1. stage \in Exchange /\ polls = 1 => mode \in {"done", "txerr"}
    BY <1>1, <1>3 DEF Stages
  <2>2. stage \in Exchange /\ txc => Answered
    BY DEF Exchange, Answered
  <2> QED  BY <2>1, <2>2 DEF txc
<1>10. WellTyped'
  <2>1. stage' \in Stage /\ pc' \in PC /\ polls' \in 0 .. NPolls /\ peek' \in Glyph
        /\ typed' \in Seq(Character) /\ alien' \in BOOLEAN
    <3>1. CASE Ends
      BY <3>1, PollsAssumption DEF Ends, Stage, PC, Resting
    <3>2. CASE Answered /\ stage # "ack2" /\ ~Ends
      BY <1>7, <1>8, <3>2, PollsAssumption DEF Stage, PC
    <3>3. CASE ~Answered /\ ~Ends
      BY <1>1, <1>7, <3>3, PollsAssumption
    <3> QED  BY <1>7, <3>1, <3>2, <3>3
  <2>2. loss' \in Loss
    BY <1>1 DEF Loss
  <2> QED  BY <1>1, <1>2, <1>4, <1>7, <2>1, <2>2, TypingsNext
<1>11. Stages'
  <2>1. CASE Answered /\ stage # "ack2" /\ ~Ends
    BY <1>1, <1>4, <1>7, <1>8, <2>1 DEF Stages, Resting, Exchange, Answers
  <2>2. CASE ~Answered /\ ~Ends
    BY <1>1, <1>4, <1>7, <2>2 DEF Stages, Resting, Exchange, Answers
  <2>3. CASE Ends /\ ((Answered /\ stage = "ack2") \/ (~Answered /\ polls = 1))
    <3>1. stage \notin Exchange
      BY <1>9, <2>3 DEF Exchange
    <3>2. mode \in {"rx", "err"}
      BY <1>1, <3>1 DEF Stages, Stage, Exchange, Answers
    <3>3. stage' = "rst" /\ (pc' \in Resting \/ (pc' \in {"select", "exit"} /\ caller = "open"))
      BY <2>3 DEF Ends
    <3> QED  BY <1>1, <3>2, <3>3 DEF Stages, Resting, Exchange, Answers
  <2>4. Ends => pc' # "start" /\ pc' # pc
    BY <1>1 DEF Ends, Resting
  <2> QED  BY <1>7, <2>1, <2>2, <2>3, <2>4
<1>12. Books'
  <2>1. CASE Answered /\ stage # "ack2" /\ ~Ends
    BY <1>1, <1>2, <1>7, <2>1 DEF Books
  <2>2. CASE ~Answered /\ ~Ends
    BY <1>1, <1>2, <1>7, <2>2 DEF Books
  <2>3. CASE Ends
    BY <1>1, <1>2, <1>7, <2>3 DEF Books, Ends, Resting
  <2> QED  BY <1>7, <2>1, <2>2, <2>3
<1>13. Keyed'
  <2>1. Seen = <<>> => Seen' = <<>>
    BY <1>4, <1>5 DEF Seen
  <2> QED  BY <1>1, <1>2, <2>1 DEF Keyed
<1>14. \/ Answered /\ stage # "ack2" /\ pc' = "start" /\ stage' = NextStage[stage] /\ UNCHANGED <<peek, typed, alien>>
       \/ ~Answered /\ UNCHANGED <<pc, stage, peek, typed, alien>>
       \/ /\ (Answered /\ stage = "ack2") \/ (~Answered /\ polls = 1)
          /\ \/ pc' \in Resting /\ caller # "open" /\ Return(caller, NoChar)
             \/ pc' \in {"select", "exit"} /\ caller = "open" /\ UNCHANGED <<peek, typed, alien>>
  BY <1>7 DEF Ends
<1> QED  BY <1>1, <1>2, <1>5, <1>7, <1>10, <1>11, <1>12, <1>13, <1>14

-----------------------------------------------------------------------------
(* The other calls of the driver, the user and the keyboard.               *)
LEMMA OpenControls ==
  ASSUME Control, Open, UNCHANGED <<userVars, deviceVars>>
  PROVE  Control' /\ Pending' = Pending /\ UNCHANGED <<typed, alien, peek, st, parser, loss, leds, scan, out>>
<1> USE Typings DEF Control
<1>1. /\ UNCHANGED <<held, locks, leds, out, answer, expect>>
      /\ UNCHANGED <<mode, fifo, last, txd, stale, loss>>
      /\ UNCHANGED <<polls, scan, parser, st, peek, typed, alien>>
      /\ pc = "closed" /\ pc' = "start" /\ caller' = "open" /\ stage' = "rst"
  BY DEF Open, userVars, deviceVars, portVars
<1>2. mode = "off" /\ fifo = <<>> /\ caller = "open" /\ ~stale
  BY <1>1 DEF Stages, Books
<1>3. Seen' = Seen /\ Pending' = Pending
  BY <1>1 DEF Seen, Pending, Taken
<1>4. WellTyped'
  BY <1>1, TypingsNext DEF PC, Stage, Caller
<1>5. Stages'
  BY <1>1, <1>2 DEF Stages, Resting, Exchange, Answers
<1>6. Books'
  BY <1>1, <1>2 DEF Books
<1>7. Keyed'
  BY <1>1, <1>3 DEF Keyed
<1> QED  BY <1>1, <1>3, <1>4, <1>5, <1>6, <1>7

LEMMA ReadControls ==
  ASSUME Control, Read, UNCHANGED <<userVars, deviceVars>>
  PROVE  /\ Control' /\ Pending' = Pending /\ UNCHANGED <<st, parser, loss, leds, scan, out, held, locks>>
         /\ \/ peek # NoChar /\ Hand(peek) /\ peek' = NoChar
            \/ UNCHANGED <<peek, typed, alien>>
         /\ pc = "fgets" /\ pc' \in Resting /\ Seen' = Seen
<1> USE Typings DEF Control
<1>1. /\ UNCHANGED <<held, locks, leds, out, answer, expect>>
      /\ UNCHANGED <<mode, fifo, last, txd, stale, loss>>
      /\ UNCHANGED <<stage, polls, scan, parser, st>>
      /\ pc = "fgets"
      /\ \/ peek # NoChar /\ Hand(peek) /\ peek' = NoChar /\ caller' = caller
         \/ /\ peek = NoChar /\ pc' = "getc" /\ caller' = "getc"
            /\ UNCHANGED <<peek, typed, alien>>
  BY DEF Read, userVars, deviceVars, portVars
<1>2. mode \in {"rx", "err"} /\ stage = "rst" /\ ~stale /\ polls = 0
  BY <1>1 DEF Stages, Books, Resting
<1>3. Seen' = Seen /\ Pending' = Pending
  BY <1>1 DEF Seen, Pending, Taken
<1>4. /\ typed' \in Seq(Character) /\ alien' \in BOOLEAN /\ pc' \in Resting /\ peek' = NoChar
      /\ caller' \in {caller, "getc"}
  <2>1. CASE peek # NoChar /\ Hand(peek) /\ peek' = NoChar /\ caller' = caller
    BY <2>1, HandControls DEF Resting
  <2>2. CASE peek = NoChar /\ pc' = "getc" /\ caller' = "getc" /\ UNCHANGED <<peek, typed, alien>>
    BY <2>2 DEF Resting
  <2> QED  BY <1>1, <2>1, <2>2
<1>5. WellTyped'
  BY <1>1, <1>4, TypingsNext DEF PC, Caller, Resting, Glyph
<1>6. Stages'
  BY <1>1, <1>2, <1>4 DEF Stages, Resting, Exchange, Answers
<1>7. Books'
  BY <1>1, <1>2, <1>4 DEF Books, Resting
<1>8. Keyed'
  BY <1>1, <1>3 DEF Keyed
<1> QED  BY <1>1, <1>3, <1>4, <1>5, <1>6, <1>7, <1>8

LEMMA CleanCode == Seq(Clean) \subseteq Seq(Code)
<1>1. Clean \subseteq Code
  BY DEF Clean
<1>2. ASSUME NEW s \in Seq(Clean) PROVE s \in Seq(Code)
  BY <1>1
<1> QED  BY <1>2

LEMMA TypesType ==
  ASSUME locks \in Locks, NEW k \in Code
  PROVE  Types(k) \in Glyph
  BY TypesAre, MapType, MeantIs

LEMMA UserControls ==
  ASSUME Control, User
  PROVE  Control'
<1> USE Typings DEF Control
<1>1. PICK k \in Key : Press(k) \/ Repeat(k) \/ Release(k)
  BY DEF User
<1>2. /\ UNCHANGED <<leds, answer, expect>>
      /\ UNCHANGED <<mode, fifo, last, txd, stale, loss>>
      /\ UNCHANGED <<pc, caller, stage, polls, scan, parser, st, peek, alien>>
  BY DEF User, portVars, threadVars
<1>3. Seen' = Seen
  BY <1>2 DEF Seen
<1>4. k \in Code
  BY KeyIs
<1>5. typed' \in Seq(Character) /\ out' \in Seq(Clean) /\ out' \in Seq(Code)
  <2>1. typed' \in {typed, Append(typed, Types(k))} /\ (Types(k) = NoChar => typed' = typed)
    BY <1>1 DEF Press, Repeat, Release, Strike
  <2>2. Types(k) # NoChar => Append(typed, Types(k)) \in Seq(Character)
    <3>1. Types(k) # NoChar => Types(k) \in Character
      BY <1>4, TypesType DEF Glyph
    <3> QED  BY <3>1, AppendProperties
  <2>3. out' \in {MakeCode(k), BreakCode(k)}
    BY <1>1 DEF Press, Repeat, Release, Strike
  <2> QED  BY <2>1, <2>2, <2>3, CodesAreClean, CleanCode
<1>6. held' \subseteq Key /\ locks' \in Locks
  <2>1. CASE Press(k)
    <3> DEFINE c == locks.caps # (k = KB_CAPSLOCK)
               n == locks.num # (k = KB_NUMLOCK)
    <3>1. c \in BOOLEAN /\ n \in BOOLEAN
      OBVIOUS
    <3>2. locks' = [caps |-> c, num |-> n] /\ held' = held \cup {k}
      BY <2>1 DEF Press
    <3> HIDE DEF c, n
    <3> QED  BY <3>1, <3>2 DEF Locks
  <2>2. CASE Repeat(k) \/ Release(k)
    BY <2>2 DEF Repeat, Release
  <2> QED  BY <1>1, <2>1, <2>2
<1>7. WellTyped'
  BY <1>2, <1>5, <1>6, TypingsNext
<1>8. Stages'
  BY <1>2 DEF Stages
<1>9. Books'
  BY <1>2 DEF Books
<1>10. Keyed'
  BY <1>2, <1>3, <1>5 DEF Keyed
<1> QED  BY <1>7, <1>8, <1>9, <1>10

LEMMA ReconnectControls ==
  ASSUME Control, Reconnect
  PROVE  Control'
<1> USE Typings DEF Control
<1>1. /\ out = <<>> /\ out' = <<BAT_CODE>> /\ held' = {} /\ locks' = [caps |-> FALSE, num |-> FALSE]
      /\ leds' = 0 /\ answer' = 0 /\ expect' = FALSE
      /\ UNCHANGED <<mode, fifo, last, txd, stale, loss>>
      /\ UNCHANGED <<pc, caller, stage, polls, scan, parser, st, peek, alien, typed>>
  BY DEF Reconnect, portVars, driverVars, threadVars
<1>2. WellTyped'
  <2>1. BAT_CODE \in Code
    BY DEF BAT_CODE, Code
  <2>2. <<BAT_CODE>> \in Seq(Code)
    BY <2>1
  <2>3. [caps |-> FALSE, num |-> FALSE] \in Locks /\ FALSE \in BOOLEAN /\ 0 \in 0 .. 7
    BY DEF Locks
  <2> QED  BY <1>1, <2>2, <2>3, TypingsNext
<1>3. Stages'
  BY <1>1 DEF Stages
<1>4. Books'
  BY <1>1 DEF Books
<1>5. Keyed'
  BY <1>1 DEF Keyed
<1> QED  BY <1>2, <1>3, <1>4, <1>5

LEMMA OutTail ==
  ASSUME Control, out # <<>>
  PROVE  /\ Head(out) \in Code \ Answer /\ Tail(out) \in Seq(Clean) /\ Tail(out) \in Seq(Code)
         /\ out = <<Head(out)>> \o Tail(out)
         /\ Head(out) = BAT_CODE => out = <<BAT_CODE>> /\ Tail(out) = <<>>
         /\ out = <<BAT_CODE>> => Head(out) = BAT_CODE
<1>1. out \in Seq(Clean) \/ out = <<BAT_CODE>>
  BY DEF Control, Keyed
<1>2. CASE out \in Seq(Clean)
  <2>1. Head(out) \in Clean /\ Tail(out) \in Seq(Clean)
    BY <1>2, HeadTailProperties, EmptySeq
  <2>2. Tail(out) \in Seq(Code) /\ out \in Seq(Code)
    BY <1>2, <2>1, CleanCode
  <2>3. out = <<Head(out)>> \o Tail(out)
    BY <2>2
  <2>4. out = <<BAT_CODE>> => Head(out) = BAT_CODE
    OBVIOUS
  <2> QED  BY <2>1, <2>2, <2>3, <2>4 DEF Clean
<1>3. CASE out = <<BAT_CODE>>
  <2>1. BAT_CODE \in Code \ Answer
    BY DEF BAT_CODE, Code, Answer, ACK_CODE, RESEND
  <2>2. Head(out) = BAT_CODE /\ Tail(out) = <<>> /\ <<BAT_CODE>> \o <<>> = <<BAT_CODE>>
    BY <1>3, <2>1
  <2> QED  BY <1>3, <2>1, <2>2
<1> QED  BY <1>1, <1>2, <1>3

LEMMA Receiving ==
  ASSUME Control, NEW b \in Code, Receive(b)
  PROVE  /\ mode = "rx" /\ mode' = mode /\ last' = b /\ txd' = txd /\ stale' = stale /\ loss' \in Loss
         /\ fifo' \in Seq(Code) /\ Len(fifo') <= Depth /\ fifo' # <<>>
         /\ \/ Len(fifo) < Depth /\ fifo' = Append(fifo, b) /\ Seen' = Append(Seen, b) /\ Seen \in Seq(Code)
               /\ \/ loss' = loss
                  \/ b = BAT_CODE /\ loss # "none" /\ loss' = "before"
            \/ fifo' = fifo /\ Seen' = Seen /\ (loss' = "since" \/ (b \in Answer /\ loss' = loss))
<1> USE Typings DEF Control
<1>1. /\ mode = "rx" /\ mode' = mode /\ last' = b /\ txd' = txd /\ stale' = stale
      /\ fifo' = IF Len(fifo) < Depth THEN Append(fifo, b) ELSE fifo
      /\ loss' = CASE Len(fifo) = Depth /\ b \notin Answer -> "since"
                   [] Len(fifo) < Depth /\ b = BAT_CODE /\ loss # "none" -> "before"
                   [] OTHER -> loss
  BY DEF Receive
<1>2. Len(fifo) \in Nat /\ Depth \in Nat /\ Depth > 0
  BY DepthAssumption, LenProperties
<1>3. stale => fifo # <<>>
  BY DEF Books
<1>4. CASE Len(fifo) < Depth
  <2>1. fifo' = Append(fifo, b) /\ Append(fifo, b) \in Seq(Code) /\ Len(Append(fifo, b)) = Len(fifo) + 1
        /\ Append(fifo, b) # <<>>
    BY <1>1, <1>4, AppendProperties
  <2>2. fifo # <<>> => Tail(fifo) \in Seq(Code) /\ Tail(Append(fifo, b)) = Append(Tail(fifo), b)
    OBVIOUS
  <2>3. Seen' = Append(Seen, b) /\ Seen \in Seq(Code)
    BY <1>1, <1>3, <2>1, <2>2 DEF Seen
  <2>4. loss' = loss \/ (b = BAT_CODE /\ loss # "none" /\ loss' = "before")
    BY <1>1, <1>2, <1>4
  <2> QED  BY <1>1, <1>2, <1>4, <2>1, <2>3, <2>4 DEF Loss
<1>5. CASE ~(Len(fifo) < Depth)
  <2>1. Len(fifo) = Depth /\ fifo' = fifo /\ fifo # <<>>
    BY <1>1, <1>2, <1>5
  <2>2. loss' = "since" \/ (b \in Answer /\ loss' = loss)
    BY <1>1, <1>2, <2>1
  <2>3. Seen' = Seen
    BY <1>1, <2>1 DEF Seen
  <2> QED  BY <1>1, <2>1, <2>2, <2>3 DEF Loss
<1> QED  BY <1>4, <1>5

LEMMA SendIs ==
  ASSUME Control, Send
  PROVE  /\ UNCHANGED <<leds, expect, held, locks, pc, caller, stage, polls, scan, parser, st, peek, alien, typed>>
         /\ \/ answer \in Answer /\ Receive(answer) /\ answer' = 0 /\ out' = out
            \/ answer = 0 /\ answer' = 0 /\ out # <<>> /\ Receive(Head(out)) /\ out' = Tail(out)
<1> USE Typings DEF Control
<1>1. 0 \notin Answer
  BY DEF Answer, ACK_CODE, RESEND
<1> QED  BY <1>1 DEF Send, userVars, driverVars, threadVars

LEMMA SendControls ==
  ASSUME Control, Send
  PROVE  Control'
<1> USE Typings DEF Control
<1>1. /\ UNCHANGED <<leds, expect, held, locks, pc, caller, stage, polls, scan, parser, st, peek, alien, typed>>
      /\ answer' = 0
      /\ \/ answer \in Answer /\ Receive(answer) /\ out' = out
         \/ out # <<>> /\ Receive(Head(out)) /\ out' = Tail(out)
  BY SendIs
<1>2. /\ mode = "rx" /\ mode' = mode /\ last' \in Code /\ txd' = txd /\ stale' = stale /\ loss' \in Loss
      /\ fifo' \in Seq(Code) /\ Len(fifo') <= Depth /\ fifo' # <<>>
  <2>1. Answer \subseteq Code
    BY DEF Answer, ACK_CODE, RESEND, Code
  <2>2. out # <<>> => Head(out) \in Code
    BY OutTail
  <2> QED  BY <1>1, <2>1, <2>2, Receiving
<1>3. /\ out' = out \/ (out # <<>> /\ out' = Tail(out))
      /\ out' \in Seq(Code)
  BY <1>1, OutTail
<1>4. WellTyped'
  BY <1>1, <1>2, <1>3, TypingsNext
<1>5. Stages'
  BY <1>1, <1>2 DEF Stages, Exchange, Answers
<1>6. Books'
  BY <1>1, <1>2 DEF Books
<1>7. Keyed'
  BY <1>1, <1>3, OutTail DEF Keyed
<1> QED  BY <1>4, <1>5, <1>6, <1>7

LEMMA SendFailsIs ==
  ASSUME Control, SendFails
  PROVE  /\ UNCHANGED <<leds, answer, expect, held, locks, pc, caller, stage, polls, scan, parser, st, peek, alien,
                        typed, fifo, last, txd, stale>>
         /\ mode = "rx" /\ mode' = "err"
         /\ \/ out' = out /\ loss' = loss
            \/ out # <<>> /\ out' = Tail(out) /\ loss' = "since"
  BY DEF SendFails, ReceiveError, userVars, driverVars, threadVars

LEMMA SendFailsControls ==
  ASSUME Control, SendFails
  PROVE  Control'
<1> USE Typings DEF Control
<1>1. /\ UNCHANGED <<leds, answer, expect, held, locks, pc, caller, stage, polls, scan, parser, st, peek, alien,
                     typed, fifo, last, txd, stale>>
      /\ mode = "rx" /\ mode' = "err" /\ loss' \in {loss, "since"}
      /\ out' = out \/ (out # <<>> /\ out' = Tail(out))
  BY SendFailsIs
<1>2. WellTyped'
  BY <1>1, OutTail, TypingsNext DEF PortMode, Loss
<1>3. Stages'
  BY <1>1 DEF Stages, Exchange, Answers
<1>4. Books'
  BY <1>1 DEF Books
<1>5. Keyed'
  BY <1>1, OutTail DEF Keyed, Seen
<1> QED  BY <1>2, <1>3, <1>4, <1>5

LEMMA SendUnseenIs ==
  ASSUME Control, SendUnseen
  PROVE  /\ UNCHANGED <<leds, expect, held, locks, pc, caller, stage, polls, scan, parser, st, peek, alien,
                        typed, mode, fifo, txd, stale>>
         /\ mode = "rx" /\ answer' = 0 /\ loss' = "since" /\ last' \in Code
         /\ out' = out \/ (out # <<>> /\ out' = Tail(out))
<1> USE Typings DEF Control
<1>1. /\ UNCHANGED <<leds, expect, held, locks, pc, caller, stage, polls, scan, parser, st, peek, alien, typed>>
      /\ \/ answer \in Answer /\ ReceiveUnseen(answer) /\ answer' = 0 /\ out' = out
         \/ answer' = 0 /\ out # <<>> /\ ReceiveUnseen(Head(out)) /\ out' = Tail(out)
  BY DEF SendUnseen, userVars, driverVars, threadVars
<1>2. Answer \subseteq Code
  BY DEF Answer, ACK_CODE, RESEND, Code
<1>3. out # <<>> => Head(out) \in Code
  BY OutTail
<1> QED  BY <1>1, <1>2, <1>3 DEF ReceiveUnseen

LEMMA SendUnseenControls ==
  ASSUME Control, SendUnseen
  PROVE  Control'
<1> USE Typings DEF Control
<1>1. /\ UNCHANGED <<leds, expect, held, locks, pc, caller, stage, polls, scan, parser, st, peek, alien,
                     typed, mode, fifo, txd, stale>>
      /\ mode = "rx" /\ answer' = 0 /\ loss' = "since" /\ last' \in Code
      /\ out' = out \/ (out # <<>> /\ out' = Tail(out))
  BY SendUnseenIs
<1>2. WellTyped'
  BY <1>1, OutTail, TypingsNext DEF Loss
<1>3. Stages'
  BY <1>1 DEF Stages, Exchange, Answers
<1>4. Books'
  BY <1>1 DEF Books
<1>5. Keyed'
  BY <1>1, OutTail DEF Keyed
<1> QED  BY <1>2, <1>3, <1>4, <1>5

LEMMA Sending ==
  ASSUME Control, mode = "tx"
  PROVE  /\ pc = "await" /\ stage \in Exchange /\ fifo = <<>> /\ stale = FALSE /\ Seen = <<>>
         /\ parser = "MAKE_START" /\ scan = NoScan /\ peek = NoChar
<1> USE Typings DEF Control
<1>1. pc = "await" /\ stage \in Exchange
  BY DEF Stages, PC, Stage, Exchange, Answers, Resting
<1>2. fifo = <<>> /\ stale = FALSE
  BY <1>1 DEF Stages, Books
<1> QED  BY <1>1, <1>2 DEF Books, Seen

LEMMA TransmitIs ==
  ASSUME Control, Take \/ Refuse \/ TakeFails
  PROVE  /\ mode = "tx" /\ mode' = (IF TakeFails THEN "txerr" ELSE "done")
         /\ UNCHANGED <<fifo, last, txd, stale, out, held, locks, pc, caller, stage, polls, scan, parser, st, peek,
                        alien, typed>>
         /\ IF Take THEN loss' = loss /\ ~Testing ELSE loss' = "since" /\ UNCHANGED <<leds, expect>>
         /\ answer' \in Answer \/ answer' = answer
<1> USE Typings DEF Control
<1>1. "txerr" # "done"
  OBVIOUS
<1>2. CASE Take
  BY <1>1, <1>2 DEF Take, TakeFails, Command, Transmit, Answer, userVars, driverVars, threadVars
<1>3. CASE ~Take /\ Refuse
  BY <1>1, <1>3 DEF Refuse, TakeFails, Transmit, Answer, userVars, driverVars, threadVars
<1>4. CASE ~Take /\ TakeFails
  BY <1>4 DEF TakeFails, Transmit, userVars, driverVars, threadVars
<1> QED  BY <1>2, <1>3, <1>4

LEMMA TransmitControls ==
  ASSUME Control, Take \/ Refuse \/ TakeFails
  PROVE  Control'
<1> USE Typings DEF Control
<1>1. /\ mode = "tx" /\ mode' \in {"txerr", "done"} /\ loss' \in {loss, "since"}
      /\ UNCHANGED <<fifo, last, txd, stale, out, held, locks, pc, caller, stage, polls, scan, parser, st, peek,
                     alien, typed>>
      /\ answer' \in Answer \cup {0}
  BY TransmitIs
<1>2. /\ pc = "await" /\ stage \in Exchange /\ fifo = <<>> /\ stale = FALSE /\ Seen = <<>>
      /\ parser = "MAKE_START" /\ scan = NoScan
  BY <1>1, Sending
<1>3. leds' \in 0 .. 7 /\ expect' \in BOOLEAN
  <2>1. CASE Take
    <3>1. (leds' = leds \/ (txd # CMD_CODE /\ leds' = txd)) /\ expect' \in BOOLEAN
      BY <2>1 DEF Take, Command
    <3>2. txd # CMD_CODE => txd \in 0 .. 7
      BY DEF Books
    <3> QED  BY <3>1, <3>2
  <2>2. CASE ~Take
    BY <2>2, TransmitIs
  <2> QED  BY <2>1, <2>2
<1>4. WellTyped'
  BY <1>1, <1>3, TypingsNext DEF PortMode, Loss
<1>5. Stages'
  BY <1>1, <1>2 DEF Stages, Exchange, Answers
<1>6. Books'
  BY <1>1 DEF Books
<1>7. Keyed'
  BY <1>1, <1>2 DEF Keyed, Seen
<1> QED  BY <1>4, <1>5, <1>6, <1>7

-----------------------------------------------------------------------------
(* What is on its way accounts for what the driver has to know.            *)
Kept == Account /\ ReadIsTyped

LEMMA StateTypes ==
  ASSUME WellTyped
  PROVE  /\ Now \in DriverState /\ UserState \in DriverState
         /\ Seen \in Seq(Code) /\ Taken \in Seq(Code) /\ Seen \o out \in Seq(Code) /\ Pending \in Seq(Code)
         /\ (loss = "none") \in BOOLEAN
<1> USE Typings
<1>1. Now \in DriverState
  BY AtType DEF Now
<1>2. UserState \in DriverState
  BY MeantIs, AtType DEF UserState, ParserState
<1>3. fifo # <<>> => Tail(fifo) \in Seq(Code)
  BY HeadTailProperties, EmptySeq
<1>4. Seen \in Seq(Code)
  <2>1. CASE fifo = <<>>
    <3>1. Tail(fifo) = <<>>
      BY <2>1
    <3> QED  BY <2>1, <3>1 DEF Seen
  <2>2. CASE fifo # <<>>
    BY <1>3, <2>2 DEF Seen
  <2> QED  BY <2>1, <2>2
<1>5. Taken \in Seq(Code)
  <2>1. scan # NoScan => <<scan>> \in Seq(Code)
    OBVIOUS
  <2> QED  BY <2>1 DEF Taken
<1>6. Seen \o out \in Seq(Code)
  BY <1>4, ConcatProperties
<1>7. Pending \in Seq(Code)
  BY <1>5, <1>6, ConcatProperties DEF Pending
<1> QED  BY <1>1, <1>2, <1>4, <1>5, <1>6, <1>7

LEMMA JoinIs ==
  ASSUME NEW s \in Seq(Code), NEW t \in Seq(Code)
  PROVE  /\ <<>> \o s = s /\ s \o <<>> = s
         /\ s # <<>> => <<Head(s)>> \o (Tail(s) \o t) = s \o t
<1>1. <<>> \o s = s /\ s \o <<>> = s
  OBVIOUS
<1>2. ASSUME s # <<>>
      PROVE  <<Head(s)>> \o (Tail(s) \o t) = s \o t
  <2>1. Tail(s) \in Seq(Code) /\ Head(s) \in Code /\ s = <<Head(s)>> \o Tail(s)
    BY <1>2, HeadTailProperties, EmptySeq
  <2>2. <<Head(s)>> \in Seq(Code)
    BY <2>1
  <2>3. (<<Head(s)>> \o Tail(s)) \o t = <<Head(s)>> \o (Tail(s) \o t)
    BY <2>1, <2>2, ConcatAssociative
  <2> QED  BY <2>1, <2>3
<1> QED  BY <1>1, <1>2

LEMMA JoinJoin ==
  ASSUME NEW r \in Seq(Code), NEW s \in Seq(Code), NEW t \in Seq(Code)
  PROVE  (r \o s) \o t = r \o (s \o t)
  BY ConcatAssociative

LEMMA TryReadKeeps ==
  ASSUME Control, Kept, pc \in {"select", "getc"}, NEW call \in {"poll", "getc"}, TryRead(call),
         UNCHANGED <<userVars, deviceVars>>
  PROVE  Kept'
<1> USE Typings DEF Control
<1>1. /\ fifo' = Popped /\ stale' = FALSE /\ loss' = loss
  BY Reading DEF TryRead
<1>2. /\ UNCHANGED <<held, locks, out>>
      /\ stale = FALSE /\ peek = NoChar /\ scan = NoScan /\ Seen = fifo
  BY DEF Stages, Books, userVars, deviceVars, Resting, Seen
<1>3. /\ Popped \in Seq(Code)
      /\ Received \in Code \cup {NoScan} /\ (Received = NoScan <=> fifo = <<>>)
      /\ fifo = <<>> => Popped = <<>>
      /\ fifo # <<>> => Received = Head(fifo) /\ Popped = Tail(fifo)
  BY PoppedType
<1> DEFINE byte == IF Received = NoScan THEN <<>> ELSE <<Received>>
           rest == Popped \o out
<1>4. Pending = byte \o rest /\ rest \in Seq(Code)
  <2>1. Pending = <<>> \o (fifo \o out) /\ fifo \o out \in Seq(Code)
    BY <1>2, StateTypes DEF Pending, Taken
  <2>2. Pending = fifo \o out
    BY <2>1, JoinIs
  <2>3. rest \in Seq(Code)
    BY <1>3, ConcatProperties
  <2>4. CASE fifo = <<>>
    <3>1. byte = <<>> /\ rest = fifo \o out
      BY <1>3, <2>4
    <3> HIDE DEF byte, rest
    <3> QED  BY <2>2, <2>3, <3>1, JoinIs
  <2>5. CASE fifo # <<>>
    <3>1. byte = <<Head(fifo)>> /\ rest = Tail(fifo) \o out
      BY <1>3, <2>5
    <3>2. <<Head(fifo)>> \o (Tail(fifo) \o out) = fifo \o out
      BY <2>5, JoinIs
    <3> QED  BY <2>2, <2>3, <3>1, <3>2
  <2> QED  BY <2>4, <2>5
<1>5. Seen' \o out' = rest /\ UserState' = UserState
  BY <1>1, <1>2 DEF Seen, UserState
<1> HIDE DEF byte, rest
<1>6. Now \in DriverState /\ UserState \in DriverState /\ (loss = "none") \in BOOLEAN
  BY StateTypes
<1>7. loss # "since" => Accounts(Now, UserState, byte \o rest, loss = "none", typed, NoChar)
  BY <1>2, <1>4 DEF Kept, Account
<1>8. CASE ~en
  <2>1. scan' = Received /\ UNCHANGED <<parser, st, peek, typed, alien>>
    BY <1>8 DEF TryRead
  <2>2. Pending' = byte \o rest /\ Now' = Now
    BY <1>5, <2>1 DEF Pending, Taken, Now, byte
  <2> QED  BY <1>1, <1>2, <1>5, <1>7, <2>1, <2>2 DEF Kept, Account, ReadIsTyped
<1>9. CASE en
  <2>1. Stepped(call, Received) /\ scan' = scan
    BY <1>9 DEF TryRead
  <2>2. Pending' = rest
    <3>1. Pending' = <<>> \o rest
      BY <1>2, <1>5, <2>1 DEF Pending, Taken
    <3> QED  BY <1>4, <3>1, JoinIs
  <2>3. loss # "since" => /\ Accounts(Now', UserState, rest, loss = "none", typed', peek')
                          /\ loss = "none" => alien' = alien
    BY <1>2, <1>3, <1>4, <1>6, <1>7, <2>1, SteppedKeeps DEF byte
  <2> QED  BY <1>1, <1>5, <2>2, <2>3 DEF Kept, Account, ReadIsTyped
<1> QED  BY <1>8, <1>9

LEMMA ResetKeeps ==
  ASSUME Control, Kept, ResetStalled, UNCHANGED <<userVars, deviceVars>>
  PROVE  Kept'
<1> USE Typings DEF Control
<1>1. /\ UNCHANGED <<held, locks, out>>
      /\ mode = "err" /\ stale = FALSE /\ peek = NoChar /\ Seen = fifo
  BY DEF Stages, Books, userVars, deviceVars, Seen, ResetStalled
<1>2. /\ fifo' = <<>> /\ stale' = FALSE /\ loss' \in {loss, "since"} /\ scan' = NoScan
      /\ loss' # "since" => Dropped("RST", FALSE) \subseteq Answer
      /\ Stepped(caller, scan)
  BY <1>1 DEF ResetStalled, Transfer, Repeated
<1>3. loss' # "since" => \A i \in 1 .. Len(fifo) : fifo[i] \in Answer
  <2>1. CASE fifo = <<>>
    BY <2>1
  <2>2. CASE fifo # <<>>
    <3>1. Dropped("RST", FALSE) = {Head(fifo)} \cup ToSet(Tail(fifo))
      BY <1>1, <2>2 DEF Dropped, rxv, Popped
    <3>2. ASSUME loss' # "since"
          PROVE  {Head(fifo)} \cup ToSet(Tail(fifo)) \subseteq Answer
      BY <1>2, <3>1, <3>2
    <3> QED  BY <2>2, <3>2, AllOf
  <2> QED  BY <2>1, <2>2
<1> DEFINE rest == fifo \o out
<1>4. rest \in Seq(Code) /\ Pending = Taken \o rest
  BY <1>1, StateTypes DEF Pending
<1>5. Pending' = out /\ UserState' = UserState
  <2>1. Pending' = <<>> \o (<<>> \o out)
    BY <1>1, <1>2 DEF Pending, Taken, Seen
  <2> QED  BY <1>1, <2>1, JoinIs DEF UserState
<1> HIDE DEF rest
<1>6. Now \in DriverState /\ UserState \in DriverState /\ (loss = "none") \in BOOLEAN
  BY StateTypes
<1>7. loss # "since" => Accounts(Now, UserState, Taken \o rest, loss = "none", typed, NoChar)
  BY <1>1, <1>4 DEF Kept, Account
<1>8. loss # "since" => /\ Accounts(Now', UserState, rest, loss = "none", typed', peek')
                        /\ loss = "none" => alien' = alien
  BY <1>1, <1>2, <1>4, <1>6, <1>7, SteppedKeeps DEF Taken
<1>9. Now' \in DriverState
  BY <1>2, SteppedNow
<1>10. loss' # "since" => Accounts(Now', UserState, out, loss = "none", typed', peek')
  BY <1>2, <1>3, <1>6, <1>8, <1>9, AccountsDrop DEF rest
<1> QED  BY <1>2, <1>5, <1>8, <1>10 DEF Kept, Account, ReadIsTyped

LEMMA StartPollKeeps ==
  ASSUME Control, Kept, StartPoll, UNCHANGED <<userVars, deviceVars>>
  PROVE  Kept'
<1> USE Typings DEF Control
<1>1. /\ UNCHANGED <<scan, parser, st, peek, typed, alien>>
      /\ UNCHANGED <<held, locks, out>>
      /\ scan = NoScan /\ Seen = fifo /\ Seen' = <<>>
      /\ loss' \in {loss, "since"} /\ (loss' # "since" => \A i \in 1 .. Len(fifo) : fifo[i] \in Answer)
  BY StartPollIs
<1>2. Pending = fifo \o out /\ Pending' = out /\ UserState' = UserState /\ Now' = Now
  <2>1. Pending = <<>> \o (fifo \o out) /\ Pending' = <<>> \o (<<>> \o out)
    BY <1>1 DEF Pending, Taken
  <2>2. fifo \o out \in Seq(Code)
    BY ConcatProperties
  <2> QED  BY <1>1, <2>1, <2>2, JoinIs DEF UserState, Now
<1>3. Now \in DriverState /\ (loss = "none") \in BOOLEAN
  BY StateTypes
<1>4. loss # "since" => Accounts(Now, UserState, fifo \o out, loss = "none", typed, peek)
  BY <1>2 DEF Kept, Account
<1>5. loss' # "since" => Accounts(Now, UserState, out, loss = "none", typed, peek)
  BY <1>1, <1>3, <1>4, AccountsDrop
<1> QED  BY <1>1, <1>2, <1>5 DEF Kept, Account, ReadIsTyped

LEMMA PollKeeps ==
  ASSUME Control, Kept, Poll, UNCHANGED <<userVars, deviceVars>>
  PROVE  Kept'
<1> USE Typings DEF Control
<1>1. /\ UNCHANGED <<scan, parser, st, held, locks, out>>
      /\ scan = NoScan /\ peek = NoChar /\ Seen' = (IF stale THEN Seen ELSE Popped)
      /\ loss' \in {loss, "since"}
      /\ loss' # "since" /\ fifo # <<>> /\ ~stale => Head(fifo) \in Answer
      /\ UNCHANGED <<peek, typed, alien>> \/ Return(caller, NoChar)
  BY PollControls
<1>2. /\ Popped \in Seq(Code) /\ (fifo = <<>> => Popped = <<>>)
      /\ fifo # <<>> => Popped = Tail(fifo) /\ Head(fifo) \in Code
  BY PoppedType
<1> DEFINE rest == Seen' \o out
<1>3. rest \in Seq(Code) /\ Pending' = rest /\ UserState' = UserState /\ Now' = Now
  <2>1. Seen' \in Seq(Code)
    BY <1>1, <1>2, StateTypes
  <2>2. rest \in Seq(Code)
    BY <2>1, ConcatProperties
  <2>3. Pending' = <<>> \o rest
    BY <1>1 DEF Pending, Taken
  <2> HIDE DEF rest
  <2> QED  BY <1>1, <2>2, <2>3, JoinIs DEF UserState, Now
<1>4. Now \in DriverState /\ UserState \in DriverState /\ (loss = "none") \in BOOLEAN
  BY StateTypes
<1>5. loss' # "since" => Accounts(Now, UserState, rest, loss = "none", typed, NoChar)
  <2>1. loss' # "since" => Accounts(Now, UserState, Pending, loss = "none", typed, NoChar)
    BY <1>1 DEF Kept, Account
  <2>2. Pending = Seen \o out
    <3>1. Pending = <<>> \o (Seen \o out)
      BY <1>1 DEF Pending, Taken
    <3> QED  BY <3>1, StateTypes, JoinIs
  <2>3. CASE stale \/ fifo = <<>>
    <3>1. rest = Seen \o out
      BY <1>1, <1>2, <2>3 DEF Seen
    <3> QED  BY <2>1, <2>2, <3>1
  <2>4. CASE ~stale /\ fifo # <<>>
    <3>1. rest = Tail(fifo) \o out /\ Pending = fifo \o out
      BY <1>1, <1>2, <2>2, <2>4 DEF Seen
    <3>2. Pending = <<Head(fifo)>> \o rest
      BY <2>4, <3>1, JoinIs
    <3> HIDE DEF rest
    <3>3. <<Head(fifo)>> \in Seq(Code)
      BY <1>2, <2>4
    <3>4. loss' # "since" => \A i \in 1 .. Len(<<Head(fifo)>>) : <<Head(fifo)>>[i] \in Answer
      <4>1. Len(<<Head(fifo)>>) = 1 /\ <<Head(fifo)>>[1] = Head(fifo)
        OBVIOUS
      <4>2. loss' # "since" => Head(fifo) \in Answer
        BY <1>1, <2>4
      <4> QED  BY <4>1, <4>2
    <3> QED  BY <1>3, <1>4, <2>1, <3>2, <3>3, <3>4, AccountsDrop
  <2> QED  BY <2>3, <2>4
<1> HIDE DEF rest
<1>6. loss' # "since" => /\ Accounts(Now, UserState, rest, loss = "none", typed', peek')
                         /\ loss = "none" => alien' = alien
  <2>1. CASE UNCHANGED <<peek, typed, alien>>
    BY <1>1, <1>5, <2>1
  <2>2. CASE Return(caller, NoChar)
    <3>1. NoChar \in Glyph
      BY DEF Glyph
    <3> QED  BY <1>1, <1>3, <1>4, <1>5, <2>2, <3>1, ReturnKeeps
  <2> QED  BY <1>1, <2>1, <2>2
<1> QED  BY <1>1, <1>3, <1>6 DEF Kept, Account, ReadIsTyped

LEMMA ReadKeeps ==
  ASSUME Control, Kept, Read, UNCHANGED <<userVars, deviceVars>>
  PROVE  Kept'
<1> USE Typings DEF Control
<1>1. /\ Pending' = Pending /\ UNCHANGED <<st, parser, loss, held, locks>>
      /\ \/ peek # NoChar /\ Hand(peek) /\ peek' = NoChar
         \/ UNCHANGED <<peek, typed, alien>>
  BY ReadControls
<1>2. Now' = Now /\ UserState' = UserState
  BY <1>1 DEF Now, UserState
<1>3. Now \in DriverState /\ UserState \in DriverState /\ Pending \in Seq(Code) /\ (loss = "none") \in BOOLEAN
  BY StateTypes
<1>4. CASE peek # NoChar /\ Hand(peek) /\ peek' = NoChar
  <2>1. loss # "since" => Accounts(Now, UserState, Pending, loss = "none", typed, peek)
    BY DEF Kept, Account
  <2>2. loss # "since" => /\ Accounts(Now, UserState, Pending, loss = "none", typed', NoChar)
                          /\ loss = "none" => alien' = alien
    BY <1>3, <1>4, <2>1, HandKeeps
  <2> QED  BY <1>1, <1>2, <1>4, <2>2 DEF Kept, Account, ReadIsTyped
<1>5. CASE UNCHANGED <<peek, typed, alien>>
  BY <1>1, <1>2, <1>5 DEF Kept, Account, ReadIsTyped
<1> QED  BY <1>1, <1>4, <1>5

LEMMA UserKeeps ==
  ASSUME Control, Kept, User
  PROVE  Kept'
<1> USE Typings DEF Control
<1>1. PICK k \in Key : Press(k) \/ Repeat(k) \/ Release(k)
  BY DEF User
<1>2. /\ UNCHANGED <<mode, fifo, last, txd, stale, loss>>
      /\ UNCHANGED <<pc, caller, stage, polls, scan, parser, st, peek, alien>>
      /\ out = <<>>
  BY <1>1 DEF User, portVars, threadVars, Press, Repeat, Release, Strike
<1> DEFINE s == Meant(held, locks)
           p == Taken \o Seen
<1>3. k \in Code /\ s \in DriverSt /\ locks \in Locks /\ locks' \in Locks
  <2>1. locks' \in Locks
    <3>1. Control'
      BY UserControls
    <3> QED  BY <3>1 DEF WellTyped
  <2> QED  BY <2>1, KeyIs, MeantIs
<1>4. Now \in DriverState /\ (loss = "none") \in BOOLEAN /\ Taken \in Seq(Code) /\ Seen \in Seq(Code) /\ p \in Seq(Code)
  BY StateTypes, ConcatProperties
<1>5. Pending = p /\ UserState = At("MAKE_START", s) /\ Now' = Now
  BY <1>2, <1>4, JoinIs DEF Pending, UserState, Now
<1>6. \A code \in Seq(Code) : out' = code => Pending' = p \o code
  <2>1. Seen' = Seen /\ Taken' = Taken
    BY <1>2 DEF Seen, Taken
  <2>2. Pending' = Taken \o (Seen \o out')
    BY <2>1 DEF Pending
  <2>3. \A code \in Seq(Code) : p \o code = Taken \o (Seen \o code)
    <3>1. ASSUME NEW code \in Seq(Code)
          PROVE  (Taken \o Seen) \o code = Taken \o (Seen \o code)
      <4>1. Taken \in Seq(Code) /\ Seen \in Seq(Code)
        BY <1>4
      <4> QED  BY <4>1, JoinJoin
    <3> QED  BY <3>1
  <2> HIDE DEF p
  <2> QED  BY <2>2, <2>3
<1>7. UserState' = At("MAKE_START", Meant(held', locks'))
  BY DEF UserState
<1>8. loss # "since" => Accounts(Now, At("MAKE_START", s), p, loss = "none", typed, peek)
  BY <1>5 DEF Kept, Account
<1> HIDE DEF s, p
<1>9. CASE Press(k) \/ Repeat(k)
  <2>1. out' = MakeCode(k) /\ typed' = TextOf(typed, Types(k))
    BY <1>9 DEF Press, Repeat, Strike, TextOf
  <2>2. Types(k) = Typing(s, k)
    BY <1>3, TypesAre DEF s
  <2>3. UserState' = Making(s, k)
    <3>1. CASE Press(k)
      <4>1. /\ k \in held' /\ k \notin held /\ (\A j \in Code : j # k => (j \in held' <=> j \in held))
            /\ locks'.caps <=> (locks.caps <=> ~(k = KB_CAPSLOCK))
            /\ locks'.num <=> (locks.num <=> ~(k = KB_NUMLOCK))
        <5>1. locks' = [caps |-> locks.caps # (k = KB_CAPSLOCK), num |-> locks.num # (k = KB_NUMLOCK)]
          BY <3>1 DEF Press
        <5>2. locks'.caps = (locks.caps # (k = KB_CAPSLOCK)) /\ locks'.num = (locks.num # (k = KB_NUMLOCK))
          BY <5>1
        <5>3. locks.caps \in BOOLEAN /\ locks.num \in BOOLEAN
          BY DEF Locks
        <5>4. /\ locks'.caps <=> (locks.caps <=> ~(k = KB_CAPSLOCK))
              /\ locks'.num <=> (locks.num <=> ~(k = KB_NUMLOCK))
          BY <5>2, <5>3
        <5> QED  BY <3>1, <5>4 DEF Press
      <4>2. PICK make \in BOOLEAN : make = TRUE
        OBVIOUS
      <4>3. /\ make <=> k \in held'
            /\ \A j \in Code : j # k => (j \in held' <=> j \in held)
            /\ locks'.caps <=> (locks.caps <=> ~(k = KB_CAPSLOCK /\ make /\ k \notin held))
            /\ locks'.num <=> (locks.num <=> ~(k = KB_NUMLOCK /\ make /\ k \notin held))
        <5>1. locks.caps \in BOOLEAN /\ locks.num \in BOOLEAN
          BY DEF Locks
        <5> QED  BY <4>1, <4>2, <5>1
      <4>4. Turned(s, k, make) = Meant(held', locks')
        BY <1>3, <4>3, KeysFollowed DEF s
      <4> QED  BY <1>7, <4>2, <4>4 DEF Making
    <3>2. CASE Repeat(k)
      <4>1. k \in held /\ held' = held /\ locks' = locks
        BY <3>2 DEF Repeat
      <4>2. PICK make \in BOOLEAN : make = TRUE
        OBVIOUS
      <4>3. /\ make <=> k \in held'
            /\ \A j \in Code : j # k => (j \in held' <=> j \in held)
            /\ locks'.caps <=> (locks.caps <=> ~(k = KB_CAPSLOCK /\ make /\ k \notin held))
            /\ locks'.num <=> (locks.num <=> ~(k = KB_NUMLOCK /\ make /\ k \notin held))
        <5>1. locks.caps \in BOOLEAN /\ locks.num \in BOOLEAN
          BY DEF Locks
        <5> QED  BY <4>1, <4>2, <5>1
      <4>4. Turned(s, k, make) = Meant(held', locks')
        BY <1>3, <4>3, KeysFollowed DEF s
      <4> QED  BY <1>7, <4>2, <4>4 DEF Making
    <3> QED  BY <1>9, <3>1, <3>2
  <2>4. loss # "since" => Accounts(Now, Making(s, k), p \o MakeCode(k), loss = "none", TextOf(typed, Typing(s, k)), peek)
    BY <1>3, <1>4, <1>8, MakeRun
  <2>5. Pending' = p \o MakeCode(k)
    BY <1>6, <2>1, CodesAreClean, CleanCode
  <2> QED  BY <1>2, <1>5, <2>1, <2>2, <2>3, <2>4, <2>5 DEF Kept, Account, ReadIsTyped
<1>10. CASE Release(k)
  <2>1. out' = BreakCode(k) /\ typed' = typed /\ locks' = locks /\ held' = held \ {k}
    BY <1>10 DEF Release
  <2>2. UserState' = Breaking(s, k)
    <3>1. k \notin held' /\ (\A j \in Code : j # k => (j \in held' <=> j \in held))
      BY <2>1
    <3>2. PICK make \in BOOLEAN : make = FALSE
      OBVIOUS
    <3>3. Turned(s, k, make) = Meant(held', locks')
      BY <1>3, <2>1, <3>1, <3>2, KeysFollowed DEF s
    <3> QED  BY <1>7, <3>2, <3>3 DEF Breaking
  <2>3. loss # "since" => Accounts(Now, Breaking(s, k), p \o BreakCode(k), loss = "none", typed, peek)
    BY <1>3, <1>4, <1>8, BreakRun
  <2>4. Pending' = p \o BreakCode(k)
    BY <1>6, <2>1, CodesAreClean, CleanCode
  <2> QED  BY <1>2, <1>5, <2>1, <2>2, <2>3, <2>4 DEF Kept, Account, ReadIsTyped
<1> QED  BY <1>1, <1>9, <1>10

LEMMA BatOfNothing ==
  Meant({}, [caps |-> FALSE, num |-> FALSE]) = Off /\ At("MAKE_START", Off) = Restarted
<1> DEFINE l == [caps |-> FALSE, num |-> FALSE]
<1>1. l \in Locks
  BY DEF Locks
<1>2. l.caps = FALSE /\ l.num = FALSE
  OBVIOUS
<1> HIDE DEF l
<1>3. Meant({}, l) = Off
  <2>1. Meant({}, l) \in DriverSt /\ Off \in DriverSt
    BY <1>1, MeantIs, OffType
  <2>2. LockState(FALSE, FALSE) = 0
    BY DEF LockState
  <2>3. /\ ~Meant({}, l).lshift /\ ~Meant({}, l).rshift /\ ~Meant({}, l).alt_gr
        /\ Meant({}, l).caps_lock = LockState(l.caps, KB_CAPSLOCK \in {})
        /\ Meant({}, l).num_lock = LockState(l.num, KB_NUMLOCK \in {})
    BY <1>1, MeantIs
  <2>4. Meant({}, l).caps_lock = 0 /\ Meant({}, l).num_lock = 0
    BY <1>2, <2>3 DEF LockState
  <2>5. ~Off.lshift /\ ~Off.rshift /\ ~Off.alt_gr /\ Off.caps_lock = 0 /\ Off.num_lock = 0
    BY DEF Off
  <2> QED  BY <2>1, <2>3, <2>4, <2>5, SameSt
<1> QED  BY <1>3 DEF At, Restarted, l

LEMMA ReconnectKeeps ==
  ASSUME Control, Kept, Reconnect
  PROVE  Kept'
<1> USE Typings DEF Control
<1>1. /\ out = <<>> /\ out' = <<BAT_CODE>> /\ held' = {} /\ locks' = [caps |-> FALSE, num |-> FALSE]
      /\ UNCHANGED <<fifo, stale, loss, scan, parser, st, peek, alien, typed>>
  BY DEF Reconnect, portVars, driverVars, threadVars
<1> DEFINE p == Taken \o Seen
<1>2. Now \in DriverState /\ UserState \in DriverState /\ (loss = "none") \in BOOLEAN
      /\ Taken \in Seq(Code) /\ Seen \in Seq(Code)
  BY StateTypes
<1>3. p \in Seq(Code) /\ Pending = p /\ Now' = Now
  BY <1>1, <1>2, ConcatProperties, JoinIs DEF Pending, Now
<1>4. BAT_CODE \in Code \ Answer /\ <<BAT_CODE>> \in Seq(Code)
  BY DEF BAT_CODE, Code, Answer, ACK_CODE, RESEND
<1>5. Pending' = Append(p, BAT_CODE)
  <2>1. Pending' = Taken \o (Seen \o <<BAT_CODE>>)
    BY <1>1 DEF Pending, Taken, Seen
  <2>2. (Taken \o Seen) \o <<BAT_CODE>> = Taken \o (Seen \o <<BAT_CODE>>)
    BY <1>2, <1>4, JoinJoin
  <2>3. Append(p, BAT_CODE) = p \o <<BAT_CODE>>
    <3>1. p \in Seq(Code)
      BY <1>3
    <3> HIDE DEF p
    <3> QED  BY <1>4, <3>1, AppendIsConcat
  <2> QED  BY <2>1, <2>2, <2>3
<1>6. UserState' = AfterByte(UserState, BAT_CODE) /\ CharOf(UserState, BAT_CODE) = NoChar
  BY <1>1, <1>2, AfterBat, BatOfNothing DEF UserState
<1>7. Sound(UserState, BAT_CODE) /\ NoChar \in Glyph
  BY <1>4 DEF Sound, Glyph
<1> HIDE DEF p
<1>8. loss # "since" => Accounts(Now, UserState, p, loss = "none", typed, peek)
  BY <1>3 DEF Kept, Account
<1>9. loss # "since" => Accounts(Now, AfterByte(UserState, BAT_CODE), Append(p, BAT_CODE), loss = "none", typed, peek)
  BY <1>2, <1>3, <1>4, <1>6, <1>7, <1>8, AccountsPush
<1> QED  BY <1>1, <1>3, <1>5, <1>6, <1>9 DEF Kept, Account, ReadIsTyped

LEMMA SendKeeps ==
  ASSUME Control, Kept, Send
  PROVE  Kept'
<1> USE Typings DEF Control
<1>1. /\ UNCHANGED <<held, locks, pc, scan, parser, st, peek, alien, typed>>
      /\ \/ answer \in Answer /\ Receive(answer) /\ out' = out
         \/ out # <<>> /\ Receive(Head(out)) /\ out' = Tail(out)
  BY SendIs
<1>2. Now' = Now /\ UserState' = UserState /\ Taken' = Taken
  BY <1>1 DEF Now, UserState, Taken
<1>3. /\ Now \in DriverState /\ UserState \in DriverState /\ (loss = "none") \in BOOLEAN
      /\ Taken \in Seq(Code) /\ Seen \in Seq(Code)
  BY StateTypes
<1>4. loss # "since" => Accounts(Now, UserState, Pending, loss = "none", typed, peek)
  BY DEF Kept, Account
<1>5. CASE answer \in Answer /\ Receive(answer) /\ out' = out
  <2>1. answer \in Code /\ answer # 0 /\ answer # BAT_CODE
    BY <1>5 DEF Answer, ACK_CODE, RESEND, Code, BAT_CODE
  <2>2. parser = "MAKE_START" /\ scan = NoScan /\ Seen = <<>> /\ Now.parser = "MAKE_START"
    BY <2>1 DEF Keyed, Now, At
  <2>3. Pending = out
    BY <2>2, JoinIs DEF Pending, Taken
  <2>4. CASE Seen' = Append(Seen, answer) /\ loss' = loss
    <3>1. Seen' = <<answer>> /\ <<answer>> \in Seq(Code)
      BY <2>1, <2>2, <2>4
    <3>2. Pending' = <<answer>> \o out
      <4>1. Pending' = <<>> \o (<<answer>> \o out)
        BY <1>2, <1>5, <2>2, <3>1 DEF Pending, Taken
      <4>2. <<answer>> \o out \in Seq(Code)
        BY <3>1, ConcatProperties
      <4> QED  BY <4>1, <4>2, JoinIs
    <3>3. loss # "since" => Accounts(Now, UserState, <<answer>> \o out, loss = "none", typed, peek)
      BY <1>3, <1>4, <1>5, <2>2, <2>3, AccountsAnswer
    <3> QED  BY <1>1, <1>2, <2>4, <3>2, <3>3 DEF Kept, Account, ReadIsTyped
  <2>5. CASE Seen' = Seen /\ (loss' = "since" \/ loss' = loss)
    <3>1. Pending' = Pending
      BY <1>2, <1>5, <2>5 DEF Pending
    <3> QED  BY <1>1, <1>2, <1>4, <2>5, <3>1 DEF Kept, Account, ReadIsTyped
  <2> QED  BY <1>5, <2>1, <2>4, <2>5, Receiving
<1>6. CASE out # <<>> /\ Receive(Head(out)) /\ out' = Tail(out)
  <2> DEFINE b == Head(out)
  <2>1. b \in Code \ Answer /\ Tail(out) \in Seq(Code) /\ out = <<b>> \o Tail(out)
        /\ (b = BAT_CODE => out = <<BAT_CODE>> /\ Tail(out) = <<>>)
    BY <1>6, OutTail
  <2> HIDE DEF b
  <2>2. \/ Seen' = Append(Seen, b) /\ (loss' = loss \/ (b = BAT_CODE /\ loss' = "before"))
        \/ Seen' = Seen /\ loss' = "since"
    BY <1>6, <2>1, Receiving DEF b
  <2>3. CASE Seen' = Append(Seen, b)
    <3>1. Append(Seen, b) = Seen \o <<b>> /\ <<b>> \in Seq(Code)
      BY <1>3, <2>1, AppendIsConcat
    <3>2. (Seen \o <<b>>) \o Tail(out) = Seen \o (<<b>> \o Tail(out))
      BY <1>3, <2>1, <3>1, ConcatAssociative
    <3>3. Seen' \o out' = Seen \o out
      BY <1>6, <2>1, <2>3, <3>1, <3>2
    <3>4. Pending' = Pending
      BY <1>2, <3>3 DEF Pending
    <3>5. CASE loss' = loss
      BY <1>1, <1>2, <1>4, <3>4, <3>5 DEF Kept, Account, ReadIsTyped
    <3>6. CASE b = BAT_CODE /\ loss' = "before"
      <4> DEFINE p == Taken \o Seen
      <4>1. p \in Seq(Code)
        BY <1>3, ConcatProperties
      <4>2. BAT_CODE \in Code /\ <<BAT_CODE>> \in Seq(Code)
        BY <2>1, <3>6
      <4>3. Pending' = Append(p, BAT_CODE)
        <5>1. Pending = Taken \o (Seen \o <<BAT_CODE>>)
          BY <2>1, <3>6 DEF Pending
        <5>2. (Taken \o Seen) \o <<BAT_CODE>> = Taken \o (Seen \o <<BAT_CODE>>)
          BY <1>3, <4>2, ConcatAssociative
        <5> HIDE DEF p
        <5>3. Append(p, BAT_CODE) = p \o <<BAT_CODE>>
          BY <4>1, <4>2, AppendIsConcat
        <5> QED  BY <3>4, <5>1, <5>2, <5>3 DEF p
      <4> HIDE DEF p
      <4>4. UserState = Restarted
        <5>1. out \notin Seq(Clean)
          <6>1. BAT_CODE \notin Clean
            BY DEF Clean
          <6>2. out # <<>> /\ Head(out) = BAT_CODE
            BY <1>6, <3>6 DEF b
          <6> QED  BY <6>1, <6>2, HeadTailProperties, EmptySeq
        <5>2. held = {} /\ locks = [caps |-> FALSE, num |-> FALSE]
          BY <5>1 DEF Keyed
        <5> QED  BY <5>2, BatOfNothing DEF UserState
      <4>5. Accounts(Now, Restarted, Append(p, BAT_CODE), FALSE, typed, peek)
        BY <1>3, <4>1, AccountsBat
      <4>6. (loss' = "none") = FALSE /\ loss' # "none"
        BY <3>6
      <4>7. Accounts(Now', UserState', Pending', loss' = "none", typed', peek')
        BY <1>1, <1>2, <4>3, <4>4, <4>5, <4>6
      <4> QED  BY <4>6, <4>7 DEF Kept, Account, ReadIsTyped
    <3> QED  BY <2>2, <2>3, <3>5, <3>6
  <2>4. CASE Seen' = Seen /\ loss' = "since"
    BY <1>1, <2>4 DEF Kept, Account, ReadIsTyped
  <2> QED  BY <2>2, <2>3, <2>4
<1> QED  BY <1>1, <1>5, <1>6

LEMMA SendFailsKeeps ==
  ASSUME Control, Kept, SendFails
  PROVE  Kept'
<1>1. /\ UNCHANGED <<held, locks, scan, parser, st, peek, alien, typed, fifo, stale>>
      /\ (out' = out /\ loss' = loss) \/ loss' = "since"
  BY SendFailsIs
<1>2. CASE out' = out /\ loss' = loss
  <2>1. Pending' = Pending /\ Now' = Now /\ UserState' = UserState
    BY <1>1, <1>2 DEF Pending, Taken, Seen, Now, UserState
  <2> QED  BY <1>1, <1>2, <2>1 DEF Kept, Account, ReadIsTyped
<1>3. CASE loss' = "since"
  BY <1>1, <1>3 DEF Kept, Account, ReadIsTyped
<1> QED  BY <1>1, <1>2, <1>3

LEMMA SendUnseenKeeps ==
  ASSUME Control, Kept, SendUnseen
  PROVE  Kept'
<1>1. loss' = "since"
  BY SendUnseenIs
<1> QED  BY <1>1 DEF Kept, Account, ReadIsTyped

LEMMA TransmitKeeps ==
  ASSUME Control, Kept, Take \/ Refuse \/ TakeFails
  PROVE  Kept'
<1>1. /\ UNCHANGED <<held, locks, scan, parser, st, peek, alien, typed, fifo, stale, out>>
      /\ loss' \in {loss, "since"}
  BY TransmitIs
<1>2. Pending' = Pending /\ Now' = Now /\ UserState' = UserState
  BY <1>1 DEF Pending, Taken, Seen, Now, UserState
<1> QED  BY <1>1, <1>2 DEF Kept, Account, ReadIsTyped

LEMMA OpenKeeps ==
  ASSUME Control, Kept, Open, UNCHANGED <<userVars, deviceVars>>
  PROVE  Kept'
<1>1. Pending' = Pending /\ UNCHANGED <<typed, alien, peek, st, parser, loss>>
  BY OpenControls
<1>2. Now' = Now /\ UserState' = UserState
  BY <1>1 DEF Now, UserState, userVars
<1> QED  BY <1>1, <1>2 DEF Kept, Account, ReadIsTyped

-----------------------------------------------------------------------------
(* The LEDs, and the result of a self test that is not known of yet.       *)
LEMMA BatIs ==
  ASSUME NEW s \in Seq(Code)
  PROVE  /\ ~HasBat(<<>>)
         /\ s # <<>> => (HasBat(s) <=> Head(s) = BAT_CODE \/ HasBat(Tail(s)))
         /\ \A b \in Code : HasBat(Append(s, b)) <=> HasBat(s) \/ b = BAT_CODE
         /\ (\A i \in 1 .. Len(s) : s[i] \in Answer) => ~HasBat(s)
         /\ \A t \in Seq(Code) : HasBat(s \o t) <=> HasBat(s) \/ HasBat(t)
<1>1. ~HasBat(<<>>)
  BY DEF HasBat
<1>2. ASSUME s # <<>>
      PROVE  HasBat(s) <=> Head(s) = BAT_CODE \/ HasBat(Tail(s))
  <2> DEFINE t == Tail(s)
  <2>1. /\ Head(s) = s[1] /\ t \in Seq(Code) /\ Len(t) = Len(s) - 1 /\ Len(s) \in Nat /\ Len(s) > 0
        /\ \A i \in 1 .. Len(s) - 1 : t[i] = s[i + 1]
    BY <1>2, HeadTailProperties, EmptySeq, LenProperties
  <2> HIDE DEF t
  <2>2. HasBat(t) => HasBat(s)
    BY <2>1 DEF HasBat
  <2>3. s[1] = BAT_CODE => HasBat(s)
    BY <2>1 DEF HasBat
  <2>4. ASSUME HasBat(s), s[1] # BAT_CODE
        PROVE  HasBat(t)
    <3>1. PICK i \in 1 .. Len(s) : s[i] = BAT_CODE
      BY <2>4 DEF HasBat
    <3>2. i - 1 \in 1 .. Len(t) /\ i - 1 \in 1 .. Len(s) - 1 /\ (i - 1) + 1 = i
      BY <2>1, <2>4, <3>1
    <3>3. t[i - 1] = s[(i - 1) + 1]
      BY <2>1, <3>2
    <3> QED  BY <3>1, <3>2, <3>3 DEF HasBat
  <2> QED  BY <2>1, <2>2, <2>3, <2>4 DEF t
<1>3. ASSUME NEW b \in Code
      PROVE  HasBat(Append(s, b)) <=> HasBat(s) \/ b = BAT_CODE
  <2> DEFINE t == Append(s, b)
  <2>1. /\ Len(t) = Len(s) + 1 /\ Len(s) \in Nat /\ t[Len(s) + 1] = b
        /\ \A i \in 1 .. Len(s) : t[i] = s[i]
    BY AppendProperties, LenProperties
  <2> HIDE DEF t
  <2>2. HasBat(s) \/ b = BAT_CODE => HasBat(t)
    BY <2>1 DEF HasBat
  <2>3. HasBat(t) => HasBat(s) \/ b = BAT_CODE
    BY <2>1 DEF HasBat
  <2> QED  BY <2>2, <2>3 DEF t
<1>4. (\A i \in 1 .. Len(s) : s[i] \in Answer) => ~HasBat(s)
  BY DEF HasBat, Answer, ACK_CODE, RESEND, BAT_CODE
<1>5. ASSUME NEW t \in Seq(Code)
      PROVE  HasBat(s \o t) <=> HasBat(s) \/ HasBat(t)
  <2> DEFINE u == s \o t
  <2>1. /\ Len(s) \in Nat /\ Len(t) \in Nat /\ Len(u) = Len(s) + Len(t)
        /\ \A i \in 1 .. Len(s) : u[i] = s[i]
        /\ \A i \in 1 .. Len(t) : u[Len(s) + i] = t[i]
    BY ConcatProperties, LenProperties
  <2>2. \A i \in 1 .. Len(s) + Len(t) : u[i] = IF i <= Len(s) THEN s[i] ELSE t[i - Len(s)]
    BY ConcatProperties
  <2> HIDE DEF u
  <2>3. HasBat(s) \/ HasBat(t) => HasBat(u)
    <3>1. HasBat(s) => HasBat(u)
      BY <2>1 DEF HasBat
    <3>2. ASSUME HasBat(t) PROVE HasBat(u)
      <4>1. PICK i \in 1 .. Len(t) : t[i] = BAT_CODE
        BY <3>2 DEF HasBat
      <4>2. Len(s) + i \in 1 .. Len(u)
        BY <2>1, <4>1
      <4> QED  BY <2>1, <4>1, <4>2 DEF HasBat
    <3> QED  BY <3>1, <3>2
  <2>4. ASSUME HasBat(u) PROVE HasBat(s) \/ HasBat(t)
    <3>1. PICK i \in 1 .. Len(u) : u[i] = BAT_CODE
      BY <2>4 DEF HasBat
    <3>2. CASE i <= Len(s)
      BY <2>1, <2>2, <3>1, <3>2 DEF HasBat
    <3>3. CASE i > Len(s)
      <4>1. i - Len(s) \in 1 .. Len(t) /\ t[i - Len(s)] = BAT_CODE
        BY <2>1, <2>2, <3>1, <3>3
      <4> QED  BY <4>1 DEF HasBat
    <3> QED  BY <2>1, <3>1, <3>2, <3>3
  <2> QED  BY <2>3, <2>4 DEF u
<1> QED  BY <1>1, <1>2, <1>3, <1>4, <1>5

LEMMA CleanIsNoBat ==
  ASSUME NEW s \in Seq(Clean)
  PROVE  ~HasBat(s)
<1>1. \A i \in 1 .. Len(s) : s[i] \in Clean
  BY ElementOfSeq
<1> QED  BY <1>1 DEF HasBat, Clean

LEMMA SteppedLights ==
  ASSUME Control, NEW call, NEW code \in Code \cup {NoScan}, Stepped(call, code), peek = NoChar, leds' = leds,
         \/ code = BAT_CODE /\ leds = 0
         \/ /\ leds = CmdArg(LockOn(st.caps_lock), LockOn(st.num_lock))
            /\ code # NoScan => code # BAT_CODE /\ Sound(Now, code)
  PROVE  Lit'
<1> USE Typings DEF Control
<1>1. (pc' = "start" /\ stage' = "cmd") \/ pc' \in Resting
  BY SteppedControls
<1>2. CASE pc' = "start" /\ stage' = "cmd"
  BY <1>2 DEF Lit, Resting
<1>3. CASE pc' \in Resting
  <2>1. ~TrySet
    BY <1>3 DEF Resting, TrySet
  <2>2. /\ Now' = IF code = NoScan THEN Now ELSE AfterByte(Now, code)
        /\ code # NoScan /\ Parse(parser, code).action # "RESET" => Locked(st') = Locked(st)
        /\ code = NoScan => st' = st
    BY <2>1, SteppedNow
  <2>3. leds = CmdArg(LockOn(st'.caps_lock), LockOn(st'.num_lock))
    <3>1. CASE code = BAT_CODE /\ leds = 0
      <4>1. code # NoScan
        BY <3>1 DEF BAT_CODE, NoScan
      <4>2. Now' = Restarted
        BY <2>2, <3>1, <4>1, StateTypes, AfterBat
      <4>3. st' = Off
        BY <4>2 DEF Now, At, Restarted
      <4> QED  BY <3>1, <4>3 DEF CmdArg, LockOn, Off
    <3>2. CASE /\ leds = CmdArg(LockOn(st.caps_lock), LockOn(st.num_lock))
               /\ code # NoScan => code # BAT_CODE /\ Sound(Now, code)
      <4>1. Locked(st') = Locked(st)
        <5>1. CASE code = NoScan
          BY <2>2, <5>1
        <5>2. CASE code # NoScan
          <6>1. Parse(parser, code).action # "RESET"
            BY <3>2, <5>2 DEF Sound, Now, At
          <6> QED  BY <2>2, <5>2, <6>1
        <5> QED  BY <5>1, <5>2
      <4> QED  BY <3>2, <4>1 DEF Locked
    <3> QED  BY <3>1, <3>2
  <2> QED  BY <1>3, <2>3 DEF Lit, Resting
<1> QED  BY <1>1, <1>2, <1>3

LEMMA FirstIsSound ==
  ASSUME NEW now, NEW user, NEW s \in Seq(Code), NEW t \in Seq(Code), NEW whole, NEW text, NEW peeked,
         s # <<>>, ~HasBat(s), ~HasBat(t),
         Accounts(now, user, s \o t, whole, text, peeked)
  PROVE  Sound(now, Head(s))
<1> DEFINE p == s \o t
<1>1. ~HasBat(p)
  BY BatIs
<1>2. p # <<>> /\ Head(p) = Head(s) /\ p \in Seq(Code)
  <2>1. Len(s) \in Nat /\ Len(s) > 0 /\ Len(p) = Len(s) + Len(t) /\ Len(t) \in Nat /\ p[1] = s[1] /\ p \in Seq(Code)
    BY ConcatProperties, LenProperties, EmptySeq
  <2> HIDE DEF p
  <2>2. p # <<>>
    BY <2>1
  <2> QED  BY <2>1, <2>2, HeadTailProperties, EmptySeq
<1> HIDE DEF p
<1>3. \A i \in 1 .. Len(p) : p[i] # BAT_CODE
  BY <1>1 DEF HasBat
<1>4. Accounts(now, user, p, whole, text, peeked)
  BY DEF p
<1>5. Sound(now, Head(p))
  BY <1>2, <1>3, <1>4, AccountsSound
<1> QED  BY <1>2, <1>5

LEMMA TryReadLights ==
  ASSUME Control, Kept, Lights, pc \in {"select", "getc"}, NEW call \in {"poll", "getc"}, TryRead(call),
         UNCHANGED <<userVars, deviceVars>>
  PROVE  Lights'
<1> USE Typings DEF Control
<1>1. /\ fifo' = Popped /\ stale' = FALSE /\ loss' = loss
  BY Reading DEF TryRead
<1>2. /\ UNCHANGED <<held, locks, leds, out>>
      /\ stale = FALSE /\ peek = NoChar /\ scan = NoScan /\ Seen = fifo
  BY DEF Stages, Books, userVars, deviceVars, Resting, Seen
<1>3. /\ Popped \in Seq(Code)
      /\ Received \in Code \cup {NoScan} /\ (Received = NoScan <=> fifo = <<>>)
      /\ fifo = <<>> => Popped = <<>>
      /\ fifo # <<>> => Received = Head(fifo) /\ Popped = Tail(fifo)
  BY PoppedType
<1>4. NoScan # BAT_CODE
  BY DEF NoScan, BAT_CODE
<1>5. Coming <=> HasBat(fifo) \/ HasBat(out)
  BY <1>2, <1>4 DEF Coming
<1>6. HasBat(fifo) <=> Received = BAT_CODE \/ HasBat(Popped)
  <2>1. CASE fifo = <<>>
    BY <1>3, <1>4, <2>1, BatIs
  <2>2. CASE fifo # <<>>
    BY <1>3, <2>2, BatIs
  <2> QED  BY <2>1, <2>2
<1>7. Coming' <=> scan' = BAT_CODE \/ HasBat(Popped) \/ HasBat(out)
  <2>1. Seen' = Popped
    BY <1>1 DEF Seen
  <2> QED  BY <1>2, <2>1 DEF Coming
<1>8. CASE ~en
  <2>1. scan' = Received /\ pc' = "reset" /\ st' = st
    BY <1>8 DEF TryRead
  <2>2. Coming' <=> Coming
    BY <1>5, <1>6, <1>7, <2>1
  <2>3. Lit => Lit'
    BY <1>2, <2>1 DEF Lit, Resting
  <2> QED  BY <1>1, <1>2, <2>2, <2>3 DEF Lights
<1>9. CASE en
  <2>1. Stepped(call, Received) /\ scan' = NoScan
    BY <1>2, <1>9 DEF TryRead
  <2>2. Coming' => Coming
    BY <1>4, <1>5, <1>6, <1>7, <2>1
  <2>3. ASSUME ~Coming', loss # "since"
        PROVE  Lit'
    <3>1. CASE Received = BAT_CODE
      <4>1. leds = 0
        BY <1>5, <1>6, <3>1 DEF Lights
      <4> QED  BY <1>2, <1>3, <2>1, <3>1, <4>1, SteppedLights
    <3>2. CASE Received # BAT_CODE
      <4>1. ~HasBat(fifo) /\ ~HasBat(out) /\ ~Coming
        BY <1>5, <1>6, <1>7, <2>3, <3>2
      <4>2. leds = CmdArg(LockOn(st.caps_lock), LockOn(st.num_lock))
        BY <2>3, <4>1 DEF Lights, Lit, Resting
      <4>3. Received # NoScan => Sound(Now, Received)
        <5>1. Pending = fifo \o out
          <6>1. Pending = <<>> \o (fifo \o out) /\ fifo \o out \in Seq(Code)
            BY <1>2, ConcatProperties DEF Pending, Taken
          <6> QED  BY <6>1, JoinIs
        <5>2. Accounts(Now, UserState, fifo \o out, loss = "none", typed, peek)
          BY <2>3, <5>1 DEF Kept, Account
        <5>3. fifo # <<>> => Sound(Now, Head(fifo))
          BY <4>1, <5>2, FirstIsSound
        <5> QED  BY <1>3, <5>3
      <4> QED  BY <1>2, <1>3, <2>1, <3>2, <4>2, <4>3, SteppedLights
    <3> QED  BY <3>1, <3>2
  <2> QED  BY <1>1, <1>2, <2>2, <2>3 DEF Lights
<1> QED  BY <1>8, <1>9

LEMMA ResetLights ==
  ASSUME Control, Kept, Lights, ResetStalled, UNCHANGED <<userVars, deviceVars>>
  PROVE  Lights'
<1> USE Typings DEF Control
<1>1. /\ UNCHANGED <<held, locks, leds, out>>
      /\ pc = "reset" /\ mode = "err" /\ stale = FALSE /\ peek = NoChar /\ Seen = fifo
  BY DEF Stages, Books, userVars, deviceVars, Seen, ResetStalled
<1>2. /\ fifo' = <<>> /\ stale' = FALSE /\ loss' \in {loss, "since"} /\ scan' = NoScan
      /\ loss' # "since" => Dropped("RST", FALSE) \subseteq Answer
      /\ Stepped(caller, scan)
  BY <1>1 DEF ResetStalled, Transfer, Repeated
<1>3. loss' # "since" => ~HasBat(fifo)
  <2>1. CASE fifo = <<>>
    BY <2>1, BatIs
  <2>2. CASE fifo # <<>>
    <3>1. Dropped("RST", FALSE) = {Head(fifo)} \cup ToSet(Tail(fifo))
      BY <1>1, <2>2 DEF Dropped, rxv, Popped
    <3>2. ASSUME loss' # "since"
          PROVE  \A i \in 1 .. Len(fifo) : fifo[i] \in Answer
      <4>1. {Head(fifo)} \cup ToSet(Tail(fifo)) \subseteq Answer
        BY <1>2, <3>1, <3>2
      <4> QED  BY <2>2, <4>1, AllOf
    <3> QED  BY <3>2, BatIs
  <2> QED  BY <2>1, <2>2
<1>4. NoScan # BAT_CODE
  BY DEF NoScan, BAT_CODE
<1>5. Coming <=> scan = BAT_CODE \/ HasBat(fifo) \/ HasBat(out)
  BY <1>1 DEF Coming
<1>6. Coming' <=> HasBat(out)
  <2>1. Seen' = <<>>
    BY <1>2 DEF Seen
  <2> QED  BY <1>1, <1>2, <1>4, <2>1, BatIs DEF Coming
<1>7. ASSUME ~Coming', loss' # "since"
      PROVE  Lit'
  <2>1. CASE scan = BAT_CODE
    <3>1. leds = 0
      BY <1>5, <2>1 DEF Lights
    <3> QED  BY <1>1, <1>2, <2>1, <3>1, SteppedLights
  <2>2. CASE scan # BAT_CODE
    <3>1. ~Coming /\ loss # "since" /\ ~HasBat(fifo) /\ ~HasBat(out)
      BY <1>2, <1>3, <1>5, <1>6, <1>7, <2>2
    <3>2. leds = CmdArg(LockOn(st.caps_lock), LockOn(st.num_lock))
      BY <1>1, <3>1 DEF Lights, Lit
    <3>3. scan # NoScan => Sound(Now, scan)
      <4>1. ASSUME scan # NoScan
            PROVE  Sound(Now, scan)
        <5>1. scan \in Code /\ <<scan>> \in Seq(Code) /\ <<scan>> # <<>> /\ Head(<<scan>>) = scan
          BY <4>1
        <5>2. ~HasBat(<<scan>>)
          <6>1. Tail(<<scan>>) = <<>>
            OBVIOUS
          <6> QED  BY <2>2, <5>1, <6>1, BatIs
        <5>3. ~HasBat(fifo \o out) /\ fifo \o out \in Seq(Code)
          BY <3>1, BatIs, ConcatProperties
        <5>4. Accounts(Now, UserState, <<scan>> \o (fifo \o out), loss = "none", typed, peek)
          BY <1>1, <3>1, <4>1 DEF Kept, Account, Pending, Taken
        <5>5. Sound(Now, Head(<<scan>>))
          BY <5>1, <5>2, <5>3, <5>4, FirstIsSound
        <5> QED  BY <5>1, <5>5
      <4> QED  BY <4>1
    <3> QED  BY <1>1, <1>2, <2>2, <3>2, <3>3, SteppedLights
  <2> QED  BY <2>1, <2>2
<1> QED  BY <1>1, <1>2, <1>5, <1>6, <1>7 DEF Lights

LEMMA StartPollLights ==
  ASSUME Control, Lights, StartPoll, UNCHANGED <<userVars, deviceVars>>
  PROVE  Lights'
<1> USE Typings DEF Control
<1>0. /\ UNCHANGED <<caller, stage, scan, st, leds, out, expect>>
      /\ pc = "start" /\ pc' = "await" /\ scan = NoScan /\ Seen = fifo /\ Seen' = <<>>
      /\ loss' \in {loss, "since"} /\ (loss' # "since" => \A i \in 1 .. Len(fifo) : fifo[i] \in Answer)
  BY StartPollIs
<1>1. /\ stage \in Exchange => /\ mode' = "tx" /\ fifo' = <<>> /\ stale' = FALSE
                               /\ txd' = IF stage = "cmd" THEN CMD_CODE ELSE Leds
      /\ stage \in Answers => /\ mode' = "rx" /\ fifo = <<>> /\ stale' = (mode = "done") /\ txd' = txd
                              /\ fifo' = IF mode = "done" THEN <<last>> ELSE <<>>
  BY StartPollIs
<1>2. Coming' => Coming
  BY <1>0, BatIs DEF Coming
<1>3. loss' # "since" /\ Coming => Coming'
  BY <1>0, BatIs DEF Coming
<1>4. ASSUME Lit PROVE Lit'
  <2>1. Leds' = Leds
    BY <1>0 DEF Leds
  <2>2. pc' = "await" /\ pc' \notin Resting \cup {"reset"}
    BY <1>0 DEF Resting
  <2>3. stage = "cmd" => mode' = "tx" /\ txd' = CMD_CODE
    BY <1>1 DEF Exchange
  <2>4. stage = "ack" => expect /\ stale'
    BY <1>0, <1>1, <1>4 DEF Answers, Lit
  <2>5. stage = "arg" => mode' = "tx" /\ txd' = Leds /\ expect
    BY <1>0, <1>1, <1>4 DEF Exchange, Lit
  <2>6. stage = "ack2" => leds = Leds
    BY <1>0, <1>4 DEF Lit
  <2> QED  BY <1>0, <2>1, <2>2, <2>3, <2>4, <2>5, <2>6 DEF Lit
<1> QED  BY <1>0, <1>2, <1>3, <1>4 DEF Lights

LEMMA PollLights ==
  ASSUME Control, Lights, Poll, UNCHANGED <<userVars, deviceVars>>
  PROVE  Lights'
<1> USE Typings DEF Control
<1>1. /\ UNCHANGED <<scan, st, leds, out, expect>>
      /\ pc = "await" /\ scan = NoScan /\ mode' = mode /\ txd' = txd /\ Seen' = (IF stale THEN Seen ELSE Popped)
      /\ loss' \in {loss, "since"}
      /\ loss' # "since" /\ fifo # <<>> /\ ~stale => Head(fifo) \in Answer
      /\ \/ Answered /\ stage # "ack2" /\ pc' = "start" /\ stage' = NextStage[stage]
            /\ UNCHANGED <<peek, typed, alien>>
         \/ ~Answered /\ UNCHANGED <<pc, stage, peek, typed, alien>>
         \/ /\ (Answered /\ stage = "ack2") \/ (~Answered /\ polls = 1)
            /\ \/ pc' \in Resting /\ caller # "open" /\ Return(caller, NoChar)
               \/ pc' \in {"select", "exit"} /\ caller = "open" /\ UNCHANGED <<peek, typed, alien>>
  BY PollControls
<1>2. /\ caller' = caller /\ stale' = FALSE
      /\ caller = "open" /\ ~Answered => pc' \in {"await", "exit"}
      /\ mode = "tx" => polls > 1
  <2>1. caller' = caller /\ stale' = FALSE
    BY DEF Poll, Transfer
  <2>2. caller = "open" /\ ~Answered => pc' \in {"await", "exit"}
    BY DEF Poll, NoAnswer, SetDone
  <2> QED  BY <2>1, <2>2 DEF Poll
<1>3. /\ fifo = <<>> => Popped = <<>>
      /\ fifo # <<>> => Popped = Tail(fifo)
  BY PoppedType
<1>4. HasBat(Seen') => HasBat(Seen)
  BY <1>1, <1>3, BatIs DEF Seen
<1>5. loss' # "since" /\ HasBat(Seen) => HasBat(Seen')
  <2>1. BAT_CODE \notin Answer
    BY DEF BAT_CODE, Answer, ACK_CODE, RESEND
  <2> QED  BY <1>1, <1>3, <2>1, BatIs DEF Seen
<1>6. (Coming' => Coming) /\ (loss' # "since" /\ Coming => Coming')
  BY <1>1, <1>4, <1>5 DEF Coming
<1>7. ASSUME Lit PROVE Lit'
  <2>1. Leds' = Leds
    BY <1>1, <1>2 DEF Leds
  <2>2. /\ stage = "cmd" => (mode = "tx" /\ txd = CMD_CODE) \/ (mode = "done" /\ expect)
        /\ stage = "ack" => expect /\ stale
        /\ stage = "arg" => (mode = "tx" /\ txd = Leds /\ expect) \/ (mode = "done" /\ leds = Leds)
        /\ stage = "ack2" => leds = Leds
    BY <1>1, <1>7 DEF Lit
  <2>3. stage \in {"cmd", "arg"} => (Answered <=> txc)
    BY DEF Answered
  <2>4. stage = "ack" => Answered
    <3>1. stage = "ack" => rxv
      BY <2>2 DEF Books, rxv
    <3> QED  BY <3>1 DEF Answered
  <2>5. stage \in {"rst", "cmd", "ack", "arg", "ack2"}
    BY DEF Stage
  <2>6. CASE Answered /\ stage # "ack2" /\ pc' = "start" /\ stage' = NextStage[stage]
    <3>1. \/ stage = "rst" /\ stage' = "cmd"
          \/ stage = "cmd" /\ stage' = "ack"
          \/ stage = "ack" /\ stage' = "arg"
          \/ stage = "arg" /\ stage' = "ack2"
      BY <2>5, <2>6 DEF NextStage
    <3>2. stage \in {"cmd", "arg"} => mode # "tx"
      BY <2>3, <2>6 DEF txc
    <3> QED  BY <1>1, <2>1, <2>2, <2>6, <3>1, <3>2 DEF Lit, Resting
  <2>7. CASE ~Answered /\ UNCHANGED <<pc, stage>>
    <3>1. stage # "ack"
      BY <2>4, <2>7
    <3>2. pc' = "await" /\ stage' = stage
      BY <1>1, <2>7
    <3> QED  BY <1>1, <2>1, <2>2, <3>1, <3>2 DEF Lit, Resting
  <2>8. CASE (Answered /\ stage = "ack2") \/ (~Answered /\ polls = 1)
    <3>1. (pc' \in Resting /\ caller # "open") \/ (pc' \in {"select", "exit"} /\ caller = "open")
          \/ (~Answered /\ UNCHANGED <<pc, stage>>)
      BY <1>1, <2>8
    <3>2. CASE pc' = "exit"
      BY <3>2 DEF Lit, Resting
    <3>3. CASE pc' \in Resting
      <4>1. stage \notin Exchange
        <5>1. stage \in Exchange /\ ~Answered => mode = "tx"
          BY <1>1, <2>3 DEF Stages, Exchange, txc
        <5> QED  BY <1>2, <2>8, <5>1 DEF Exchange
      <4>2. stage \notin {"ack"}
        BY <2>4, <2>8
      <4>3. stage = "ack2"
        <5>1. stage = "rst" => caller = "open" /\ ~Answered
          BY <1>1, <2>8 DEF Stages
        <5>2. stage # "rst"
          BY <1>2, <3>3, <5>1 DEF Resting
        <5> QED  BY <2>5, <4>1, <4>2, <5>2 DEF Exchange
      <4>4. leds = CmdArg(LockOn(st.caps_lock), LockOn(st.num_lock))
        <5>1. caller = "open" => st = Off
          BY <1>1 DEF Books
        <5> QED  BY <2>2, <4>3, <5>1, LedsType
      <4> QED  BY <1>1, <3>3, <4>4 DEF Lit, Resting
    <3>4. CASE ~Answered /\ UNCHANGED <<pc, stage>>
      BY <2>7, <3>4
    <3> QED  BY <3>1, <3>2, <3>3, <3>4 DEF Resting
  <2> QED  BY <1>1, <2>6, <2>7, <2>8
<1> QED  BY <1>1, <1>6, <1>7 DEF Lights

LEMMA OpenReadLights ==
  ASSUME Control, Lights, Open \/ Read, UNCHANGED <<userVars, deviceVars>>
  PROVE  Lights'
<1> USE Typings DEF Control
<1>1. /\ UNCHANGED <<fifo, stale, scan, out, leds, st, loss>>
      /\ (pc = "fgets" /\ pc' \in Resting) \/ (pc' = "start" /\ stage' = "rst")
  <2>1. CASE Open
    BY <2>1 DEF Open, deviceVars, portVars
  <2>2. CASE Read
    <3>1. pc = "fgets" /\ pc' \in Resting
      BY <2>2, ReadControls
    <3> QED  BY <2>2, <3>1 DEF Read, deviceVars, portVars
  <2> QED  BY <2>1, <2>2
<1>2. Coming' <=> Coming
  BY <1>1 DEF Coming, Seen
<1>3. Lit => Lit'
  BY <1>1 DEF Lit, Resting
<1> QED  BY <1>1, <1>2, <1>3 DEF Lights

LEMMA UserLights ==
  ASSUME Control, Lights, User
  PROVE  Lights'
<1> USE Typings DEF Control
<1>1. PICK k \in Key : Press(k) \/ Repeat(k) \/ Release(k)
  BY DEF User
<1>2. /\ UNCHANGED <<leds, expect, mode, fifo, txd, stale, loss, pc, caller, stage, scan, st>>
      /\ out = <<>> /\ out' \in {MakeCode(k), BreakCode(k)}
  BY <1>1 DEF User, portVars, threadVars, Press, Repeat, Release, Strike
<1>3. ~HasBat(out) /\ ~HasBat(out')
  BY <1>2, BatIs, CodesAreClean, CleanIsNoBat
<1>4. Coming' <=> Coming
  BY <1>2, <1>3 DEF Coming, Seen
<1>5. Lit' <=> Lit
  BY <1>2 DEF Lit, Leds
<1> QED  BY <1>2, <1>4, <1>5 DEF Lights

LEMMA ReconnectLights ==
  ASSUME Control, Lights, Reconnect
  PROVE  Lights'
<1>1. out' = <<BAT_CODE>> /\ leds' = 0
  BY DEF Reconnect
<1>2. HasBat(out')
  <2>1. Len(<<BAT_CODE>>) = 1 /\ <<BAT_CODE>>[1] = BAT_CODE
    OBVIOUS
  <2> QED  BY <1>1, <2>1 DEF HasBat
<1> QED  BY <1>1, <1>2 DEF Lights, Coming

LEMMA SendLights ==
  ASSUME Control, Lights, Send
  PROVE  Lights'
<1> USE Typings DEF Control
<1>1. /\ UNCHANGED <<leds, expect, pc, caller, stage, scan, st>>
      /\ \/ answer \in Answer /\ Receive(answer) /\ out' = out
         \/ out # <<>> /\ Receive(Head(out)) /\ out' = Tail(out)
  BY SendIs
<1>2. mode' = mode /\ txd' = txd /\ stale' = stale
  BY <1>1 DEF Receive
<1>3. Lit' <=> Lit
  BY <1>1, <1>2 DEF Lit, Leds
<1>4. CASE answer \in Answer /\ Receive(answer) /\ out' = out
  <2>1. answer \in Code /\ answer # BAT_CODE
    BY <1>4 DEF Answer, ACK_CODE, RESEND, Code, BAT_CODE
  <2>2. \/ Seen' = Append(Seen, answer) /\ Seen \in Seq(Code) /\ loss' = loss
        \/ Seen' = Seen /\ (loss' = "since" \/ loss' = loss)
    BY <1>4, <2>1, Receiving
  <2>3. HasBat(Seen') <=> HasBat(Seen)
    <3>1. CASE Seen' = Append(Seen, answer) /\ Seen \in Seq(Code)
      BY <2>1, <3>1, BatIs
    <3>2. CASE Seen' = Seen
      BY <3>2
    <3> QED  BY <2>2, <3>1, <3>2
  <2>4. Coming' <=> Coming
    BY <1>1, <1>4, <2>3 DEF Coming
  <2> QED  BY <1>1, <1>3, <2>2, <2>4 DEF Lights
<1>5. CASE out # <<>> /\ Receive(Head(out)) /\ out' = Tail(out)
  <2> DEFINE b == Head(out)
  <2>1. b \in Code \ Answer /\ Tail(out) \in Seq(Code) /\ (HasBat(out) <=> b = BAT_CODE \/ HasBat(Tail(out)))
    BY <1>5, OutTail, BatIs
  <2>2. \/ /\ Seen' = Append(Seen, b) /\ Seen \in Seq(Code)
           /\ loss' = loss \/ (b = BAT_CODE /\ loss' = "before")
        \/ Seen' = Seen /\ loss' = "since"
    BY <1>5, <2>1, Receiving
  <2> HIDE DEF b
  <2>3. Coming' => Coming
    <3>1. HasBat(Seen') => HasBat(Seen) \/ b = BAT_CODE
      <4>1. CASE Seen' = Append(Seen, b) /\ Seen \in Seq(Code)
        BY <2>1, <4>1, BatIs
      <4>2. CASE Seen' = Seen
        BY <4>2
      <4> QED  BY <2>2, <4>1, <4>2
    <3> QED  BY <1>1, <1>5, <2>1, <3>1 DEF Coming
  <2>4. CASE Seen' = Append(Seen, b) /\ Seen \in Seq(Code)
    <3>1. HasBat(Seen') <=> HasBat(Seen) \/ b = BAT_CODE
      BY <2>1, <2>4, BatIs
    <3>2. Coming => Coming'
      BY <1>1, <1>5, <2>1, <3>1 DEF Coming
    <3>3. b = BAT_CODE => Coming'
      BY <3>1 DEF Coming
    <3>4. ~Coming' => loss' = loss \/ loss' = "since"
      BY <2>2, <3>3
    <3> QED  BY <1>1, <1>3, <2>3, <3>2, <3>4 DEF Lights
  <2>5. CASE Seen' = Seen /\ loss' = "since"
    BY <1>1, <2>3, <2>5 DEF Lights
  <2> QED  BY <2>2, <2>4, <2>5
<1> QED  BY <1>1, <1>4, <1>5

LEMMA SendFailsLights ==
  ASSUME Control, Lights, SendFails
  PROVE  Lights'
<1> USE Typings DEF Control
<1>1. /\ UNCHANGED <<leds, expect, pc, caller, stage, scan, st, fifo, txd, stale>>
      /\ mode = "rx" /\ mode' = "err"
      /\ \/ out' = out /\ loss' = loss
         \/ out # <<>> /\ out' = Tail(out) /\ loss' = "since"
  BY SendFailsIs
<1>2. Coming' => Coming
  BY <1>1, BatIs DEF Coming, Seen
<1>3. CASE out' = out /\ loss' = loss
  <2>1. Coming' <=> Coming
    BY <1>1, <1>3 DEF Coming, Seen
  <2>2. Lit => Lit'
    BY <1>1 DEF Lit, Leds
  <2> QED  BY <1>1, <1>3, <2>1, <2>2 DEF Lights
<1>4. CASE loss' = "since"
  BY <1>1, <1>2, <1>4 DEF Lights
<1> QED  BY <1>1, <1>3, <1>4

LEMMA SendUnseenLights ==
  ASSUME Control, Lights, SendUnseen
  PROVE  Lights'
<1> USE Typings DEF Control
<1>1. /\ UNCHANGED <<leds, scan, fifo, stale>> /\ loss' = "since"
      /\ out' = out \/ (out # <<>> /\ out' = Tail(out))
  BY SendUnseenIs
<1>2. Coming' => Coming
  BY <1>1, BatIs DEF Coming, Seen
<1> QED  BY <1>1, <1>2 DEF Lights

LEMMA TransmitLights ==
  ASSUME Control, Lights, Take \/ Refuse \/ TakeFails
  PROVE  Lights'
<1> USE Typings DEF Control
<1>1. /\ mode = "tx" /\ UNCHANGED <<fifo, txd, stale, out, pc, caller, stage, scan, st>>
      /\ mode' = (IF TakeFails THEN "txerr" ELSE "done")
      /\ IF Take THEN loss' = loss /\ ~Testing ELSE loss' = "since" /\ UNCHANGED <<leds, expect>>
  BY TransmitIs
<1>2. pc = "await" /\ stage \in Exchange /\ Seen = <<>> /\ scan = NoScan
  BY <1>1, Sending
<1>3. Coming' <=> Coming
  BY <1>1 DEF Coming, Seen
<1>4. CASE ~Take
  BY <1>1, <1>3, <1>4 DEF Lights
<1>5. CASE Take
  <2>1. out \in Seq(Clean)
    BY <1>1, <1>5 DEF Keyed, Testing
  <2>2. ~Coming
    BY <1>2, <2>1, BatIs, CleanIsNoBat DEF Coming, NoScan, BAT_CODE
  <2>3. mode' = "done"
    BY <1>5 DEF Take, Transmit
  <2>4. Command
    BY <1>5 DEF Take
  <2>5. ASSUME Lit PROVE Lit'
    <3>1. Leds' = Leds /\ Leds # CMD_CODE
      BY <1>1, LedsType DEF Leds
    <3>2. CASE stage = "cmd"
      <4>1. txd = CMD_CODE
        BY <1>1, <1>2, <2>5, <3>2 DEF Lit
      <4>2. expect' = TRUE
        BY <2>4, <4>1 DEF Command
      <4> QED  BY <1>1, <1>2, <2>3, <3>2, <4>2 DEF Lit, Resting
    <3>3. CASE stage = "arg"
      <4>1. txd = Leds /\ expect
        BY <1>1, <1>2, <2>5, <3>3 DEF Lit
      <4>2. leds' = Leds
        BY <2>4, <3>1, <4>1 DEF Command
      <4> QED  BY <1>1, <1>2, <2>3, <3>1, <3>3, <4>2 DEF Lit, Resting
    <3> QED  BY <1>2, <3>2, <3>3 DEF Exchange
  <2> QED  BY <1>1, <1>3, <1>5, <2>2, <2>5 DEF Lights
<1> QED  BY <1>4, <1>5

-----------------------------------------------------------------------------
(* The invariant.                                                          *)
LEMMA InvInit == Init => KInv
<1> SUFFICES ASSUME Init PROVE KInv
  OBVIOUS
<1> USE DEF Init, PortInit, DriverInit
<1>1. /\ fifo = <<>> /\ out = <<>> /\ scan = NoScan /\ ~stale /\ typed = <<>> /\ peek = NoChar /\ loss = "none"
      /\ held = {} /\ locks = [caps |-> FALSE, num |-> FALSE] /\ st = Off /\ parser = "MAKE_START" /\ pc = "closed"
      /\ answer = 0 /\ ~alien
  OBVIOUS
<1>2. WellTyped
  <2>1. fifo \in Seq(Code) /\ Len(fifo) <= Depth /\ 0 \in Code /\ out \in Seq(Code) /\ typed \in Seq(Character)
    BY DepthAssumption DEF Code
  <2>2. locks \in Locks /\ st \in DriverSt
    BY <1>1, OffType DEF Locks
  <2>3. leds \in 0 .. 7 /\ 0 \in 0 .. NPolls
    BY PollsAssumption DEF CmdArg
  <2> QED  BY <2>1, <2>2, <2>3 DEF WellTyped, TypeOK, PortTypeOK, DriverTypeOK, DriverSt, Glyph, Code, PortMode, Loss,
             PC, Caller, Stage, ParserState
<1>3. Stages
  BY DEF Stages, Resting, Exchange, Answers
<1>4. Books
  BY DEF Books
<1>5. Keyed
  BY DEF Keyed, Clean
<1>6. Account
  <2>1. Now = Restarted /\ UserState = Restarted
    BY <1>1, BatOfNothing DEF Now, UserState
  <2>2. Pending = <<>>
    BY <1>1, JoinIs DEF Pending, Taken, Seen
  <2>3. Accounts(Restarted, Restarted, <<>>, TRUE, <<>>, NoChar)
    BY OffType, AccountsNone
  <2>4. (loss = "none") = TRUE
    BY <1>1
  <2> QED  BY <1>1, <2>1, <2>2, <2>3, <2>4 DEF Account
<1>7. Lights
  <2>0. ~HasBat(<<>>)
    BY DEF HasBat
  <2>1. ~Coming
    BY <1>1, <2>0 DEF Coming, Seen, NoScan, BAT_CODE
  <2>2. Lit
    BY <1>1 DEF Lit, Resting
  <2> QED  BY <2>1, <2>2 DEF Lights
<1> QED  BY <1>1, <1>2, <1>3, <1>4, <1>5, <1>6, <1>7 DEF KInv, Control, ReadIsTyped

LEMMA InvNext == KInv /\ [Next]_vars => KInv'
<1> SUFFICES ASSUME KInv, [Next]_vars PROVE KInv'
  OBVIOUS
<1>0. Control /\ Kept /\ Lights
  BY DEF KInv, Kept
<1> SUFFICES Control' /\ Kept' /\ Lights'
  BY DEF KInv, Kept
<1> DEFINE Still == UNCHANGED <<userVars, deviceVars>>
<1>1. CASE Open /\ Still
  BY <1>0, <1>1, OpenControls, OpenKeeps, OpenReadLights
<1>2. CASE Select /\ Still
  <2>1. pc \in {"select", "getc"} /\ "poll" \in {"poll", "getc"} /\ TryRead("poll")
    BY <1>2 DEF Select
  <2> QED  BY <1>0, <1>2, <2>1, TryReadControls, TryReadKeeps, TryReadLights
<1>3. CASE Getc /\ Still
  <2>1. pc \in {"select", "getc"} /\ "getc" \in {"poll", "getc"} /\ TryRead("getc")
    BY <1>3 DEF Getc
  <2> QED  BY <1>0, <1>3, <2>1, TryReadControls, TryReadKeeps, TryReadLights
<1>4. CASE Read /\ Still
  BY <1>0, <1>4, ReadControls, ReadKeeps, OpenReadLights
<1>5. CASE ResetStalled /\ Still
  BY <1>0, <1>5, ResetControls, ResetKeeps, ResetLights
<1>6. CASE StartPoll /\ Still
  BY <1>0, <1>6, StartPollControls, StartPollKeeps, StartPollLights
<1>7. CASE Poll /\ Still
  BY <1>0, <1>7, PollControls, PollKeeps, PollLights
<1>8. CASE User
  BY <1>0, <1>8, UserControls, UserKeeps, UserLights
<1>9. CASE Reconnect
  BY <1>0, <1>9, ReconnectControls, ReconnectKeeps, ReconnectLights
<1>10. CASE Send
  BY <1>0, <1>10, SendControls, SendKeeps, SendLights
<1>11. CASE SendFails
  BY <1>0, <1>11, SendFailsControls, SendFailsKeeps, SendFailsLights
<1>14. CASE SendUnseen
  BY <1>0, <1>14, SendUnseenControls, SendUnseenKeeps, SendUnseenLights
<1>12. CASE Take \/ Refuse \/ TakeFails
  BY <1>0, <1>12, TransmitControls, TransmitKeeps, TransmitLights
<1>13. CASE UNCHANGED vars
  <2>1. /\ UNCHANGED <<mode, fifo, last, txd, stale, loss>>
        /\ UNCHANGED <<pc, caller, stage, polls, scan, parser, st, peek, alien, typed>>
        /\ UNCHANGED <<held, locks, leds, out, answer, expect>>
    BY <1>13 DEF vars, portVars, driverVars, threadVars, userVars, deviceVars
  <2>2. Control'
    <3>1. WellTyped' /\ Stages' /\ Books' /\ Keyed'
      BY <1>0, <2>1 DEF Control, WellTyped, TypeOK, PortTypeOK, DriverTypeOK, Stages, Books, Keyed, Seen
    <3> QED  BY <3>1 DEF Control
  <2>3. Kept'
    BY <1>0, <2>1 DEF Kept, Account, ReadIsTyped, Now, UserState, Pending, Taken, Seen
  <2>4. Lights'
    BY <1>0, <2>1 DEF Lights, Lit, Leds, Coming, Seen
  <2> QED  BY <2>2, <2>3, <2>4
<1> HIDE DEF Still
<1> QED  BY <1>1, <1>2, <1>3, <1>4, <1>5, <1>6, <1>7, <1>8, <1>9, <1>10, <1>11, <1>12, <1>13, <1>14
         DEF Next, Thread, Driver, Exited, Still

LEMMA InvHolds == Spec => []KInv
<1>1. Init => KInv
  BY InvInit
<1>2. KInv /\ [Next]_vars => KInv'
  BY InvNext
<1> QED  BY <1>1, <1>2, PTL DEF Spec

(* When all is quiet nothing is on its way, and the driver has got there.  *)
LEMMA AtRest ==
  ASSUME KInv, Quiet
  PROVE  /\ parser = "MAKE_START" /\ st = Meant(held, locks) /\ st \in DriverSt /\ locks \in Locks
         /\ ~Coming /\ pc \in Resting /\ loss # "since"
<1>1. Control /\ Account
  BY DEF KInv
<1> USE Typings DEF Control
<1>2. out = <<>> /\ fifo = <<>> /\ pc \in Resting /\ loss # "since"
  BY DEF Quiet, Resting
<1>3. scan = NoScan /\ Seen = <<>>
  BY <1>1, <1>2 DEF Books, Resting, Seen
<1>4. Pending = <<>>
  BY <1>2, <1>3, JoinIs DEF Pending, Taken
<1>5. Accounts(Now, UserState, <<>>, loss = "none", typed, peek)
  BY <1>1, <1>2, <1>4 DEF Account
<1>6. Now = UserState
  BY <1>5, AccountsDone
<1>7. parser = "MAKE_START" /\ st = Meant(held, locks)
  BY <1>6 DEF Now, UserState, At
<1>8. ~HasBat(<<>>)
  BY DEF HasBat
<1>9. ~Coming
  BY <1>2, <1>3, <1>8 DEF Coming, NoScan, BAT_CODE
<1> QED  BY <1>1, <1>2, <1>7, <1>9

LEMMA MeantLocks ==
  ASSUME NEW h, NEW l \in Locks
  PROVE  /\ LockOn(Meant(h, l).caps_lock) <=> l.caps
         /\ LockOn(Meant(h, l).num_lock) <=> l.num
         /\ Pressed(Meant(h, l).caps_lock) <=> KB_CAPSLOCK \in h
         /\ Pressed(Meant(h, l).num_lock) <=> KB_NUMLOCK \in h
<1>1. l.caps \in BOOLEAN /\ l.num \in BOOLEAN
  BY DEF Locks
<1>2. \A on \in BOOLEAN, down \in BOOLEAN :
        (LockOn(LockState(on, down)) <=> on) /\ (Pressed(LockState(on, down)) <=> down)
  BY DEF LockOn, Pressed, LockState
<1>3. (KB_CAPSLOCK \in h) \in BOOLEAN /\ (KB_NUMLOCK \in h) \in BOOLEAN
  OBVIOUS
<1>4. /\ Meant(h, l).caps_lock = LockState(l.caps, KB_CAPSLOCK \in h)
      /\ Meant(h, l).num_lock = LockState(l.num, KB_NUMLOCK \in h)
  BY MeantIs
<1> QED  BY <1>1, <1>2, <1>3, <1>4

-----------------------------------------------------------------------------
(* The port's FIFO never holds more than it has places for, the parser and *)
(* the lock keys (_step) stay in the states they have, and every character *)
(* is one of AsciiLut: (s + 1) % 4 and the column of the row stay in range *)
(* whatever arrives, before, during or after an exchange with the          *)
(* keyboard.                                                               *)
THEOREM KeyboardTyped == Spec => []TypeOK
<1>1. KInv => TypeOK
  BY DEF KInv, Control, WellTyped
<1> QED  BY <1>1, InvHolds, PTL

(* As long as no byte got lost - or since the last self test - the driver, *)
(* once all the keyboard has sent has gone through _tryRead, knows which   *)
(* modifiers are down and how the locks stand, whatever keys with whatever *)
(* codes were pressed, repeated and released, and whatever answers and     *)
(* repeated bytes _trySet has left in between.                             *)
THEOREM TheDriverKnowsKeys == Spec => []KnowsKeys
<1>1. ASSUME KInv PROVE KnowsKeys
  <2> SUFFICES ASSUME Quiet
               PROVE  /\ parser = "MAKE_START"
                      /\ st.lshift = (KB_LSHIFT \in held)
                      /\ st.rshift = (KB_RSHIFT \in held)
                      /\ st.alt_gr = (KB_RALT \in held)
                      /\ LockOn(st.caps_lock) = locks.caps
                      /\ Pressed(st.caps_lock) = (KB_CAPSLOCK \in held)
                      /\ LockOn(st.num_lock) = locks.num
                      /\ Pressed(st.num_lock) = (KB_NUMLOCK \in held)
    BY DEF KnowsKeys
  <2>1. parser = "MAKE_START" /\ st = Meant(held, locks) /\ st \in DriverSt /\ locks \in Locks
    BY <1>1, AtRest
  <2>2. st.lshift \in BOOLEAN /\ st.rshift \in BOOLEAN /\ st.alt_gr \in BOOLEAN
    BY <2>1 DEF DriverSt
  <2>3. locks.caps \in BOOLEAN /\ locks.num \in BOOLEAN
    BY <2>1 DEF Locks
  <2>4. /\ st.lshift <=> (KB_LSHIFT \in held)
        /\ st.rshift <=> (KB_RSHIFT \in held)
        /\ st.alt_gr <=> (KB_RALT \in held)
    BY <2>1, MeantIs
  <2>5. /\ LockOn(st.caps_lock) <=> locks.caps
        /\ Pressed(st.caps_lock) <=> (KB_CAPSLOCK \in held)
        /\ LockOn(st.num_lock) <=> locks.num
        /\ Pressed(st.num_lock) <=> (KB_NUMLOCK \in held)
    BY <2>1, MeantLocks
  <2>6. LockOn(st.caps_lock) = locks.caps /\ LockOn(st.num_lock) = locks.num
    BY <2>3, <2>5 DEF LockOn
  <2>7. /\ Pressed(st.caps_lock) = (KB_CAPSLOCK \in held)
        /\ Pressed(st.num_lock) = (KB_NUMLOCK \in held)
    BY <2>5 DEF Pressed
  <2> QED  BY <2>1, <2>2, <2>4, <2>6, <2>7
<1> QED  BY <1>1, InvHolds, PTL

(* And the LEDs of the keyboard show the locks: what open() and _trySet    *)
(* sent last is what the driver knows, no exchange ended before its time   *)
(* on an answer stored twice, and a self test that turned the LEDs off has *)
(* turned the driver's locks off as well.                                  *)
THEOREM TheLedsShowLocks == Spec => []LedsShowLocks
<1>1. ASSUME KInv PROVE LedsShowLocks
  <2> SUFFICES ASSUME Quiet PROVE leds = CmdArg(locks.caps, locks.num)
    BY DEF LedsShowLocks
  <2>1. st = Meant(held, locks) /\ locks \in Locks /\ ~Coming /\ pc \in Resting /\ loss # "since"
    BY <1>1, AtRest
  <2>2. leds = CmdArg(LockOn(st.caps_lock), LockOn(st.num_lock))
    BY <1>1, <2>1 DEF KInv, Lights, Lit
  <2>3. (LockOn(st.caps_lock) <=> locks.caps) /\ (LockOn(st.num_lock) <=> locks.num)
    BY <2>1, MeantLocks
  <2> QED  BY <2>2, <2>3 DEF CmdArg
<1> QED  BY <1>1, InvHolds, PTL

(* What poll() and read(), or the blocking read, hand to the application   *)
(* is what was typed, in order and each character once, as long as no byte *)
(* of the keyboard got lost: nothing _trySet clears or reads past is a     *)
(* part of a key, and no answer is taken for one.                          *)
THEOREM WhatIsTypedIsRead == Spec => []ReadIsTyped
<1>1. KInv => ReadIsTyped
  BY DEF KInv
<1> QED  BY <1>1, InvHolds, PTL
=============================================================================

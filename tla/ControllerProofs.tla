-------------------------- MODULE ControllerProofs --------------------------
(***************************************************************************)
(* What is proved of the main program, for any lines and readings, a       *)
(* pattern of any size and a motor of any number of steps: types, that the *)
(* pattern only changes as the display says, and that a playback takes the *)
(* segments in order.                                                      *)
(*                                                                         *)
(* None of the three is inductive.  What they rest on is a relation of     *)
(* where main is to the two copies of the pattern (Copies), to the display *)
(* (Displayed), and of the iterator to the history (Follows).              *)
(***************************************************************************)
EXTENDS Controller, TLAPS

(* Between two calls the copy main reads is what is in flash; within one   *)
(* it is what was in flash when the call began.                            *)
Copies ==
  /\ pc \notin {"off", "cleared", "pushed"} => shown = stored
  /\ pc = "cleared" => stored = <<>>

(* What main has found out and relies on later: that there is a segment to *)
(* play, that there is room, and what the display was told.                *)
Displayed ==
  /\ pc = "hold" => Len(shown) > 0
  /\ pc = "clear" => display = Notice("Clear")
  /\ pc = "push" => ms \in Segment /\ Len(shown) < MaxSize /\ display = DataPoint(Len(shown), ms)

(* The iterator is one ahead of the segment that began last.               *)
Follows ==
  Playing => /\ started <= Len(shown)
             /\ it = IF started = 0 THEN 1 ELSE (started % Len(shown)) + 1

Inv == TypeOK /\ Copies /\ Displayed /\ Follows

-----------------------------------------------------------------------------
(* ++ms_it, with its return to begin(), is the next segment round the      *)
(* pattern.                                                                *)
LEMMA Around ==
  ASSUME NEW n \in Nat, NEW i \in 1 .. n
  PROVE  /\ (i % n) + 1 = IF i + 1 = n + 1 THEN 1 ELSE i + 1
         /\ (i % n) + 1 \in 1 .. n
<1>1. CASE i = n
  <2>1. n % n = 0  BY <1>1
  <2> QED  BY <1>1, <2>1
<1>2. CASE i < n
  <2>1. i % n = i  BY <1>2
  <2> QED  BY <1>2, <2>1
<1> QED  BY <1>1, <1>2

(* A segment has a number of steps and one of the two directions.          *)
LEMMA SegmentType ==
  \A s \in Segment : s.steps \in Nat /\ s.way \in {"CCW", "CW"}
<1> SUFFICES ASSUME NEW line \in Line, NEW mv \in Wiper
             PROVE  LET s == ToSegment(line, mv)
                    IN  s.steps \in Nat /\ s.way \in {"CCW", "CW"}
  BY DEF Segment
<1>1. PICK a \in 0 .. 9999, b \in BOOLEAN : line = [x10 |-> a, minus |-> b]
  <2>1. line \in [x10 : 0 .. 9999, minus : BOOLEAN]  BY InputAssumption
  <2> QED  BY <2>1
<1>2. STEPS_PER_REV \div 10 \in Nat  BY SizesAssumption
<1> DEFINE p == a * (STEPS_PER_REV \div 10)
<1>3. p \in Nat
  <2> DEFINE d == STEPS_PER_REV \div 10
  <2>1. d \in Nat  BY <1>2
  <2> HIDE DEF d
  <2>2. a * d \in Nat  BY <2>1
  <2> QED  BY <2>2 DEF d
<1> HIDE DEF p
<1>4. iround(p, 360) \in Nat  BY <1>3 DEF iround
<1>5. ToSegment(line, mv).steps = iround(p, 360)  BY <1>1 DEF ToSegment, p
<1> QED  BY <1>4, <1>5 DEF ToSegment

(* An accepted line makes a segment.                                       *)
LEMMA IsSegment == \A line \in Line, mv \in Wiper : ToSegment(line, mv) \in Segment
  BY DEF Segment

(* The pattern of no segments.                                             *)
LEMMA Empty == <<>> \in Seq(Segment) /\ Len(<<>>) = 0
  OBVIOUS

(* The types in groups, of which most actions disturb one or two.          *)
PlaceOK ==
  /\ pc \in {"off", "open", "sign", "back", "turned", "long", "clear", "cleared", "short", "empty",
             "hold", "rotate", "until", "select", "line", "push", "pushed", "error"}
  /\ button \in {"none", "short", "long"}
  /\ enabled \in BOOLEAN
StoreOK ==
  /\ stored \in Seq(Segment) /\ Len(stored) <= MaxSize
  /\ shown \in Seq(Segment) /\ Len(shown) <= MaxSize
  /\ ms \in Segment \cup {NoSegment}
IterOK ==
  /\ it \in Nat \ {0} /\ (Playing => it <= Len(shown))
  /\ started \in Nat
MotorOK == phase \in 0 .. 7 /\ todo \in Nat /\ way \in {"CCW", "CW"} /\ type = "FULL"

LEMMA Groups ==
  /\ TypeOK <=> PlaceOK /\ StoreOK /\ IterOK /\ MotorOK
  /\ TypeOK' <=> PlaceOK' /\ StoreOK' /\ IterOK' /\ MotorOK'
  BY Zenon DEF TypeOK, PlaceOK, StoreOK, IterOK, MotorOK

LEMMA InitInv == Init => Inv
<1> SUFFICES ASSUME Init PROVE Inv  OBVIOUS
<1>1. pc = "off" /\ button = "none" /\ it = 1 /\ ms = NoSegment /\ enabled = FALSE /\ started = 0
  BY DEF Init
<1>2. stored = <<>> /\ shown = <<>>  BY DEF Init, Store!Init
<1>3. way \in {"CCW", "CW"} /\ type = "FULL" /\ phase = 0 /\ todo = 0
  BY DEF Init, Motor!Init
<1>4. PlaceOK  BY <1>1 DEF PlaceOK
<1>5. StoreOK  BY <1>1, <1>2, Empty, SizesAssumption DEF StoreOK
<1>6. IterOK  BY <1>1 DEF IterOK, Playing
<1>7. MotorOK  BY <1>3 DEF MotorOK
<1>8. Copies /\ Displayed /\ Follows  BY <1>1, <1>2 DEF Playing, Copies, Displayed, Follows
<1> QED  BY <1>4, <1>5, <1>6, <1>7, <1>8, Groups DEF Inv

-----------------------------------------------------------------------------
(* A reset leaves what is in flash, and a machine that is off.             *)
LEMMA ResetStep ==
  ASSUME Inv, Reset
  PROVE  Inv' /\ stored' = stored /\ todo' = 0
<1>1. stored' = stored /\ shown' = <<>>  BY DEF Reset, Store!PowerLoss
<1>2. /\ pc' = "off" /\ button' = "none" /\ it' = 1 /\ ms' = NoSegment /\ enabled' = FALSE
      /\ started' = 0 /\ phase' = 0 /\ todo' = 0 /\ way' = way /\ type' = type
  BY DEF Reset
<1>3. StoreOK /\ MotorOK  BY Groups DEF Inv
<1>4. PlaceOK'  BY <1>2 DEF PlaceOK
<1>5. StoreOK'  BY <1>1, <1>2, <1>3, Empty, SizesAssumption DEF StoreOK
<1>6. IterOK'  BY <1>2 DEF IterOK, Playing
<1>7. MotorOK'  BY <1>2, <1>3 DEF MotorOK
<1>8. Copies' /\ Displayed' /\ Follows'  BY <1>1, <1>2 DEF Copies, Displayed, Follows, Playing
<1> QED  BY <1>1, <1>2, <1>4, <1>5, <1>6, <1>7, <1>8, Groups DEF Inv

(* What the properties say of a step: the pattern changes as displayed,    *)
(* and a rotation of a playback is of the segment after the last one's.    *)
AsDisplayed ==
  stored' # stored =>
       \/ stored' = <<>> /\ display = Notice("Clear")
       \/ \E s \in Segment : /\ display = DataPoint(Len(stored), s)
                             /\ stored' = Append(stored, s)

TakesNext ==
  Playing /\ todo = 0 /\ todo' # 0 =>
       started' = IF started = 0 THEN 1 ELSE (started % Len(shown)) + 1

Good == Inv' /\ AsDisplayed /\ TakesNext

(* A step that touches neither the store nor the motor needs only Inv'.    *)
LEMMA Untouched ==
  ASSUME Inv', stored' = stored, todo' = todo \/ todo' = 0 \/ todo # 0 \/ ~Playing
  PROVE  Good
  BY DEF Good, AsDisplayed, TakesNext

(* The start-up.                                                           *)
LEMMA BootStep ==
  ASSUME Inv, Boot
  PROVE  Good
<1> USE SizesAssumption, Untouched
        DEF Inv, TypeOK, Copies, Displayed, Follows, Playing, storeVars, motorVars
<1>1. CASE PowerOn
  BY <1>1 DEF PowerOn, Store!Ready
<1>2. ASSUME NEW answered \in BOOLEAN, OpenDevices(answered)
      PROVE  Good
  <2>1. CASE answered
    BY <1>2, <2>1 DEF OpenDevices
  <2>2. CASE ~answered
    <3>1. Reset  BY <1>2, <2>2 DEF OpenDevices
    <3> QED  BY <3>1, ResetStep
  <2> QED  BY <2>1, <2>2
<1>3. CASE SignOfLife
  BY <1>3 DEF SignOfLife, Motor!Rotate
<1>4. CASE TurnBack
  BY <1>4 DEF TurnBack, Motor!Rotate
<1>5. CASE StartIdle
  BY <1>5 DEF StartIdle
<1> QED  BY <1>1, <1>2, <1>3, <1>4, <1>5 DEF Boot

(* The clearing of the pattern: only Clear changes it, and the display has *)
(* said so since the long press was polled.                                *)
LEMMA ClearStep ==
  ASSUME Inv, PollLong \/ Clear \/ ClearReturns
  PROVE  Good
<1> USE SizesAssumption, Empty
        DEF Inv, TypeOK, Copies, Displayed, Follows, Playing, storeVars, motorVars
<1>1. CASE PollLong
  BY <1>1, Untouched DEF PollLong
<1>2. CASE Clear
  <2>1. stored' = <<>> /\ shown' = shown  BY <1>2 DEF Clear, Store!Clear
  <2>2. Inv'  BY <1>2, <2>1 DEF Clear
  <2>3. display = Notice("Clear")  BY <1>2 DEF Clear
  <2>4. ~Playing  BY <1>2 DEF Clear
  <2> QED  BY <2>1, <2>2, <2>3, <2>4 DEF Good, AsDisplayed, TakesNext
<1>3. CASE ClearReturns
  BY <1>3, Untouched DEF ClearReturns, Store!Ready
<1> QED  BY <1>1, <1>2, <1>3

(* The playback: the iterator stays in the pattern, one ahead of the       *)
(* history, for a pattern that does not change meanwhile.                  *)
LEMMA PlayStep ==
  ASSUME Inv, PollShort \/ NoData \/ Play \/ Rotate \/ Until
  PROVE  Good
<1> USE SizesAssumption
        DEF Inv, TypeOK, Copies, Displayed, Follows, Playing, storeVars, motorVars
<1>1. CASE PollShort
  BY <1>1, Untouched DEF PollShort
<1>2. CASE NoData
  BY <1>2, Untouched DEF NoData
<1>3. CASE Play
  BY <1>3, Untouched DEF Play
<1>4. CASE Rotate
  <2>1. CASE ~(todo = 0 /\ shown[it].steps # 0)
    BY <1>4, <2>1, Untouched DEF Rotate
  <2>2. CASE todo = 0 /\ shown[it].steps # 0
    <3>1. it \in 1 .. Len(shown) /\ shown[it] \in Segment /\ Len(shown) \in Nat /\ shown = stored
      BY <1>4 DEF Rotate
    <3>2. /\ todo' = shown[it].steps /\ way' = shown[it].way /\ type' = "FULL"
          /\ phase' = phase /\ it' = NextIt /\ started' = it
          /\ stored' = stored /\ shown' = shown /\ pc' = "until"
      BY <1>4, <2>2 DEF Rotate, Motor!Rotate
    <3>3. todo' \in Nat /\ way' \in {"CCW", "CW"}  BY <3>1, <3>2, SegmentType
    <3>4. it' = (it % Len(shown)) + 1 /\ it' \in 1 .. Len(shown)
      <4> HIDE DEF Inv
      <4> QED  BY <3>1, <3>2, Around DEF NextIt
    <3>5. PlaceOK' /\ StoreOK'
      BY <1>4, <3>2, Groups DEF Rotate, PlaceOK, StoreOK
    <3>6. Inv'
      <4>1. MotorOK'  BY <3>2, <3>3 DEF MotorOK
      <4>2. IterOK'  BY <3>1, <3>2, <3>4 DEF IterOK
      <4>3. Copies' /\ Displayed'  BY <3>1, <3>2
      <4>4. Follows'
        <5> HIDE DEF Inv
        <5> QED  BY <3>1, <3>2, <3>4
      <4> HIDE DEF TypeOK
      <4> QED  BY <3>5, <4>1, <4>2, <4>3, <4>4, Groups
    <3>7. AsDisplayed /\ TakesNext  BY <1>4, <3>2 DEF AsDisplayed, TakesNext, Rotate
    <3> QED  BY <3>6, <3>7 DEF Good
  <2> QED  BY <2>1, <2>2
<1>5. CASE Until
  BY <1>5, Untouched DEF Until
<1> QED  BY <1>1, <1>2, <1>3, <1>4, <1>5

(* The end of a line: what Accept shows is what is going to be stored.     *)
LEMMA LineStep ==
  ASSUME Inv, LineEnds
  PROVE  Good
<1> USE Untouched
        DEF Inv, TypeOK, Copies, Displayed, Follows, Playing, storeVars, motorVars
<1>1. ASSUME NEW error \in {"Err-5", "Err-2"}, BadLine(error)
      PROVE  Good
  BY <1>1 DEF BadLine
<1>2. CASE Full
  BY <1>2 DEF Full
<1>3. CASE NoSample
  BY <1>3 DEF NoSample
<1>4. ASSUME NEW line \in Line, NEW mv \in Wiper, Accept(line, mv)
      PROVE  Good
  BY <1>4, IsSegment DEF Accept
<1> QED  BY <1>1, <1>2, <1>3, <1>4 DEF LineEnds

(* The call of pushBack(): nothing has come between the display and it.    *)
LEMMA PushStep ==
  ASSUME Inv, Push \/ PushReturns
  PROVE  Good
<1> USE SizesAssumption
        DEF Inv, TypeOK, Copies, Displayed, Follows, Playing, storeVars, motorVars
<1>1. ASSUME Push, Store!Push(ms)
      PROVE  Good
  <2>1. /\ pc = "push" /\ pc' = "pushed" /\ Len(stored) < MaxSize
        /\ stored' = Append(stored, ms) /\ shown' = shown
    BY <1>1 DEF Push, Store!Push
  <2>2. ms \in Segment /\ display = DataPoint(Len(stored), ms)  BY <2>1
  <2>3. stored' \in Seq(Segment) /\ Len(stored') <= MaxSize  BY <2>1, <2>2
  <2>4. Inv'  BY <1>1, <2>1, <2>3 DEF Push
  <2> QED  BY <2>1, <2>2, <2>4 DEF Good, AsDisplayed, TakesNext
<1>2. ASSUME Push, UNCHANGED storeVars
      PROVE  Good
  BY <1>2, Untouched DEF Push
<1>3. CASE PushReturns
  BY <1>3, Untouched DEF PushReturns, Store!Ready
<1> QED  BY <1>1, <1>2, <1>3 DEF Push

(* The button's handlers, the motor and the supply.                        *)
LEMMA OtherStep ==
  ASSUME Inv, MotorStep \/ (\E kind \in {"short", "long"} : Press(kind)) \/ PowerLoss
  PROVE  Good
<1>1. CASE MotorStep
  <2>1. /\ todo > 0 /\ todo' = todo - 1 /\ way' = way /\ type' = type
        /\ phase' = Motor!Toward(way, phase, Motor!Stride(phase, type))
    BY <1>1 DEF MotorStep, Motor!Step
  <2>2. /\ pc' = pc /\ button' = button /\ stored' = stored /\ shown' = shown /\ it' = it
        /\ ms' = ms /\ display' = display /\ enabled' = enabled /\ started' = started
    BY <1>1 DEF MotorStep, storeVars
  <2>3. phase \in 0 .. 7 /\ todo \in Nat  BY DEF Inv, TypeOK
  <2>4. phase' \in 0 .. 7  BY <2>1, <2>3 DEF Motor!Toward, Motor!Stride
  <2>5. MotorOK'  BY <2>1, <2>3, <2>4, Groups DEF MotorOK, Inv
  <2>6. (PlaceOK /\ StoreOK /\ IterOK)'  BY <2>2, Groups DEF PlaceOK, StoreOK, IterOK, Inv, Playing
  <2>7. (Copies /\ Displayed /\ Follows)'
    BY <2>2 DEF Inv, Copies, Displayed, Follows, Playing
  <2>8. Inv'  BY <2>5, <2>6, <2>7, Groups DEF Inv
  <2>9. todo # 0  BY <2>1, <2>3
  <2> QED  BY <2>2, <2>8, <2>9, Untouched
<1>2. ASSUME NEW kind \in {"short", "long"}, Press(kind)
      PROVE  Good
  BY <1>2, Untouched
  DEF Press, Inv, TypeOK, Copies, Displayed, Follows, Playing, storeVars, motorVars
<1>3. CASE PowerLoss
  BY <1>3, ResetStep, Untouched DEF PowerLoss
<1> QED  BY <1>1, <1>2, <1>3

LEMMA NextStep ==
  ASSUME Inv, Next
  PROVE  Good
<1>1. ASSUME NEW ready \in BOOLEAN, Select(ready)
      PROVE  Good
  BY <1>1, Untouched
  DEF Select, Inv, TypeOK, Copies, Displayed, Follows, Playing, storeVars, motorVars
<1>2. CASE ErrorShown
  BY <1>2, Untouched
  DEF ErrorShown, Inv, TypeOK, Copies, Displayed, Follows, Playing, storeVars, motorVars
<1> QED
  BY <1>1, <1>2, BootStep, ClearStep, PlayStep, LineStep, PushStep, OtherStep DEF Next, Main

-----------------------------------------------------------------------------
LEMMA Invariance == Spec => []Inv
<1>1. Inv /\ [Next]_vars => Inv'
  <2>1. Inv /\ UNCHANGED vars => Inv'
    BY DEF vars, storeVars, motorVars, Inv, TypeOK, Copies, Displayed, Follows, Playing
  <2> QED  BY <2>1, NextStep DEF Good
<1> QED  BY <1>1, InitInv, PTL DEF Spec

(* The state stays well typed: the iterator of a playback never leaves the *)
(* pattern (++ms_it and begin() in main's loop), for any pattern.          *)
THEOREM Typing == Spec => []TypeOK
<1>1. Inv => TypeOK  BY DEF Inv
<1> QED  BY <1>1, Invariance, PTL

(* The pattern changes only by the segment on the display, at the index on *)
(* the display, or by a clearing on the display: through power losses,     *)
(* failed calls and presses at any moment.                                 *)
THEOREM ChangesAreDisplayed == Spec => ChangesAsDisplayed
<1>1. Inv /\ [Next]_vars => [AsDisplayed]_vars
  BY NextStep DEF Good
<1> QED  BY <1>1, Invariance, PTL DEF Spec, ChangesAsDisplayed, AsDisplayed

(* A playback starts its segments in their order and leaves none out,      *)
(* however many times rotate() refuses.                                    *)
THEOREM PlaysInOrder == Spec => InOrder
<1>1. Inv /\ [Next]_vars => [TakesNext]_vars
  BY NextStep DEF Good
<1> QED  BY <1>1, Invariance, PTL DEF Spec, InOrder, TakesNext
=============================================================================

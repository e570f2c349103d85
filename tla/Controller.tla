----------------------------- MODULE Controller -----------------------------
(***************************************************************************)
(* The main program: it polls the push button and the keyboard, clears,    *)
(* plays back and extends the motion pattern, and tells the user on the    *)
(* display.  It runs beside the stepper motor, which turns on its own once *)
(* a rotation has begun, and the push button, whose handlers leave a       *)
(* detected press to be polled.  Both are taken at their interface: the    *)
(* pattern memory as PatternStore, the driver as StepMotor.                *)
(*                                                                         *)
(* Left out: the logging, and the time the program holds a message on the  *)
(* display; any other process may take any number of steps between two of  *)
(* the program's.                                                          *)
(***************************************************************************)
EXTENDS Integers, Sequences

CONSTANTS
  Line,         (* lines that match RX_PATTERN: the number in tenths of a  *)
                (* degree, and whether the first character is a minus      *)
  Wiper,        (* millivolts the converter may read                       *)
  MaxSize,      (* NMAX_MOTION_SEGMENTS                                    *)
  STEPS_PER_REV (* steps of a turn                                         *)

ASSUME SizesAssumption == MaxSize \in Nat \ {0} /\ STEPS_PER_REV \in Nat \ {0}
ASSUME InputAssumption ==
  /\ Line \subseteq [x10 : 0 .. 9999, minus : BOOLEAN]
  /\ Wiper \subseteq 0 .. 4095

VARIABLES
  pc,       (* where main is                                               *)
  button,   (* press detected and not polled yet: "none", "short", "long"  *)
  stored,   (* the pattern in flash                                        *)
  shown,    (* its cache, mp                                               *)
  it,       (* ms_it as an index of shown                                  *)
  ms,       (* the segment under construction                              *)
  display,  (* last message sent to the display                            *)
  enabled,  (* the driver's outputs are enabled                            *)
  phase, todo, way, type,  (* the motor                                    *)
  started   (* history: index of the segment whose rotation began last in  *)
            (* this playback, 0 for none                                   *)

motorVars == <<phase, todo, way, type>>
storeVars == <<stored, shown>>
vars == <<pc, button, stored, shown, it, ms, display, enabled, motorVars, started>>

-----------------------------------------------------------------------------
(* The segment a line and a reading make.  The speeds are in thousandths   *)
(* of a turn per minute.                                                   *)
MILLI_RPM_MIN == 2500
MILLI_RPM_MAX == 400000
ADC_FULLSCALE_mV == 4096

(* iround() of a number that is not negative by an even one.               *)
iround(x, y) == (x \div y) + (IF x % y >= y \div 2 THEN 1 ELSE 0)

ToSegment(line, mv) ==
  [steps |-> iround(line.x10 * (STEPS_PER_REV \div 10), 360),
   way   |-> IF line.minus THEN "CW" ELSE "CCW",
   speed |-> MILLI_RPM_MIN + iround(mv * (MILLI_RPM_MAX - MILLI_RPM_MIN), ADC_FULLSCALE_mV)]

Segment == {ToSegment(line, mv) : line \in Line, mv \in Wiper}

(* What the display shows of a segment: tenths of a degree, signed.        *)
ToAngle(s) == (IF s.way = "CCW" THEN 1 ELSE -1) * ((s.steps * 3600) \div STEPS_PER_REV)

-----------------------------------------------------------------------------
Powered == pc # "off"
Playing == pc \in {"rotate", "until"}

Motor == INSTANCE StepMotor WITH
           Direction <- {"CCW", "CW"}, StepType <- {"FULL"}, MaxSteps <- 0

Store == INSTANCE PatternStore WITH
           status <- IF ~Powered THEN "off"
                     ELSE IF pc \in {"clear", "cleared", "push", "pushed"} THEN "busy" ELSE "ready"

Notice(text) == [text |-> text]
DataPoint(idx, s) == [idx |-> idx, speed |-> s.speed, angle |-> ToAngle(s)]

NoSegment == [steps |-> 0, way |-> "CCW", speed |-> 0]

Init ==
  /\ pc = "off"
  /\ button = "none"
  /\ Store!Init
  /\ it = 1
  /\ ms = NoSegment
  /\ display = Notice("")
  /\ enabled = FALSE
  /\ Motor!Init
  /\ started = 0

-----------------------------------------------------------------------------
(* The supply fails, or the processor is reset: flash alone remembers, and *)
(* the stepper driver starts again from its home position.                 *)
Reset ==
  /\ pc' = "off"
  /\ Store!PowerLoss
  /\ button' = "none" /\ it' = 1 /\ ms' = NoSegment /\ display' = Notice("")
  /\ enabled' = FALSE /\ started' = 0
  /\ phase' = 0 /\ todo' = 0 /\ UNCHANGED <<way, type>>

PowerLoss == Powered /\ Reset

(* Initialisation: the pattern is loaded and the button enabled.           *)
PowerOn ==
  /\ pc = "off"
  /\ pc' = "open"
  /\ Store!Ready
  /\ UNCHANGED <<button, it, ms, display, enabled, motorVars, started>>

(* The device files are opened.  Of the drivers only the keyboard's has to *)
(* be answered; main gives up if it is not, and _exit() resets.            *)
OpenDevices(answered) ==
  /\ pc = "open"
  /\ IF answered
       THEN pc' = "sign" /\ UNCHANGED <<button, storeVars, it, ms, display, enabled,
                                       motorVars, started>>
       ELSE Reset

(* The motor makes a turn and back, main waiting for each of the two.      *)
SignOfLife ==
  /\ pc = "sign"
  /\ pc' = "back"
  /\ display' = Notice("Run...")
  /\ enabled' = TRUE
  /\ Motor!Rotate(STEPS_PER_REV, "CCW", "FULL")
  /\ UNCHANGED <<button, storeVars, it, ms, started>>

TurnBack ==
  /\ pc = "back"
  /\ pc' = "turned"
  /\ Motor!Rotate(STEPS_PER_REV, "CW", "FULL")
  /\ UNCHANGED <<button, storeVars, it, ms, display, enabled, started>>

StartIdle ==
  /\ pc = "turned" /\ todo = 0
  /\ pc' = "long"
  /\ enabled' = FALSE
  /\ display' = Notice("Idle")
  /\ UNCHANGED <<button, storeVars, it, ms, motorVars, started>>

-----------------------------------------------------------------------------
(* A long press clears the pattern; main then goes on to the short press.  *)
PollLong ==
  /\ pc = "long"
  /\ IF button = "long"
       THEN pc' = "clear" /\ button' = "none" /\ display' = Notice("Clear")
       ELSE pc' = "short" /\ UNCHANGED <<button, display>>
  /\ UNCHANGED <<storeVars, it, ms, enabled, motorVars, started>>

Clear ==
  /\ pc = "clear"
  /\ pc' = "cleared"
  /\ Store!Clear
  /\ UNCHANGED <<button, it, ms, display, enabled, motorVars, started>>

ClearReturns ==
  /\ pc = "cleared"
  /\ pc' = "short"
  /\ Store!Ready
  /\ display' = Notice("Idle")
  /\ UNCHANGED <<button, it, ms, enabled, motorVars, started>>

(* A short press starts the playback of a pattern that has any segment.    *)
PollShort ==
  /\ pc = "short"
  /\ IF button # "short"
       THEN pc' = "select" /\ UNCHANGED <<button, display>>
     ELSE IF shown # <<>>
       THEN pc' = "hold" /\ button' = "none" /\ display' = Notice("Play")
       ELSE pc' = "empty" /\ button' = "none" /\ display' = Notice("Err-1")
  /\ UNCHANGED <<storeVars, it, ms, enabled, motorVars, started>>

NoData ==
  /\ pc = "empty"
  /\ pc' = "select"
  /\ display' = Notice("Idle")
  /\ UNCHANGED <<button, storeVars, it, ms, enabled, motorVars, started>>

Play ==
  /\ pc = "hold"
  /\ pc' = "rotate"
  /\ enabled' = TRUE
  /\ it' = 1
  /\ started' = 0
  /\ UNCHANGED <<button, storeVars, ms, display, motorVars>>

(* Seeded fault: the iterator runs past the end.                           *)
NextItOpen == it + 1

(* Seeded fault: the iterator stays at the last segment.                   *)
NextItLast == IF it + 1 = Len(shown) + 1 THEN it ELSE it + 1

(* ++ms_it, back to begin() at end()                                       *)
NextIt == IF it + 1 = Len(shown) + 1 THEN 1 ELSE it + 1

(* Seeded fault: the iterator advances although rotate() refused.          *)
RotateAnyway ==
  /\ pc = "rotate"
  /\ pc' = "until"
  /\ it' = NextIt
  /\ IF todo = 0 /\ shown[it].steps # 0
       THEN Motor!Rotate(shown[it].steps, shown[it].way, "FULL") /\ started' = it
       ELSE UNCHANGED <<motorVars, started>>
  /\ UNCHANGED <<button, storeVars, ms, display, enabled>>

(* The body of the playback loop: rotate() refuses a segment of no steps   *)
(* and any segment while the motor turns, and the loop comes back to it.   *)
Rotate ==
  /\ pc = "rotate"
  /\ pc' = "until"
  /\ IF todo = 0 /\ shown[it].steps # 0
       THEN /\ Motor!Rotate(shown[it].steps, shown[it].way, "FULL")
            /\ it' = NextIt
            /\ started' = it
       ELSE UNCHANGED <<motorVars, it, started>>
  /\ UNCHANGED <<button, storeVars, ms, display, enabled>>

(* Seeded fault: a long press does not stop the playback.                  *)
UntilShort ==
  /\ pc = "until"
  /\ IF button # "short"
       THEN pc' = "rotate" /\ UNCHANGED <<button, enabled, display>>
       ELSE pc' = "select" /\ button' = "none" /\ enabled' = FALSE /\ display' = Notice("Idle")
  /\ UNCHANGED <<storeVars, it, ms, motorVars, started>>

(* Any press ends the playback.  Only the outputs are disabled: the timer  *)
(* and the DMA stream go on with the rotation they were at.                *)
Until ==
  /\ pc = "until"
  /\ IF button = "none"
       THEN pc' = "rotate" /\ UNCHANGED <<button, enabled, display>>
       ELSE pc' = "select" /\ button' = "none" /\ enabled' = FALSE /\ display' = Notice("Idle")
  /\ UNCHANGED <<storeVars, it, ms, motorVars, started>>

-----------------------------------------------------------------------------
(* Does the keyboard have a character?                                     *)
Select(ready) ==
  /\ pc = "select"
  /\ IF ready THEN pc' = "line" /\ display' = Notice("Input")
              ELSE pc' = "long" /\ UNCHANGED display
  /\ UNCHANGED <<button, storeVars, it, ms, enabled, motorVars, started>>

(* A read fails, or the line that ends is not an angle.                    *)
BadLine(error) ==
  /\ pc = "line"
  /\ error \in {"Err-5", "Err-2"}
  /\ pc' = "error"
  /\ display' = Notice(error)
  /\ UNCHANGED <<button, storeVars, it, ms, enabled, motorVars, started>>

Full ==
  /\ pc = "line"
  /\ Len(shown) >= MaxSize
  /\ pc' = "error"
  /\ display' = Notice("Err-3")
  /\ UNCHANGED <<button, storeVars, it, ms, enabled, motorVars, started>>

NoSample ==
  /\ pc = "line"
  /\ Len(shown) < MaxSize
  /\ pc' = "error"
  /\ display' = Notice("Err-4")
  /\ UNCHANGED <<button, storeVars, it, ms, enabled, motorVars, started>>

(* Seeded fault: the index shown counts from one.                          *)
AcceptFromOne(line, mv) ==
  /\ pc = "line"
  /\ Len(shown) < MaxSize
  /\ pc' = "push"
  /\ ms' = ToSegment(line, mv)
  /\ display' = DataPoint(Len(shown) + 1, ms')
  /\ UNCHANGED <<button, storeVars, it, enabled, motorVars, started>>

(* The line is an angle, there is room and the converter has a sample: the *)
(* segment is shown, and then stored.                                      *)
Accept(line, mv) ==
  /\ pc = "line"
  /\ Len(shown) < MaxSize
  /\ pc' = "push"
  /\ ms' = ToSegment(line, mv)
  /\ display' = DataPoint(Len(shown), ms')
  /\ UNCHANGED <<button, storeVars, it, enabled, motorVars, started>>

(* pushBack() either stores the segment or fails, which is only logged.    *)
Push ==
  /\ pc = "push"
  /\ pc' = "pushed"
  /\ Store!Push(ms) \/ UNCHANGED storeVars
  /\ UNCHANGED <<button, it, ms, display, enabled, motorVars, started>>

PushReturns ==
  /\ pc = "pushed"
  /\ pc' = "long"
  /\ Store!Ready
  /\ display' = Notice("Idle")
  /\ UNCHANGED <<button, it, ms, enabled, motorVars, started>>

ErrorShown ==
  /\ pc = "error"
  /\ pc' = "long"
  /\ display' = Notice("Idle")
  /\ UNCHANGED <<button, storeVars, it, ms, enabled, motorVars, started>>

-----------------------------------------------------------------------------
(* The button's handlers: nothing new is detected before the last press    *)
(* has been polled.                                                        *)
Press(kind) ==
  /\ Powered
  /\ button = "none"
  /\ button' = kind
  /\ UNCHANGED <<pc, storeVars, it, ms, display, enabled, motorVars, started>>

(* The timer and the DMA stream drive the next step.                       *)
MotorStep ==
  /\ Motor!Step
  /\ UNCHANGED <<pc, button, storeVars, it, ms, display, enabled, started>>

Boot ==
  \/ PowerOn \/ \E answered \in BOOLEAN : OpenDevices(answered)
  \/ SignOfLife \/ TurnBack \/ StartIdle

LineEnds ==
  \/ \E error \in {"Err-5", "Err-2"} : BadLine(error)
  \/ Full
  \/ NoSample
  \/ \E line \in Line, mv \in Wiper : Accept(line, mv)

Main ==
  \/ Boot
  \/ PollLong \/ Clear \/ ClearReturns
  \/ PollShort \/ NoData \/ Play \/ Rotate \/ Until
  \/ \E ready \in BOOLEAN : Select(ready)
  \/ Push \/ PushReturns \/ ErrorShown

Next ==
  \/ Main
  \/ LineEnds
  \/ MotorStep
  \/ \E kind \in {"short", "long"} : Press(kind)
  \/ PowerLoss

(* The processor and the timer run; nobody has to finish the line main is  *)
(* waiting for, to press the button, or to cut the supply.                 *)
Fairness == WF_vars(Main) /\ WF_vars(MotorStep)

Spec == Init /\ [][Next]_vars /\ Fairness

-----------------------------------------------------------------------------
(* Types of the state.  The iterator of a playback stays in the pattern.   *)
TypeOK ==
  /\ pc \in {"off", "open", "sign", "back", "turned", "long", "clear", "cleared", "short", "empty",
             "hold", "rotate", "until", "select", "line", "push", "pushed", "error"}
  /\ button \in {"none", "short", "long"}
  /\ stored \in Seq(Segment) /\ Len(stored) <= MaxSize
  /\ shown \in Seq(Segment) /\ Len(shown) <= MaxSize
  /\ it \in Nat \ {0} /\ (Playing => it <= Len(shown))
  /\ ms \in Segment \cup {NoSegment}
  /\ enabled \in BOOLEAN
  /\ phase \in 0 .. 7 /\ todo \in Nat /\ way \in {"CCW", "CW"} /\ type = "FULL"
  /\ started \in Nat

(* The comments of main's loop, "monitor" and "poll": a press is acted on, *)
(* whatever main is at, unless main waits for the end of a line, for which *)
(* the fgets() of an unfinished line waits without limit.                  *)
PressServed == button # "none" ~> (button = "none" \/ pc = "line")

(* README, "the data points are retrieved in a circular fashion": whatever *)
(* the motor was at when the playback began, and however many times        *)
(* rotate() refuses, the segments start in order, none left out.           *)
InOrder ==
  [][Playing /\ todo = 0 /\ todo' # 0 =>
       started' = IF started = 0 THEN 1 ELSE (started % Len(shown)) + 1]_vars

(* README, the same sentence: a playback nobody stops comes to every       *)
(* segment again and again, unless one of them has no steps.               *)
ComesRound ==
  \A i \in 1 .. MaxSize :
    <>[](Playing /\ i <= Len(shown) /\ \A j \in 1 .. Len(shown) : shown[j].steps # 0)
      => []<>(started = i)

(* README, "the data point is displayed", "Successful clearing is          *)
(* acknowledged": the pattern only changes by what the display says, which *)
(* is the segment with the index it gets, or that the pattern is cleared.  *)
ChangesAsDisplayed ==
  [][stored' # stored =>
       \/ stored' = <<>> /\ display = Notice("Clear")
       \/ \E s \in Segment : /\ display = DataPoint(Len(stored), s)
                             /\ stored' = Append(stored, s)]_vars

(* software_design.tex, "immediately aborts movement pattern execution":   *)
(* when the outputs are enabled again nothing is left of what was aborted. *)
AbortIsFinal == [][~enabled /\ enabled' => todo = 0]_vars
=============================================================================

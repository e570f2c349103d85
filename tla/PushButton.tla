----------------------------- MODULE PushButton -----------------------------
(***************************************************************************)
(* The push button (fw/core/inc/PushButton) on the alarms of the timer it  *)
(* shares with the display: an edge detector, a debouncing delay and a     *)
(* long-press delay, driven by two interrupt handlers and polled by main.  *)
(*                                                                         *)
(* The two handlers have the same priority, so neither interrupts the      *)
(* other; both interrupt main, between any two steps of it.  Main polls    *)
(* the button, enables and disables it, and starts and stops the alarm     *)
(* that scrolls the display, step by step through setAlarm().              *)
(***************************************************************************)
EXTENDS HwAlarm

CONSTANTS
  Reject,      (* _reject                                                  *)
  Residual,    (* _long_press_residual                                     *)
  ScrollDelay, (* _scroll_delay of the display                             *)
  Scrolling,   (* TRUE: main writes texts that scroll                      *)
  EdgesAt,     (* where, besides at rest, the input may change: "handler"  *)
               (* while alarm() runs, "call" while main is in a setAlarm() *)
  MaxLag       (* bound: counter ticks during one setAlarm() of main       *)

Button  == "button"
Display == "display"
Edge    == {"LEADING", "TRAILING"}
States  == {"OFF", "IDLE", "REJECTING", "TRIGGERED", "DETECTED_SHORT", "DETECTED_LONG"}

ASSUME ButtonAssumption ==
  /\ {Button, Display} \subseteq Callback
  /\ {Reject, Residual, ScrollDelay} \subseteq Count \ {0}
  /\ MaxReps > 2 /\ MaxLag \in Nat
  /\ Scrolling \in BOOLEAN /\ EdgesAt \subseteq {"handler", "call"}

(* Where main is.  "poll" is its loop; "hold" the wait of a display write  *)
(* for the text to have scrolled; the others lie in a setAlarm().          *)
NewPoints  == {"represent", "lock", "start", "started"}
StopPoints == {"stop", "find", "forget", "disable", "stopped"}
Points     == {"poll", "hold"} \cup NewPoints \cup StopPoints

VARIABLES
  cnt,      (* CNT of the timer                                            *)
  tim,      (* the rest of the timer and the alarms                        *)
  trig,     (* the enabled triggers of the button's line                   *)
  pr,       (* the pending flag of the line                                *)
  it,       (* its interrupt is enabled                                    *)
  pressed,  (* the input has the active level                              *)
  state,    (* _state                                                      *)
  sampled,  (* the level alarm() has just read, or "none"                  *)
  pc,       (* the program point of main                                   *)
  start,    (* its local cnt in setAlarm()                                 *)
  idx,      (* its local idx in setAlarm()                                 *)
  stopping, (* the callback whose alarm it is stopping                     *)
  lag,      (* counter ticks since that call began                         *)
  scrolled, (* _scrolled of the display                                    *)
  held      (* history: whether, at each tick since alarm() saw it so, the *)
            (* button was pressed; "unseen" if released before the edge    *)
            (* detector was on                                             *)

buttonVars  == <<trig, pr, it, state>>
mainVars    == <<pc, start, idx, stopping, lag>>
vars == <<cnt, tim, trig, pr, it, pressed, state, sampled,
          pc, start, idx, stopping, lag, scrolled, held>>

Init ==
  /\ cnt = 0
  /\ tim = IdleTimer
  /\ trig = {} /\ pr = FALSE /\ it = FALSE
  /\ pressed = FALSE
  /\ state = "OFF"
  /\ sampled = "none"
  /\ pc = "poll" /\ start = 0 /\ idx = 0 /\ stopping = None /\ lag = 0
  /\ scrolled = TRUE
  /\ held = "no"

EnableTrig(edge)  == trig' = trig \cup {edge} /\ UNCHANGED pr

(* Seeded fault: the pending flag of the line is left.                     *)
FlagKept(edge) == trig' = trig \ {edge} /\ UNCHANGED pr

DisableTrig(edge) == trig' = trig \ {edge} /\ pr' = FALSE

-----------------------------------------------------------------------------
(* The world: time and the input.                                          *)

InCall == pc \in NewPoints \cup StopPoints

(* A handler that is due runs before the next tick.                        *)
Due     == Pending(tim) \/ (pr /\ it) \/ sampled # "none"

Tick ==
  /\ ~Due
  /\ InCall => lag < MaxLag
  /\ cnt' = (cnt + 1) % Period
  /\ tim' = Match(tim, cnt')
  /\ lag' = IF InCall THEN lag + 1 ELSE 0
  /\ held' = IF held = "yes" /\ ~pressed THEN "no" ELSE held
  /\ UNCHANGED <<buttonVars, pressed, sampled, pc, start, idx, stopping, scrolled>>

InputChange ==
  /\ InCall => "call" \in EdgesAt
  /\ sampled # "none" => "handler" \in EdgesAt
  /\ pressed' = ~pressed
  /\ pr' = (pr \/ (IF pressed THEN "TRAILING" ELSE "LEADING") \in trig)
  /\ held' = IF sampled # "pressed" THEN held ELSE IF pressed THEN "unseen" ELSE "yes"
  /\ UNCHANGED <<cnt, tim, trig, it, state, sampled, mainVars, scrolled>>

-----------------------------------------------------------------------------
(* The handlers.                                                           *)

(* PushButton::handler, on a pending line.                                 *)
EdgeHandler ==
  /\ pr /\ it
  /\ ~Pending(tim) /\ sampled = "none"
  /\ IF "LEADING" \in trig
       THEN /\ tim' = SetNew(tim, cnt, Reject, Button, 2)
            /\ state' = "REJECTING"
            /\ DisableTrig("LEADING")
       ELSE /\ tim' = Stop(tim, Button)
            /\ state' = "DETECTED_SHORT"
            /\ DisableTrig("TRAILING")
  /\ UNCHANGED <<cnt, it, pressed, sampled, mainVars, scrolled, held>>

(* HwAlarm::handler, the display's alarm(), and the button's alarm() up to *)
(* where it reads the input.                                               *)
AlarmHandler ==
  /\ Pending(tim)
  /\ sampled = "none"
  /\ tim' = Rearm(tim)
  /\ scrolled' = (scrolled \/ Display \in Scheduled(tim))
  /\ IF Button \in Scheduled(tim) /\ state = "REJECTING"
       THEN /\ sampled' = (IF pressed THEN "pressed" ELSE "released")
            /\ held' = IF pressed THEN "yes" ELSE "no"
       ELSE UNCHANGED <<sampled, held>>
  /\ IF Button \in Scheduled(tim) /\ state = "TRIGGERED"
       THEN state' = "DETECTED_LONG" /\ DisableTrig("TRAILING")
       ELSE UNCHANGED <<state, trig, pr>>
  /\ UNCHANGED <<cnt, it, pressed, mainVars>>

(* Seeded fault: the trailing edge is not watched for.                     *)
ReleaseIgnored ==
  /\ sampled = "pressed"
  /\ sampled' = "none"
  /\ tim' = Change(tim, cnt, Button, 1, Residual)
  /\ state' = "TRIGGERED"
  /\ UNCHANGED <<cnt, trig, pr, it, pressed, mainVars, scrolled, held>>

(* The rest of alarm(): an actual press, or a spurious edge.               *)
ActualPress ==
  /\ sampled = "pressed"
  /\ sampled' = "none"
  /\ tim' = Change(tim, cnt, Button, 1, Residual)
  /\ state' = "TRIGGERED"
  /\ EnableTrig("TRAILING")
  /\ UNCHANGED <<cnt, it, pressed, mainVars, scrolled, held>>

(* Seeded fault: the second repetition is not stopped.                     *)
SpuriousKept ==
  /\ sampled = "released"
  /\ sampled' = "none"
  /\ state' = "IDLE"
  /\ EnableTrig("LEADING")
  /\ UNCHANGED <<cnt, tim, it, pressed, mainVars, scrolled, held>>

SpuriousEdge ==
  /\ sampled = "released"
  /\ sampled' = "none"
  /\ tim' = Stop(tim, Button)
  /\ state' = "IDLE"
  /\ EnableTrig("LEADING")
  /\ UNCHANGED <<cnt, it, pressed, mainVars, scrolled, held>>

Handler == EdgeHandler \/ AlarmHandler \/ ActualPress \/ SpuriousEdge

-----------------------------------------------------------------------------
(* Main, one step at a time, while no handler is due.                      *)

At(p) == pc = p /\ ~Due

(* enable(), which is atomic: the line's interrupt is enabled last.        *)
Enable ==
  /\ At("poll")
  /\ state = "OFF"
  /\ state' = "IDLE"
  /\ EnableTrig("LEADING")
  /\ it' = TRUE
  /\ UNCHANGED <<cnt, tim, pressed, sampled, mainVars, scrolled, held>>

(* shortPress(disable) and longPress(disable), when they return true.      *)
Consume(detected, disable) ==
  /\ At("poll")
  /\ state = detected
  /\ IF disable
       THEN state' = "OFF" /\ UNCHANGED <<trig, pr>>
       ELSE state' = "IDLE" /\ EnableTrig("LEADING")
  /\ UNCHANGED <<cnt, tim, it, pressed, sampled, mainVars, scrolled, held>>

ShortPress == \E disable \in BOOLEAN : Consume("DETECTED_SHORT", disable)
LongPress  == \E disable \in BOOLEAN : Consume("DETECTED_LONG", disable)

(* disable(), up to its call of setAlarm().                                *)
DisableButton ==
  /\ At("poll")
  /\ it' = FALSE
  /\ pc' = "stop" /\ stopping' = Button /\ lag' = 0
  /\ UNCHANGED <<cnt, tim, trig, pr, pressed, state, sampled, start, idx, scrolled, held>>

(* A write to the display stops its scrolling first, if it has any...      *)
WriteOver ==
  /\ At("poll")
  /\ Scrolling /\ scrolled
  /\ Holds(tim, Display)
  /\ pc' = "stop" /\ stopping' = Display /\ lag' = 0
  /\ UNCHANGED <<cnt, tim, buttonVars, pressed, sampled, start, idx, scrolled, held>>

(* ... and a text that does not fit sets a new alarm, which begins with    *)
(* the reading of the counter and getChannel().                            *)
WriteLong ==
  /\ At("poll")
  /\ Scrolling
  /\ ~Holds(tim, Display)
  /\ scrolled' = FALSE
  /\ start' = cnt
  /\ idx' = ChannelOf(tim, None)
  /\ pc' = IF idx' \in Channel THEN "represent" ELSE "hold"
  /\ lag' = 0
  /\ UNCHANGED <<cnt, tim, buttonVars, pressed, sampled, stopping, held>>

InCallOnly ==
  UNCHANGED <<cnt, buttonVars, pressed, sampled, start, stopping, lag, scrolled, held>>

NewRepresent ==
  /\ At("represent")
  /\ tim' = SetRepresentation(tim, idx, start, ScrollDelay, 0)
  /\ pc' = "lock"
  /\ UNCHANGED idx /\ InCallOnly

NewLock ==
  /\ At("lock")
  /\ tim' = Lock(tim)
  /\ pc' = "start"
  /\ UNCHANGED idx /\ InCallOnly

(* DELAY_TOO_SHORT, or the alarm goes live.                                *)
NewStart ==
  /\ At("start")
  /\ IF Elapsed(cnt, start, ScrollDelay)
       THEN tim' = Unlock(tim) /\ pc' = "hold"
       ELSE tim' = Activate(tim, idx, Display) /\ pc' = "started"
  /\ UNCHANGED idx /\ InCallOnly

(* Seeded fault: the interrupt is not enabled again.                       *)
NeverUnlocked ==
  /\ At("started")
  /\ pc' = "hold"
  /\ UNCHANGED <<tim, idx>> /\ InCallOnly

NewDone ==
  /\ At("started")
  /\ tim' = Unlock(tim)
  /\ pc' = "hold"
  /\ UNCHANGED idx /\ InCallOnly

(* write() returns once the text has scrolled.                             *)
HoldDone ==
  /\ At("hold")
  /\ scrolled
  /\ pc' = "poll"
  /\ start' = 0 /\ idx' = 0
  /\ UNCHANGED <<cnt, tim, buttonVars, pressed, sampled, stopping, lag, scrolled, held>>

StopLock ==
  /\ At("stop")
  /\ tim' = Lock(tim)
  /\ pc' = "find"
  /\ UNCHANGED idx /\ InCallOnly

StopFind ==
  /\ At("find")
  /\ idx' = ChannelOf(tim, stopping)
  /\ pc' = IF idx' \in Channel THEN "forget" ELSE "stopped"
  /\ UNCHANGED tim /\ InCallOnly

StopForget ==
  /\ At("forget")
  /\ tim' = Forget(tim, idx)
  /\ pc' = "disable"
  /\ UNCHANGED idx /\ InCallOnly

StopDisable ==
  /\ At("disable")
  /\ tim' = Disable(tim, idx)
  /\ pc' = "stopped"
  /\ UNCHANGED idx /\ InCallOnly

(* The call returns; disable() goes on to its end.                         *)
StopDone ==
  /\ At("stopped")
  /\ tim' = Unlock(tim)
  /\ pc' = "poll"
  /\ IF stopping = Button
       THEN state' = "OFF" /\ trig' = {} /\ pr' = FALSE
       ELSE UNCHANGED <<state, trig, pr>>
  /\ stopping' = None /\ idx' = 0
  /\ UNCHANGED <<cnt, it, pressed, sampled, start, lag, scrolled, held>>

InSetAlarm ==
  \/ NewRepresent \/ NewLock \/ NewStart \/ NewDone
  \/ StopLock \/ StopFind \/ StopForget \/ StopDisable \/ StopDone

Main ==
  \/ Enable \/ ShortPress \/ LongPress \/ DisableButton
  \/ WriteOver \/ WriteLong \/ HoldDone
  \/ InSetAlarm

Next == Tick \/ InputChange \/ Handler \/ Main

(* Time passes, handlers that are due run, and main, whenever they leave   *)
(* the processor to it, goes on with the call it is in; nobody has to      *)
(* press the button, nor to call anything.                                 *)
Fairness == WF_vars(Tick) /\ WF_vars(Handler) /\ SF_vars(InSetAlarm \/ HoldDone)

Spec == Init /\ [][Next]_vars /\ Fairness

-----------------------------------------------------------------------------
(* Types of the state.                                                     *)
TypeOK ==
  /\ cnt \in Count
  /\ tim \in TimerState
  /\ trig \subseteq Edge /\ pr \in BOOLEAN /\ it \in BOOLEAN
  /\ pressed \in BOOLEAN
  /\ state \in States
  /\ sampled \in {"none", "pressed", "released"}
  /\ pc \in Points /\ start \in Count /\ idx \in 0 .. NChannels
  /\ stopping \in Callback \cup {None} /\ lag \in 0 .. MaxLag
  /\ scrolled \in BOOLEAN /\ held \in {"yes", "no", "unseen"}

(* disableTrig's comment: "safe to clear: only one detector enabled at a   *)
(* time".  The state fixes which detector is enabled, and an edge is only  *)
(* ever pending for a detector that is: no stale edge is taken for a press *)
(* or for a release.                                                       *)
OneDetector ==
  /\ trig = CASE state = "IDLE" -> {"LEADING"}
            [] state = "TRIGGERED" -> {"TRAILING"}
            [] OTHER -> {}
  /\ pr => trig # {}

(* The button holds at most one channel of the timer, and none when its    *)
(* state has nothing to wait for: however presses, bounces, polls and      *)
(* disable() interleave, no channel is lost to the other clients.          *)
NoLeak ==
  /\ \A c, d \in Channel : tim.icb[c] = Button /\ tim.icb[d] = Button => c = d
  /\ Holds(tim, Button) => state \in {"REJECTING", "TRIGGERED"}

(* handler()'s comment: "Initialize and start new alarm".  A button that   *)
(* waits for the end of the debouncing has an alarm that will end it.      *)
Armed(cb) == \E c \in Channel : tim.icb[c] = cb /\ tim.ie[c]

RejectingArmed ==
  state = "REJECTING" /\ it /\ sampled = "none" => Armed(Button)

(* setAlarm's comments, "delay already elapsed".  No alarm waits for a     *)
(* compare value the counter has just passed, nor fires ahead of it: the   *)
(* next match is at most the delay away, and a raised flag is of a match   *)
(* no older than a call of main lasts.                                     *)
OnTime ==
  \A c \in Channel : tim.icb[c] # None /\ tim.ie[c] =>
    IF tim.flag[c]
      THEN (cnt - tim.ccr[c]) % Period <= MaxLag
      ELSE (tim.ccr[c] - cnt) % Period \in 1 .. tim.ticks[c]

(* alarm()'s comment: "Alarm fired before the trailing edge".  A long      *)
(* press of a button that is enabled is one during which the input was     *)
(* active at every tick; the one release that can be missed is between the *)
(* reading of the level and the watch for the trailing edge, an instant    *)
(* later.                                                                  *)
LongMeansHeld ==
  [][it /\ state' = "DETECTED_LONG" /\ state # "DETECTED_LONG" => held # "no"]_vars

(* A write to the display that waits for the text to scroll returns.       *)
HoldEnds == pc = "hold" ~> pc = "poll"

-----------------------------------------------------------------------------
(* What the comments say and the code does not keep, for whoever repairs   *)
(* it.  No run checks these two: each has a counterexample of a few        *)
(* steps under EdgesAt = {"handler", "call"}.                              *)

(* handler()'s comment: "the 2nd repetition is there just to be            *)
(* lengthened/stopped".  A button that waits for a long press has an alarm *)
(* that will detect it.                                                    *)
TriggeredArmed == state = "TRIGGERED" /\ it => Armed(Button)

(* setAlarm's comment: "lock alarm representation".  While main has the    *)
(* representation locked, no handler of the timer can get at it.           *)
LockHeld ==
  pc \in {"start", "started", "find", "forget", "disable", "stopped"} => ~tim.irqen

=============================================================================

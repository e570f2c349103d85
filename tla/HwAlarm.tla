------------------------------- MODULE HwAlarm ------------------------------
(***************************************************************************)
(* The alarms on one free-running timer (fw/core/inc/HwAlarm), as          *)
(* operators on the state of the timer.  Each of its channels compares the *)
(* counter with a register of its own and raises a flag on every match,    *)
(* used or not; an alarm is a channel with a callback.                     *)
(*                                                                         *)
(* A timer state t has, per channel, the fields of an Alarm (icb, reps,    *)
(* ticks), the registers ccr, flag and ie (interrupt enabled), and once    *)
(* irqen: the timer's interrupt is enabled at the interrupt controller.    *)
(* Delays are in counter ticks, at most Period - 1.                        *)
(***************************************************************************)
EXTENDS Integers

CONSTANTS
  NChannels,  (* _nch                                                      *)
  Period,     (* ticks until the counter wraps, 2^16                       *)
  MaxReps,    (* the largest repetition count, which stands for "forever"  *)
  Callback,   (* the callback objects of the clients                       *)
  None        (* the null callback                                         *)

Channel == 0 .. NChannels - 1
Count   == 0 .. Period - 1

ASSUME TimerAssumption == NChannels \in Nat \ {0} /\ Period \in Nat \ {0} /\ MaxReps \in Nat \ {0}
ASSUME CallbackAssumption == None \notin Callback

TimerState ==
  [ icb : [Channel -> Callback \cup {None}],
    reps : [Channel -> 0 .. MaxReps],
    ticks : [Channel -> Count],
    ccr : [Channel -> Count],
    flag : [Channel -> BOOLEAN],
    ie : [Channel -> BOOLEAN],
    irqen : BOOLEAN ]

(* After init(): all registers at reset, the interrupt enabled.            *)
IdleTimer ==
  [ icb |-> [c \in Channel |-> None],
    reps |-> [c \in Channel |-> 0],
    ticks |-> [c \in Channel |-> 0],
    ccr |-> [c \in Channel |-> 0],
    flag |-> [c \in Channel |-> FALSE],
    ie |-> [c \in Channel |-> FALSE],
    irqen |-> TRUE ]

(* The first channel with callback cb, NChannels if none has it: a search  *)
(* for None is getChannel().                                               *)
ChannelOf(t, cb) ==
  CHOOSE c \in 0 .. NChannels :
    /\ c \in Channel => t.icb[c] = cb
    /\ \A d \in Channel : d < c => t.icb[d] # cb

Holds(t, cb) == \E c \in Channel : t.icb[c] = cb

(* One tick of the counter, which arrives at now.                          *)
Match(t, now) ==
  [t EXCEPT !.flag = [c \in Channel |-> t.flag[c] \/ t.ccr[c] = now]]

(* The interrupt line of the timer, as far as it gets through.             *)
Pending(t) == t.irqen /\ \E c \in Channel : t.ie[c] /\ t.flag[c]

-----------------------------------------------------------------------------
(* The pieces of setAlarm() and freeChannel() between which a caller that  *)
(* is not an interrupt handler can be interrupted.                         *)

Lock(t)   == [t EXCEPT !.irqen = FALSE]
Unlock(t) == [t EXCEPT !.irqen = TRUE]

(* Seeded fault: the compare value does not wrap with the counter.         *)
SetUnwrapped(t, c, start, delay, n) ==
  [t EXCEPT !.reps[c] = IF n = 0 THEN MaxReps ELSE n,
            !.ticks[c] = delay,
            !.ccr[c] = start + delay,
            !.flag[c] = FALSE]

(* Seeded fault: the flag of an earlier match is not cleared.              *)
SetUncleared(t, c, start, delay, n) ==
  [t EXCEPT !.reps[c] = IF n = 0 THEN MaxReps ELSE n,
            !.ticks[c] = delay,
            !.ccr[c] = (start + delay) % Period]

SetRepresentation(t, c, start, delay, n) ==
  [t EXCEPT !.reps[c] = IF n = 0 THEN MaxReps ELSE n,
            !.ticks[c] = delay,
            !.ccr[c] = (start + delay) % Period,
            !.flag[c] = FALSE]

(* The elapsed test of a new alarm: the difference is an int, not a Cnt.   *)
Elapsed(now, start, delay) == now - start > delay

Activate(t, c, cb) == [t EXCEPT !.icb[c] = cb, !.ie[c] = TRUE]

Forget(t, c)  == [t EXCEPT !.icb[c] = None]
Disable(t, c) == [t EXCEPT !.ie[c] = FALSE]

-----------------------------------------------------------------------------
(* The calls as a handler makes them: nothing interrupts them, and they    *)
(* take less than a tick.                                                  *)

(* A new alarm; CHANNELS_BUSY leaves all as it is.                         *)
SetNew(t, now, delay, cb, n) ==
  LET c == ChannelOf(t, None)
  IN  IF c \in Channel
        THEN Unlock(Activate(SetRepresentation(t, c, now, delay, n), c, cb))
        ELSE t

(* Stopping an alarm: a change to zero repetitions.                        *)
Stop(t, cb) ==
  LET c == ChannelOf(t, cb)
  IN  Unlock(IF c \in Channel THEN Disable(Forget(t, c), c) ELSE t)

(* Changing the delay of an alarm that runs, counted from when it last     *)
(* fired or was started.  That instant is recovered as an int, so it is    *)
(* negative if the compare register has wrapped since; an elapsed delay    *)
(* frees the channel.                                                      *)
Change(t, now, cb, n, delay) ==
  LET c     == ChannelOf(t, cb)
      start == t.ccr[c] - t.ticks[c]
  IN  IF c \notin Channel THEN Unlock(t)
      ELSE IF Elapsed(now, start, delay) THEN Stop(t, cb)
      ELSE Unlock(SetRepresentation(t, c, start, delay, n))

-----------------------------------------------------------------------------
(* The interrupt handler, up to the callbacks.                             *)

Fired(t) == {c \in Channel : t.icb[c] # None /\ t.flag[c]}
Last(t)  == {c \in Fired(t) : t.reps[c] = 1}

Scheduled(t) == {t.icb[c] : c \in Fired(t)}

(* Alarms at their last repetition free their channel, the others rearm.   *)
Rearm(t) ==
  LET again == Fired(t) \ Last(t)
  IN  [t EXCEPT
        !.icb = [c \in Channel |-> IF c \in Last(t) THEN None ELSE t.icb[c]],
        !.ie = [c \in Channel |-> t.ie[c] /\ c \notin Last(t)],
        !.reps = [c \in Channel |->
                    IF c \in Fired(t) /\ t.reps[c] # MaxReps THEN t.reps[c] - 1 ELSE t.reps[c]],
        !.ccr = [c \in Channel |->
                   IF c \in again THEN (t.ccr[c] + t.ticks[c]) % Period ELSE t.ccr[c]],
        !.flag = [c \in Channel |-> t.flag[c] /\ c \notin again]]
=============================================================================

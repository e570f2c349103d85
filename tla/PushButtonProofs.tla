-------------------------- MODULE PushButtonProofs --------------------------
(***************************************************************************)
(* What is proved of the push button on its timer, for any number of       *)
(* channels, any period of the counter and any delays.                     *)
(*                                                                         *)
(* The first part is about HwAlarm: the search of a channel finds one, and *)
(* what each operation writes leaves a timer, keeps the button's channel   *)
(* single and keeps the free channels free.  The second, DetInv, is about  *)
(* the edge detector and the level of the button, and holds wherever the   *)
(* input changes.  The third, AlarmInv, is about the alarms and the calls  *)
(* of main, step by step, and needs the input to be quiet during a call.   *)
(* The fourth, TimeInv, relates the counter to the compare values, and     *)
(* needs a call of main to be short as well.                               *)
(***************************************************************************)
EXTENDS PushButton, TLAPS, WellFoundedInduction

(* A set of natural numbers has a least element.                           *)
LEMMA LeastNat ==
  ASSUME NEW T, T \subseteq Nat, T # {}
  PROVE  \E x \in T : \A y \in T : x <= y
<1>1. PICK x \in T : \A y \in T : ~(<<y, x>> \in OpToRel(<, Nat))
  BY WFMin, NatLessThanWellFounded
<1>2. \A y \in T : ~(y < x)
  BY <1>1 DEF OpToRel
<1> QED  BY <1>2

(* What the search of getChannel() and freeChannel() finds.                *)
LEMMA ChannelFound ==
  ASSUME NEW t, NEW cb
  PROVE  LET c == ChannelOf(t, cb) IN
           /\ c \in 0 .. NChannels
           /\ c \in Channel => t.icb[c] = cb
           /\ c \notin Channel => ~Holds(t, cb)
<1> DEFINE P(c) == (c \in Channel => t.icb[c] = cb) /\ \A d \in Channel : d < c => t.icb[d] # cb
           T == {c \in 0 .. NChannels : c \in Channel => t.icb[c] = cb}
<1>1. NChannels \in T /\ T \subseteq Nat
  BY TimerAssumption DEF Channel
<1>2. PICK c \in T : \A d \in T : c <= d
  BY <1>1, LeastNat
<1>3. c \in 0 .. NChannels /\ P(c)
  <2>1. \A d \in Channel : d < c => d \notin T  BY <1>1, <1>2 DEF Channel
  <2>2. Channel \subseteq 0 .. NChannels  BY TimerAssumption DEF Channel
  <2> QED  BY <1>2, <2>1, <2>2
<1>4. ChannelOf(t, cb) \in 0 .. NChannels /\ P(ChannelOf(t, cb))
  <2>1. ChannelOf(t, cb) = CHOOSE e \in 0 .. NChannels : P(e)  BY DEF ChannelOf
  <2> HIDE DEF P
  <2> QED  BY <1>3, <2>1
<1>5. ChannelOf(t, cb) \notin Channel => \A d \in Channel : d < ChannelOf(t, cb)
  BY <1>4, TimerAssumption DEF Channel
<1> QED  BY <1>4, <1>5 DEF Holds

-----------------------------------------------------------------------------
(* The counter wraps, and so does a compare value.                         *)
LEMMA Wraps == \A n \in Int : n % Period \in Count
  BY TimerAssumption DEF Count

(* What is written to a timer leaves a timer.                              *)
LEMMA TimerPieces ==
  ASSUME NEW t \in TimerState
  PROVE  /\ Lock(t) \in TimerState /\ Unlock(t) \in TimerState
         /\ \A c \in Channel, begun \in Int, delay \in Count, n \in 0 .. MaxReps :
              SetRepresentation(t, c, begun, delay, n) \in TimerState
         /\ \A c \in Channel, cb \in Callback : Activate(t, c, cb) \in TimerState
         /\ \A c \in Channel : Forget(t, c) \in TimerState /\ Disable(t, c) \in TimerState
<1>1. Lock(t) \in TimerState /\ Unlock(t) \in TimerState
  BY DEF Lock, Unlock, TimerState
<1>2. ASSUME NEW c \in Channel, NEW begun \in Int, NEW delay \in Count, NEW n \in 0 .. MaxReps
      PROVE  SetRepresentation(t, c, begun, delay, n) \in TimerState
  <2> DEFINE r == IF n = 0 THEN MaxReps ELSE n
             v == (begun + delay) % Period
  <2>1. r \in 0 .. MaxReps  BY TimerAssumption
  <2>2. v \in Count
    <3>1. begun + delay \in Int  BY TimerAssumption DEF Count
    <3> QED  BY <3>1, Wraps
  <2>3. SetRepresentation(t, c, begun, delay, n)
          = [t EXCEPT !.reps[c] = r, !.ticks[c] = delay, !.ccr[c] = v, !.flag[c] = FALSE]
    BY DEF SetRepresentation
  <2> HIDE DEF r, v
  <2>4. /\ [t.reps EXCEPT ![c] = r] \in [Channel -> 0 .. MaxReps]
        /\ [t.ticks EXCEPT ![c] = delay] \in [Channel -> Count]
        /\ [t.ccr EXCEPT ![c] = v] \in [Channel -> Count]
        /\ [t.flag EXCEPT ![c] = FALSE] \in [Channel -> BOOLEAN]
    BY <2>1, <2>2 DEF TimerState
  <2> DEFINE f == [t.reps EXCEPT ![c] = r]
             g == [t.ticks EXCEPT ![c] = delay]
             h == [t.ccr EXCEPT ![c] = v]
             k == [t.flag EXCEPT ![c] = FALSE]
  <2>5. SetRepresentation(t, c, begun, delay, n)
          = [t EXCEPT !.reps = f, !.ticks = g, !.ccr = h, !.flag = k]
    BY <2>3 DEF TimerState
  <2> HIDE DEF f, g, h, k
  <2> QED  BY <2>4, <2>5 DEF f, g, h, k, TimerState
<1>3. ASSUME NEW c \in Channel, NEW cb \in Callback PROVE Activate(t, c, cb) \in TimerState
  BY DEF Activate, TimerState
<1>4. ASSUME NEW c \in Channel PROVE Forget(t, c) \in TimerState /\ Disable(t, c) \in TimerState
  BY DEF Forget, Disable, TimerState
<1> QED  BY <1>1, <1>2, <1>3, <1>4

(* Who is who among the values of the model.                               *)
LEMMA NoneType == None \in Callback \cup {None} /\ Button \in Callback /\ Display \in Callback
                  /\ Reject \in Count /\ Residual \in Count /\ ScrollDelay \in Count
                  /\ Button # None /\ Display # None /\ Button # Display
                  /\ 0 \in Count /\ 0 \in 0 .. MaxReps /\ 1 \in 0 .. MaxReps /\ 2 \in 0 .. MaxReps
  BY ButtonAssumption, CallbackAssumption, TimerAssumption DEF Button, Display, Count

(* The calls of a handler leave a timer.                                   *)
LEMMA SetNewType ==
  ASSUME NEW t \in TimerState, NEW now \in Count, NEW delay \in Count, NEW n \in 0 .. MaxReps
  PROVE  SetNew(t, now, delay, Button, n) \in TimerState
<1> DEFINE c == ChannelOf(t, None)
<1>1. now \in Int  BY TimerAssumption DEF Count
<1>2. CASE c \in Channel
  <2>1. SetRepresentation(t, c, now, delay, n) \in TimerState  BY <1>1, <1>2, TimerPieces
  <2>2. Activate(SetRepresentation(t, c, now, delay, n), c, Button) \in TimerState
    BY <1>2, <2>1, TimerPieces, NoneType
  <2>3. Unlock(Activate(SetRepresentation(t, c, now, delay, n), c, Button)) \in TimerState
    BY <2>2, TimerPieces
  <2> QED  BY <1>2, <2>3 DEF SetNew
<1>3. CASE c \notin Channel  BY <1>3 DEF SetNew
<1> QED  BY <1>2, <1>3

LEMMA StopType ==
  ASSUME NEW t \in TimerState, NEW cb
  PROVE  Stop(t, cb) \in TimerState
<1> DEFINE c == ChannelOf(t, cb)
<1>1. CASE c \in Channel
  <2>1. Disable(Forget(t, c), c) \in TimerState  BY <1>1, TimerPieces
  <2> QED  BY <1>1, <2>1, TimerPieces DEF Stop
<1>2. CASE c \notin Channel  BY <1>2, TimerPieces DEF Stop
<1> QED  BY <1>1, <1>2

LEMMA ChangeType ==
  ASSUME NEW t \in TimerState, NEW now, NEW delay \in Count, NEW n \in 0 .. MaxReps, NEW cb
  PROVE  Change(t, now, cb, n, delay) \in TimerState
<1> DEFINE c == ChannelOf(t, cb)
           begun == t.ccr[c] - t.ticks[c]
<1>1. CASE c \notin Channel  BY <1>1, TimerPieces DEF Change
<1>2. CASE c \in Channel /\ Elapsed(now, begun, delay)
  BY <1>2, StopType DEF Change
<1>3. CASE c \in Channel /\ ~Elapsed(now, begun, delay)
  <2>1. t.ccr[c] \in Count /\ t.ticks[c] \in Count  BY <1>3 DEF TimerState
  <2>2. begun \in Int  BY <2>1, TimerAssumption DEF Count
  <2>3. SetRepresentation(t, c, begun, delay, n) \in TimerState
    BY <1>3, <2>2, TimerPieces
  <2>4. Change(t, now, cb, n, delay) = Unlock(SetRepresentation(t, c, begun, delay, n))
    BY <1>3 DEF Change
  <2> QED  BY <2>3, <2>4, TimerPieces
<1> QED  BY <1>1, <1>2, <1>3

(* What the clients rely on in a timer t whose button is in state s: the    *)
(* button holds at most one channel, and only while it waits; when it waits *)
(* for a long press the next match is the last; what is set repeats.        *)
OneChannel(t) == \A c, d \in Channel : t.icb[c] = Button /\ t.icb[d] = Button => c = d
Repeats(t)    == \A c \in Channel : t.icb[c] # None => t.reps[c] # 0
Waits(t, s)   ==
  \A c \in Channel : t.icb[c] = Button =>
    s \in {"REJECTING", "TRIGGERED"} /\ (s = "TRIGGERED" => t.reps[c] = 1)

TimerInv(t, s) == t \in TimerState /\ OneChannel(t) /\ Repeats(t) /\ Waits(t, s)

(* A channel that is free in t stays free, with its repetitions, in u.     *)
FreeKept(t, u) ==
  \A c \in Channel : t.icb[c] = None => u.icb[c] = None /\ u.reps[c] = t.reps[c]

(* What the counter, the calls of a handler and the interrupt do to it.    *)
LEMMA MatchKeeps ==
  ASSUME NEW t, NEW s, TimerInv(t, s), NEW now
  PROVE  /\ TimerInv(Match(t, now), s)
         /\ Match(t, now).icb = t.icb /\ Match(t, now).reps = t.reps
         /\ Match(t, now).irqen = t.irqen
<1>1. /\ Match(t, now) \in TimerState
      /\ Match(t, now).icb = t.icb /\ Match(t, now).reps = t.reps
      /\ Match(t, now).irqen = t.irqen
  BY DEF TimerInv, Match, TimerState
<1> QED  BY <1>1 DEF TimerInv, OneChannel, Repeats, Waits

LEMMA SetNewKeeps ==
  ASSUME NEW t, TimerInv(t, "IDLE"), NEW now \in Count
  PROVE  TimerInv(SetNew(t, now, Reject, Button, 2), "REJECTING")
<1> DEFINE c == ChannelOf(t, None)
           u == SetNew(t, now, Reject, Button, 2)
<1>1. u \in TimerState
  BY SetNewType, NoneType DEF TimerInv
<1>2. CASE c \notin Channel
  <2>1. u = t  BY <1>2 DEF SetNew
  <2> QED  BY <2>1 DEF TimerInv, Waits
<1>3. CASE c \in Channel
  <2>1. /\ u.icb = [t.icb EXCEPT ![c] = Button]
        /\ u.reps = [t.reps EXCEPT ![c] = 2]
    BY <1>3 DEF SetNew, SetRepresentation, Activate, Unlock, TimerInv, TimerState
  <2>2. /\ u.icb[c] = Button /\ u.reps[c] = 2
        /\ \A d \in Channel : d # c => u.icb[d] = t.icb[d] /\ u.reps[d] = t.reps[d]
    BY <1>3, <2>1 DEF TimerInv, TimerState
  <2>3. \A d \in Channel : t.icb[d] # Button
    BY DEF TimerInv, Waits
  <2> HIDE DEF u, c
  <2>4. OneChannel(u) /\ Repeats(u) /\ Waits(u, "REJECTING")
    BY <2>2, <2>3 DEF OneChannel, Repeats, Waits, TimerInv
  <2> QED  BY <1>1, <2>4 DEF TimerInv, u
<1> QED  BY <1>2, <1>3

LEMMA StopKeeps ==
  ASSUME NEW t, NEW s, TimerInv(t, s), NEW after
  PROVE  TimerInv(Stop(t, Button), after) /\ FreeKept(t, Stop(t, Button))
<1> DEFINE c == ChannelOf(t, Button)
           u == Stop(t, Button)
<1>0. c \in Channel => t.icb[c] = Button
  BY ChannelFound
<1>1. u \in TimerState
  BY StopType DEF TimerInv
<1>2. CASE c \notin Channel
  <2>1. \A d \in Channel : t.icb[d] # Button
    BY <1>2, ChannelFound DEF Holds
  <2>2. u.icb = t.icb /\ u.reps = t.reps
    BY <1>2 DEF Stop, Unlock, TimerInv, TimerState
  <2> HIDE DEF u, c
  <2> QED  BY <1>1, <2>1, <2>2 DEF TimerInv, OneChannel, Repeats, Waits, FreeKept, u
<1>3. CASE c \in Channel
  <2>1. u.icb = [t.icb EXCEPT ![c] = None] /\ u.reps = t.reps
    BY <1>3 DEF Stop, Unlock, Disable, Forget, TimerInv, TimerState
  <2>2. /\ u.icb[c] = None
        /\ \A d \in Channel : d # c => u.icb[d] = t.icb[d]
    BY <1>3, <2>1 DEF TimerInv, TimerState
  <2>3. \A d \in Channel : d # c => t.icb[d] # Button
    BY <1>0, <1>3 DEF TimerInv, OneChannel
  <2> HIDE DEF u, c
  <2>4. \A d \in Channel : u.icb[d] # Button
    BY <2>2, <2>3, NoneType
  <2>5. OneChannel(u) /\ Repeats(u) /\ Waits(u, after)
    BY <2>1, <2>2, <2>4 DEF OneChannel, Repeats, Waits, TimerInv
  <2>6. FreeKept(t, u)
    BY <2>1, <2>2 DEF FreeKept
  <2> QED  BY <1>1, <2>5, <2>6 DEF TimerInv, u
<1> QED  BY <1>2, <1>3

LEMMA ChangeKeeps ==
  ASSUME NEW t, TimerInv(t, "REJECTING"), NEW now
  PROVE  LET u == Change(t, now, Button, 1, Residual) IN
           TimerInv(u, "TRIGGERED") /\ FreeKept(t, u)
<1> DEFINE c == ChannelOf(t, Button)
           begun == t.ccr[c] - t.ticks[c]
           u == Change(t, now, Button, 1, Residual)
<1>0. c \in Channel => t.icb[c] = Button
  BY ChannelFound
<1>1. u \in TimerState
  BY ChangeType, NoneType DEF TimerInv
<1>2. CASE c \notin Channel
  <2>1. \A d \in Channel : t.icb[d] # Button
    BY <1>2, ChannelFound DEF Holds
  <2>2. u.icb = t.icb /\ u.reps = t.reps
    BY <1>2 DEF Change, Unlock, TimerInv, TimerState
  <2> HIDE DEF u, c
  <2> QED  BY <1>1, <2>1, <2>2 DEF TimerInv, OneChannel, Repeats, Waits, FreeKept, u
<1>3. CASE c \in Channel /\ Elapsed(now, begun, Residual)
  <2>1. u = Stop(t, Button)  BY <1>3 DEF Change
  <2> QED  BY <2>1, StopKeeps
<1>4. CASE c \in Channel /\ ~Elapsed(now, begun, Residual)
  <2>1. u = Unlock(SetRepresentation(t, c, begun, Residual, 1))
    BY <1>4 DEF Change
  <2>2. u.icb = t.icb /\ u.reps = [t.reps EXCEPT ![c] = 1]
    <3> DEFINE v == (begun + Residual) % Period
    <3>1. u = [[t EXCEPT !.reps[c] = 1, !.ticks[c] = Residual, !.ccr[c] = v, !.flag[c] = FALSE]
                 EXCEPT !.irqen = TRUE]
      BY <2>1 DEF SetRepresentation, Unlock
    <3> HIDE DEF u, c, v
    <3> QED  BY <3>1 DEF TimerInv, TimerState
  <2>3. /\ u.reps[c] = 1
        /\ \A d \in Channel : d # c => u.reps[d] = t.reps[d]
    BY <1>4, <2>2 DEF TimerInv, TimerState
  <2>4. \A d \in Channel : t.icb[d] = Button => d = c
    BY <1>0, <1>4 DEF TimerInv, OneChannel
  <2> HIDE DEF u, c
  <2>5. OneChannel(u) /\ Repeats(u) /\ Waits(u, "TRIGGERED")
    BY <2>2, <2>3, <2>4 DEF OneChannel, Repeats, Waits, TimerInv
  <2>6. FreeKept(t, u)
    BY <1>0, <1>4, <2>2, <2>3, NoneType DEF FreeKept
  <2> QED  BY <1>1, <2>5, <2>6 DEF TimerInv, u
<1> QED  BY <1>2, <1>3, <1>4

LEMMA RearmFields ==
  ASSUME NEW t \in TimerState
  PROVE  LET u == Rearm(t) IN
           /\ u.irqen = t.irqen
           /\ \A c \in Channel :
                /\ u.icb[c] = IF c \in Last(t) THEN None ELSE t.icb[c]
                /\ u.reps[c] = IF c \in Fired(t) /\ t.reps[c] # MaxReps
                                 THEN t.reps[c] - 1 ELSE t.reps[c]
  BY DEF Rearm, TimerState

LEMMA RearmType ==
  ASSUME NEW t \in TimerState, Repeats(t)
  PROVE  Rearm(t) \in TimerState
<1> DEFINE again == Fired(t) \ Last(t)
           icb == [c \in Channel |-> IF c \in Last(t) THEN None ELSE t.icb[c]]
           ie == [c \in Channel |-> t.ie[c] /\ c \notin Last(t)]
           reps == [c \in Channel |-> IF c \in Fired(t) /\ t.reps[c] # MaxReps
                                        THEN t.reps[c] - 1 ELSE t.reps[c]]
           ccr == [c \in Channel |-> IF c \in again THEN (t.ccr[c] + t.ticks[c]) % Period
                                     ELSE t.ccr[c]]
           flag == [c \in Channel |-> t.flag[c] /\ c \notin again]
<1>1. Rearm(t) = [t EXCEPT !.icb = icb, !.ie = ie, !.reps = reps, !.ccr = ccr, !.flag = flag]
  BY DEF Rearm
<1>2. icb \in [Channel -> Callback \cup {None}]
  BY DEF TimerState
<1>3. ie \in [Channel -> BOOLEAN] /\ flag \in [Channel -> BOOLEAN]
  BY DEF TimerState
<1>4. reps \in [Channel -> 0 .. MaxReps]
  <2> SUFFICES ASSUME NEW c \in Channel
               PROVE  (IF c \in Fired(t) /\ t.reps[c] # MaxReps
                         THEN t.reps[c] - 1 ELSE t.reps[c]) \in 0 .. MaxReps
    OBVIOUS
  <2>1. t.reps[c] \in 0 .. MaxReps /\ (c \in Fired(t) => t.reps[c] # 0)
    BY DEF TimerState, Fired, Repeats
  <2> QED  BY <2>1, TimerAssumption
<1>5. ccr \in [Channel -> Count]
  <2> SUFFICES ASSUME NEW c \in Channel
               PROVE  (t.ccr[c] + t.ticks[c]) % Period \in Count /\ t.ccr[c] \in Count
    OBVIOUS
  <2>1. t.ccr[c] \in Count /\ t.ticks[c] \in Count
    BY DEF TimerState
  <2>2. t.ccr[c] + t.ticks[c] \in Int
    BY <2>1, TimerAssumption DEF Count
  <2> QED  BY <2>1, <2>2, Wraps
<1> HIDE DEF icb, ie, reps, ccr, flag
<1> QED  BY <1>1, <1>2, <1>3, <1>4, <1>5 DEF TimerState

LEMMA RearmKeeps ==
  ASSUME NEW t, NEW s, TimerInv(t, s)
  PROVE  /\ TimerInv(Rearm(t), s) /\ FreeKept(t, Rearm(t))
         /\ s = "TRIGGERED" /\ Button \in Scheduled(t) => TimerInv(Rearm(t), "DETECTED_LONG")
<1> DEFINE u == Rearm(t)
<1>1. u \in TimerState
  BY RearmType DEF TimerInv
<1>2. \A c \in Channel :
        /\ u.icb[c] = IF c \in Last(t) THEN None ELSE t.icb[c]
        /\ u.reps[c] = IF c \in Fired(t) /\ t.reps[c] # MaxReps
                         THEN t.reps[c] - 1 ELSE t.reps[c]
  BY RearmFields DEF TimerInv
<1>3. \A c \in Channel : t.reps[c] \in 0 .. MaxReps
  BY DEF TimerInv, TimerState
<1>4. \A c \in Fired(t) : c \in Channel /\ t.icb[c] # None /\ (t.reps[c] = 1 => c \in Last(t))
  BY DEF Fired, Last
<1>5. \A c \in Last(t) : c \in Fired(t)
  BY DEF Last
<1> HIDE DEF u
<1>6. OneChannel(u)
  BY <1>2, NoneType DEF TimerInv, OneChannel
<1>7. Repeats(u)
  <2> SUFFICES ASSUME NEW c \in Channel, u.icb[c] # None PROVE u.reps[c] # 0
    BY DEF Repeats
  <2>1. c \notin Last(t) /\ t.icb[c] # None
    BY <1>2
  <2>2. t.reps[c] # 0
    BY <2>1 DEF TimerInv, Repeats
  <2> QED  BY <1>2, <1>3, <1>4, <2>1, <2>2, TimerAssumption
<1>8. Waits(u, s)
  <2> SUFFICES ASSUME NEW c \in Channel, u.icb[c] = Button
               PROVE  s \in {"REJECTING", "TRIGGERED"} /\ (s = "TRIGGERED" => u.reps[c] = 1)
    BY DEF Waits
  <2>1. c \notin Last(t) /\ t.icb[c] = Button
    BY <1>2, NoneType
  <2>2. s \in {"REJECTING", "TRIGGERED"} /\ (s = "TRIGGERED" => t.reps[c] = 1)
    BY <2>1 DEF TimerInv, Waits
  <2> QED  BY <1>2, <1>4, <2>1, <2>2
<1>9. FreeKept(t, u)
  BY <1>2, <1>4 DEF FreeKept
<1>10. ASSUME s = "TRIGGERED", Button \in Scheduled(t)
       PROVE  Waits(u, "DETECTED_LONG")
  <2>1. PICK c \in Fired(t) : t.icb[c] = Button
    BY <1>10 DEF Scheduled
  <2>2. c \in Last(t)
    BY <1>4, <1>10, <2>1 DEF TimerInv, Waits
  <2>3. \A d \in Channel : d # c => t.icb[d] # Button
    BY <1>4, <2>1 DEF TimerInv, OneChannel
  <2>4. \A d \in Channel : u.icb[d] # Button
    BY <1>2, <1>4, <2>1, <2>2, <2>3, NoneType
  <2> QED  BY <2>4 DEF Waits
<1> QED  BY <1>1, <1>6, <1>7, <1>8, <1>9, <1>10 DEF TimerInv, u

-----------------------------------------------------------------------------
(* What is known of the level of a button that is armed: the level that    *)
(* alarm() has read holds until it acts on it, or its release is missed;   *)
(* from then on it holds, or the edge of its release is pending.           *)
LevelRead ==
  /\ sampled # "none" => state = "REJECTING"
  /\ sampled = "pressed" => held # "no" /\ (held = "yes" => pressed)
LevelWatched ==
  it /\ state = "TRIGGERED" => held # "no" /\ (held = "yes" => pressed \/ pr)

DetInv ==
  /\ pr \in BOOLEAN /\ it \in BOOLEAN /\ pressed \in BOOLEAN
  /\ OneDetector
  /\ LevelRead
  /\ LevelWatched

LEMMA DetInit == Init => DetInv
  BY DEF Init, DetInv, OneDetector, LevelRead, LevelWatched

LEMMA DetTick == DetInv /\ Tick => DetInv'
<1> SUFFICES ASSUME DetInv, Tick PROVE DetInv'
  OBVIOUS
<1>1. sampled = "none" /\ ~(pr /\ it)
  BY DEF Tick, Due
<1>2. /\ UNCHANGED <<trig, pr, it, state, sampled, pressed>>
      /\ held' = IF held = "yes" /\ ~pressed THEN "no" ELSE held
  BY DEF Tick, buttonVars
<1> QED
  BY <1>1, <1>2 DEF DetInv, OneDetector, LevelRead, LevelWatched

LEMMA DetInput == DetInv /\ InputChange => DetInv'
<1> SUFFICES ASSUME DetInv, InputChange PROVE DetInv'
  OBVIOUS
<1>1. /\ UNCHANGED <<trig, it, state, sampled>>
      /\ pressed' = ~pressed
      /\ pr' = (pr \/ (IF pressed THEN "TRAILING" ELSE "LEADING") \in trig)
      /\ held' = IF sampled # "pressed" THEN held ELSE IF pressed THEN "unseen" ELSE "yes"
  BY DEF InputChange
<1>2. pr' \in BOOLEAN /\ it' \in BOOLEAN /\ pressed' \in BOOLEAN
  BY <1>1 DEF DetInv
<1>3. OneDetector'
  BY <1>1 DEF DetInv, OneDetector
<1>4. LevelRead'
  BY <1>1 DEF DetInv, LevelRead
<1>5. LevelWatched'
  <2> SUFFICES ASSUME it, state = "TRIGGERED" PROVE LevelWatched'
    BY <1>1 DEF LevelWatched
  <2>1. trig = {"TRAILING"} /\ held' = held /\ held # "no"
    BY <1>1 DEF DetInv, OneDetector, LevelRead, LevelWatched
  <2>2. pressed' \/ pr'
    BY <1>1, <2>1
  <2> QED  BY <2>1, <2>2 DEF LevelWatched
<1> QED  BY <1>2, <1>3, <1>4, <1>5 DEF DetInv

LEMMA DetHandler == DetInv /\ Handler => DetInv'
<1> SUFFICES ASSUME DetInv, Handler PROVE DetInv'
  OBVIOUS
<1> USE DEF DetInv, OneDetector, LevelRead, LevelWatched, EnableTrig, DisableTrig
<1>1. CASE EdgeHandler
  <2>1. CASE "LEADING" \in trig
    BY <1>1, <2>1 DEF EdgeHandler
  <2>2. CASE "LEADING" \notin trig
    BY <1>1, <2>2 DEF EdgeHandler
  <2> QED  BY <2>1, <2>2
<1>2. CASE AlarmHandler
  <2>1. CASE state = "REJECTING"
    BY <1>2, <2>1 DEF AlarmHandler
  <2>2. CASE state = "TRIGGERED"
    BY <1>2, <2>2 DEF AlarmHandler
  <2>3. CASE state \notin {"REJECTING", "TRIGGERED"}
    BY <1>2, <2>3 DEF AlarmHandler
  <2> QED  BY <2>1, <2>2, <2>3
<1>3. CASE ActualPress
  BY <1>3 DEF ActualPress
<1>4. CASE SpuriousEdge
  BY <1>4 DEF SpuriousEdge
<1> QED  BY <1>1, <1>2, <1>3, <1>4 DEF Handler

LEMMA DetMain == DetInv /\ Main => DetInv'
<1> SUFFICES ASSUME DetInv, Main PROVE DetInv'
  OBVIOUS
<1>1. sampled = "none"
  BY DEF Main, InSetAlarm, At, Due, Enable, ShortPress, LongPress, Consume, DisableButton,
     WriteOver, WriteLong, HoldDone, NewRepresent, NewLock, NewStart, NewDone,
     StopLock, StopFind, StopForget, StopDisable, StopDone
<1> USE DEF DetInv, OneDetector, LevelRead, LevelWatched, EnableTrig, DisableTrig
<1>2. CASE Enable
  BY <1>1, <1>2 DEF Enable
<1>3. CASE ShortPress \/ LongPress
  BY <1>1, <1>3 DEF ShortPress, LongPress, Consume
<1>4. CASE DisableButton
  BY <1>1, <1>4 DEF DisableButton
<1>5. CASE WriteOver \/ WriteLong \/ HoldDone
  BY <1>1, <1>5 DEF WriteOver, WriteLong, HoldDone, buttonVars
<1>6. CASE NewRepresent \/ NewLock \/ NewStart \/ NewDone
  BY <1>1, <1>6 DEF NewRepresent, NewLock, NewStart, NewDone, InCallOnly, buttonVars
<1>7. CASE StopLock \/ StopFind \/ StopForget \/ StopDisable
  BY <1>1, <1>7 DEF StopLock, StopFind, StopForget, StopDisable, InCallOnly, buttonVars
<1>8. CASE StopDone
  BY <1>1, <1>8 DEF StopDone
<1> QED  BY <1>2, <1>3, <1>4, <1>5, <1>6, <1>7, <1>8 DEF Main, InSetAlarm

LEMMA DetStep == DetInv /\ [Next]_vars => DetInv'
<1>1. CASE UNCHANGED vars
  BY <1>1 DEF vars, DetInv, OneDetector, LevelRead, LevelWatched
<1> QED
  BY <1>1, DetTick, DetInput, DetHandler, DetMain DEF Next

(* The edge detector is the one of the state, and no edge is pending      *)
(* without one: wherever the input changes.                                *)
THEOREM DetectorsExclude == Spec => []OneDetector
<1>1. DetInv => OneDetector  BY DEF DetInv
<1> QED  BY <1>1, DetInit, DetStep, PTL DEF Spec

(* A long press is of a button that was active at every tick since the     *)
(* debouncing ended: wherever the input changes.                           *)
THEOREM LongPressesAreHeld == Spec => LongMeansHeld
<1>1. DetInv /\ [Next]_vars
      => [it /\ state' = "DETECTED_LONG" /\ state # "DETECTED_LONG" => held # "no"]_vars
  <2> SUFFICES ASSUME DetInv, Next, it, state' = "DETECTED_LONG", state # "DETECTED_LONG"
               PROVE  held # "no"
    OBVIOUS
  <2>1. AlarmHandler
    BY DEF Next, Tick, InputChange, Handler, EdgeHandler, ActualPress, SpuriousEdge,
       Main, InSetAlarm, Enable, ShortPress, LongPress, Consume, DisableButton,
       WriteOver, WriteLong, HoldDone, NewRepresent, NewLock, NewStart, NewDone,
       StopLock, StopFind, StopForget, StopDisable, StopDone, InCallOnly, buttonVars
  <2>2. state = "TRIGGERED"
    BY <2>1 DEF AlarmHandler
  <2> QED  BY <2>2 DEF DetInv, LevelWatched
<1> QED  BY <1>1, DetInit, DetStep, PTL DEF Spec, LongMeansHeld

-----------------------------------------------------------------------------
(* What holds between two steps of a setAlarm() of main, provided the line *)
(* is quiet meanwhile: no edge is pending, nobody touches a representation *)
(* that is locked, and what main has found is still so.                    *)
Locked == {"start", "started", "find", "forget", "disable", "stopped"}

CallQuiet == InCall => ~(pr /\ it)
LockKept  == pc \in Locked => ~tim.irqen /\ sampled = "none"
NewFound  ==
  /\ pc \in {"represent", "lock", "start"} => idx \in Channel /\ tim.icb[idx] = None
  /\ pc \in {"lock", "start"} => tim.reps[idx] # 0
StopFound ==
  /\ pc \in {"forget", "disable"} => idx \in Channel
  /\ pc = "forget" => tim.icb[idx] = stopping
  /\ pc \in {"disable", "stopped"} /\ stopping = Button => ~Holds(tim, Button)

AlarmInv ==
  /\ TypeOK
  /\ TimerInv(tim, state)
  /\ CallQuiet /\ LockKept /\ NewFound /\ StopFound

LEMMA NothingHeld ==
  ASSUME NEW t, NEW s, TimerInv(t, s), s \notin {"REJECTING", "TRIGGERED"}, NEW after
  PROVE  TimerInv(t, after)
  BY DEF TimerInv, Waits

LEMMA NothingFound ==
  ASSUME NEW t, NEW s, TimerInv(t, s), ~Holds(t, Button), NEW after
  PROVE  TimerInv(t, after)
  BY DEF TimerInv, Waits, Holds

LEMMA AlarmInit == Init => AlarmInv
<1> SUFFICES ASSUME Init PROVE AlarmInv
  OBVIOUS
<1>1. tim \in TimerState
  BY NoneType DEF Init, IdleTimer, TimerState
<1>2. \A c \in Channel : tim.icb[c] = None
  BY DEF Init, IdleTimer
<1>3. TimerInv(tim, state)
  BY <1>1, <1>2, NoneType DEF TimerInv, OneChannel, Repeats, Waits
<1>4. TypeOK
  <2>1. 0 \in 0 .. NChannels /\ 0 \in 0 .. MaxLag
    BY TimerAssumption, ButtonAssumption
  <2> QED  BY <1>1, <2>1, NoneType DEF Init, TypeOK, States, Points
<1>5. pc = "poll" /\ ~InCall
  BY DEF Init, InCall, NewPoints, StopPoints
<1> QED
  BY <1>3, <1>4, <1>5 DEF AlarmInv, CallQuiet, LockKept, NewFound, StopFound, Locked

LEMMA AlarmTick == AlarmInv /\ Tick => AlarmInv'
<1> SUFFICES ASSUME AlarmInv, Tick PROVE AlarmInv'
  OBVIOUS
<1>1. TimerInv(tim, state)
  BY DEF AlarmInv
<1>2. /\ tim' = Match(tim, cnt')
      /\ UNCHANGED <<trig, pr, it, state, pressed, sampled, pc, start, idx, stopping, scrolled>>
  BY DEF Tick, buttonVars
<1>3. TimerInv(tim', state') /\ tim'.icb = tim.icb /\ tim'.reps = tim.reps /\ tim'.irqen = tim.irqen
  BY <1>1, <1>2, MatchKeeps
<1>4. TypeOK'
  <2>1. cnt' \in Count
    <3>1. cnt + 1 \in Int  BY TimerAssumption DEF AlarmInv, TypeOK, Count
    <3> QED  BY <3>1, Wraps DEF Tick
  <2>2. lag' \in 0 .. MaxLag
    BY ButtonAssumption DEF Tick, AlarmInv, TypeOK
  <2>3. held' \in {"yes", "no", "unseen"}
    BY DEF Tick, AlarmInv, TypeOK
  <2> QED  BY <1>2, <1>3, <2>1, <2>2, <2>3 DEF AlarmInv, TypeOK, TimerInv
<1>5. CallQuiet' /\ LockKept' /\ NewFound' /\ StopFound'
  BY <1>2, <1>3 DEF AlarmInv, CallQuiet, LockKept, NewFound, StopFound, InCall, Holds
<1> QED  BY <1>3, <1>4, <1>5 DEF AlarmInv

LEMMA AlarmInput ==
  ASSUME "call" \notin EdgesAt
  PROVE  AlarmInv /\ InputChange => AlarmInv'
<1> SUFFICES ASSUME AlarmInv, InputChange PROVE AlarmInv'
  OBVIOUS
<1>1. UNCHANGED <<cnt, tim, trig, it, state, sampled, pc, start, idx, stopping, lag, scrolled>>
  BY DEF InputChange, mainVars
<1>2. ~InCall /\ ~InCall'
  BY <1>1 DEF InputChange, InCall
<1>3. pressed' \in BOOLEAN /\ pr' \in BOOLEAN /\ held' \in {"yes", "no", "unseen"}
  BY DEF InputChange, AlarmInv, TypeOK
<1>4. TypeOK'
  BY <1>1, <1>3 DEF AlarmInv, TypeOK
<1> QED
  BY <1>1, <1>2, <1>4
  DEF AlarmInv, CallQuiet, LockKept, NewFound, StopFound, Locked, InCall, NewPoints, StopPoints

(* A handler that touches the timer during a call of main leaves what main *)
(* has found: it runs before the lock, and frees channels at most.         *)
LEMMA HandlerInCall ==
  ASSUME AlarmInv, UNCHANGED <<pc, idx, stopping>>,
         InCall => FreeKept(tim, tim') /\ pc \notin Locked
  PROVE  LockKept' /\ NewFound' /\ StopFound'
<1>1. pc \in Locked => InCall
  BY DEF Locked, InCall, NewPoints, StopPoints
<1>2. LockKept'
  BY <1>1 DEF LockKept, Locked
<1>3. StopFound'
  BY <1>1 DEF StopFound, Locked
<1>4. NewFound'
  <2>1. pc \in {"represent", "lock", "start"} => InCall
    BY DEF InCall, NewPoints
  <2> QED  BY <1>1, <2>1 DEF NewFound, AlarmInv, FreeKept, Locked
<1> QED  BY <1>2, <1>3, <1>4

LEMMA AlarmHandlers == AlarmInv /\ DetInv /\ Handler => AlarmInv'
<1> SUFFICES ASSUME AlarmInv, DetInv, Handler PROVE AlarmInv'
  OBVIOUS
<1>0. TimerInv(tim, state) /\ cnt \in Count
  BY DEF AlarmInv, TypeOK
<1>1. CASE EdgeHandler
  <2>1. ~InCall /\ UNCHANGED <<pc, idx, stopping>> /\ ~InCall'
    BY <1>1 DEF EdgeHandler, AlarmInv, CallQuiet, mainVars, InCall
  <2>2. CASE "LEADING" \in trig
    <3>1. state = "IDLE"
      BY <2>2 DEF DetInv, OneDetector
    <3>2. TimerInv(tim', state')
      BY <1>0, <1>1, <2>2, <3>1, SetNewKeeps DEF EdgeHandler
    <3>3. TypeOK'
      BY <1>1, <2>2, <3>2
      DEF EdgeHandler, AlarmInv, TypeOK, TimerInv, DisableTrig, mainVars, States
    <3> QED  BY <2>1, <3>2, <3>3, HandlerInCall DEF AlarmInv, CallQuiet
  <2>3. CASE "LEADING" \notin trig
    <3>1. TimerInv(tim', state')
      BY <1>0, <1>1, <2>3, StopKeeps DEF EdgeHandler
    <3>2. TypeOK'
      BY <1>1, <2>3, <3>1
      DEF EdgeHandler, AlarmInv, TypeOK, TimerInv, DisableTrig, mainVars, States
    <3> QED  BY <2>1, <3>1, <3>2, HandlerInCall DEF AlarmInv, CallQuiet
  <2> QED  BY <2>2, <2>3
<1>2. CASE AlarmHandler
  <2>1. tim' = Rearm(tim) /\ UNCHANGED <<cnt, it, pressed, pc, start, idx, stopping, lag>>
    BY <1>2 DEF AlarmHandler, mainVars
  <2>2. TimerInv(tim', state') /\ FreeKept(tim, tim')
    BY <1>0, <1>2, <2>1, RearmKeeps DEF AlarmHandler
  <2>3. pc \notin Locked
    BY <1>2 DEF AlarmHandler, Pending, AlarmInv, LockKept
  <2>4. trig' \subseteq Edge /\ pr' \in BOOLEAN /\ (pr' => pr)
    BY <1>2 DEF AlarmHandler, AlarmInv, TypeOK, DisableTrig
  <2>5. /\ state' \in States /\ sampled' \in {"none", "pressed", "released"}
        /\ scrolled' \in BOOLEAN /\ held' \in {"yes", "no", "unseen"}
    BY <1>2 DEF AlarmHandler, AlarmInv, TypeOK, States
  <2>6. TypeOK'
    BY <2>1, <2>2, <2>4, <2>5 DEF AlarmInv, TypeOK, TimerInv
  <2>7. CallQuiet'
    BY <2>1, <2>4 DEF AlarmInv, CallQuiet, InCall
  <2> QED  BY <2>1, <2>2, <2>3, <2>6, <2>7, HandlerInCall DEF AlarmInv
<1>3. CASE ActualPress
  <2>1. state = "REJECTING" /\ pc \notin Locked
    BY <1>3 DEF ActualPress, DetInv, LevelRead, AlarmInv, LockKept
  <2>2. TimerInv(tim', state') /\ FreeKept(tim, tim')
    BY <1>0, <1>3, <2>1, ChangeKeeps DEF ActualPress
  <2>3. TypeOK'
    BY <1>3, <2>2
    DEF ActualPress, AlarmInv, TypeOK, TimerInv, EnableTrig, mainVars, States, Edge
  <2>4. CallQuiet' /\ UNCHANGED <<pc, idx, stopping>>
    BY <1>3 DEF ActualPress, AlarmInv, CallQuiet, InCall, EnableTrig, mainVars
  <2> QED  BY <2>1, <2>2, <2>3, <2>4, HandlerInCall DEF AlarmInv
<1>4. CASE SpuriousEdge
  <2>1. pc \notin Locked
    BY <1>4 DEF SpuriousEdge, AlarmInv, LockKept
  <2>2. TimerInv(tim', state') /\ FreeKept(tim, tim')
    BY <1>0, <1>4, StopKeeps DEF SpuriousEdge
  <2>3. TypeOK'
    BY <1>4, <2>2
    DEF SpuriousEdge, AlarmInv, TypeOK, TimerInv, EnableTrig, mainVars, States, Edge
  <2>4. CallQuiet' /\ UNCHANGED <<pc, idx, stopping>>
    BY <1>4 DEF SpuriousEdge, AlarmInv, CallQuiet, InCall, EnableTrig, mainVars
  <2> QED  BY <2>1, <2>2, <2>3, <2>4, HandlerInCall DEF AlarmInv
<1> QED  BY <1>1, <1>2, <1>3, <1>4 DEF Handler

-----------------------------------------------------------------------------
(* What a step of a call of main does to the timer.                        *)
LEMMA StepsOfSetAlarm ==
  ASSUME NEW t, NEW s, TimerInv(t, s), NEW c \in Channel
  PROVE  /\ TimerInv(Lock(t), s) /\ Lock(t).icb = t.icb /\ Lock(t).reps = t.reps
         /\ ~Lock(t).irqen
         /\ TimerInv(Unlock(t), s)
         /\ TimerInv(Disable(t, c), s) /\ Disable(t, c).icb = t.icb
         /\ Disable(t, c).irqen = t.irqen
         /\ TimerInv(Forget(t, c), s) /\ Forget(t, c).icb = [t.icb EXCEPT ![c] = None]
         /\ Forget(t, c).irqen = t.irqen
         /\ t.icb[c] = None /\ t.reps[c] # 0 =>
              TimerInv(Activate(t, c, Display), s) /\ Activate(t, c, Display).irqen = t.irqen
<1>0. t \in TimerState
  BY DEF TimerInv
<1>1. TimerInv(Lock(t), s) /\ Lock(t).icb = t.icb /\ Lock(t).reps = t.reps /\ ~Lock(t).irqen
  <2>1. Lock(t).icb = t.icb /\ Lock(t).reps = t.reps /\ ~Lock(t).irqen
    BY <1>0 DEF Lock, TimerState
  <2> QED  BY <1>0, <2>1, TimerPieces DEF TimerInv, OneChannel, Repeats, Waits
<1>2. TimerInv(Unlock(t), s)
  <2>1. Unlock(t).icb = t.icb /\ Unlock(t).reps = t.reps
    BY <1>0 DEF Unlock, TimerState
  <2> QED  BY <1>0, <2>1, TimerPieces DEF TimerInv, OneChannel, Repeats, Waits
<1>3. TimerInv(Disable(t, c), s) /\ Disable(t, c).icb = t.icb /\ Disable(t, c).irqen = t.irqen
  <2>1. /\ Disable(t, c).icb = t.icb /\ Disable(t, c).reps = t.reps
        /\ Disable(t, c).irqen = t.irqen
    BY <1>0 DEF Disable, TimerState
  <2> QED  BY <1>0, <2>1, TimerPieces DEF TimerInv, OneChannel, Repeats, Waits
<1>4. /\ TimerInv(Forget(t, c), s) /\ Forget(t, c).icb = [t.icb EXCEPT ![c] = None]
      /\ Forget(t, c).irqen = t.irqen
  <2>1. /\ Forget(t, c).icb = [t.icb EXCEPT ![c] = None] /\ Forget(t, c).reps = t.reps
        /\ Forget(t, c).irqen = t.irqen
    BY <1>0 DEF Forget, TimerState
  <2>2. \A d \in Channel : Forget(t, c).icb[d] = IF d = c THEN None ELSE t.icb[d]
    BY <1>0, <2>1 DEF TimerState
  <2> QED  BY <1>0, <2>1, <2>2, TimerPieces, NoneType DEF TimerInv, OneChannel, Repeats, Waits
<1>5. ASSUME t.icb[c] = None, t.reps[c] # 0
      PROVE  TimerInv(Activate(t, c, Display), s) /\ Activate(t, c, Display).irqen = t.irqen
  <2>1. /\ Activate(t, c, Display).icb = [t.icb EXCEPT ![c] = Display]
        /\ Activate(t, c, Display).reps = t.reps
        /\ Activate(t, c, Display).irqen = t.irqen
    BY <1>0 DEF Activate, TimerState
  <2>2. \A d \in Channel :
          Activate(t, c, Display).icb[d] = IF d = c THEN Display ELSE t.icb[d]
    BY <1>0, <2>1 DEF TimerState
  <2>3. Activate(t, c, Display) \in TimerState
    BY <1>0, TimerPieces, NoneType
  <2> QED  BY <1>5, <2>1, <2>2, <2>3, NoneType DEF TimerInv, OneChannel, Repeats, Waits
<1> QED  BY <1>1, <1>2, <1>3, <1>4, <1>5

LEMMA RepresentKeeps ==
  ASSUME NEW t, NEW s, TimerInv(t, s), NEW c \in Channel, t.icb[c] = None,
         NEW now \in Count
  PROVE  LET u == SetRepresentation(t, c, now, ScrollDelay, 0) IN
           /\ TimerInv(u, s) /\ u.irqen = t.irqen
           /\ u.icb = t.icb /\ u.reps[c] # 0
<1> DEFINE u == SetRepresentation(t, c, now, ScrollDelay, 0)
           v == (now + ScrollDelay) % Period
<1>0. t \in TimerState
  BY DEF TimerInv
<1>1. u \in TimerState
  <2>1. now \in Int  BY TimerAssumption DEF Count
  <2> QED  BY <1>0, <2>1, TimerPieces, NoneType
<1>2. u = [t EXCEPT !.reps[c] = MaxReps, !.ticks[c] = ScrollDelay, !.ccr[c] = v, !.flag[c] = FALSE]
  BY DEF SetRepresentation
<1> HIDE DEF u, v
<1>3. u.icb = t.icb /\ u.reps = [t.reps EXCEPT ![c] = MaxReps] /\ u.irqen = t.irqen
  BY <1>0, <1>2 DEF TimerState
<1>4. \A d \in Channel : u.reps[d] = IF d = c THEN MaxReps ELSE t.reps[d]
  BY <1>0, <1>3 DEF TimerState
<1>5. MaxReps # 0
  BY TimerAssumption
<1>6. OneChannel(u) /\ Repeats(u) /\ Waits(u, s)
  BY <1>3, <1>4, <1>5, NoneType DEF TimerInv, OneChannel, Repeats, Waits
<1> QED  BY <1>1, <1>3, <1>4, <1>5, <1>6 DEF TimerInv, u

(* The polls and calls of main that do not touch the timer.                *)
LEMMA AlarmPolls ==
  ASSUME AlarmInv, DetInv, Enable \/ ShortPress \/ LongPress \/ HoldDone
  PROVE  AlarmInv'
<1>1. /\ UNCHANGED <<cnt, tim, pressed, sampled, stopping, lag, scrolled, held>>
      /\ pc \notin NewPoints \cup StopPoints /\ pc' = "poll"
      /\ start' \in Count /\ idx' \in 0 .. NChannels
  <2>1. 0 \in 0 .. NChannels  BY TimerAssumption
  <2> QED
    BY <2>1, NoneType
    DEF Enable, ShortPress, LongPress, Consume, HoldDone, At, mainVars, AlarmInv, TypeOK,
        NewPoints, StopPoints
<1>2. /\ state' \in States /\ it' \in BOOLEAN /\ trig' \subseteq Edge /\ pr' \in BOOLEAN
      /\ state' = state \/ state \notin {"REJECTING", "TRIGGERED"}
  BY DEF Enable, ShortPress, LongPress, Consume, HoldDone, EnableTrig, buttonVars, AlarmInv,
     TypeOK, States, Edge
<1>3. TimerInv(tim', state')
  BY <1>1, <1>2, NothingHeld DEF AlarmInv
<1>4. TypeOK'
  BY <1>1, <1>2 DEF AlarmInv, TypeOK, Points
<1> QED
  BY <1>1, <1>3, <1>4
  DEF AlarmInv, CallQuiet, LockKept, NewFound, StopFound, Locked, InCall, NewPoints, StopPoints

(* The entries of a call: no handler is due, so no edge is pending.        *)
LEMMA AlarmEntries ==
  ASSUME AlarmInv, DisableButton \/ WriteOver \/ WriteLong
  PROVE  AlarmInv'
<1>0. ~(pr /\ it)
  BY DEF DisableButton, WriteOver, WriteLong, At, Due
<1>1. /\ UNCHANGED <<cnt, tim, trig, pr, pressed, state, sampled, held>>
      /\ it' \in {it, FALSE} /\ it' \in BOOLEAN /\ lag' = 0
  <2>1. it \in BOOLEAN  BY DEF AlarmInv, TypeOK
  <2>2. CASE DisableButton  BY <2>2 DEF DisableButton
  <2>3. CASE WriteOver  BY <2>1, <2>3 DEF WriteOver, buttonVars
  <2>4. CASE WriteLong  BY <2>1, <2>4 DEF WriteLong, buttonVars
  <2> QED  BY <2>2, <2>3, <2>4
<1>2. TimerInv(tim', state') /\ CallQuiet'
  <2>1. CASE it' = it  BY <1>0, <1>1, <2>1 DEF AlarmInv, CallQuiet
  <2>2. CASE it' = FALSE  BY <1>1, <2>2 DEF AlarmInv, CallQuiet
  <2> QED  BY <1>1, <2>1, <2>2
<1>3. 0 \in 0 .. MaxLag
  BY ButtonAssumption
<1>4. CASE DisableButton \/ WriteOver
  <2>1. /\ pc' = "stop" /\ stopping' \in {Button, Display}
        /\ UNCHANGED <<start, idx, scrolled>>
    BY <1>4 DEF DisableButton, WriteOver
  <2>2. TypeOK'
    BY <1>1, <1>3, <2>1, NoneType DEF AlarmInv, TypeOK, Points, NewPoints, StopPoints
  <2> QED
    BY <1>2, <2>1, <2>2 DEF AlarmInv, LockKept, NewFound, StopFound, Locked
<1>5. CASE WriteLong
  <2>1. /\ idx' = ChannelOf(tim, None) /\ start' = cnt /\ scrolled' = FALSE
        /\ pc' = IF idx' \in Channel THEN "represent" ELSE "hold"
        /\ UNCHANGED stopping
    BY <1>5 DEF WriteLong
  <2>2. idx' \in 0 .. NChannels /\ (idx' \in Channel => tim.icb[idx'] = None)
    BY <2>1, ChannelFound
  <2>3. TypeOK'
    BY <1>1, <1>3, <2>1, <2>2 DEF AlarmInv, TypeOK, Points, NewPoints, StopPoints
  <2> QED
    BY <1>1, <1>2, <2>1, <2>2, <2>3 DEF AlarmInv, LockKept, NewFound, StopFound, Locked
<1> QED  BY <1>4, <1>5

(* A new alarm of main, step by step.                                      *)
LEMMA AlarmNew ==
  ASSUME AlarmInv, NewRepresent \/ NewLock \/ NewStart \/ NewDone
  PROVE  AlarmInv'
<1>1. /\ UNCHANGED <<idx, cnt, trig, pr, it, state, pressed, sampled, start, stopping, lag,
                    scrolled, held>>
      /\ sampled = "none" /\ pc' \in {"lock", "start", "started", "hold"}
      /\ pc \in {"represent", "lock", "start", "started"}
  BY DEF NewRepresent, NewLock, NewStart, NewDone, InCallOnly, buttonVars, At, Due
<1>2. CallQuiet'
  BY <1>1 DEF AlarmInv, CallQuiet, InCall, NewPoints
<1>3. TimerInv(tim, state) /\ start \in Count /\ (pc # "started" => idx \in Channel)
  BY <1>1 DEF AlarmInv, TypeOK, NewFound
<1>4. ASSUME TimerInv(tim', state') PROVE TypeOK'
  BY <1>1, <1>4 DEF AlarmInv, TypeOK, TimerInv, Points, NewPoints
<1>5. StopFound'
  BY <1>1 DEF StopFound
<1>6. CASE NewRepresent
  <2>1. pc = "represent" /\ pc' = "lock" /\ tim' = SetRepresentation(tim, idx, start, ScrollDelay, 0)
    BY <1>6 DEF NewRepresent, At
  <2>2. idx \in Channel /\ tim.icb[idx] = None
    BY <2>1 DEF AlarmInv, NewFound
  <2>3. TimerInv(tim', state') /\ tim'.icb = tim.icb /\ tim'.reps[idx] # 0
    BY <1>1, <1>3, <2>1, <2>2, RepresentKeeps
  <2> QED
    BY <1>1, <1>2, <1>4, <1>5, <2>1, <2>2, <2>3 DEF AlarmInv, LockKept, NewFound, Locked
<1>7. CASE NewLock
  <2>1. pc = "lock" /\ pc' = "start" /\ tim' = Lock(tim)
    BY <1>7 DEF NewLock, At
  <2>2. idx \in Channel /\ tim.icb[idx] = None /\ tim.reps[idx] # 0
    BY <2>1 DEF AlarmInv, NewFound
  <2>3. /\ TimerInv(tim', state') /\ tim'.icb = tim.icb /\ tim'.reps = tim.reps
        /\ ~tim'.irqen
    BY <1>1, <1>3, <2>1, <2>2, StepsOfSetAlarm
  <2> QED
    BY <1>1, <1>2, <1>4, <1>5, <2>1, <2>2, <2>3 DEF AlarmInv, LockKept, NewFound, Locked
<1>8. CASE NewStart
  <2>1. pc = "start" /\ idx \in Channel /\ tim.icb[idx] = None /\ tim.reps[idx] # 0 /\ ~tim.irqen
    BY <1>8 DEF NewStart, At, AlarmInv, NewFound, LockKept, Locked
  <2>2. CASE Elapsed(cnt, start, ScrollDelay)
    <3>1. tim' = Unlock(tim) /\ pc' = "hold"
      BY <1>8, <2>2 DEF NewStart
    <3>2. TimerInv(tim', state')
      BY <1>1, <1>3, <2>1, <3>1, StepsOfSetAlarm
    <3> QED
      BY <1>1, <1>2, <1>4, <1>5, <3>1, <3>2 DEF AlarmInv, LockKept, NewFound, Locked
  <2>3. CASE ~Elapsed(cnt, start, ScrollDelay)
    <3>1. tim' = Activate(tim, idx, Display) /\ pc' = "started"
      BY <1>8, <2>3 DEF NewStart
    <3>2. TimerInv(tim', state) /\ tim'.irqen = tim.irqen
      BY <1>3, <2>1, <3>1, StepsOfSetAlarm
    <3>3. TimerInv(tim', state') /\ ~tim'.irqen
      BY <1>1, <2>1, <3>2
    <3> QED
      BY <1>1, <1>2, <1>4, <1>5, <3>1, <3>3 DEF AlarmInv, LockKept, NewFound, Locked
  <2> QED  BY <2>2, <2>3
<1>9. CASE NewDone
  <2>1. tim' = Unlock(tim) /\ pc' = "hold"
    BY <1>9 DEF NewDone
  <2>2. 0 \in Channel
    BY TimerAssumption DEF Channel
  <2>3. TimerInv(tim', state')
    BY <1>1, <1>3, <2>1, <2>2, StepsOfSetAlarm
  <2> QED
    BY <1>1, <1>2, <1>4, <1>5, <2>1, <2>3 DEF AlarmInv, LockKept, NewFound, Locked
<1> QED  BY <1>6, <1>7, <1>8, <1>9

(* Stopping an alarm, step by step.                                        *)
LEMMA AlarmStop ==
  ASSUME AlarmInv, StopLock \/ StopFind \/ StopForget \/ StopDisable
  PROVE  AlarmInv'
<1>1. /\ UNCHANGED <<cnt, trig, pr, it, state, pressed, sampled, start, stopping, lag,
                    scrolled, held>>
      /\ sampled = "none" /\ pc' \in {"find", "forget", "disable", "stopped"}
      /\ pc \in {"stop", "find", "forget", "disable"}
  BY DEF StopLock, StopFind, StopForget, StopDisable, InCallOnly, buttonVars, At, Due
<1>2. CallQuiet'
  BY <1>1 DEF AlarmInv, CallQuiet, InCall, StopPoints
<1>3. TimerInv(tim, state)
  BY DEF AlarmInv
<1>4. ASSUME TimerInv(tim', state'), idx' \in 0 .. NChannels PROVE TypeOK'
  BY <1>1, <1>4 DEF AlarmInv, TypeOK, TimerInv, Points, StopPoints
<1>5. NewFound'
  BY <1>1 DEF NewFound
<1>6. 0 \in Channel /\ idx \in 0 .. NChannels
  BY TimerAssumption DEF Channel, AlarmInv, TypeOK
<1>7. CASE StopLock
  <2>1. pc' = "find" /\ tim' = Lock(tim) /\ idx' = idx
    BY <1>7 DEF StopLock
  <2>2. TimerInv(tim', state') /\ ~tim'.irqen
    BY <1>1, <1>3, <1>6, <2>1, StepsOfSetAlarm
  <2> QED
    BY <1>1, <1>2, <1>4, <1>5, <1>6, <2>1, <2>2 DEF AlarmInv, LockKept, StopFound, Locked
<1>8. CASE StopFind
  <2>1. /\ pc = "find" /\ tim' = tim /\ idx' = ChannelOf(tim, stopping)
        /\ pc' = IF idx' \in Channel THEN "forget" ELSE "stopped"
    BY <1>8 DEF StopFind, At
  <2>2. /\ idx' \in 0 .. NChannels
        /\ idx' \in Channel => tim.icb[idx'] = stopping
        /\ idx' \notin Channel => ~Holds(tim, stopping)
    BY <2>1, ChannelFound
  <2>3. ~tim.irqen
    BY <2>1 DEF AlarmInv, LockKept, Locked
  <2> QED
    BY <1>1, <1>2, <1>3, <1>4, <1>5, <2>1, <2>2, <2>3
    DEF AlarmInv, LockKept, StopFound, Locked
<1>9. CASE StopForget
  <2>1. /\ pc = "forget" /\ pc' = "disable" /\ tim' = Forget(tim, idx) /\ idx' = idx
    BY <1>9 DEF StopForget, At
  <2>2. idx \in Channel /\ tim.icb[idx] = stopping /\ ~tim.irqen
    BY <2>1 DEF AlarmInv, StopFound, LockKept, Locked
  <2>3. /\ TimerInv(tim', state') /\ tim'.icb = [tim.icb EXCEPT ![idx] = None]
        /\ ~tim'.irqen
    BY <1>1, <1>3, <2>1, <2>2, StepsOfSetAlarm
  <2>4. stopping = Button => ~Holds(tim', Button)
    <3> SUFFICES ASSUME stopping = Button, NEW c \in Channel PROVE tim'.icb[c] # Button
      BY DEF Holds
    <3>1. CASE c = idx
      BY <2>2, <2>3, <3>1, NoneType DEF TimerInv, TimerState, AlarmInv, TypeOK
    <3>2. CASE c # idx
      BY <2>2, <2>3, <3>2, <1>3 DEF TimerInv, OneChannel, TimerState
    <3> QED  BY <3>1, <3>2
  <2> QED
    BY <1>1, <1>2, <1>4, <1>5, <1>6, <2>1, <2>2, <2>3, <2>4
    DEF AlarmInv, LockKept, StopFound, Locked
<1>10. CASE StopDisable
  <2>1. /\ pc = "disable" /\ pc' = "stopped" /\ tim' = Disable(tim, idx) /\ idx' = idx
    BY <1>10 DEF StopDisable, At
  <2>2. idx \in Channel /\ ~tim.irqen /\ (stopping = Button => ~Holds(tim, Button))
    BY <2>1 DEF AlarmInv, StopFound, LockKept, Locked
  <2>4. TimerInv(tim', state) /\ tim'.icb = tim.icb /\ tim'.irqen = tim.irqen
    BY <1>3, <2>1, <2>2, StepsOfSetAlarm
  <2>3. TimerInv(tim', state') /\ tim'.icb = tim.icb /\ ~tim'.irqen
    BY <1>1, <2>2, <2>4
  <2> QED
    BY <1>1, <1>2, <1>4, <1>5, <1>6, <2>1, <2>2, <2>3
    DEF AlarmInv, LockKept, StopFound, Locked, Holds
<1> QED  BY <1>7, <1>8, <1>9, <1>10

LEMMA AlarmStopDone ==
  ASSUME AlarmInv, StopDone
  PROVE  AlarmInv'
<1>1. /\ UNCHANGED <<cnt, it, pressed, sampled, start, lag, scrolled, held>>
      /\ pc = "stopped" /\ pc' = "poll" /\ tim' = Unlock(tim) /\ stopping' = None /\ idx' = 0
  BY DEF StopDone, At
<1>2. /\ state' \in States /\ trig' \subseteq Edge /\ pr' \in BOOLEAN
      /\ stopping # Button => state' = state
  BY DEF StopDone, AlarmInv, TypeOK, States
<1>3. 0 \in Channel /\ 0 \in 0 .. NChannels
  BY TimerAssumption DEF Channel
<1>4. TimerInv(tim, state')
  <2>1. stopping = Button => ~Holds(tim, Button)
    BY <1>1 DEF AlarmInv, StopFound
  <2> QED  BY <1>2, <2>1, NothingFound DEF AlarmInv
<1>5. TimerInv(tim', state')
  BY <1>1, <1>3, <1>4, StepsOfSetAlarm
<1>6. TypeOK'
  BY <1>1, <1>2, <1>3, <1>5, NoneType DEF AlarmInv, TypeOK, TimerInv, Points
<1> QED
  BY <1>1, <1>5, <1>6
  DEF AlarmInv, CallQuiet, LockKept, NewFound, StopFound, Locked, InCall, NewPoints, StopPoints

LEMMA AlarmStep ==
  ASSUME "call" \notin EdgesAt
  PROVE  AlarmInv /\ DetInv /\ [Next]_vars => AlarmInv'
<1>1. CASE UNCHANGED vars
  BY <1>1
  DEF vars, AlarmInv, TypeOK, CallQuiet, LockKept, NewFound, StopFound, InCall
<1> QED
  BY <1>1, AlarmTick, AlarmInput, AlarmHandlers, AlarmPolls, AlarmEntries, AlarmNew,
     AlarmStop, AlarmStopDone DEF Next, Main, InSetAlarm

(* The types of the state hold, for every timer and every delay, if the    *)
(* input does not change during a call of main.                            *)
THEOREM Typing ==
  ASSUME "call" \notin EdgesAt
  PROVE  Spec => []TypeOK
<1>1. AlarmInv => TypeOK  BY DEF AlarmInv
<1>2. AlarmInv /\ DetInv /\ [Next]_vars => (AlarmInv /\ DetInv)'
  BY AlarmStep, DetStep
<1> QED  BY <1>1, <1>2, AlarmInit, DetInit, PTL DEF Spec

(* The button never holds a channel that its state does not account for,   *)
(* nor two, under the same assumption.                                     *)
THEOREM ChannelsAreReturned ==
  ASSUME "call" \notin EdgesAt
  PROVE  Spec => []NoLeak
<1>1. AlarmInv => NoLeak
  BY DEF AlarmInv, TimerInv, OneChannel, Waits, NoLeak, Holds
<1>2. AlarmInv /\ DetInv /\ [Next]_vars => (AlarmInv /\ DetInv)'
  BY AlarmStep, DetStep
<1> QED  BY <1>1, <1>2, AlarmInit, DetInit, PTL DEF Spec

-----------------------------------------------------------------------------
(* Time.                                                                   *)

(* A match that waits to be served is this many ticks old at most, and one *)
(* less than a call of main lasts.                                         *)
Late == IF MaxLag = 0 THEN 1 ELSE MaxLag

Delays == {Reject, Residual, ScrollDelay}

(* The difference of two values of a counter.                              *)
Gap(x, y) == (x - y) % Period

(* In a timer t whose counter is at now, no live alarm was passed over,    *)
(* and a match not yet served is less than late ticks old.                 *)
Live(t, c) == t.icb[c] # None /\ t.ie[c]

Sharp(t, now, late) ==
  \A c \in Channel : Live(t, c) =>
    /\ t.ticks[c] \in Delays
    /\ t.flag[c] => Gap(now, t.ccr[c]) < late
    /\ ~t.flag[c] => Gap(t.ccr[c], now) \in 1 .. t.ticks[c]

(* Only a call of main disables the interrupt of the timer.                *)
OnlyMainLocks == ~tim.irqen => pc \in Locked

SharpTimer == Sharp(tim, cnt, IF tim.irqen THEN Late ELSE lag)

(* The debouncing alarm has its own delay, and has hardly begun the second *)
(* one when alarm() has read the level.                                    *)
Rejects(t) == \A c \in Channel : t.icb[c] = Button => t.ticks[c] = Reject
Begun(t, now) ==
  \A c \in Channel : t.icb[c] = Button /\ t.ie[c] =>
    ~t.flag[c] /\ Reject - Gap(t.ccr[c], now) < Late

Debouncing ==
  /\ state = "REJECTING" => Rejects(tim)
  /\ sampled # "none" => Begun(tim, cnt)

(* What a call that sets an alarm has prepared.                            *)
Prepared(t) ==
  /\ t.ticks[idx] = ScrollDelay
  /\ t.ccr[idx] = (start + ScrollDelay) % Period
  /\ ~t.flag[idx]

Preparing ==
  /\ pc \in {"represent", "lock", "start"} => cnt = (start + lag) % Period
  /\ pc \in {"lock", "start"} => Prepared(tim)

TimeInv == OnlyMainLocks /\ SharpTimer /\ Debouncing /\ Preparing

(* The timing that is assumed: a call of main lasts no longer than the     *)
(* shortest delay, and is over before the delay it sets.  (One tick more   *)
(* in either place, and TLC finds an alarm that is passed over.)           *)
ShortCalls == MaxLag <= Reject /\ MaxLag <= Residual /\ MaxLag < ScrollDelay

(* Arithmetic of a counter that wraps.                                     *)
LEMMA WrapOf ==
  ASSUME NEW n \in Int
  PROVE  /\ n \in 0 .. Period - 1 => n % Period = n
         /\ n \in -Period .. -1 => n % Period = n + Period
         /\ n \in Period .. 2 * Period - 1 => n % Period = n - Period
<1> DEFINE q == n \div Period
           r == n % Period
<1>1. Period \in Nat \ {0}
  BY TimerAssumption
<1>2. q \in Int /\ r \in 0 .. Period - 1 /\ n = Period * q + r
  BY <1>1
<1> HIDE DEF q, r
<1>3. q >= 1 => Period * q >= Period
  BY <1>1, <1>2
<1>4. q >= 2 => Period * q >= 2 * Period
  BY <1>1, <1>2
<1>5. q <= -1 => Period * q <= -Period
  BY <1>1, <1>2
<1>6. q <= -2 => Period * q <= -(2 * Period)
  BY <1>1, <1>2
<1>7. Period * q \in Int
  BY <1>1, <1>2
<1>8. q = 0 => Period * q = 0
  BY <1>1
<1>9. q = 1 => Period * q = Period
  BY <1>1
<1>10. q = -1 => Period * q = -Period
  BY <1>1
<1>11. n \in 0 .. Period - 1 => r = n
  <2> SUFFICES ASSUME n \in 0 .. Period - 1 PROVE q = 0
    BY <1>1, <1>2, <1>7, <1>8
  <2> QED  BY <1>1, <1>2, <1>3, <1>5, <1>7
<1>12. n \in -Period .. -1 => r = n + Period
  <2> SUFFICES ASSUME n \in -Period .. -1 PROVE q = -1
    BY <1>1, <1>2, <1>7, <1>10
  <2> QED  BY <1>1, <1>2, <1>3, <1>6, <1>7, <1>8
<1>13. n \in Period .. 2 * Period - 1 => r = n - Period
  <2> SUFFICES ASSUME n \in Period .. 2 * Period - 1 PROVE q = 1
    BY <1>1, <1>2, <1>7, <1>9
  <2> QED  BY <1>1, <1>2, <1>4, <1>5, <1>7, <1>8
<1> QED  BY <1>11, <1>12, <1>13 DEF r

LEMMA GapIs ==
  ASSUME NEW x \in Count, NEW y \in Count
  PROVE  Gap(x, y) = (IF x >= y THEN x - y ELSE x - y + Period) /\ Gap(x, y) \in Count
<1>1. x - y \in Int /\ Period \in Nat \ {0}
  BY TimerAssumption DEF Count
<1>2. CASE x >= y
  <2>1. x - y \in 0 .. Period - 1  BY <1>1, <1>2 DEF Count
  <2> QED  BY <1>1, <1>2, <2>1, WrapOf DEF Gap, Count
<1>3. CASE x < y
  <2>1. x - y \in -Period .. -1 /\ ~(x >= y) /\ x - y + Period \in 0 .. Period - 1
    BY <1>1, <1>3 DEF Count
  <2>2. (x - y) % Period = x - y + Period  BY <1>1, <2>1, WrapOf
  <2> QED  BY <2>1, <2>2 DEF Gap, Count
<1> QED  BY <1>1, <1>2, <1>3 DEF Count

(* A compare value that is set d ticks ahead of one with gap g.            *)
LEMMA SumIs ==
  ASSUME NEW x \in Count, NEW d \in Count
  PROVE  (x + d) % Period = (IF x + d < Period THEN x + d ELSE x + d - Period)
<1>1. x + d \in Int /\ Period \in Nat \ {0} /\ x + d \in 0 .. 2 * Period - 1
  BY TimerAssumption DEF Count
<1>2. CASE x + d < Period
  BY <1>1, <1>2, WrapOf
<1>3. CASE ~(x + d < Period)
  <2>1. x + d \in Period .. 2 * Period - 1  BY <1>1, <1>3
  <2>2. (x + d) % Period = (x + d) - Period  BY <1>1, <2>1, WrapOf
  <2>3. (x + d) - Period = x + d - Period  BY <1>1 DEF Count
  <2> QED  BY <1>3, <2>2, <2>3
<1> QED  BY <1>2, <1>3

(* A tick brings the counter one closer to a compare value that is ahead.  *)
LEMMA GapTick ==
  ASSUME NEW x \in Count, NEW now \in Count
  PROVE  LET next == (now + 1) % Period IN
           /\ Gap(x, now) >= 1 => Gap(x, next) = Gap(x, now) - 1
           /\ x = next => Gap(next, x) = 0
           /\ Gap(next, x) <= Gap(now, x) + 1
           /\ Gap(x, now) >= 2 => x # next
           /\ Gap(x, now) = 1 => x = next
<1> DEFINE next == (now + 1) % Period
<1>1. Period \in Nat \ {0}
  BY TimerAssumption
<1>2. next = (IF now = Period - 1 THEN 0 ELSE now + 1) /\ next \in Count
  <2>1. CASE now = Period - 1
    <3>1. now + 1 \in Period .. 2 * Period - 1 /\ now + 1 \in Int  BY <1>1, <2>1
    <3>2. next = (now + 1) - Period  BY <3>1, WrapOf
    <3>3. (now + 1) - Period = 0  BY <1>1, <2>1
    <3> QED  BY <1>1, <2>1, <3>2, <3>3 DEF Count
  <2>2. CASE now # Period - 1
    <3>1. now + 1 \in 0 .. Period - 1 /\ now + 1 \in Int  BY <1>1, <2>2 DEF Count
    <3>2. next = now + 1  BY <3>1, WrapOf
    <3> QED  BY <1>1, <2>2, <3>1, <3>2 DEF Count
  <2> QED  BY <2>1, <2>2
<1> HIDE DEF next
<1>3. /\ Gap(x, now) = (IF x >= now THEN x - now ELSE x - now + Period)
      /\ Gap(now, x) = (IF now >= x THEN now - x ELSE now - x + Period)
      /\ Gap(x, next) = (IF x >= next THEN x - next ELSE x - next + Period)
      /\ Gap(next, x) = (IF next >= x THEN next - x ELSE next - x + Period)
  BY <1>2, GapIs
<1> QED  BY <1>1, <1>2, <1>3 DEF Count, next

(* An alarm set again delay ticks ahead of a match a ticks ago.            *)
LEMMA GapAgain ==
  ASSUME NEW x \in Count, NEW now \in Count, NEW d \in Count, Gap(now, x) < d
  PROVE  Gap((x + d) % Period, now) = d - Gap(now, x)
<1> DEFINE y == (x + d) % Period
<1>1. Period \in Nat \ {0}
  BY TimerAssumption
<1>2. y = (IF x + d < Period THEN x + d ELSE x + d - Period) /\ y \in Count
  BY <1>1, SumIs DEF Count
<1> HIDE DEF y
<1>3. /\ Gap(now, x) = (IF now >= x THEN now - x ELSE now - x + Period)
      /\ Gap(y, now) = (IF y >= now THEN y - now ELSE y - now + Period)
  BY <1>2, GapIs
<1> QED  BY <1>1, <1>2, <1>3 DEF Count, y

(* An alarm whose delay is changed from d to e, a ticks after it began.    *)
LEMMA GapChanged ==
  ASSUME NEW x \in Count, NEW now \in Count, NEW d \in Count, NEW e \in Count,
         Gap(x, now) <= d, d - Gap(x, now) < e
  PROVE  /\ (x - d + e) % Period \in Count
         /\ Gap((x - d + e) % Period, now) = e - (d - Gap(x, now))
<1> DEFINE n == x - d + e
           y == n % Period
<1>1. Period \in Nat \ {0} /\ n \in Int /\ n \in -Period .. 2 * Period - 1
  BY TimerAssumption DEF Count
<1>2. y = (IF n < 0 THEN n + Period ELSE IF n < Period THEN n ELSE n - Period)
  <2>1. CASE n < 0
    <3>1. n \in -Period .. -1  BY <1>1, <2>1
    <3> QED  BY <1>1, <2>1, <3>1, WrapOf
  <2>2. CASE n >= 0 /\ n < Period
    <3>1. n \in 0 .. Period - 1 /\ ~(n < 0)  BY <1>1, <2>2
    <3> QED  BY <1>1, <2>2, <3>1, WrapOf
  <2>3. CASE n >= Period
    <3>1. n \in Period .. 2 * Period - 1 /\ ~(n < 0) /\ ~(n < Period)  BY <1>1, <2>3
    <3> QED  BY <1>1, <3>1, WrapOf
  <2> QED  BY <1>1, <2>1, <2>2, <2>3
<1>3. y \in Count
  BY <1>1, Wraps
<1> HIDE DEF y
<1>4. /\ Gap(x, now) = (IF x >= now THEN x - now ELSE x - now + Period)
      /\ Gap(y, now) = (IF y >= now THEN y - now ELSE y - now + Period)
  BY <1>3, GapIs
<1> QED  BY <1>1, <1>2, <1>3, <1>4 DEF Count, n, y

LEMMA DelayFacts ==
  ASSUME ShortCalls
  PROVE  /\ Late \in Nat /\ Late >= 1 /\ MaxLag \in Nat /\ MaxLag <= Late
         /\ \A d \in Delays : d \in Count /\ d >= 1 /\ Late <= d
         /\ Reject \in Delays /\ Residual \in Delays /\ ScrollDelay \in Delays
  BY ButtonAssumption, TimerAssumption DEF ShortCalls, Late, Delays, Count

-----------------------------------------------------------------------------
(* What the operations on the timer write, and that no alarm is passed     *)
(* over by it.                                                             *)
LEMMA RepresentFields ==
  ASSUME NEW t \in TimerState, NEW c \in Channel, NEW begun, NEW delay, NEW n
  PROVE  LET u == SetRepresentation(t, c, begun, delay, n) IN
           /\ u.icb = t.icb /\ u.ie = t.ie /\ u.irqen = t.irqen
           /\ \A d \in Channel :
                /\ u.ticks[d] = IF d = c THEN delay ELSE t.ticks[d]
                /\ u.ccr[d] = IF d = c THEN (begun + delay) % Period ELSE t.ccr[d]
                /\ u.flag[d] <=> (d # c /\ t.flag[d])
<1> DEFINE r == IF n = 0 THEN MaxReps ELSE n
           v == (begun + delay) % Period
           u == SetRepresentation(t, c, begun, delay, n)
<1>1. u = [t EXCEPT !.reps[c] = r, !.ticks[c] = delay, !.ccr[c] = v, !.flag[c] = FALSE]
  BY DEF SetRepresentation
<1> HIDE DEF r, v, u
<1>2. /\ u.icb = t.icb /\ u.ie = t.ie /\ u.irqen = t.irqen
      /\ u.ticks = [t.ticks EXCEPT ![c] = delay] /\ u.ccr = [t.ccr EXCEPT ![c] = v]
      /\ u.flag = [t.flag EXCEPT ![c] = FALSE]
  BY <1>1 DEF TimerState
<1>3. \A d \in Channel :
        /\ u.ticks[d] = IF d = c THEN delay ELSE t.ticks[d]
        /\ u.ccr[d] = IF d = c THEN v ELSE t.ccr[d]
        /\ u.flag[d] <=> (d # c /\ t.flag[d])
  BY <1>2 DEF TimerState
<1> QED  BY <1>2, <1>3 DEF u, v

LEMMA ActivateFields ==
  ASSUME NEW t \in TimerState, NEW c \in Channel, NEW cb
  PROVE  LET u == Activate(t, c, cb) IN
           /\ u.ticks = t.ticks /\ u.ccr = t.ccr /\ u.flag = t.flag
           /\ \A d \in Channel : /\ u.icb[d] = IF d = c THEN cb ELSE t.icb[d]
                                 /\ u.ie[d] <=> (d = c \/ t.ie[d])
<1> DEFINE u == Activate(t, c, cb)
<1>1. u = [t EXCEPT !.icb[c] = cb, !.ie[c] = TRUE]
  BY DEF Activate
<1> HIDE DEF u
<1>2. /\ u.ticks = t.ticks /\ u.ccr = t.ccr /\ u.flag = t.flag
      /\ u.icb = [t.icb EXCEPT ![c] = cb] /\ u.ie = [t.ie EXCEPT ![c] = TRUE]
  BY <1>1 DEF TimerState
<1>3. \A d \in Channel : /\ u.icb[d] = IF d = c THEN cb ELSE t.icb[d]
                         /\ u.ie[d] <=> (d = c \/ t.ie[d])
  BY <1>2 DEF TimerState
<1> QED  BY <1>2, <1>3 DEF u

(* Which alarms are live decides, not the lock nor the repetitions; fewer  *)
(* live alarms do no harm.                                                 *)
SameTimes(t, u) ==
  \A c \in Channel : Live(u, c) =>
    /\ Live(t, c)
    /\ u.ticks[c] = t.ticks[c] /\ u.ccr[c] = t.ccr[c]
    /\ u.flag[c] <=> t.flag[c]

FreeTimes(t, u) ==
  \A c \in Channel : t.icb[c] = None =>
    /\ u.ticks[c] = t.ticks[c] /\ u.ccr[c] = t.ccr[c]
    /\ u.flag[c] <=> t.flag[c]

LEMMA SharpSame ==
  ASSUME NEW t, NEW u, NEW now, NEW late, Sharp(t, now, late), SameTimes(t, u)
  PROVE  Sharp(u, now, late)
  BY DEF Sharp, SameTimes

LEMMA SharpLater ==
  ASSUME NEW t \in TimerState, NEW now \in Count, NEW a \in Nat, NEW b \in Nat, a <= b,
         Sharp(t, now, a)
  PROVE  Sharp(t, now, b)
<1> SUFFICES ASSUME NEW c \in Channel, Live(t, c), t.flag[c]
             PROVE  Gap(now, t.ccr[c]) < b
  BY DEF Sharp
<1>1. t.ccr[c] \in Count  BY DEF TimerState
<1>2. Gap(now, t.ccr[c]) \in Count  BY <1>1, GapIs
<1>3. Gap(now, t.ccr[c]) < a  BY DEF Sharp
<1> QED  BY <1>2, <1>3, TimerAssumption DEF Count

LEMMA SharpServed ==
  ASSUME NEW t, NEW now, NEW a, NEW b, Sharp(t, now, a),
         ~\E c \in Channel : t.ie[c] /\ t.flag[c]
  PROVE  Sharp(t, now, b)
  BY DEF Sharp, Live

LEMMA SharpMatch ==
  ASSUME NEW t \in TimerState, NEW now \in Count, NEW late \in Nat, Sharp(t, now, late),
         NEW next, next = (now + 1) % Period, NEW later \in Nat, later = late + 1
  PROVE  Sharp(Match(t, next), next, later)
<1> DEFINE u == Match(t, next)
<1>1. /\ u.icb = t.icb /\ u.ie = t.ie /\ u.ticks = t.ticks /\ u.ccr = t.ccr
      /\ \A c \in Channel : u.flag[c] <=> t.flag[c] \/ t.ccr[c] = next
  BY DEF Match, TimerState
<1> HIDE DEF u
<1> SUFFICES ASSUME NEW c \in Channel, Live(u, c)
             PROVE  /\ u.ticks[c] \in Delays
                    /\ u.flag[c] => Gap(next, u.ccr[c]) < later
                    /\ ~u.flag[c] => Gap(u.ccr[c], next) \in 1 .. u.ticks[c]
  BY DEF Sharp, u
<1> DEFINE x == t.ccr[c]
           n == t.ticks[c]
<1>2. Live(t, c) /\ x \in Count /\ n \in Count
  BY <1>1 DEF Live, TimerState
<1>3. /\ n \in Delays
      /\ t.flag[c] => Gap(now, x) < late
      /\ ~t.flag[c] => Gap(x, now) \in 1 .. n
  BY <1>2 DEF Sharp
<1>4. next \in Count
  <2>1. now + 1 \in Int  BY TimerAssumption DEF Count
  <2> QED  BY <2>1, Wraps
<1>5. /\ Gap(x, now) \in Nat /\ Gap(now, x) \in Nat /\ Gap(x, next) \in Nat /\ Gap(next, x) \in Nat
      /\ n \in Nat
  <2> HIDE DEF x, n
  <2>1. /\ Gap(x, now) \in Count /\ Gap(now, x) \in Count
        /\ Gap(x, next) \in Count /\ Gap(next, x) \in Count
    BY <1>2, <1>4, GapIs
  <2> QED  BY <1>2, <2>1, TimerAssumption DEF Count
<1>6. /\ Gap(x, now) >= 1 => Gap(x, next) = Gap(x, now) - 1
      /\ x = next => Gap(next, x) = 0
      /\ Gap(next, x) <= Gap(now, x) + 1
      /\ Gap(x, now) >= 2 => x # next
      /\ Gap(x, now) = 1 => x = next
  BY <1>2, GapTick
<1>7. u.ccr[c] = x /\ u.ticks[c] = n /\ (u.flag[c] <=> t.flag[c] \/ x = next)
  BY <1>1
<1> HIDE DEF x, n
<1> HIDE DEF u
<1>8. CASE t.flag[c]
  BY <1>3, <1>5, <1>6, <1>7, <1>8
<1>9. CASE ~t.flag[c] /\ x = next
  BY <1>3, <1>5, <1>6, <1>7, <1>9
<1>10. CASE ~t.flag[c] /\ x # next
  <2>1. Gap(x, now) >= 2  BY <1>3, <1>5, <1>6, <1>10
  <2> QED  BY <1>3, <1>5, <1>6, <1>7, <1>10, <2>1
<1> QED  BY <1>8, <1>9, <1>10

LEMMA SetNewSharp ==
  ASSUME ShortCalls, NEW t, TimerInv(t, "IDLE"), NEW now \in Count, Sharp(t, now, Late)
  PROVE  LET u == SetNew(t, now, Reject, Button, 2) IN
           (Sharp(u, now, Late) /\ Rejects(u) /\ u.irqen = TRUE) \/ u = t
<1> DEFINE c == ChannelOf(t, None)
           s == SetRepresentation(t, c, now, Reject, 2)
           a == Activate(s, c, Button)
           u == SetNew(t, now, Reject, Button, 2)
<1>1. t \in TimerState /\ \A d \in Channel : t.icb[d] # Button
  BY DEF TimerInv, Waits
<1>2. CASE c \notin Channel
  BY <1>2 DEF SetNew
<1>3. CASE c \in Channel
  <2>1. now \in Int /\ Reject \in Count /\ Reject \in Delays /\ Reject >= 1
    BY DelayFacts, TimerAssumption DEF Count
  <2>2. s \in TimerState
    BY <1>1, <1>3, <2>1, TimerPieces, NoneType
  <2>3. a \in TimerState
    BY <1>3, <2>2, TimerPieces, NoneType
  <2>4. u = Unlock(a)
    BY <1>3 DEF SetNew
  <2>5. /\ u.icb = a.icb /\ u.ie = a.ie /\ u.ticks = a.ticks /\ u.ccr = a.ccr /\ u.flag = a.flag
        /\ u.irqen = TRUE
    <3> HIDE DEF a, u
    <3> QED  BY <2>3, <2>4 DEF Unlock, TimerState
  <2>6. /\ a.ticks = s.ticks /\ a.ccr = s.ccr /\ a.flag = s.flag
        /\ \A d \in Channel : /\ a.icb[d] = IF d = c THEN Button ELSE s.icb[d]
                              /\ a.ie[d] <=> (d = c \/ s.ie[d])
    <3> HIDE DEF c, s
    <3> QED  BY <1>3, <2>2, ActivateFields
  <2>7. /\ s.icb = t.icb /\ s.ie = t.ie
        /\ \A d \in Channel :
             /\ s.ticks[d] = IF d = c THEN Reject ELSE t.ticks[d]
             /\ s.ccr[d] = IF d = c THEN (now + Reject) % Period ELSE t.ccr[d]
             /\ s.flag[d] <=> (d # c /\ t.flag[d])
    <3> HIDE DEF c
    <3> QED  BY <1>1, <1>3, RepresentFields
  <2> HIDE DEF c, s, a, u
  <2>8. Gap((now + Reject) % Period, now) = Reject
    <3>1. Gap(now, now) = 0  BY GapIs DEF Count
    <3>2. Gap(now, now) < Reject  BY <2>1, <3>1
    <3>3. Gap((now + Reject) % Period, now) = Reject - Gap(now, now)
      BY <2>1, <3>2, GapAgain
    <3> QED  BY <2>1, <3>1, <3>3, TimerAssumption DEF Count
  <2>9. Sharp(u, now, Late)
    <3> SUFFICES ASSUME NEW d \in Channel, Live(u, d)
                 PROVE  /\ u.ticks[d] \in Delays
                        /\ u.flag[d] => Gap(now, u.ccr[d]) < Late
                        /\ ~u.flag[d] => Gap(u.ccr[d], now) \in 1 .. u.ticks[d]
      BY DEF Sharp
    <3>1. CASE d = c
      <4>1. u.ticks[d] = Reject /\ ~u.flag[d] /\ Gap(u.ccr[d], now) = Reject
        BY <2>5, <2>6, <2>7, <2>8, <3>1
      <4> QED  BY <2>1, <4>1, TimerAssumption DEF Count
    <3>2. CASE d # c
      <4>1. u.ticks[d] = t.ticks[d] /\ u.ccr[d] = t.ccr[d] /\ (u.flag[d] <=> t.flag[d])
        BY <2>5, <2>6, <2>7, <3>2
      <4>2. u.icb[d] = t.icb[d] /\ (u.ie[d] <=> t.ie[d])
        BY <2>5, <2>6, <2>7, <3>2
      <4>3. Live(t, d)
        BY <4>2 DEF Live
      <4> QED  BY <4>1, <4>3 DEF Sharp
    <3> QED  BY <3>1, <3>2
  <2>10. Rejects(u)
    BY <1>1, <2>5, <2>6, <2>7 DEF Rejects
  <2> QED  BY <2>5, <2>9, <2>10 DEF u
<1> QED  BY <1>2, <1>3

LEMMA PlainFields ==
  ASSUME NEW t \in TimerState, NEW c \in Channel
  PROVE  /\ LET u == Unlock(t) IN
              /\ u.icb = t.icb /\ u.ie = t.ie /\ u.ticks = t.ticks /\ u.ccr = t.ccr
              /\ u.flag = t.flag /\ u.irqen = TRUE
         /\ LET u == Lock(t) IN
              /\ u.icb = t.icb /\ u.ie = t.ie /\ u.ticks = t.ticks /\ u.ccr = t.ccr
              /\ u.flag = t.flag /\ u.irqen = FALSE
         /\ LET u == Forget(t, c) IN
              /\ u.ie = t.ie /\ u.ticks = t.ticks /\ u.ccr = t.ccr /\ u.flag = t.flag
              /\ u.irqen = t.irqen
              /\ \A d \in Channel : u.icb[d] = IF d = c THEN None ELSE t.icb[d]
         /\ LET u == Disable(t, c) IN
              /\ u.icb = t.icb /\ u.ticks = t.ticks /\ u.ccr = t.ccr /\ u.flag = t.flag
              /\ u.irqen = t.irqen
              /\ \A d \in Channel : u.ie[d] <=> (d # c /\ t.ie[d])
<1>1. LET u == Unlock(t) IN
        /\ u.icb = t.icb /\ u.ie = t.ie /\ u.ticks = t.ticks /\ u.ccr = t.ccr
        /\ u.flag = t.flag /\ u.irqen = TRUE
  BY DEF Unlock, TimerState
<1>2. LET u == Lock(t) IN
        /\ u.icb = t.icb /\ u.ie = t.ie /\ u.ticks = t.ticks /\ u.ccr = t.ccr
        /\ u.flag = t.flag /\ u.irqen = FALSE
  BY DEF Lock, TimerState
<1>3. LET u == Forget(t, c) IN
        /\ u.ie = t.ie /\ u.ticks = t.ticks /\ u.ccr = t.ccr /\ u.flag = t.flag
        /\ u.irqen = t.irqen
        /\ \A d \in Channel : u.icb[d] = IF d = c THEN None ELSE t.icb[d]
  BY DEF Forget, TimerState
<1>4. LET u == Disable(t, c) IN
        /\ u.icb = t.icb /\ u.ticks = t.ticks /\ u.ccr = t.ccr /\ u.flag = t.flag
        /\ u.irqen = t.irqen
        /\ \A d \in Channel : u.ie[d] <=> (d # c /\ t.ie[d])
  <2> DEFINE u == Disable(t, c)
  <2>1. /\ u.icb = t.icb /\ u.ticks = t.ticks /\ u.ccr = t.ccr /\ u.flag = t.flag
        /\ u.irqen = t.irqen /\ u.ie = [t.ie EXCEPT ![c] = FALSE]
    BY DEF Disable, TimerState
  <2> HIDE DEF u
  <2>2. \A d \in Channel : u.ie[d] <=> (d # c /\ t.ie[d])
    BY <2>1 DEF TimerState
  <2> QED  BY <2>1, <2>2 DEF u
<1> QED  BY <1>1, <1>2, <1>3, <1>4

LEMMA PlainSharp ==
  ASSUME NEW t \in TimerState, NEW c \in Channel, NEW now, NEW late, Sharp(t, now, late)
  PROVE  /\ Sharp(Unlock(t), now, late) /\ Sharp(Lock(t), now, late)
         /\ Sharp(Forget(t, c), now, late) /\ Sharp(Disable(t, c), now, late)
<1>1. SameTimes(t, Unlock(t)) /\ SameTimes(t, Lock(t))
  BY PlainFields DEF SameTimes, Live
<1>2. SameTimes(t, Forget(t, c))
  <2> DEFINE u == Forget(t, c)
  <2>1. /\ u.ie = t.ie /\ u.ticks = t.ticks /\ u.ccr = t.ccr /\ u.flag = t.flag
        /\ \A d \in Channel : u.icb[d] = IF d = c THEN None ELSE t.icb[d]
    BY PlainFields
  <2> HIDE DEF u
  <2>2. \A d \in Channel : u.icb[d] # None => t.icb[d] # None
    BY <2>1
  <2>3. SameTimes(t, u)
    BY <2>1, <2>2 DEF SameTimes, Live
  <2> QED  BY <2>3 DEF u
<1>3. SameTimes(t, Disable(t, c))
  <2> DEFINE u == Disable(t, c)
  <2>1. /\ u.icb = t.icb /\ u.ticks = t.ticks /\ u.ccr = t.ccr /\ u.flag = t.flag
        /\ \A d \in Channel : u.ie[d] <=> (d # c /\ t.ie[d])
    BY PlainFields
  <2> HIDE DEF u
  <2>2. SameTimes(t, u)
    BY <2>1 DEF SameTimes, Live
  <2> QED  BY <2>2 DEF u
<1> QED  BY <1>1, <1>2, <1>3, SharpSame

LEMMA StopSharp ==
  ASSUME NEW t \in TimerState, NEW now, NEW late, Sharp(t, now, late), NEW cb
  PROVE  LET u == Stop(t, cb) IN
           Sharp(u, now, late) /\ FreeTimes(t, u) /\ u.irqen = TRUE
<1> DEFINE c == ChannelOf(t, cb)
           f == Forget(t, c)
           d == Disable(f, c)
<1>0. 0 \in Channel
  BY TimerAssumption DEF Channel
<1>1. CASE c \in Channel
  <2>1. Stop(t, cb) = Unlock(d)
    BY <1>1 DEF Stop
  <2> HIDE DEF c
  <2>2. f \in TimerState /\ Sharp(f, now, late)
    BY <1>1, PlainSharp, TimerPieces
  <2>3. f.ticks = t.ticks /\ f.ccr = t.ccr /\ f.flag = t.flag
    BY <1>1, PlainFields
  <2> HIDE DEF f
  <2>4. d \in TimerState /\ Sharp(d, now, late)
    BY <1>1, <2>2, PlainSharp, TimerPieces
  <2>5. d.ticks = f.ticks /\ d.ccr = f.ccr /\ d.flag = f.flag
    BY <1>1, <2>2, PlainFields
  <2> HIDE DEF d
  <2>6. Sharp(Unlock(d), now, late) /\ Unlock(d).irqen = TRUE
    BY <1>0, <2>4, PlainSharp, PlainFields
  <2>7. Unlock(d).ticks = d.ticks /\ Unlock(d).ccr = d.ccr /\ Unlock(d).flag = d.flag
    BY <1>0, <2>4, PlainFields
  <2> QED  BY <2>1, <2>3, <2>5, <2>6, <2>7 DEF FreeTimes
<1>2. CASE c \notin Channel
  <2>1. Stop(t, cb) = Unlock(t)
    BY <1>2 DEF Stop
  <2>2. Sharp(Unlock(t), now, late) /\ Unlock(t).irqen = TRUE
    BY <1>0, PlainSharp, PlainFields
  <2>3. Unlock(t).ticks = t.ticks /\ Unlock(t).ccr = t.ccr /\ Unlock(t).flag = t.flag
    BY <1>0, PlainFields
  <2> QED  BY <2>1, <2>2, <2>3 DEF FreeTimes
<1> QED  BY <1>1, <1>2

(* The change of the debouncing alarm into the long-press one comes in     *)
(* time: its new match is ahead.                                           *)
LEMMA ChangeSharp ==
  ASSUME ShortCalls, NEW t, TimerInv(t, "REJECTING"), NEW now \in Count,
         Sharp(t, now, Late), Rejects(t), Begun(t, now)
  PROVE  LET u == Change(t, now, Button, 1, Residual) IN
           Sharp(u, now, Late) /\ FreeTimes(t, u) /\ u.irqen = TRUE
<1> DEFINE c == ChannelOf(t, Button)
           begun == t.ccr[c] - t.ticks[c]
           s == SetRepresentation(t, c, begun, Residual, 1)
           u == Change(t, now, Button, 1, Residual)
<1>0. t \in TimerState /\ 0 \in Channel /\ (c \in Channel => t.icb[c] = Button)
  BY ChannelFound, TimerAssumption DEF Channel, TimerInv
<1>1. CASE c \notin Channel
  <2>1. u = Unlock(t)
    BY <1>1 DEF Change
  <2>2. Sharp(Unlock(t), now, Late) /\ Unlock(t).irqen = TRUE
    BY <1>0, PlainSharp, PlainFields
  <2>3. Unlock(t).ticks = t.ticks /\ Unlock(t).ccr = t.ccr /\ Unlock(t).flag = t.flag
    BY <1>0, PlainFields
  <2> QED  BY <2>1, <2>2, <2>3 DEF FreeTimes
<1>2. CASE c \in Channel /\ Elapsed(now, begun, Residual)
  <2>1. u = Stop(t, Button)
    BY <1>2 DEF Change
  <2> QED  BY <1>0, <2>1, StopSharp
<1>3. CASE c \in Channel /\ ~Elapsed(now, begun, Residual)
  <2>1. u = Unlock(s)
    BY <1>3 DEF Change
  <2>2. /\ t.ccr[c] \in Count /\ t.ticks[c] = Reject /\ t.icb[c] = Button
        /\ begun \in Int
    BY <1>0, <1>3, NoneType, TimerAssumption DEF TimerState, Rejects, Count
  <2>3. s \in TimerState
    BY <1>0, <1>3, <2>2, TimerPieces, NoneType
  <2>4. /\ s.icb = t.icb /\ s.ie = t.ie
        /\ \A d \in Channel :
             /\ s.ticks[d] = IF d = c THEN Residual ELSE t.ticks[d]
             /\ s.ccr[d] = IF d = c THEN (begun + Residual) % Period ELSE t.ccr[d]
             /\ s.flag[d] <=> (d # c /\ t.flag[d])
    <3> HIDE DEF c, begun
    <3> QED  BY <1>0, <1>3, RepresentFields
  <2>5. Live(t, c) =>
          Gap((begun + Residual) % Period, now) \in 1 .. Residual
    <3> SUFFICES ASSUME Live(t, c)
                 PROVE  Gap((begun + Residual) % Period, now) \in 1 .. Residual
      OBVIOUS
    <3> DEFINE x == t.ccr[c]
    <3>1. ~t.flag[c] /\ Reject - Gap(x, now) < Late
      BY <1>3, <2>2 DEF Begun, Live
    <3>2. Gap(x, now) \in 1 .. Reject
      BY <1>3, <2>2, <3>1 DEF Sharp
    <3>3. Reject \in Count /\ Residual \in Count /\ Late <= Residual /\ Late \in Nat
      BY DelayFacts
    <3>4. begun = x - Reject
      BY <2>2
    <3> HIDE DEF x, begun
    <3>5. x \in Count /\ Gap(x, now) <= Reject /\ Reject - Gap(x, now) < Residual
      BY <2>2, <3>1, <3>2, <3>3, TimerAssumption DEF Count, x
    <3>6. Gap((x - Reject + Residual) % Period, now) = Residual - (Reject - Gap(x, now))
      BY <3>3, <3>5, GapChanged
    <3> QED  BY <3>2, <3>3, <3>4, <3>5, <3>6, TimerAssumption DEF Count
  <2> DEFINE y == (begun + Residual) % Period
  <2> HIDE DEF c, s, y, begun
  <2>6. Sharp(s, now, Late)
    <3> SUFFICES ASSUME NEW d \in Channel, Live(s, d)
                 PROVE  /\ s.ticks[d] \in Delays
                        /\ s.flag[d] => Gap(now, s.ccr[d]) < Late
                        /\ ~s.flag[d] => Gap(s.ccr[d], now) \in 1 .. s.ticks[d]
      BY DEF Sharp
    <3>0. Live(t, d)
      BY <2>4 DEF Live
    <3>1. CASE d = c
      <4>1. s.ticks[d] = Residual /\ ~s.flag[d] /\ s.ccr[d] = y
        BY <2>4, <3>1 DEF y
      <4>2. Residual \in Delays
        BY DelayFacts
      <4> QED  BY <2>5, <3>0, <3>1, <4>1, <4>2 DEF y
    <3>2. CASE d # c
      <4>1. s.ticks[d] = t.ticks[d] /\ s.ccr[d] = t.ccr[d] /\ (s.flag[d] <=> t.flag[d])
        BY <2>4, <3>2
      <4> QED  BY <3>0, <4>1 DEF Sharp
    <3> QED  BY <3>1, <3>2
  <2>7. FreeTimes(t, s)
    <3> SUFFICES ASSUME NEW d \in Channel, t.icb[d] = None
                 PROVE  /\ s.ticks[d] = t.ticks[d] /\ s.ccr[d] = t.ccr[d]
                        /\ s.flag[d] <=> t.flag[d]
      BY DEF FreeTimes
    <3>1. d # c  BY <2>2, NoneType
    <3> QED  BY <2>4, <3>1
  <2>8. Sharp(Unlock(s), now, Late) /\ Unlock(s).irqen = TRUE
    BY <1>0, <2>3, <2>6, PlainSharp, PlainFields
  <2>9. Unlock(s).ticks = s.ticks /\ Unlock(s).ccr = s.ccr /\ Unlock(s).flag = s.flag
    BY <1>0, <2>3, PlainFields
  <2> QED  BY <2>1, <2>7, <2>8, <2>9 DEF FreeTimes
<1> QED  BY <1>1, <1>2, <1>3

LEMMA RearmTimes ==
  ASSUME NEW t \in TimerState
  PROVE  LET u == Rearm(t)
             again == Fired(t) \ Last(t) IN
           /\ u.ticks = t.ticks
           /\ \A c \in Channel :
                /\ u.ie[c] <=> (t.ie[c] /\ c \notin Last(t))
                /\ u.ccr[c] = IF c \in again THEN (t.ccr[c] + t.ticks[c]) % Period ELSE t.ccr[c]
                /\ u.flag[c] <=> (t.flag[c] /\ c \notin again)
<1> DEFINE u == Rearm(t)
           again == Fired(t) \ Last(t)
           ccr == [c \in Channel |-> IF c \in again THEN (t.ccr[c] + t.ticks[c]) % Period
                                     ELSE t.ccr[c]]
           flag == [c \in Channel |-> t.flag[c] /\ c \notin again]
           ie == [c \in Channel |-> t.ie[c] /\ c \notin Last(t)]
<1>1. u.ticks = t.ticks /\ u.ccr = ccr /\ u.flag = flag /\ u.ie = ie
  BY DEF Rearm, TimerState
<1> HIDE DEF u
<1>2. \A c \in Channel : u.ie[c] <=> (t.ie[c] /\ c \notin Last(t))
  BY <1>1
<1>3. \A c \in Channel :
        u.ccr[c] = IF c \in again THEN (t.ccr[c] + t.ticks[c]) % Period ELSE t.ccr[c]
  BY <1>1
<1>4. \A c \in Channel : u.flag[c] <=> (t.flag[c] /\ c \notin again)
  BY <1>1
<1> QED  BY <1>1, <1>2, <1>3, <1>4 DEF u

(* The interrupt sets the alarms that fired again in time.                 *)
LEMMA RearmSharp ==
  ASSUME ShortCalls, NEW t \in TimerState, OneChannel(t), NEW now \in Count, Sharp(t, now, Late)
  PROVE  LET u == Rearm(t) IN
           /\ Sharp(u, now, Late) /\ FreeTimes(t, u)
           /\ Rejects(t) => Rejects(u)
           /\ Rejects(t) /\ Button \in Scheduled(t) => Begun(u, now)
<1> DEFINE u == Rearm(t)
           again == Fired(t) \ Last(t)
<1>1. \A c \in Channel : u.icb[c] = IF c \in Last(t) THEN None ELSE t.icb[c]
  BY RearmFields
<1>2. /\ u.ticks = t.ticks
      /\ \A c \in Channel :
           /\ u.ie[c] <=> (t.ie[c] /\ c \notin Last(t))
           /\ u.ccr[c] = IF c \in again THEN (t.ccr[c] + t.ticks[c]) % Period ELSE t.ccr[c]
           /\ u.flag[c] <=> (t.flag[c] /\ c \notin again)
  BY RearmTimes
<1> HIDE DEF u
<1>3. \A c \in again : c \in Channel /\ t.icb[c] # None /\ t.flag[c] /\ c \notin Last(t)
  BY DEF Fired
<1>4. \A c \in Channel : t.icb[c] # None /\ t.flag[c] /\ c \notin Last(t) => c \in again
  BY DEF Fired
<1> HIDE DEF again
<1>5. \A c \in Channel : Live(u, c) => Live(t, c) /\ c \notin Last(t)
  BY <1>1, <1>2 DEF Live
<1>6. ASSUME NEW c \in again, Live(t, c)
      PROVE  /\ t.ticks[c] \in Delays /\ t.ticks[c] \in Nat
             /\ Gap(now, t.ccr[c]) \in Nat /\ Gap(now, t.ccr[c]) < Late
             /\ Gap(u.ccr[c], now) = t.ticks[c] - Gap(now, t.ccr[c])
             /\ Gap(u.ccr[c], now) \in 1 .. t.ticks[c]
             /\ ~u.flag[c]
  <2> DEFINE x == t.ccr[c]
             n == t.ticks[c]
  <2>1. c \in Channel /\ x \in Count /\ n \in Count
    BY <1>3 DEF TimerState
  <2>2. n \in Delays /\ Gap(now, x) < Late
    BY <1>3, <1>6, <2>1 DEF Sharp
  <2>3. Late \in Nat /\ Late <= n
    BY <2>2, DelayFacts
  <2>4. u.ccr[c] = (x + n) % Period /\ ~u.flag[c]
    BY <1>2, <2>1
  <2> HIDE DEF x, n
  <2>5. Gap(now, x) \in Count
    BY <2>1, GapIs
  <2>6. Gap(now, x) \in Nat /\ n \in Nat /\ Gap(now, x) < n
    BY <2>1, <2>2, <2>3, <2>5, TimerAssumption DEF Count
  <2>7. Gap((x + n) % Period, now) = n - Gap(now, x)
    BY <2>1, <2>6, GapAgain
  <2>8. n - Gap(now, x) \in 1 .. n
    BY <2>6
  <2> QED  BY <2>2, <2>4, <2>6, <2>7, <2>8 DEF x, n
<1>7. Sharp(u, now, Late)
  <2> SUFFICES ASSUME NEW c \in Channel, Live(u, c)
               PROVE  /\ u.ticks[c] \in Delays
                      /\ u.flag[c] => Gap(now, u.ccr[c]) < Late
                      /\ ~u.flag[c] => Gap(u.ccr[c], now) \in 1 .. u.ticks[c]
    BY DEF Sharp
  <2>1. Live(t, c)  BY <1>5
  <2>2. CASE c \in again
    BY <1>2, <1>6, <2>1, <2>2
  <2>3. CASE c \notin again
    <3>1. u.ticks[c] = t.ticks[c] /\ u.ccr[c] = t.ccr[c] /\ (u.flag[c] <=> t.flag[c])
      BY <1>2, <2>3
    <3> QED  BY <2>1, <3>1 DEF Sharp
  <2> QED  BY <2>2, <2>3
<1>8. FreeTimes(t, u)
  <2> SUFFICES ASSUME NEW c \in Channel, t.icb[c] = None
               PROVE  /\ u.ticks[c] = t.ticks[c] /\ u.ccr[c] = t.ccr[c]
                      /\ u.flag[c] <=> t.flag[c]
    BY DEF FreeTimes
  <2>1. c \notin again  BY <1>3
  <2> QED  BY <1>2, <2>1
<1>9. Rejects(t) => Rejects(u)
  BY <1>1, <1>2, NoneType DEF Rejects
<1>10. ASSUME Rejects(t), Button \in Scheduled(t) PROVE Begun(u, now)
  <2> SUFFICES ASSUME NEW c \in Channel, u.icb[c] = Button, u.ie[c]
               PROVE  ~u.flag[c] /\ Reject - Gap(u.ccr[c], now) < Late
    BY DEF Begun
  <2>1. t.icb[c] = Button /\ t.ie[c] /\ c \notin Last(t)
    BY <1>1, <1>2, NoneType
  <2>2. PICK d \in Channel : t.icb[d] = Button /\ t.flag[d]
    BY <1>10 DEF Scheduled, Fired
  <2>3. d = c
    BY <2>1, <2>2 DEF OneChannel
  <2>4. c \in again /\ Live(t, c) /\ t.ticks[c] = Reject
    BY <1>4, <1>10, <2>1, <2>2, <2>3, NoneType DEF Live, Rejects
  <2> DEFINE g == Gap(now, t.ccr[c])
             h == Gap(u.ccr[c], now)
  <2>5. g \in Nat /\ Reject \in Nat /\ g < Late /\ h = Reject - g /\ ~u.flag[c]
    BY <1>6, <2>4
  <2>6. Reject - (Reject - g) = g
    <3> HIDE DEF g
    <3> QED  BY <2>5
  <2> QED  BY <2>5, <2>6
<1> QED  BY <1>7, <1>8, <1>9, <1>10 DEF u

-----------------------------------------------------------------------------
(* No step passes an alarm over.                                           *)

(* Counters of a call of main: cnt is lag ticks after start.               *)
LEMMA SumNext ==
  ASSUME NEW x \in Count, NEW d \in Nat, d + 1 \in Count
  PROVE  (((x + d) % Period) + 1) % Period = (x + (d + 1)) % Period
<1> DEFINE y == (x + d) % Period
           z == (x + (d + 1)) % Period
<1>1. Period \in Nat \ {0} /\ d \in Count /\ 1 \in Count
  BY TimerAssumption DEF Count
<1>2. y = (IF x + d < Period THEN x + d ELSE x + d - Period) /\ y \in Count
  BY <1>1, SumIs DEF Count
<1>3. z = (IF x + (d + 1) < Period THEN x + (d + 1) ELSE x + (d + 1) - Period)
  BY SumIs
<1> HIDE DEF y, z
<1>4. (y + 1) % Period = (IF y + 1 < Period THEN y + 1 ELSE y + 1 - Period)
  BY <1>1, <1>2, SumIs
<1>5. (y + 1) % Period = z
  BY <1>1, <1>2, <1>3, <1>4 DEF Count
<1> QED  BY <1>5 DEF y, z

LEMMA SumGap ==
  ASSUME NEW x \in Count, NEW d \in Count, NEW e \in Nat, e < d
  PROVE  /\ (x + d) % Period # (x + e) % Period
         /\ Gap((x + d) % Period, (x + e) % Period) = d - e
<1> DEFINE y == (x + d) % Period
           z == (x + e) % Period
<1>1. Period \in Nat \ {0} /\ e \in Count
  BY TimerAssumption DEF Count
<1>2. y = (IF x + d < Period THEN x + d ELSE x + d - Period) /\ y \in Count
  BY <1>1, SumIs DEF Count
<1>3. z = (IF x + e < Period THEN x + e ELSE x + e - Period) /\ z \in Count
  BY <1>1, SumIs DEF Count
<1> HIDE DEF y, z
<1>4. Gap(y, z) = (IF y >= z THEN y - z ELSE y - z + Period)
  BY <1>2, <1>3, GapIs
<1>5. y # z /\ Gap(y, z) = d - e
  BY <1>1, <1>2, <1>3, <1>4 DEF Count
<1> QED  BY <1>5 DEF y, z

LEMMA TimeInit == Init => TimeInv
<1> SUFFICES ASSUME Init PROVE TimeInv
  OBVIOUS
<1>1. /\ \A c \in Channel : tim.icb[c] = None
      /\ tim.irqen = TRUE
  BY DEF Init, IdleTimer
<1> QED
  BY <1>1 DEF Init, TimeInv, OnlyMainLocks, SharpTimer, Sharp, Live, Debouncing, Preparing

LEMMA TimeTick == ShortCalls /\ AlarmInv /\ TimeInv /\ Tick => TimeInv'
<1> SUFFICES ASSUME ShortCalls, AlarmInv, TimeInv, Tick PROVE TimeInv'
  OBVIOUS
<1>1. /\ tim' = Match(tim, cnt') /\ cnt' = (cnt + 1) % Period
      /\ UNCHANGED <<state, sampled, pc, start, idx>>
      /\ sampled = "none" /\ ~Pending(tim)
  BY DEF Tick, Due, buttonVars
<1>2. tim \in TimerState /\ cnt \in Count /\ start \in Count /\ lag \in 0 .. MaxLag
  BY DEF AlarmInv, TypeOK
<1>3. /\ tim'.icb = tim.icb /\ tim'.ie = tim.ie /\ tim'.ticks = tim.ticks
      /\ tim'.ccr = tim.ccr /\ tim'.irqen = tim.irqen /\ tim' \in TimerState
      /\ \A c \in Channel : tim'.flag[c] <=> tim.flag[c] \/ tim.ccr[c] = cnt'
  BY <1>1, <1>2 DEF Match, TimerState
<1>4. OnlyMainLocks'
  BY <1>1, <1>3 DEF TimeInv, OnlyMainLocks
<1>5. InCall => lag < MaxLag /\ lag' = lag + 1
  BY DEF Tick
<1>6. SharpTimer'
  <2>1. CASE tim.irqen
    <3>1. Sharp(tim, cnt, 0)
      BY <1>1, <2>1, SharpServed DEF Pending, TimeInv, SharpTimer
    <3>2. Sharp(Match(tim, cnt'), cnt', 1)
      <4>1. 0 \in Nat /\ 1 \in Nat /\ 1 = 0 + 1  OBVIOUS
      <4> QED  BY <1>1, <1>2, <3>1, <4>1, SharpMatch
    <3>3. 1 \in Nat /\ Late \in Nat /\ 1 <= Late /\ cnt' \in Count
      <4>1. cnt + 1 \in Int  BY <1>2, TimerAssumption DEF Count
      <4>2. cnt' \in Count  BY <1>1, <4>1, Wraps
      <4> QED  BY <4>2, DelayFacts
    <3>4. Sharp(tim', cnt', 1)
      BY <1>1, <3>2
    <3>5. Sharp(tim', cnt', Late)
      BY <1>3, <3>3, <3>4, SharpLater
    <3> QED  BY <1>3, <2>1, <3>5 DEF SharpTimer
  <2>2. CASE ~tim.irqen
    <3>1. InCall
      BY <2>2 DEF TimeInv, OnlyMainLocks, Locked, InCall, NewPoints, StopPoints
    <3>2. Sharp(tim, cnt, lag) /\ lag \in Nat
      BY <1>2, <2>2, ButtonAssumption DEF TimeInv, SharpTimer
    <3>3. Sharp(tim', cnt', lag')
      <4>1. lag' \in Nat /\ lag' = lag + 1  BY <1>5, <3>1, <3>2
      <4> QED  BY <1>1, <1>2, <3>2, <4>1, SharpMatch
    <3> QED  BY <1>3, <2>2, <3>3 DEF SharpTimer
  <2> QED  BY <2>1, <2>2
<1>7. Debouncing'
  BY <1>1, <1>3 DEF TimeInv, Debouncing, Rejects
<1>8. Preparing'
  <2> SUFFICES ASSUME pc \in {"represent", "lock", "start"}
               PROVE  /\ cnt' = (start + lag') % Period
                      /\ pc \in {"lock", "start"} => Prepared(tim)'
    BY <1>1 DEF Preparing
  <2>1. cnt = (start + lag) % Period /\ lag' = lag + 1
    BY <1>5 DEF TimeInv, Preparing, InCall, NewPoints
  <2>2. lag \in Nat /\ lag + 1 \in Count /\ lag + 1 \in Nat /\ lag + 1 < ScrollDelay
    BY <1>2, <1>5, ButtonAssumption, TimerAssumption
    DEF ShortCalls, InCall, NewPoints, Count
  <2>3. cnt' = (start + lag') % Period
    BY <1>1, <1>2, <2>1, <2>2, SumNext
  <2>4. ASSUME pc \in {"lock", "start"} PROVE Prepared(tim)'
    <3>1. /\ tim.ticks[idx] = ScrollDelay
          /\ tim.ccr[idx] = (start + ScrollDelay) % Period /\ ~tim.flag[idx]
      BY <2>4 DEF TimeInv, Preparing, Prepared
    <3>2. (start + ScrollDelay) % Period # (start + (lag + 1)) % Period
      BY <1>2, <2>2, SumGap, NoneType
    <3>3. idx \in Channel
      BY <2>4 DEF AlarmInv, NewFound
    <3>4. ~tim'.flag[idx]
      BY <1>3, <2>1, <2>3, <3>1, <3>2, <3>3
    <3> QED  BY <1>1, <1>3, <3>1, <3>4 DEF Prepared
  <2> QED  BY <2>3, <2>4
<1> QED  BY <1>4, <1>6, <1>7, <1>8 DEF TimeInv

(* Steps that leave the timer, its counter and the calls alone.            *)
LEMMA TimeIdle ==
  ASSUME TimeInv, UNCHANGED <<cnt, tim, state, sampled, pc, start, idx, lag>>
  PROVE  TimeInv'
<1>1. OnlyMainLocks' /\ SharpTimer' /\ Debouncing'
  BY DEF TimeInv, OnlyMainLocks, SharpTimer, Debouncing
<1>2. Preparing'
  BY DEF TimeInv, Preparing, Prepared
<1> QED  BY <1>1, <1>2 DEF TimeInv

LEMMA TimePolls ==
  ASSUME TimeInv, Enable \/ ShortPress \/ LongPress \/ HoldDone \/ DisableButton \/ WriteOver
                  \/ WriteLong,
         AlarmInv
  PROVE  TimeInv'
<1>1. /\ UNCHANGED <<cnt, tim, sampled>> /\ pc \in {"poll", "hold"}
      /\ pc' \in {"poll", "stop", "represent", "hold"}
      /\ state' = state \/ state' # "REJECTING"
  BY DEF Enable, ShortPress, LongPress, Consume, HoldDone, DisableButton, WriteOver,
     WriteLong, At, mainVars, buttonVars
<1>2. tim.irqen
  BY <1>1 DEF TimeInv, OnlyMainLocks, Locked
<1>3. OnlyMainLocks' /\ SharpTimer'
  BY <1>1, <1>2 DEF TimeInv, OnlyMainLocks, SharpTimer
<1>4. Debouncing'
  BY <1>1 DEF TimeInv, Debouncing
<1>5. Preparing'
  <2> SUFFICES ASSUME pc' = "represent" PROVE cnt' = (start' + lag') % Period
    BY <1>1 DEF Preparing
  <2>1. start' = cnt /\ lag' = 0
    BY <1>1 DEF Enable, ShortPress, LongPress, Consume, HoldDone, DisableButton, WriteOver,
       WriteLong, At, mainVars
  <2>2. cnt \in Count
    BY DEF AlarmInv, TypeOK
  <2>3. (cnt + 0) % Period = cnt
    BY <2>2, WrapOf, TimerAssumption DEF Count
  <2> QED  BY <1>1, <2>1, <2>3
<1> QED  BY <1>3, <1>4, <1>5 DEF TimeInv

(* A handler leaves what main has prepared, on a channel that is free.     *)
LEMMA PreparedKept ==
  ASSUME AlarmInv, TimeInv, UNCHANGED <<cnt, pc, start, idx, lag>>, FreeTimes(tim, tim')
  PROVE  Preparing'
<1>1. pc \in {"represent", "lock", "start"} => cnt' = (start' + lag') % Period
  BY DEF TimeInv, Preparing
<1>2. ASSUME pc \in {"lock", "start"} PROVE Prepared(tim)'
  <2>1. idx \in Channel /\ tim.icb[idx] = None /\ Prepared(tim)
    BY <1>2 DEF AlarmInv, NewFound, TimeInv, Preparing
  <2> QED  BY <2>1 DEF Prepared, FreeTimes
<1> QED  BY <1>1, <1>2 DEF Preparing

LEMMA TimeHandlers == ShortCalls /\ AlarmInv /\ DetInv /\ TimeInv /\ Handler => TimeInv'
<1> SUFFICES ASSUME ShortCalls, AlarmInv, DetInv, TimeInv, Handler PROVE TimeInv'
  OBVIOUS
<1>0. TimerInv(tim, state) /\ cnt \in Count /\ tim \in TimerState /\ OneChannel(tim)
  BY DEF AlarmInv, TypeOK, TimerInv
<1>1. UNCHANGED <<cnt, pc, start, idx, lag>>
  BY DEF Handler, EdgeHandler, AlarmHandler, ActualPress, SpuriousEdge, mainVars
<1>2. CASE EdgeHandler
  <2>1. pc \notin Locked \cup {"represent", "lock", "start"} /\ sampled = "none" /\ sampled' = "none"
    BY <1>2 DEF EdgeHandler, AlarmInv, CallQuiet, InCall, Locked, NewPoints, StopPoints
  <2>2. tim.irqen /\ Sharp(tim, cnt, Late)
    BY <2>1 DEF TimeInv, OnlyMainLocks, SharpTimer
  <2>3. Preparing'
    BY <1>1, <2>1 DEF Preparing
  <2>4. CASE "LEADING" \in trig
    <3>1. TimerInv(tim, "IDLE") /\ tim' = SetNew(tim, cnt, Reject, Button, 2)
      BY <1>0, <1>2, <2>4 DEF EdgeHandler, DetInv, OneDetector
    <3>2. \/ Sharp(tim', cnt, Late) /\ Rejects(tim') /\ tim'.irqen = TRUE
          \/ tim' = tim
      BY <1>0, <2>2, <3>1, SetNewSharp
    <3>3. Rejects(tim)
      BY <3>1 DEF TimerInv, Waits, Rejects
    <3>4. Sharp(tim', cnt, Late) /\ Rejects(tim') /\ tim'.irqen
      BY <2>2, <3>2, <3>3
    <3> QED
      BY <1>1, <2>1, <2>3, <3>4 DEF TimeInv, OnlyMainLocks, SharpTimer, Debouncing
  <2>5. CASE "LEADING" \notin trig
    <3>1. tim' = Stop(tim, Button) /\ state' = "DETECTED_SHORT"
      BY <1>2, <2>5 DEF EdgeHandler
    <3>2. Sharp(tim', cnt, Late) /\ tim'.irqen
      BY <1>0, <2>2, <3>1, StopSharp
    <3> QED
      BY <1>1, <2>1, <2>3, <3>1, <3>2 DEF TimeInv, OnlyMainLocks, SharpTimer, Debouncing
  <2> QED  BY <2>4, <2>5
<1>3. CASE AlarmHandler
  <2>1. /\ tim' = Rearm(tim) /\ tim.irqen /\ sampled = "none"
        /\ sampled' # "none" => Button \in Scheduled(tim) /\ state = "REJECTING"
        /\ state' = "REJECTING" => state = "REJECTING"
    BY <1>3 DEF AlarmHandler, Pending
  <2>2. Sharp(tim, cnt, Late)
    BY <2>1 DEF TimeInv, SharpTimer
  <2>3. /\ Sharp(tim', cnt, Late) /\ FreeTimes(tim, tim')
        /\ Rejects(tim) => Rejects(tim')
        /\ Rejects(tim) /\ Button \in Scheduled(tim) => Begun(tim', cnt)
    BY <1>0, <2>1, <2>2, RearmSharp
  <2>4. tim'.irqen
    BY <1>0, <2>1, RearmFields
  <2>5. Debouncing'
    BY <1>1, <2>1, <2>3 DEF TimeInv, Debouncing
  <2>6. Preparing'
    BY <1>1, <2>3, PreparedKept
  <2> QED  BY <1>1, <2>3, <2>4, <2>5, <2>6 DEF TimeInv, OnlyMainLocks, SharpTimer
<1>4. CASE ActualPress \/ SpuriousEdge
  <2>1. sampled # "none" /\ sampled' = "none" /\ state' # "REJECTING" /\ state = "REJECTING"
    BY <1>4 DEF ActualPress, SpuriousEdge, DetInv, LevelRead
  <2>2. tim.irqen /\ Sharp(tim, cnt, Late)
    BY <2>1 DEF AlarmInv, LockKept, TimeInv, OnlyMainLocks, SharpTimer
  <2>3. Rejects(tim) /\ Begun(tim, cnt)
    BY <2>1 DEF TimeInv, Debouncing
  <2>4. Sharp(tim', cnt, Late) /\ FreeTimes(tim, tim') /\ tim'.irqen
    <3>1. CASE ActualPress
      <4>1. tim' = Change(tim, cnt, Button, 1, Residual)
        BY <3>1 DEF ActualPress
      <4> QED  BY <1>0, <2>1, <2>2, <2>3, <4>1, ChangeSharp
    <3>2. CASE SpuriousEdge
      <4>1. tim' = Stop(tim, Button)
        BY <3>2 DEF SpuriousEdge
      <4> QED  BY <1>0, <2>2, <4>1, StopSharp
    <3> QED  BY <1>4, <3>1, <3>2
  <2>5. Preparing'
    BY <1>1, <2>4, PreparedKept
  <2> QED
    BY <1>1, <2>1, <2>4, <2>5 DEF TimeInv, OnlyMainLocks, SharpTimer, Debouncing
<1> QED  BY <1>2, <1>3, <1>4 DEF Handler

(* A new alarm of main goes live before its match.                         *)
LEMMA TimeNew ==
  ASSUME ShortCalls, AlarmInv, TimeInv, NewRepresent \/ NewLock \/ NewStart \/ NewDone
  PROVE  TimeInv'
<1>1. /\ UNCHANGED <<idx, cnt, state, sampled, start, lag>> /\ sampled = "none"
      /\ ~Pending(tim)
  BY DEF NewRepresent, NewLock, NewStart, NewDone, InCallOnly, buttonVars, At, Due
<1>2. /\ tim \in TimerState /\ cnt \in Count /\ start \in Count /\ lag \in 0 .. MaxLag
      /\ 0 \in Channel
  BY TimerAssumption DEF AlarmInv, TypeOK, Channel
<1>3. lag \in Nat /\ Late \in Nat /\ lag <= Late
  BY <1>2, DelayFacts
<1>4. ASSUME \A c \in Channel : tim'.icb[c] = Button =>
               tim.icb[c] = Button /\ tim'.ticks[c] = tim.ticks[c]
      PROVE  Debouncing'
  BY <1>1, <1>4 DEF TimeInv, Debouncing, Rejects
<1>5. CASE NewRepresent
  <2>1. /\ pc = "represent" /\ pc' = "lock" /\ idx \in Channel /\ tim.icb[idx] = None
        /\ tim' = SetRepresentation(tim, idx, start, ScrollDelay, 0)
    BY <1>5 DEF NewRepresent, At, AlarmInv, NewFound
  <2>2. /\ tim'.icb = tim.icb /\ tim'.ie = tim.ie /\ tim'.irqen = tim.irqen
        /\ \A d \in Channel :
             /\ tim'.ticks[d] = IF d = idx THEN ScrollDelay ELSE tim.ticks[d]
             /\ tim'.ccr[d] = IF d = idx THEN (start + ScrollDelay) % Period ELSE tim.ccr[d]
             /\ tim'.flag[d] <=> (d # idx /\ tim.flag[d])
    BY <1>2, <2>1, RepresentFields
  <2>3. tim.irqen
    BY <2>1 DEF TimeInv, OnlyMainLocks, Locked
  <2>4. SameTimes(tim, tim')
    BY <2>1, <2>2 DEF SameTimes, Live
  <2>5. Sharp(tim', cnt, Late)
    BY <2>3, <2>4, SharpSame DEF TimeInv, SharpTimer
  <2>6. Debouncing'
    BY <1>4, <2>1, <2>2, NoneType
  <2>7. Preparing'
    BY <1>1, <2>1, <2>2 DEF TimeInv, Preparing, Prepared
  <2> QED
    BY <1>1, <2>2, <2>3, <2>5, <2>6, <2>7 DEF TimeInv, OnlyMainLocks, SharpTimer
<1>6. CASE NewLock
  <2>1. /\ pc = "lock" /\ pc' = "start" /\ tim' = Lock(tim)
    BY <1>6 DEF NewLock, At
  <2>2. /\ tim'.icb = tim.icb /\ tim'.ie = tim.ie /\ tim'.ticks = tim.ticks
        /\ tim'.ccr = tim.ccr /\ tim'.flag = tim.flag /\ tim'.irqen = FALSE
    BY <1>2, <2>1, PlainFields
  <2>3. tim.irqen
    BY <2>1 DEF TimeInv, OnlyMainLocks, Locked
  <2>4. Sharp(tim, cnt, lag)
    BY <1>1, <2>3, SharpServed DEF Pending, TimeInv, SharpTimer
  <2>5. Sharp(tim', cnt, lag)
    BY <1>2, <2>1, <2>4, PlainSharp
  <2>6. Debouncing'
    BY <1>4, <2>2
  <2>7. Preparing'
    BY <1>1, <2>1, <2>2 DEF TimeInv, Preparing, Prepared
  <2> QED
    BY <1>1, <2>1, <2>2, <2>5, <2>6, <2>7 DEF TimeInv, OnlyMainLocks, SharpTimer, Locked
<1>7. CASE NewStart
  <2>1. /\ pc = "start" /\ idx \in Channel /\ tim.icb[idx] = None /\ ~tim.irqen
    BY <1>7 DEF NewStart, At, AlarmInv, NewFound, LockKept, Locked
  <2>2. Sharp(tim, cnt, lag)
    BY <2>1 DEF TimeInv, SharpTimer
  <2>3. CASE Elapsed(cnt, start, ScrollDelay)
    <3>1. tim' = Unlock(tim) /\ pc' = "hold"
      BY <1>7, <2>3 DEF NewStart
    <3>2. tim'.icb = tim.icb /\ tim'.ticks = tim.ticks /\ tim'.irqen = TRUE
      BY <1>2, <3>1, PlainFields
    <3>3. Sharp(tim, cnt, Late)
      BY <1>2, <1>3, <2>2, SharpLater
    <3>4. Sharp(tim', cnt, Late)
      BY <1>2, <3>1, <3>3, PlainSharp
    <3>5. Debouncing' /\ Preparing'
      BY <1>4, <3>1, <3>2 DEF Preparing
    <3> QED
      BY <1>1, <3>2, <3>4, <3>5 DEF TimeInv, OnlyMainLocks, SharpTimer
  <2>4. CASE ~Elapsed(cnt, start, ScrollDelay)
    <3>1. tim' = Activate(tim, idx, Display) /\ pc' = "started"
      BY <1>7, <2>4 DEF NewStart
    <3>2. /\ tim'.ticks = tim.ticks /\ tim'.ccr = tim.ccr /\ tim'.flag = tim.flag
          /\ \A d \in Channel : /\ tim'.icb[d] = IF d = idx THEN Display ELSE tim.icb[d]
                                /\ tim'.ie[d] <=> (d = idx \/ tim.ie[d])
      BY <1>2, <2>1, <3>1, ActivateFields
    <3>3. tim'.irqen = tim.irqen
      BY <1>2, <3>1 DEF Activate, TimerState
    <3>4. /\ tim.ticks[idx] = ScrollDelay /\ ~tim.flag[idx]
          /\ tim.ccr[idx] = (start + ScrollDelay) % Period
          /\ cnt = (start + lag) % Period
      BY <2>1 DEF TimeInv, Preparing, Prepared
    <3>5. Gap(tim.ccr[idx], cnt) \in 1 .. ScrollDelay /\ ScrollDelay \in Delays
      <4>1. lag < ScrollDelay /\ ScrollDelay \in Count /\ ScrollDelay \in Nat
        BY <1>2, <1>3, NoneType, TimerAssumption, ButtonAssumption DEF ShortCalls, Count
      <4>2. Gap(tim.ccr[idx], cnt) = ScrollDelay - lag
        BY <1>2, <1>3, <3>4, <4>1, SumGap
      <4> QED  BY <1>3, <4>1, <4>2, DelayFacts
    <3>6. Sharp(tim', cnt, lag)
      <4> SUFFICES ASSUME NEW d \in Channel, Live(tim', d)
                   PROVE  /\ tim'.ticks[d] \in Delays
                          /\ tim'.flag[d] => Gap(cnt, tim'.ccr[d]) < lag
                          /\ ~tim'.flag[d] => Gap(tim'.ccr[d], cnt) \in 1 .. tim'.ticks[d]
        BY DEF Sharp
      <4>1. CASE d = idx
        BY <3>2, <3>4, <3>5, <4>1
      <4>2. CASE d # idx
        <5>1. Live(tim, d)
          BY <3>2, <4>2 DEF Live
        <5> QED  BY <2>2, <3>2, <5>1 DEF Sharp
      <4> QED  BY <4>1, <4>2
    <3>7. Debouncing'
      BY <1>4, <3>2, NoneType
    <3>8. Preparing'
      BY <3>1 DEF Preparing
    <3> QED
      BY <1>1, <2>1, <3>1, <3>3, <3>6, <3>7, <3>8
      DEF TimeInv, OnlyMainLocks, SharpTimer, Locked
  <2> QED  BY <2>3, <2>4
<1>8. CASE NewDone
  <2>1. /\ pc = "started" /\ pc' = "hold" /\ tim' = Unlock(tim)
    BY <1>8 DEF NewDone, At
  <2>2. ~tim.irqen
    BY <2>1 DEF AlarmInv, LockKept, Locked
  <2>3. tim'.icb = tim.icb /\ tim'.ticks = tim.ticks /\ tim'.irqen = TRUE
    BY <1>2, <2>1, PlainFields
  <2>4. Sharp(tim, cnt, Late)
    BY <1>2, <1>3, <2>2, SharpLater DEF TimeInv, SharpTimer
  <2>5. Sharp(tim', cnt, Late)
    BY <1>2, <2>1, <2>4, PlainSharp
  <2>6. Debouncing' /\ Preparing'
    BY <1>4, <2>1, <2>3 DEF Preparing
  <2> QED
    BY <1>1, <2>3, <2>5, <2>6 DEF TimeInv, OnlyMainLocks, SharpTimer
<1> QED  BY <1>5, <1>6, <1>7, <1>8

(* An alarm that main stops is no longer live; the others wait for the     *)
(* interrupt to be enabled again.                                          *)
LEMMA TimeStop ==
  ASSUME ShortCalls, AlarmInv, TimeInv,
         StopLock \/ StopFind \/ StopForget \/ StopDisable \/ StopDone
  PROVE  TimeInv'
<1>1. /\ UNCHANGED <<cnt, sampled, lag>> /\ sampled = "none" /\ ~Pending(tim)
      /\ state' = state \/ state' = "OFF"
      /\ pc' \notin {"represent", "lock", "start"}
  BY DEF StopLock, StopFind, StopForget, StopDisable, StopDone, InCallOnly, buttonVars, At, Due
<1>2. /\ tim \in TimerState /\ cnt \in Count /\ lag \in 0 .. MaxLag /\ 0 \in Channel
  BY TimerAssumption DEF AlarmInv, TypeOK, Channel
<1>3. lag \in Nat /\ Late \in Nat /\ lag <= Late
  BY <1>2, DelayFacts
<1>4. ASSUME \A c \in Channel : tim'.icb[c] = Button =>
               tim.icb[c] = Button /\ tim'.ticks[c] = tim.ticks[c]
      PROVE  Debouncing' /\ Preparing'
  BY <1>1, <1>4 DEF TimeInv, Debouncing, Rejects, Preparing
<1>5. CASE StopLock
  <2>1. pc = "stop" /\ pc' = "find" /\ tim' = Lock(tim)
    BY <1>5 DEF StopLock, At
  <2>2. tim'.icb = tim.icb /\ tim'.ticks = tim.ticks /\ tim'.irqen = FALSE
    BY <1>2, <2>1, PlainFields
  <2>3. tim.irqen
    BY <2>1 DEF TimeInv, OnlyMainLocks, Locked
  <2>4. Sharp(tim, cnt, lag)
    BY <1>1, <2>3, SharpServed DEF Pending, TimeInv, SharpTimer
  <2>5. Sharp(tim', cnt, lag)
    BY <1>2, <2>1, <2>4, PlainSharp
  <2> QED
    BY <1>1, <1>4, <2>1, <2>2, <2>5 DEF TimeInv, OnlyMainLocks, SharpTimer, Locked
<1>6. CASE StopFind
  <2>1. tim' = tim /\ pc' \in Locked
    BY <1>6 DEF StopFind, Locked
  <2>2. SharpTimer' /\ OnlyMainLocks'
    BY <1>1, <2>1 DEF TimeInv, OnlyMainLocks, SharpTimer
  <2> QED  BY <1>4, <2>1, <2>2 DEF TimeInv
<1>7. CASE StopForget
  <2>1. /\ pc = "forget" /\ pc' = "disable" /\ tim' = Forget(tim, idx) /\ idx \in Channel
    BY <1>7 DEF StopForget, At, AlarmInv, StopFound
  <2>2. ~tim.irqen
    BY <2>1 DEF AlarmInv, LockKept, Locked
  <2>3. /\ tim'.ticks = tim.ticks /\ tim'.irqen = tim.irqen
        /\ \A d \in Channel : tim'.icb[d] = IF d = idx THEN None ELSE tim.icb[d]
    <3> DEFINE u == Forget(tim, idx)
    <3>1. /\ u.ticks = tim.ticks /\ u.irqen = tim.irqen
          /\ \A d \in Channel : u.icb[d] = IF d = idx THEN None ELSE tim.icb[d]
      BY <1>2, <2>1, PlainFields
    <3> QED  BY <2>1, <3>1
  <2>4. Sharp(tim', cnt, lag)
    BY <1>2, <2>1, <2>2, PlainSharp DEF TimeInv, SharpTimer
  <2>5. Debouncing' /\ Preparing'
    BY <1>4, <2>3, NoneType
  <2> QED
    BY <1>1, <2>1, <2>2, <2>3, <2>4, <2>5 DEF TimeInv, OnlyMainLocks, SharpTimer, Locked
<1>8. CASE StopDisable
  <2>1. /\ pc = "disable" /\ pc' = "stopped" /\ tim' = Disable(tim, idx) /\ idx \in Channel
    BY <1>8 DEF StopDisable, At, AlarmInv, StopFound
  <2>2. ~tim.irqen
    BY <2>1 DEF AlarmInv, LockKept, Locked
  <2>3. tim'.icb = tim.icb /\ tim'.ticks = tim.ticks /\ tim'.irqen = tim.irqen
    BY <1>2, <2>1, PlainFields
  <2>4. Sharp(tim', cnt, lag)
    BY <1>2, <2>1, <2>2, PlainSharp DEF TimeInv, SharpTimer
  <2>5. Debouncing' /\ Preparing'
    BY <1>4, <2>3
  <2> QED
    BY <1>1, <2>1, <2>2, <2>3, <2>4, <2>5 DEF TimeInv, OnlyMainLocks, SharpTimer, Locked
<1>9. CASE StopDone
  <2>1. /\ pc = "stopped" /\ tim' = Unlock(tim)
    BY <1>9 DEF StopDone, At
  <2>2. ~tim.irqen
    BY <2>1 DEF AlarmInv, LockKept, Locked
  <2>3. tim'.icb = tim.icb /\ tim'.ticks = tim.ticks /\ tim'.irqen = TRUE
    BY <1>2, <2>1, PlainFields
  <2>4. Sharp(tim, cnt, Late)
    BY <1>2, <1>3, <2>2, SharpLater DEF TimeInv, SharpTimer
  <2>5. Sharp(tim', cnt, Late)
    BY <1>2, <2>1, <2>4, PlainSharp
  <2> QED
    BY <1>1, <1>4, <2>3, <2>5 DEF TimeInv, OnlyMainLocks, SharpTimer
<1> QED  BY <1>5, <1>6, <1>7, <1>8, <1>9

LEMMA TimeStep ==
  ASSUME ShortCalls
  PROVE  AlarmInv /\ DetInv /\ TimeInv /\ [Next]_vars => TimeInv'
<1> SUFFICES ASSUME AlarmInv, DetInv, TimeInv, [Next]_vars PROVE TimeInv'
  OBVIOUS
<1>1. CASE UNCHANGED vars
  BY <1>1, TimeIdle DEF vars
<1>2. CASE InputChange
  BY <1>2, TimeIdle DEF InputChange, mainVars
<1> QED
  BY <1>1, <1>2, TimeTick, TimeHandlers, TimePolls, TimeNew, TimeStop
  DEF Next, Main, InSetAlarm

(* No alarm waits for a compare value that the counter has passed, nor     *)
(* fires ahead of it, for every number of channels, period and delays, if  *)
(* the input is quiet during a call of main and a call is short.           *)
THEOREM AlarmsAreOnTime ==
  ASSUME "call" \notin EdgesAt, ShortCalls
  PROVE  Spec => []OnTime
<1>1. AlarmInv /\ TimeInv => OnTime
  <2> SUFFICES ASSUME AlarmInv, TimeInv, NEW c \in Channel, tim.icb[c] # None, tim.ie[c]
               PROVE  IF tim.flag[c]
                        THEN (cnt - tim.ccr[c]) % Period <= MaxLag
                        ELSE (tim.ccr[c] - cnt) % Period \in 1 .. tim.ticks[c]
    BY DEF OnTime
  <2>1. lag \in 0 .. MaxLag /\ MaxLag \in Nat /\ cnt \in Count /\ tim.ccr[c] \in Count
    BY ButtonAssumption DEF AlarmInv, TypeOK, TimerState
  <2>2. Gap(cnt, tim.ccr[c]) \in Nat
    <3>1. Gap(cnt, tim.ccr[c]) \in Count  BY <2>1, GapIs
    <3> QED  BY <3>1, TimerAssumption DEF Count
  <2>3. PICK late : /\ Sharp(tim, cnt, late) /\ late \in Nat
                    /\ late <= MaxLag \/ late = Late
    BY <2>1, DelayFacts DEF TimeInv, SharpTimer
  <2>4. /\ tim.flag[c] => Gap(cnt, tim.ccr[c]) < late
        /\ ~tim.flag[c] => Gap(tim.ccr[c], cnt) \in 1 .. tim.ticks[c]
    BY <2>3 DEF Sharp, Live
  <2>5. tim.flag[c] => Gap(cnt, tim.ccr[c]) <= MaxLag
    BY <2>1, <2>2, <2>3, <2>4 DEF Late
  <2> QED  BY <2>4, <2>5 DEF Gap
<1>2. AlarmInv /\ DetInv /\ TimeInv /\ [Next]_vars => (AlarmInv /\ DetInv /\ TimeInv)'
  BY AlarmStep, DetStep, TimeStep
<1> QED  BY <1>1, <1>2, AlarmInit, DetInit, TimeInit, PTL DEF Spec
=============================================================================

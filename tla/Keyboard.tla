------------------------------ MODULE Keyboard ------------------------------
(***************************************************************************)
(* The keyboard driver (fw/core/inc/Keyboard) and the loop of the          *)
(* application that reads lines with it (select, then fgets), one step per *)
(* transfer on the SPI bus: between two of them the keyboard goes on.      *)
(***************************************************************************)
EXTENDS ScanCodeParser, Ps2Port

CONSTANT NPolls  (* nmax_poll_cycles                                       *)

ASSUME PollsAssumption == NPolls \in Nat /\ NPolls > 1

VARIABLES
  pc,      (* where the thread is: the next transfer or call               *)
  caller,  (* the call under way: open, poll or getc                       *)
  stage,   (* the _pollTxRx under way                                      *)
  polls,   (* its polls left                                               *)
  scan,    (* _tryRead: the byte that came with an error, or NoScan        *)
  parser,  (* _parser                                                      *)
  st,      (* _state                                                       *)
  peek,    (* _peek                                                        *)
  typed,   (* history: the characters typed and not handed to the          *)
           (* application yet                                              *)
  alien    (* history: a character has been handed to it that was not the  *)
           (* next one typed                                               *)

threadVars == <<pc, caller, stage, polls, scan, parser, st, peek, alien>>
driverVars == <<threadVars, typed>>

PC     == {"closed", "exit", "select", "fgets", "getc", "start", "await", "reset"}
Caller == {"open", "poll", "getc"}
Stage  == {"rst", "cmd", "ack", "arg", "ack2"}

NoScan  == 256
NoChar  == ""
Newline == "\n"

(* OFF, OFF2ON, ON, ON2OFF                                                 *)
KeyState  == 0 .. 3
LockOn(s) == s \in {1, 2}
Pressed(s) == s % 2 = 1

Off == [lshift |-> FALSE, rshift |-> FALSE, alt_gr |-> FALSE, caps_lock |-> 0, num_lock |-> 0]

DriverInit ==
  /\ pc = "closed" /\ caller = "open" /\ stage = "rst" /\ polls = 0
  /\ scan = NoScan
  /\ parser = "MAKE_START"
  /\ st = Off
  /\ peek = NoChar
  /\ typed = <<>>
  /\ alien = FALSE

-----------------------------------------------------------------------------
(* Characters: one key for every shape of row of AsciiLut.                 *)
KB_A      == \h1C
KB_Q      == \h15
KB_7      == \h3D
KB_RETURN == \h5A
KP_1      == \h69
KP_DOT    == \h71
KP_SLASH  == \hCA

AsciiLut(k) ==
  CASE k = KB_A      -> <<"a", "A", NoChar, NoChar>>
    [] k = KB_Q      -> <<"q", "Q", "@", NoChar>>
    [] k = KB_7      -> <<"7", "/", "{", NoChar>>
    [] k = KB_RETURN -> <<Newline, Newline, Newline, Newline>>
    [] k = KP_1      -> <<"1", NoChar, "1", NoChar>>
    [] k = KP_DOT    -> <<".", NoChar, ".", NoChar>>
    [] k = KP_SLASH  -> <<"/", "/", "/", "/">>
    [] OTHER         -> <<NoChar, NoChar, NoChar, NoChar>>

Character == (UNION {{AsciiLut(k)[i] : i \in 1 .. 4} : k \in Code}) \ {NoChar}

isdigit(c) == c \in {"1", "7"}
isalpha(c) == c \in {"a", "A", "q", "Q"}
KeyPad     == {KP_1, KP_DOT, KP_SLASH}

(* Seeded fault: AltGr is not looked at.                                   *)
MapLatin(s, k) ==
  AsciiLut(k)[1 + IF s.lshift \/ s.rshift THEN 1 ELSE 0]

(* Shift and AltGr select the column; Caps Lock inverts Shift for letters, *)
(* Num Lock is for the digits of the key pad.                              *)
Map(s, k) ==
  LET shift == s.lshift \/ s.rshift
      Column(sh) == 1 + (IF s.alt_gr THEN 2 ELSE 0) + (IF sh THEN 1 ELSE 0)
      c == AsciiLut(k)[Column(shift)]
  IN CASE k \in KeyPad -> IF isdigit(c) /\ ~LockOn(s.num_lock) THEN NoChar ELSE c
       [] k \notin KeyPad /\ isalpha(c) -> AsciiLut(k)[Column(shift # LockOn(s.caps_lock))]
       [] OTHER -> c

-----------------------------------------------------------------------------
(* A call of the driver returns a character, or none: poll() keeps it for  *)
(* read(), _getc() tries again without one.                                *)
Hand(c) ==
  /\ IF typed # <<>> /\ Head(typed) = c
     THEN typed' = Tail(typed) /\ UNCHANGED alien
     ELSE alien' = TRUE /\ UNCHANGED typed
  /\ pc' = IF c = Newline THEN "select" ELSE "fgets"

Return(call, c) ==
  \/ /\ call = "poll"
     /\ peek' = c
     /\ pc' = IF c # NoChar THEN "fgets" ELSE "select"
     /\ UNCHANGED <<typed, alien>>
  \/ /\ call = "getc" /\ c # NoChar
     /\ Hand(c)
     /\ UNCHANGED peek
  \/ /\ call = "getc" /\ c = NoChar
     /\ pc' = "getc"
     /\ UNCHANGED <<peek, typed, alien>>

(* The same from _step, which need not have called _trySet.                *)
StepReturn(call, c) == Return(call, c) /\ UNCHANGED <<stage, polls>>

(* _trySet: four exchanges in a row.                                       *)
TrySet ==
  /\ pc' = "start" /\ stage' = "cmd"
  /\ UNCHANGED <<polls, peek, typed, alien>>

(* Seeded fault: the state of the lock does not wrap around.               *)
LockKeyUnwrapped(call, field, make) ==
  \/ /\ make /\ ~Pressed(st[field])
     /\ st' = [st EXCEPT ![field] = @ + 1]
     /\ TrySet
  \/ /\ ~make /\ Pressed(st[field])
     /\ st' = [st EXCEPT ![field] = @ + 1]
     /\ StepReturn(call, NoChar)
  \/ /\ make = Pressed(st[field])
     /\ UNCHANGED st
     /\ StepReturn(call, NoChar)

(* Caps Lock, Num Lock: a make turns the lock over and shows it on the     *)
(* LEDs, once until the break however often the keyboard repeats it.       *)
LockKey(call, field, make) ==
  \/ /\ make /\ ~Pressed(st[field])
     /\ st' = [st EXCEPT ![field] = @ + 1]
     /\ TrySet
  \/ /\ ~make /\ Pressed(st[field])
     /\ st' = [st EXCEPT ![field] = (@ + 1) % 4]
     /\ StepReturn(call, NoChar)
  \/ /\ make = Pressed(st[field])
     /\ UNCHANGED st
     /\ StepReturn(call, NoChar)

Modifier(call, field, make) ==
  /\ st' = [st EXCEPT ![field] = make]
  /\ StepReturn(call, NoChar)

Step(call, code) ==
  LET p == Parse(parser, code)
      make == p.action = "MAKE"
  IN
  /\ parser' = p.state
  /\ CASE p.action = "RESET" -> st' = Off /\ StepReturn(call, NoChar)
       [] p.action = "NONE" -> UNCHANGED st /\ StepReturn(call, NoChar)
       [] p.key = KB_CAPSLOCK -> LockKey(call, "caps_lock", make)
       [] p.key = KB_NUMLOCK -> LockKey(call, "num_lock", make)
       [] p.key = KB_LSHIFT -> Modifier(call, "lshift", make)
       [] p.key = KB_RSHIFT -> Modifier(call, "rshift", make)
       [] p.key = KB_RALT -> Modifier(call, "alt_gr", make)
       [] OTHER -> /\ UNCHANGED st
                   /\ StepReturn(call, IF make THEN Map(st, p.key) ELSE NoChar)

Stepped(call, code) ==
  IF code = NoScan THEN UNCHANGED <<parser, st>> /\ StepReturn(call, NoChar)
  ELSE Step(call, code)

-----------------------------------------------------------------------------
(* _tryRead.  A byte that came with the stall of the peripheral is taken   *)
(* as well, once the second transfer has reset the peripheral.             *)
Received == IF rxv THEN Head(fifo) ELSE NoScan

(* Seeded fault: only the receive errors are looked at, not the enable.    *)
TryReadOn(call) ==
  /\ caller' = call
  /\ Transfer("none", 0, TRUE)
  /\ Stepped(call, Received) /\ UNCHANGED scan

(* Seeded fault: a byte that comes with an error is not taken.             *)
TryReadDropping(call) ==
  /\ caller' = call
  /\ Transfer("none", 0, TRUE)
  /\ \/ /\ ~en
        /\ scan' = NoScan
        /\ pc' = "reset"
        /\ UNCHANGED <<stage, polls, parser, st, peek, typed, alien>>
     \/ /\ en
        /\ Stepped(call, Received)
        /\ UNCHANGED scan

TryRead(call) ==
  /\ caller' = call
  /\ Transfer("none", 0, TRUE)
  /\ \/ /\ ~en
        /\ scan' = Received
        /\ pc' = "reset"
        /\ UNCHANGED <<stage, polls, parser, st, peek, typed, alien>>
     \/ /\ en
        /\ Stepped(call, Received)
        /\ UNCHANGED scan

ResetStalled ==
  /\ pc = "reset"
  /\ Transfer("RST", 0, FALSE)
  /\ scan' = NoScan
  /\ Stepped(caller, scan)
  /\ UNCHANGED caller

(* _pollTxRx: a write, then reads until the flag that stands for its end   *)
(* is up.  A poll comes ten milliseconds after the transfer before it: a   *)
(* transmission takes less than two of them, a request nobody takes up     *)
(* times out in the second.                                                *)
CMD_CODE == \hED
CmdArg(caps, num) == (IF num THEN 2 ELSE 0) + (IF caps THEN 4 ELSE 0)

(* Seeded fault: the bits of the two LEDs are swapped.                     *)
LedsSwapped == CmdArg(LockOn(st.num_lock), LockOn(st.caps_lock))

Leds == IF caller = "open" THEN CmdArg(FALSE, FALSE)
        ELSE CmdArg(LockOn(st.caps_lock), LockOn(st.num_lock))

StartPoll ==
  /\ pc = "start"
  /\ Transfer(CASE stage = "rst" -> "RST"
                [] stage \in {"cmd", "arg"} -> "SEND"
                [] stage \in {"ack", "ack2"} -> "LISTEN",
              IF stage = "cmd" THEN CMD_CODE ELSE Leds, FALSE)
  /\ pc' = "await"
  /\ polls' = NPolls
  /\ UNCHANGED <<caller, stage, scan, parser, st, peek, typed, alien>>

Answered ==
  CASE stage = "rst" -> en
    [] stage \in {"cmd", "arg"} -> txc
    [] stage \in {"ack", "ack2"} -> rxv

(* The end of _trySet, and of open() or of the _step that wanted it.       *)
SetDone(ok) ==
  /\ stage' = "rst" /\ polls' = 0
  /\ \/ /\ caller = "open"
        /\ st' = IF ok THEN Off ELSE st
        /\ pc' = IF ok THEN "select" ELSE "exit"
        /\ UNCHANGED <<peek, typed, alien>>
     \/ /\ caller # "open"
        /\ Return(caller, NoChar)
        /\ UNCHANGED st

NextStage == [rst |-> "cmd", cmd |-> "ack", ack |-> "arg", arg |-> "ack2"]

(* Seeded fault: the polls are not counted.                                *)
NoAnswerForEver ==
  UNCHANGED <<pc, polls, stage, st, peek, typed, alien>>

NoAnswer ==
  \/ /\ polls > 1
     /\ polls' = polls - 1
     /\ UNCHANGED <<pc, stage, st, peek, typed, alien>>
  \/ /\ polls = 1
     /\ SetDone(FALSE)

Poll ==
  /\ pc = "await"
  /\ mode = "tx" => polls > 1
  /\ Transfer("none", 0, FALSE)
  /\ \/ /\ Answered /\ stage # "ack2"
        /\ stage' = NextStage[stage]
        /\ pc' = "start" /\ polls' = 0
        /\ UNCHANGED <<st, peek, typed, alien>>
     \/ /\ Answered /\ stage = "ack2"
        /\ SetDone(Head(fifo) = ACK_CODE)
     \/ /\ ~Answered
        /\ NoAnswer
  /\ UNCHANGED <<caller, scan, parser>>

-----------------------------------------------------------------------------
(* The application: fopen(), then select() with the keyboard's descriptor  *)
(* and no time to wait; when it is ready, read() until the line ends.      *)
Open ==
  /\ pc = "closed"
  /\ pc' = "start" /\ caller' = "open" /\ stage' = "rst"
  /\ UNCHANGED <<polls, scan, parser, st, peek, typed, alien, portVars>>

Select ==
  /\ pc = "select"
  /\ TryRead("poll")

Read ==
  /\ pc = "fgets"
  /\ \/ /\ peek # NoChar
        /\ Hand(peek)
        /\ peek' = NoChar
        /\ UNCHANGED caller
     \/ /\ peek = NoChar
        /\ pc' = "getc" /\ caller' = "getc"
        /\ UNCHANGED <<peek, typed, alien>>
  /\ UNCHANGED <<stage, polls, scan, parser, st, portVars>>

Getc ==
  /\ pc = "getc"
  /\ TryRead("getc")

Driver == Open \/ Select \/ Read \/ Getc \/ ResetStalled \/ StartPoll \/ Poll

DriverTypeOK ==
  /\ pc \in PC /\ caller \in Caller /\ stage \in Stage
  /\ polls \in 0 .. NPolls
  /\ scan \in Code \cup {NoScan}
  /\ parser \in ParserState
  /\ st \in [lshift : BOOLEAN, rshift : BOOLEAN, alt_gr : BOOLEAN,
             caps_lock : KeyState, num_lock : KeyState]
  /\ peek \in Character \cup {NoChar}
=============================================================================

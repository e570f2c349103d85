--------------------------- MODULE KeyboardSystem ---------------------------
(***************************************************************************)
(* A user at a keyboard, the FPGA's port, the driver and the application.  *)
(*                                                                         *)
(* The keyboard is outside the project: it sends scan code set 2, one key  *)
(* at a time, repeats a key that is held, answers commands before it goes  *)
(* on with its keys, and answers nothing until its self test is over.      *)
(***************************************************************************)
EXTENDS Keyboard

CONSTANTS
  Key,        (* the keys there are                                        *)
  MaxEvents,  (* bound: keys pressed or repeated, and reconnections        *)
  MaxFaults   (* bound: receive errors, lost bytes, lost and refused commands *)

ASSUME KeyAssumption == Key \subseteq {i \in Code : KeysLut[i] = i} \ {KB_NONE, KB_COMBO}
ASSUME BoundAssumption == MaxEvents \in Nat /\ MaxFaults \in Nat

VARIABLES
  held,    (* the keys that are down                                       *)
  locks,   (* what Caps Lock and Num Lock mean to the user                 *)
  leds,    (* what the keyboard's LEDs show, as the argument of CMD_CODE   *)
  out,     (* what the keyboard has to send of a key                       *)
  answer,  (* and of a command, or 0                                       *)
  expect,  (* the next byte is the argument of CMD_CODE                    *)
  events, faults

userVars   == <<held, locks>>
deviceVars == <<leds, out, answer, expect, events, faults>>

vars == <<portVars, driverVars, userVars, deviceVars>>

Init ==
  /\ PortInit
  /\ DriverInit
  /\ held = {}
  /\ locks = [caps |-> FALSE, num |-> FALSE]
  /\ leds \in {0, CmdArg(TRUE, FALSE)}
  /\ out = <<>>
  /\ answer = 0
  /\ expect = FALSE
  /\ events = 0 /\ faults = 0

-----------------------------------------------------------------------------
(* Scan code set 2.                                                        *)
KB_F7 == \h83  (* the one plain code above 127                             *)

Extended(k) == k \in 128 .. 255 /\ k \notin {KB_F7, KB_PAUSE, KB_PSCREEN}

MakeCode(k) ==
  CASE k = KB_PAUSE -> <<\hE1, \h14, \h77, \hE1, \hF0, \h14, \hF0, \h77>>
    [] k = KB_PSCREEN -> <<\hE0, \h12, \hE0, \h7C>>
    [] Extended(k) -> <<\hE0, k - 128>>
    [] OTHER -> <<k>>

BreakCode(k) ==
  CASE k = KB_PAUSE -> <<>>
    [] k = KB_PSCREEN -> <<\hE0, \hF0, \h7C, \hE0, \hF0, \h12>>
    [] Extended(k) -> <<\hE0, \hF0, k - 128>>
    [] OTHER -> <<\hF0, k>>

(* What a key types, from the keys that are down and the locks.            *)
Shift == held \cap {KB_LSHIFT, KB_RSHIFT} # {}
AltGr == KB_RALT \in held

Types(k) ==
  LET row == AsciiLut(k)
      upper == isalpha(row[1]) /\ locks.caps
      c == CASE ~AltGr /\ Shift = upper -> row[1]
             [] ~AltGr /\ Shift # upper -> row[2]
             [] AltGr /\ ~Shift -> row[3]
             [] AltGr /\ Shift -> row[4]
  IN IF k \in KeyPad /\ isdigit(c) /\ ~locks.num THEN NoChar ELSE c

Strike(k) ==
  /\ events < MaxEvents /\ events' = events + 1
  /\ out = <<>> /\ out' = MakeCode(k)
  /\ typed' = IF Types(k) = NoChar THEN typed ELSE Append(typed, Types(k))

Press(k) ==
  /\ k \notin held
  /\ Strike(k)
  /\ held' = held \cup {k}
  /\ locks' = [caps |-> locks.caps # (k = KB_CAPSLOCK), num |-> locks.num # (k = KB_NUMLOCK)]

Repeat(k) ==
  /\ k \in held \ {KB_PAUSE}
  /\ Strike(k)
  /\ UNCHANGED <<held, locks>>

Release(k) ==
  /\ k \in held
  /\ out = <<>> /\ out' = BreakCode(k)
  /\ held' = held \ {k}
  /\ UNCHANGED <<locks, typed, events>>

User ==
  /\ \E k \in Key : Press(k) \/ Repeat(k) \/ Release(k)
  /\ UNCHANGED <<leds, answer, expect, faults, portVars, threadVars>>

(* The keyboard is plugged in again: its self test, nothing held, no LEDs. *)
Reconnect ==
  /\ events < MaxEvents /\ events' = events + 1
  /\ out = <<>> /\ out' = <<BAT_CODE>>
  /\ held' = {} /\ locks' = [caps |-> FALSE, num |-> FALSE]
  /\ leds' = 0 /\ answer' = 0 /\ expect' = FALSE
  /\ UNCHANGED <<faults, portVars, driverVars>>

Send ==
  /\ \/ answer # 0 /\ Receive(answer) /\ answer' = 0 /\ UNCHANGED out
     \/ answer = 0 /\ out # <<>> /\ Receive(Head(out)) /\ out' = Tail(out) /\ UNCHANGED answer
  /\ UNCHANGED <<leds, expect, events, faults, userVars, driverVars>>

(* The byte under way is lost, or the keyboard sends it again.             *)
SendFails ==
  /\ faults < MaxFaults /\ faults' = faults + 1
  /\ ReceiveError
  /\ \/ UNCHANGED <<out, loss>>
     \/ out # <<>> /\ out' = Tail(out) /\ loss' = "since"
  /\ UNCHANGED <<leds, answer, expect, events, userVars, driverVars>>

(* It arrives just as the driver asks, and goes out in no packet.          *)
SendUnseen ==
  /\ faults < MaxFaults /\ faults' = faults + 1
  /\ \/ answer # 0 /\ ReceiveUnseen(answer) /\ answer' = 0 /\ UNCHANGED out
     \/ answer = 0 /\ out # <<>> /\ ReceiveUnseen(Head(out)) /\ out' = Tail(out) /\ UNCHANGED answer
  /\ UNCHANGED <<leds, expect, events, userVars, driverVars>>

Testing == out = <<BAT_CODE>>

Command ==
  \/ /\ txd = CMD_CODE
     /\ expect' = TRUE /\ answer' = ACK_CODE
     /\ UNCHANGED leds
  \/ /\ txd # CMD_CODE /\ expect
     /\ expect' = FALSE /\ answer' = ACK_CODE
     /\ leds' = txd
  \/ /\ txd # CMD_CODE /\ ~expect
     /\ answer' = RESEND
     /\ UNCHANGED <<expect, leds>>

Take ==
  /\ ~Testing
  /\ Transmit(TRUE)
  /\ Command
  /\ UNCHANGED <<loss, out, events, faults, userVars, driverVars>>

(* The keyboard finds the parity wrong.                                    *)
Refuse ==
  /\ faults < MaxFaults /\ faults' = faults + 1
  /\ ~Testing
  /\ Transmit(TRUE)
  /\ answer' = RESEND
  /\ loss' = "since"
  /\ UNCHANGED <<leds, out, expect, events, userVars, driverVars>>

(* The keyboard does not take up the request, or stops in the middle.      *)
TakeFails ==
  /\ \/ Testing /\ UNCHANGED faults
     \/ ~Testing /\ faults < MaxFaults /\ faults' = faults + 1
  /\ Transmit(FALSE)
  /\ loss' = "since"
  /\ UNCHANGED <<leds, out, answer, expect, events, userVars, driverVars>>

Thread == Driver /\ UNCHANGED <<userVars, deviceVars>>

(* exit(-1): the keyboard cannot be opened.                                *)
Exited == pc = "exit" /\ UNCHANGED vars

Next ==
  \/ Thread \/ Exited
  \/ User \/ Reconnect
  \/ Send \/ SendFails \/ SendUnseen \/ Take \/ Refuse \/ TakeFails

(* The thread runs, the keyboard sends what it has, and a transmission     *)
(* ends: the port's watchdogs see to it.                                   *)
Spec ==
  /\ Init /\ [][Next]_vars
  /\ WF_vars(Thread)
  /\ WF_vars(Send)
  /\ WF_vars(Take \/ Refuse \/ TakeFails)

-----------------------------------------------------------------------------
(* Types of the state.                                                     *)
TypeOK ==
  /\ PortTypeOK
  /\ DriverTypeOK
  /\ held \subseteq Key
  /\ leds \in 0 .. 7
  /\ out \in Seq(Code) /\ answer \in Answer \cup {0}
  /\ typed \in Seq(Character) /\ alien \in BOOLEAN

(* Everything the keyboard has sent has gone through the driver.           *)
Quiet ==
  /\ out = <<>> /\ fifo = <<>>
  /\ pc \in {"select", "fgets", "getc"}
  /\ loss # "since"

(* As long as no byte got lost - or since the last self test, which makes  *)
(* up for what did - the driver knows the modifiers and locks: whatever    *)
(* keys were held, repeated and released, with which sequences, and        *)
(* whatever answers and repeated bytes _trySet left in between.            *)
KnowsKeys ==
  Quiet =>
    /\ parser = "MAKE_START"
    /\ st.lshift = (KB_LSHIFT \in held)
    /\ st.rshift = (KB_RSHIFT \in held)
    /\ st.alt_gr = (KB_RALT \in held)
    /\ LockOn(st.caps_lock) = locks.caps
    /\ Pressed(st.caps_lock) = (KB_CAPSLOCK \in held)
    /\ LockOn(st.num_lock) = locks.num
    /\ Pressed(st.num_lock) = (KB_NUMLOCK \in held)

(* And the LEDs show the locks.                                            *)
LedsShowLocks == Quiet => leds = CmdArg(locks.caps, locks.num)

(* The application reads what was typed: in order, each character once,    *)
(* and nothing else, by way of poll() and read() or of the blocking read.  *)
ReadIsTyped == loss = "none" => ~alien

(* Nothing typed stays behind in the driver or in the port.                *)
TypedIsRead == typed # <<>> ~> typed = <<>> \/ loss # "none" \/ pc = "exit"

(* "Peripheral stalled. Resetting...": the port does not stay in an error, *)
(* wherever in the driver's calls it happens; and no call waits for an     *)
(* answer for ever: a keyboard that is silent while the LEDs are set does  *)
(* not hold up the application.                                            *)
Recovers ==
  /\ mode \in {"err", "txerr"} ~> mode \notin {"err", "txerr"} \/ pc = "exit"
  /\ pc \in {"start", "await", "reset"} ~> pc \in {"select", "fgets", "getc", "exit"}
=============================================================================

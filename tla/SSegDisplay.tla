---------------------------- MODULE SSegDisplay -----------------------------
(***************************************************************************)
(* The driver of the 7-segment displays, the UART with its DMA stream, and *)
(* the receiver and the peripheral at the other end of the line.  A string *)
(* is built up in a buffer and sent when it is terminated; one that is too *)
(* long is shown through a window that moves on at every alarm, and        *)
(* write() waits until it has been seen.  The DMA stream reads the buffer  *)
(* while the driver may be at work on it, and the line may be noisy.       *)
(*                                                                         *)
(* Taken as given: the scroll delay is longer than a transfer, so alarm()  *)
(* never finds one in progress (it would exit(-3)); alarm() is not         *)
(* interrupted by main, and setAlarm() and its stop are single steps (they *)
(* are the subject of PushButton).  FNONBLOCK is never set by the program. *)
(***************************************************************************)
EXTENDS SSegPeripheral, UartRx

CONSTANTS
  Text,       (* pieces of strings that are written                        *)
  BufSize,    (* BUF_SIZE                                                  *)
  MinScroll,  (* MIN_SCROLL_TIMES                                          *)
  MaxErrors   (* bound on the pulses that disturb the line                 *)

ASSUME TextAssumption == Text \subseteq Seq(Char \cup {Clear}) /\ DOMAIN Code = Char \cup {Clear}
ASSUME BufSizeAssumption == BufSize \in Nat /\ BufSize > NDisp
ASSUME MinScrollAssumption == MinScroll \in Nat \ {0} /\ MaxErrors \in Nat

VARIABLES
  pc,          (* where main is: "idle", or in a call                      *)
  call,        (* the call: a piece of text and whether it is terminated   *)
  state,       (* _state                                                   *)
  buf,         (* _buf up to _buf_end                                      *)
  scrollPtr,   (* _scroll_ptr as an index of buf                           *)
  scrolled, nscroll,
  alarmSet,    (* the alarm is set                                         *)
  clearing,    (* a Clear is in the UART's data register                   *)
  ptr, left,   (* next address and count of the DMA stream                 *)
  tc,          (* the UART's transmission-complete flag                    *)
  errors,      (* pulses on the line so far                                *)
  text,        (* history: the string being shown                          *)
  offset,      (* history: how far its window has moved round it           *)
  seen,        (* history: the characters of text that have been sent      *)
  fresh,       (* history: the displays were cleared before text           *)
  aligned      (* history: no pulse since a Clear met an idle receiver     *)

uartVars == <<clearing, ptr, left, tc>>
history == <<text, offset, seen, fresh, aligned>>
vars == <<panelVars, rx, pc, call, state, buf, scrollPtr, scrolled, nscroll, alarmSet,
          uartVars, errors, history>>

Seek == [seek |-> TRUE]
Write(s, end) == [seek |-> FALSE, text |-> s, end |-> end]

(* open() with truncation has cleared the displays.                        *)
Init ==
  /\ Reset
  /\ pc = "idle" /\ call = Seek
  /\ state = "BUILD_STRING" /\ buf = <<>> /\ scrollPtr = 1
  /\ scrolled = TRUE /\ nscroll = 0 /\ alarmSet = FALSE
  /\ clearing = TRUE /\ ptr = 1 /\ left = 0 /\ tc = TRUE
  /\ rx = Idling(1) /\ errors = 0
  /\ text = <<>> /\ offset = 0 /\ seen = {} /\ fresh = TRUE /\ aligned = TRUE

StartDMATransfer(first, count) == ptr' = first /\ left' = count

-----------------------------------------------------------------------------
(* A call of write() or llseek(): in BUILD_STRING there is nothing to wait *)
(* for, and llseek() drops what has been built, or fails when that is      *)
(* nothing.  Nothing has cleared tc when the first string is sent, so the  *)
(* wait for that one is void; the program turns the motor meanwhile.       *)
Call(c) ==
  /\ pc = "idle"
  /\ tc => ~clearing /\ left = 0
  /\ call' = c
  /\ IF state # "BUILD_STRING"
       THEN pc' = "wait" /\ UNCHANGED buf
     ELSE IF c.seek
       THEN pc' = "idle" /\ buf' = <<>>
       ELSE pc' = "copy" /\ UNCHANGED buf
  /\ UNCHANGED <<panelVars, rx, state, scrollPtr, scrolled, nscroll, alarmSet, uartVars, errors, history>>

(* wait(): once the string has been seen, the scrolling is stopped.        *)
WaitScroll ==
  /\ pc = "wait" /\ state = "TRANSFER_SCROLL"
  /\ scrolled
  /\ alarmSet' = FALSE
  /\ state' = "TRANSFER_NO_SCROLL"
  /\ UNCHANGED <<panelVars, rx, pc, call, buf, scrollPtr, scrolled, nscroll, uartVars, errors, history>>

(* Seeded fault: the transfer is not waited for.                           *)
WaitSentNot ==
  /\ pc = "wait" /\ state = "TRANSFER_NO_SCROLL"
  /\ tc' = FALSE
  /\ buf' = <<>>
  /\ state' = "BUILD_STRING"
  /\ pc' = IF call.seek THEN "clear" ELSE "copy"
  /\ UNCHANGED <<panelVars, rx, call, scrollPtr, scrolled, nscroll, alarmSet, clearing, ptr, left, errors, history>>

(* ... and the transfer in progress waited for.                            *)
WaitSent ==
  /\ pc = "wait" /\ state = "TRANSFER_NO_SCROLL"
  /\ tc /\ tc' = FALSE
  /\ buf' = <<>>
  /\ state' = "BUILD_STRING"
  /\ pc' = IF call.seek THEN "clear" ELSE "copy"
  /\ UNCHANGED <<panelVars, rx, call, scrollPtr, scrolled, nscroll, alarmSet, clearing, ptr, left, errors, history>>

(* llseek(): the displays are cleared.                                     *)
SeekClear ==
  /\ pc = "clear"
  /\ pc' = "idle"
  /\ clearing' = TRUE
  /\ state' = "TRANSFER_NO_SCROLL"
  /\ text' = <<>> /\ offset' = 0 /\ seen' = {} /\ fresh' = TRUE
  /\ UNCHANGED <<panelVars, rx, call, buf, scrollPtr, scrolled, nscroll, alarmSet, ptr, left, tc, errors, aligned>>

(* The characters of text in the window that has moved by n.               *)
Window(n) == {((n + i - 1) % (Len(text) + 1)) + 1 : i \in Place}

(* History of a string that begins to be shown.                            *)
Begins(str) ==
  /\ text' = str
  /\ offset' = 0
  /\ seen' = Place
  /\ fresh' = (fresh /\ text = <<>>)

(* write(): a piece that does not fit is refused.                          *)
NoSpace ==
  /\ pc = "copy"
  /\ Len(buf) + Len(call.text) > BufSize - 1
  /\ pc' = "idle"
  /\ UNCHANGED <<panelVars, rx, call, state, buf, scrollPtr, scrolled, nscroll, alarmSet, uartVars, errors, history>>

(* Seeded fault: no room is kept for the separator.                        *)
FitsFull == pc = "copy" /\ Len(buf) + Len(call.text) <= BufSize

Fits == pc = "copy" /\ Len(buf) + Len(call.text) <= BufSize - 1

Build ==
  /\ Fits /\ ~call.end
  /\ pc' = "idle"
  /\ buf' = buf \o call.text
  /\ UNCHANGED <<panelVars, rx, call, state, scrollPtr, scrolled, nscroll, alarmSet, uartVars, errors, history>>

(* A terminated string that fits the displays is a single transfer.        *)
Transfer(str) ==
  /\ Fits /\ call.end
  /\ Len(str) <= NDisp
  /\ pc' = "idle"
  /\ buf' = str
  /\ StartDMATransfer(1, Len(str))
  /\ state' = "TRANSFER_NO_SCROLL"
  /\ Begins(str)
  /\ UNCHANGED <<panelVars, rx, call, scrollPtr, scrolled, nscroll, alarmSet, clearing, tc, errors, aligned>>

StartScroll(str) ==
  /\ Fits /\ call.end
  /\ Len(str) > NDisp
  /\ pc' = "spin"
  /\ buf' = Append(str, Off)
  /\ scrollPtr' = 2
  /\ StartDMATransfer(1, NDisp)
  /\ state' = "TRANSFER_SCROLL"
  /\ alarmSet' = TRUE
  /\ Begins(str)
  /\ UNCHANGED <<panelVars, rx, call, clearing, tc, errors, aligned>>

(* Seeded fault: the flag of the previous string is kept.                  *)
ScrollStale(str) ==
  /\ StartScroll(str)
  /\ nscroll' = 0 /\ UNCHANGED scrolled

(* Seeded fault: the count of the previous string is kept.                 *)
ScrollOn(str) ==
  /\ StartScroll(str)
  /\ scrolled' = FALSE /\ UNCHANGED nscroll

(* A longer one starts to scroll, its end and its head separated by a      *)
(* space, and write() waits.                                               *)
Scroll(str) ==
  /\ StartScroll(str)
  /\ scrolled' = FALSE /\ nscroll' = 0

Spin ==
  /\ pc = "spin" /\ scrolled
  /\ pc' = "idle"
  /\ UNCHANGED <<panelVars, rx, call, state, buf, scrollPtr, scrolled, nscroll, alarmSet, uartVars, errors, history>>

-----------------------------------------------------------------------------
LastWindow == scrollPtr + NDisp = Len(buf) + 1

(* Seeded fault: the end of the string is not brought round to its head.   *)
Restarted == buf

(* std::rotate(begin, _scroll_ptr, _buf_end)                               *)
Rotated == SubSeq(buf, scrollPtr, Len(buf)) \o SubSeq(buf, 1, scrollPtr - 1)

(* alarm(): at the last window the buffer is rotated, so that what follows *)
(* it is contiguous again; the next window is sent.  Reading the flag and  *)
(* then writing the data register clears tc.  nscroll is kept up to the    *)
(* value at which alarm() looks at it.                                     *)
Alarm ==
  /\ alarmSet /\ ~clearing /\ left = 0
  /\ offset' = (offset + 1) % (Len(text) + 1)
  /\ seen' = seen \cup Window(offset')
  /\ IF LastWindow
       THEN /\ buf' = Rotated
            /\ scrollPtr' = 2
            /\ nscroll' = IF nscroll < MinScroll THEN nscroll + 1 ELSE nscroll
            /\ scrolled' = (scrolled \/ nscroll + 1 = MinScroll)
            /\ StartDMATransfer(1, NDisp)
       ELSE /\ scrollPtr' = scrollPtr + 1
            /\ StartDMATransfer(scrollPtr, NDisp)
            /\ UNCHANGED <<buf, nscroll, scrolled>>
  /\ tc' = FALSE
  /\ UNCHANGED <<panelVars, rx, pc, call, state, alarmSet, clearing, errors, text, fresh, aligned>>

-----------------------------------------------------------------------------
(* The receiver goes on to next; what it accepts goes to the displays.     *)
Receive(next) ==
  /\ rx' = next
  /\ IF next.out # NoChar THEN Strobe(next.out) ELSE UNCHANGED panelVars

(* The UART sends the next character, of which a pulse may hit a bit.      *)
Send(char, noise) ==
  /\ IF clearing
       THEN char = Clear /\ clearing' = FALSE /\ UNCHANGED <<ptr, left>>
       ELSE left > 0 /\ char = buf[ptr] /\ ptr' = ptr + 1 /\ left' = left - 1 /\ UNCHANGED clearing
  /\ tc' = (tc \/ (~clearing' /\ left' = 0))
  /\ Receive(Received(char, noise))
  /\ errors' = IF noise # 0 THEN errors + 1 ELSE errors
  /\ aligned' = (noise = 0 /\ (aligned \/ (char = Clear /\ ~rx.sampling)))
  /\ UNCHANGED <<pc, call, state, buf, scrollPtr, scrolled, nscroll, alarmSet, text, offset, seen, fresh>>

LineUnchanged == UNCHANGED <<pc, call, state, buf, scrollPtr, scrolled, nscroll, alarmSet,
                             uartVars, text, offset, seen, fresh>>

(* The line is idle for a bit time.                                        *)
LineIdle ==
  /\ rx.sampling
  /\ Receive(Waited(FALSE))
  /\ UNCHANGED <<errors, aligned>> /\ LineUnchanged

(* A pulse on the idle line.                                               *)
Glitch ==
  /\ errors < MaxErrors
  /\ Receive(Waited(TRUE))
  /\ errors' = errors + 1 /\ aligned' = FALSE
  /\ LineUnchanged

Main ==
  \/ WaitScroll \/ WaitSent \/ SeekClear \/ NoSpace \/ Build
  \/ Transfer(buf \o call.text)
  \/ Scroll(buf \o call.text)
  \/ Spin

Uart ==
  \E char \in Char \cup {Clear}, noise \in 0 .. FrameSize :
    (noise # 0 => errors < MaxErrors) /\ Send(char, noise)

Next ==
  \/ \E c \in {Seek} \cup {Write(s, end) : s \in Text, end \in BOOLEAN} : Call(c)
  \/ Main
  \/ Alarm
  \/ Uart \/ LineIdle \/ Glitch

(* The processor, the alarms and the UART go on; nobody has to print.      *)
Fairness == WF_vars(Main) /\ WF_vars(Alarm) /\ WF_vars(Uart)

Spec == Init /\ [][Next]_vars /\ Fairness

-----------------------------------------------------------------------------
(* Types of the state; the separator always has its place in the buffer,   *)
(* and a transfer ends inside the string it is part of.                    *)
TypeOK ==
  /\ PanelOK /\ RxOK /\ errors \in 0 .. MaxErrors
  /\ pc \in {"idle", "wait", "clear", "copy", "spin"}
  /\ state \in {"BUILD_STRING", "TRANSFER_NO_SCROLL", "TRANSFER_SCROLL"}
  /\ buf \in Seq(Char \cup {Clear}) /\ Len(buf) <= BufSize
  /\ scrollPtr \in 1 .. BufSize /\ scrolled \in BOOLEAN /\ nscroll \in 0 .. MinScroll
  /\ alarmSet \in BOOLEAN /\ clearing \in BOOLEAN /\ tc \in BOOLEAN
  /\ ptr \in Nat /\ left \in 0 .. NDisp /\ (left > 0 => ptr + left <= Len(buf) + 1)

AfterClear(str) ==
  LET cleared == {k \in 1 .. Len(str) : str[k] = Clear}
  IN  IF cleared = {} THEN str
      ELSE SubSeq(str, 1 + CHOOSE k \in cleared : \A j \in cleared : j <= k, Len(str))

(* What text should look like.                                             *)
Expected ==
  IF Len(text) > NDisp
    THEN LET cycle == Append(text, Off)
         IN  [i \in Place |-> cycle[((offset + i - 1) % Len(cycle)) + 1]]
    ELSE LET str == AfterClear(text)
         IN  [i \in Place |-> IF i <= Len(str) THEN str[i] ELSE Off]

HasClear == \E k \in 1 .. Len(text) : text[k] = Clear

(* A string begins on cleared displays, by itself or after a seek, as all  *)
(* of the program's do.                                                    *)
Begun == IF Len(text) > NDisp THEN fresh /\ ~HasClear ELSE fresh \/ HasClear

(* The comments of write() and alarm(), "transfer the whole string",       *)
(* "shift": whatever calls and alarms have come since, between transfers   *)
(* the displays show the string, or the window of it the scrolling has got *)
(* to; and what a pulse on the line has done to a frame, or to the         *)
(* receiver between two, only shows until the displays are cleared with    *)
(* the receiver at rest.                                                   *)
Shows == ~clearing /\ left = 0 /\ aligned /\ Begun => sseg = Expected

(* wait(), "Wait to have scrolled at least once": when write() returns     *)
(* every character of the string has been sent to the displays.            *)
AllSeen == [][pc = "spin" /\ pc' = "idle" => 1 .. Len(text) \subseteq seen]_vars

(* UartTx::wait(), "Wait for ongoing transfer to complete": the buffer is  *)
(* not touched while the DMA stream reads it, nor a transfer restarted.    *)
BufferHeld == [][left > 0 => buf' = buf /\ left' <= left]_vars

(* Every write() and llseek() returns.                                     *)
Returns == pc # "idle" ~> pc = "idle"
=============================================================================

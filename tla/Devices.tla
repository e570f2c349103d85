------------------------------- MODULE Devices -------------------------------
(***************************************************************************)
(* The device files of the program: the file table with the log's UART,    *)
(* the analog-to-digital converter and the keyboard behind it, the latter  *)
(* two on one SPI bus.  All calls are main's, one after the other, from    *)
(* where it attaches the log to _exit(); beside them go the converter, and *)
(* resets, which the converter does not notice.                            *)
(*                                                                         *)
(* The keyboard's driver is reduced to its use of the bus (Keyboard has    *)
(* the rest), the log to whether its UART is enabled (SSegDisplay has the  *)
(* writing, and with it what _exit() prints and the waits for its end).  A *)
(* third client uses what the program does not, removal; main may close    *)
(* files, which the program leaves to _exit().  Of these drivers the UART  *)
(* has a close(), the others stay registered.                              *)
(***************************************************************************)
EXTENDS LTC2308, FileManager

CONSTANTS
  Opens,        (* calls of open() made: node, access, flags               *)
  Closes,       (* the devices whose files main closes; none in the program *)
  FlagSets,     (* flags that are set with fcntl()                         *)
  KbdRequest,   (* the settings the keyboard port needs on the bus         *)
  GuestRequest, (* those of the third client                               *)
  MaxRead       (* bound on the bytes one read asks for                    *)

ASSUME DevicesAssumption ==
  /\ Opens \subseteq [node : Node, access : AccessFlags, flags : SUBSET (ValidFlags \cup {"CREAT"})]
  /\ Closes \subseteq Node
  /\ KbdRequest \in Request /\ GuestRequest \in Request
  /\ GuestRequest \notin {AdcRequest, KbdRequest}
  /\ MaxRead \in Nat

VARIABLES
  phase,    (* of the program: what it does next, from main() to _exit()   *)
  opening,  (* open(): the descriptor, and whether its driver has agreed   *)
  kid,      (* the keyboard driver's _id                                   *)
  guest,    (* the third client's id; NMAX_SLAVES for none                 *)
  uart      (* the log's UART is enabled                                   *)

vars == <<spiVars, ltcVars, files, phase, opening, kid, guest, uart>>

(* stderr and stdout are attached, calls of any kind follow, the two are   *)
(* closed again, and the last thing is a reset.                            *)
Phase == {"attach_err", "attach_out", "runs", "close_err", "close_out", "reset"}

NotOpening == [fd |-> NMAX_FD]
Opened(fd, ok) == [fd |-> fd, ok |-> ok]

ProgramInit ==
  /\ SpiInit
  /\ \E cfg \in Config, low_power \in BOOLEAN : LtcInit(cfg, low_power)
  /\ FilesInit
  /\ phase = "attach_err"
  /\ opening = NotOpening /\ kid = NMAX_SLAVES /\ guest = NMAX_SLAVES
  /\ uart = FALSE

Init == ProgramInit /\ adc = AdcPowered(sdo)

(* Main is in a call, or between two.                                      *)
InCall == phase \in {"attach_err", "attach_out", "runs"}
Calls  == phase = "runs" /\ opening = NotOpening /\ rpc = "idle"

-----------------------------------------------------------------------------
(* Seeded fault: open() checks the mode last, and de-initialises again.    *)
LogOpenTooFar(fd) ==
  LET ok == files'[fd].mode = {"FWRITE"}
  IN  opening' = Opened(fd, ok) /\ uart' = ok

(* The log's UART: open() only for writing.  One that is enabled already   *)
(* is left as it is.                                                       *)
LogOpen(fd) ==
  LET ok == files'[fd].mode = {"FWRITE"}
  IN  /\ opening' = Opened(fd, ok)
      /\ uart' = IF ok THEN TRUE ELSE uart

(* main() attaches stderr and stdout to it before anything else.           *)
Attach(fd) ==
  /\ opening = NotOpening
  /\ \/ phase = "attach_err" /\ fd = STDERR /\ phase' = "attach_out"
     \/ phase = "attach_out" /\ fd = STDOUT /\ phase' = "runs"
  /\ Attaching(fd, "st_link_uart_tx")
  /\ LogOpen(fd)
  /\ BusIdle
  /\ UNCHANGED <<ltcVars, kid, guest>>

OpenLog(fd, o) ==
  /\ Calls
  /\ o.node = "st_link_uart_tx"
  /\ Opening(fd, o.node, o.access, o.flags)
  /\ LogOpen(fd)
  /\ BusIdle
  /\ UNCHANGED <<ltcVars, phase, kid, guest>>

-----------------------------------------------------------------------------
(* open() of a device on the bus: only for reading, and only if the master *)
(* has a place for it.                                                     *)
OpenAdc(fd, o, sid) ==
  /\ Calls
  /\ o.node = "ltc_2308"
  /\ Opening(fd, o.node, o.access, o.flags)
  /\ LET ok == files'[fd].mode = {"FREAD"} /\ ~Refuses(AdcRequest)
     IN  /\ opening' = Opened(fd, ok)
         /\ IF ok THEN LtcRegister(sid) ELSE BusIdle /\ UNCHANGED ltcVars
  /\ UNCHANGED <<phase, kid, guest, uart>>

OpenKbd(fd, o, sid) ==
  /\ Calls
  /\ o.node = "kbd"
  /\ Opening(fd, o.node, o.access, o.flags)
  /\ LET ok == files'[fd].mode = {"FREAD"} /\ ~Refuses(KbdRequest)
     IN  /\ opening' = Opened(fd, ok)
         /\ IF ok THEN AddSlave(KbdRequest, sid) /\ kid' = sid
                  ELSE BusIdle /\ UNCHANGED kid
  /\ UNCHANGED <<ltcVars, phase, guest, uart>>

(* Registered, the keyboard's driver resets its port and turns the LEDs    *)
(* off; the keyboard may not answer.  What fails stays registered.         *)
KbdReset ==
  /\ InCall
  /\ opening # NotOpening /\ opening.ok /\ files[opening.fd].node = "kbd"
  /\ Txrx(kid, "reset")
  /\ \E answered \in BOOLEAN :
       /\ DriverOpened(opening.fd, answered)
       /\ opening' = NotOpening
  /\ UNCHANGED <<ltcVars, phase, kid, guest, uart>>

(* The driver's open() returns.                                            *)
OpenReturns ==
  /\ InCall
  /\ opening # NotOpening /\ rpc = "idle"
  /\ opening.ok => files[opening.fd].node # "kbd"
  /\ DriverOpened(opening.fd, opening.ok)
  /\ opening' = NotOpening
  /\ BusIdle
  /\ UNCHANGED <<ltcVars, phase, kid, guest, uart>>

-----------------------------------------------------------------------------
ReadAdc(fd, n) ==
  /\ Calls
  /\ IsOpenFor(fd, "FREAD") /\ files[fd].node = "ltc_2308"
  /\ Read(n)
  /\ UNCHANGED <<files, phase, opening, kid, guest, uart>>

AdcCall ==
  /\ InCall
  /\ LtcCall
  /\ UNCHANGED <<files, phase, opening, kid, guest, uart>>

AdcOptions(cfg) ==
  /\ Calls
  /\ SetOptions(cfg)
  /\ UNCHANGED <<files, phase, opening, kid, guest, uart>>

(* read() and select() of the keyboard.                                    *)
AskKbd(fd) ==
  /\ Calls
  /\ IsOpenFor(fd, "FREAD") /\ files[fd].node = "kbd"
  /\ Txrx(kid, "none")
  /\ UNCHANGED <<ltcVars, files, phase, opening, kid, guest, uart>>

(* close(): the UART is de-initialised, whatever else is open on it; the   *)
(* other drivers refuse, and the entry is freed all the same.              *)
CloseFile(fd) ==
  /\ Closing(fd)
  /\ uart' = (uart /\ files[fd].node # "st_link_uart_tx")

Close(fd) ==
  /\ Calls
  /\ CloseFile(fd) /\ files[fd].node \in Closes
  /\ BusIdle
  /\ UNCHANGED <<ltcVars, phase, opening, kid, guest>>

Fcntl(fd, flags) ==
  /\ Calls
  /\ SetFlags(fd, flags)
  /\ BusIdle
  /\ UNCHANGED <<ltcVars, phase, opening, kid, guest, uart>>

(* The third client comes, uses the bus and goes.                          *)
GuestComes(sid) ==
  /\ Calls /\ guest = NMAX_SLAVES
  /\ AddSlave(GuestRequest, sid) /\ guest' = sid
  /\ UNCHANGED <<ltcVars, files, phase, opening, kid, uart>>

GuestAsks ==
  /\ Calls
  /\ Txrx(guest, "none")
  /\ UNCHANGED <<ltcVars, files, phase, opening, kid, guest, uart>>

GuestGoes ==
  /\ Calls
  /\ RemoveSlave(guest) /\ guest' = NMAX_SLAVES
  /\ UNCHANGED <<ltcVars, files, phase, opening, kid, uart>>

-----------------------------------------------------------------------------
(* exit() and _exit(), in the middle of anything: from an interrupt's      *)
(* handler too.  Main does not go on; of the call under way only the file  *)
(* being opened stays behind.                                              *)
Exit ==
  /\ InCall /\ phase' = "close_err"
  /\ LtcForgotten /\ UNCHANGED <<id, sdo>>
  /\ BusIdle
  /\ UNCHANGED <<files, opening, kid, guest, uart>>

(* exit() may close the streams of the C library before, any of them.      *)
ExitStreams ==
  /\ phase = "close_err"
  /\ \E fd \in Fd : CloseFile(fd)
  /\ BusIdle
  /\ UNCHANGED <<ltcVars, phase, opening, kid, guest>>

(* _exit() closes the log's two descriptors, as far as they are open.           *)
ExitCloses ==
  /\ \/ phase = "close_err" /\ phase' = "close_out"
     \/ phase = "close_out" /\ phase' = "reset"
  /\ LET fd == IF phase = "close_err" THEN STDERR ELSE STDOUT
     IN  IF IsOpen(fd) THEN CloseFile(fd) ELSE UNCHANGED <<files, uart>>
  /\ BusIdle
  /\ UNCHANGED <<ltcVars, opening, kid, guest>>

(* Reset, of its own accord or at the end of _exit().                      *)
Restart ==
  /\ slaves' = [s \in Sid |-> FreeSlave] /\ active_cfg' = NMAX_SLAVES
  /\ asked' = [s \in Sid |-> NoRequest] /\ xfer' = NoXfer
  /\ spi' = [pull_up |-> FALSE, wide |-> FALSE, cpol |-> FALSE, cpha |-> FALSE, br |-> 0]
  /\ LtcForgotten /\ id' = NMAX_SLAVES /\ sdo' \in Config
  /\ files' = [fd \in Fd |-> Closed]
  /\ phase' = "attach_err"
  /\ opening' = NotOpening /\ kid' = NMAX_SLAVES /\ guest' = NMAX_SLAVES
  /\ uart' = FALSE

Main ==
  \/ \E fd \in Fd : Attach(fd) \/ AskKbd(fd) \/ Close(fd)
  \/ \E fd \in Fd, o \in Opens : OpenLog(fd, o)
  \/ \E fd \in Fd, o \in Opens, sid \in Sid : OpenAdc(fd, o, sid) \/ OpenKbd(fd, o, sid)
  \/ KbdReset \/ OpenReturns
  \/ \E fd \in Fd, n \in 1 .. MaxRead : ReadAdc(fd, n)
  \/ AdcCall
  \/ \E cfg \in Config : AdcOptions(cfg)
  \/ \E fd \in Fd, flags \in FlagSets : Fcntl(fd, flags)
  \/ \E sid \in Sid : GuestComes(sid)
  \/ GuestAsks \/ GuestGoes

Next ==
  \/ Main
  \/ Converter /\ UNCHANGED <<files, phase, opening, kid, guest, uart>>
  \/ Exit \/ ExitStreams \/ ExitCloses \/ Restart

Spec == Init /\ [][Next]_vars

-----------------------------------------------------------------------------
TypeOK ==
  /\ SpiTypeOK /\ LtcTypeOK /\ FilesTypeOK
  /\ phase \in Phase
  /\ opening \in {NotOpening} \cup [fd : Fd, ok : BOOLEAN]
  /\ kid \in 0 .. NMAX_SLAVES /\ guest \in 0 .. NMAX_SLAVES
  /\ uart \in BOOLEAN

(* Behind every open descriptor is a driver whose open() has succeeded and *)
(* not been undone since, by the failure of another, by a slave that goes, *)
(* or by what is closed or opened again: of a device on the bus, the id    *)
(* is that of its own chip, so that txrx() does not fail; of the log, the  *)
(* UART is enabled.  The log's descriptors share the UART and close() does *)
(* not ask who else is open: what is said of the log holds until one of    *)
(* them is closed, which in the program is when main is gone; from then on *)
(* stderr or stdout may be open without the UART.                          *)
Connected ==
  \A fd \in Fd : IsOpen(fd) /\ fd # opening.fd =>
    CASE files[fd].node = "ltc_2308" -> asked[id] = AdcRequest
      [] files[fd].node = "kbd" -> asked[kid] = KbdRequest
      [] files[fd].node = "st_link_uart_tx" ->
           uart \/ "st_link_uart_tx" \in Closes \/ ~InCall

=============================================================================

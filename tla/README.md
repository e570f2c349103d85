# Verification of the stepper-motor controller

The repository is a user-programmable motion controller: an STM32F411 runs bare-metal C++
(`src/fw/core`), an FPGA on the other side of SPI and UART runs SystemVerilog
(`src/fpga/hdl/rtl`). A PS/2 keyboard enters motion segments ("90 degrees clockwise"), a push
button plays the pattern back (short press) or clears it (long press), 7-segment displays tell the
user what is going on, and the pattern survives power losses in a sector of the flash.

This directory holds TLA+ models of it, the TLC configurations that check them, and TLAPS proofs.

    tlc -config X.cfg MCModule      # a run; PROJECT.json lists run, module and cfg
    tlapm MotionPatternProofs.tla   # a proof module

Paths below are relative to `src/`; `core/` is `fw/core/inc` or `fw/core/src`, `rtl/` is
`fpga/hdl/rtl`.

## 1 Inventory

### Who runs when

* **main**, one thread (`core/main.cpp`), polls and blocks; there is no operating system.
* **Interrupt handlers**, all with the same priority: the button's EXTI line, the alarm timer TIM9
  (two channels), the step timer TIM1 (update event). None interrupts another; each interrupts main
  between any two of its instructions.
* **Hardware beside the processor**: DMA streams that feed the phases of the motor and the UART, the
  flash controller, the timers' counters.
* **The FPGA**, one clock for all of its logic, every register changing at each edge.
* **Outside**: user, keyboard, button, supply voltage.

### Components

| Component (source) | State it keeps | Operations | Talks to | What is hard | What makes it correct |
|---|---|---|---|---|---|
| MotionPattern (`core/MotionPattern`, `Common/flash.cpp`) | flash sector of chunks, chunk index, cache `_cchunk`, `_n` | constructor, `clear`, `pushBack`, accessors | flash controller; main | power lost between two flash operations, refused programming, cells whose bits can only be cleared | the layout constructor, clear and pushBack count on; nothing stored is lost or altered; what is acknowledged is what is stored |
| HwAlarm (`core/HwAlarm`) | per channel: callback, repetitions, ticks; compare, enable and flag registers | `setAlarm` (new, restart, stop), handler, `delay` | button and display call it from main and from handlers | calls from main interrupted by handlers that call it too; 16-bit wrap; stale flags | no channel lost or given twice; no alarm early or a wrap late |
| PushButton (`core/PushButton`) | `_state`, edge detectors, pending flag | `enable`, `disable`, edge handler, `alarm`, `shortPress`, `longPress` | HwAlarm, EXTI, main | bounces at any time, an edge while the alarm decides | one detector at a time; debouncing has an alarm that ends it |
| Translator, BStepper (`core/BStepper`) | place in the phase sequence; repetition counter, software rounds, one-pulse mode, prescaler and reload value, DMA | `rotate` with the search of the time base, update handler, `enable`, `disable` | TIM1, DMA; main | preloaded registers one round ahead, state left over by the last rotation; a search in packed words with an unsigned wrap | exactly the steps asked for, from the phase driven now, in the right direction, at the closest speed |
| Main loop (`core/main.cpp`) | iterator, segment under construction, what it waits for | start-up of the devices, clear, playback, input, messages | all drivers | everything else goes on beside it | presses served, segments in order and for ever, pattern changed only as displayed |
| SSegDisplay, UartTx (`core/SSegDisplay`, `core/UartTx`) | string buffer, scroll pointer, state, counters; DMA | `write`, `llseek`, `alarm`, `wait` | HwAlarm, DMA, FPGA | the alarm handler rotates the buffer main builds in and DMA reads | the displays show the string; each character is seen; the calls return |
| 7-segment peripheral (`rtl/uart_sseg_peripheral.sv`, `ring_cnt.sv`) | ring counter, display registers | character received | UART receiver | lost characters shift all that follow | part of the above |
| PS/2 controller (`rtl/ps2_fsm.sv`, `ps2_dp.sv`) | state machine, shift register, bit counter, parity | reception, transmission, watchdogs | wrapper; the line | a device that is silent, restarted in a frame, two modes | only whole, checked frames; no device holds it up |
| Receive FIFO (`rtl/sa_sc_fifo.sv`) | pointers, flags, RAM | write, read, flush | wrapper | full and empty are registers; all three operations in a cycle | a bounded queue |
| SPI slave and wrapper (`rtl/spi_slave.sv`, `ps2_peripheral_spi_wrapper.sv`) | enable, transmitter mode, overrun flag, sampled packet | transfer | controller, FIFO, driver | the packet is sampled before the strobe that acts on it | nothing popped twice; completion is of the last request |
| SpiMaster (`core/SpiMaster`) | table of slaves and their settings, which of them are in the peripheral | add, remove, transfer | both SPI drivers | settings written only when the slave changes, ids given again | every transfer is made with the settings its client asked for |
| Scan code parser (`core/Keyboard/ScanCodeParser.cpp`) | parser state | `parse` | keyboard driver | prefixes shared by keys and fake shifts | part of the next |
| Keyboard driver (`core/Keyboard`) | parser, modifiers, locks, one buffered character | `open`, `poll`, `read`, LED exchange, recovery | port, select/fgets, keyboard | bytes and answers in one FIFO, polls that give up, errors | what is typed is read; modifiers, locks and LEDs agree with the keyboard; no call waits for ever |
| FileManager (`core/FileManager`, `syscalls.cpp`) | table of descriptors | attach, open, close, read, write, lseek, fcntl, select | newlib, drivers | entries filled before the driver agrees, drivers that refuse half-way, two descriptors on one UART | an open descriptor has a driver that works |
| LTC2308 (`core/LTC2308`) | left-over byte, settings | `open`, `setOptions`, `read` | SpiMaster | a conversion that is one read old, odd reads | whole samples of conversions of the read's own |
| UART receiver (`rtl/uart_rx*.sv`) | state machine, shift register, parity | sampling of a bit, end of frame | 7-segment peripheral | any falling edge starts a frame; resynchronisation after noise | the displays recover at the next clear |

The rest (start-up, clock tree, register helpers, `iround`, `FifoArray`, wiring and pins of the FPGA,
test benches) keeps no state of interest; PROJECT.json says for each why it is not modelled.

`hazards` in PROJECT.json is the list of what a test would hardly reach, at its line, with the
properties that would catch it.

### How they interact

    user --> keyboard --> PS/2 controller --> FIFO --> SPI --> Keyboard driver --> select/fgets --> main
    user --> button --> EXTI --> PushButton <--> HwAlarm <--> SSegDisplay <-- main
                                                                  |--> UartTx/DMA --> FPGA displays
    main --> MotionPattern --> flash
    main --> BStepper --> TIM1 + DMA --> phases --> motor
    main --> FileManager --> LTC2308, Keyboard driver --> SpiMaster --> converter, FPGA

## 2 Plan

Ordered by what matters most to a user: first the data that must survive, then the interrupts, then
the motor, then the program that ties them together, then the two ends of the input path.

| Step | Modules | Abstract specification | State |
|---|---|---|---|
| A pattern memory | `MotionPattern`, `PatternFaults`, `MCMotionPattern`, `MotionPatternProofs` | `PatternStore` | done, 5 theorems |
| B button on the shared timer | `HwAlarm`, `PushButton`, `MCPushButton`, `PushButtonProofs` | - | done, 5 theorems |
| C motor driver | `Translator`, `TimeBase`, `BStepper`, `MCBStepper`, `BStepperProofs` | `StepMotor`; `Closest` for the search | done, 4 theorems |
| D main loop, composing A and C at their interfaces | `Controller`, `MCController`, `ControllerProofs` | uses `PatternStore`, `StepMotor` | done, 3 theorems |
| E keyboard port of the FPGA | `Ps2Controller`, `ScFifo`, `Ps2Peripheral`, `MCPs2Peripheral`, `Ps2PeripheralProofs` | `ByteQueue` | done, 4 theorems |
| F displays, from the driver over the line to the panel | `UartRx`, `SSegPeripheral`, `SSegDisplay`, `MCSSegDisplay`, `SSegDisplayProofs` | `Expected` | done, 4 theorems |
| G keyboard driver with user, keyboard and port | `ScanCodeParser`, `Ps2Port`, `Keyboard`, `KeyboardSystem`, `MCKeyboard`, `KeyboardProofs` | `Ps2Port` (of E) | done, 4 theorems |
| H device files: file table, SPI master, converter | `FileManager`, `SpiMaster`, `LTC2308`, `Devices`, `MCDevices`, `DevicesProofs` | - | done, 4 theorems |
| I E implements G's port | refinement of `Ps2Port` by `Ps2Peripheral` | `Ps2Port` | next |

Every invariant and every action property a run checks is proved. Theorems worth proving next: the step I,
that E implements the port G assumes.

Every module a theorem is to be proved about is written without RECURSIVE operators, with its
parameters as CONSTANTS under named assumptions.

## 3 The models

### A. Pattern memory: `MotionPattern`

A cell is the set of its bits that are one, and programming intersects: that is what makes a second
programming of a cell go wrong, and it is kept. `flash[c][i][x]` is cell `x` of entry `i` of chunk
`c`; `cchunk` is the valid part of `_cchunk`, so that its length is `_n`. `pc` is the place in
`pushBack`, `clear` or the constructor between two flash operations: one step programs one cell, or
erases one chunk of a sector erasure, and power can be lost between any two. `pgerr` is the
controller's error flag, `locked` the key protection.

| Code | Definition |
|---|---|
| constructor (`MotionPattern.tpp`) | `Boot` with `FirstUsable`, `LoadCount`, `Load` |
| `clear`, `markDirty` | `Clear`, `MarkDirty`, `ClearDone` |
| `erase` | `EraseChunk`, `EraseDone` |
| `pushBack` | `PushBack`, `ProgramData`, `PushAbort`, `ProgramAttr`, `PushDone` |
| loss of supply or reset | `PowerLoss` |

`PatternStore` is what the component promises: a durable pattern and the one shown to the program,
changed by whole pushes and clears, a reboot showing the durable one. `Durable`, what a reboot would
find, is computed from the flash by the constructor's own scan.

`PowerLossAt` names the points where power may be lost; the passing run and the theorems have all of
them, the erasure of the sector included. That one is different from the others: chunks go in no order
the code can count on, and if the first is erased before the others, the next `clear()` moves on to a
chunk that holds old data. The history variable `intact` says that no erasure has been cut short
since the last whole one. `Layout` and `NextChunkErased` (the comment in `clear()`) are claimed while it
is true, and have to be true again after the next whole erasure; the range of the index always.
`PatternFaults` adds `faulty`, whether something may have been left half done: a loss of power inside an
entry or an erasure, or a cell refused. `StoreUntilFault` is the refinement up to then.

### B. Button on the shared timer: `HwAlarm`, `PushButton`

`HwAlarm` has the timer as a record (`icb`, `reps`, `ticks`, `ccr`, `ie`, `flag`, whether main has
masked the interrupt) and the calls as operators on it; `PushButton` adds the counter, the EXTI line,
the button's state machine and main. Handlers are atomic, as nothing interrupts them, except that
`alarm()` is split where it has read the input and not yet acted. Main runs `setAlarm` step by step
(`NewRepresent` ... `NewDone`, `StopLock` ... `StopDone`), so that a handler can come in anywhere.

Design facts the model rests on: the handlers have equal priority; the debouncing delay (35 ms) and
the remaining long-press delay follow each other on one alarm (together 800 ms, the default in
`PushButton.hpp`; the repository's `README.md` speaks of 1 s); the display's scroll
delay is 500 ms. The model keeps their order, `Reject < Residual < ScrollDelay`, and a counter
`Period` short enough that alarms are set on both sides of its wrap. The read-modify-writes of the
enable register in `enableItCC`/`disableItCC` are one step.

*Limits.* `EdgesAt` says where the input may change besides at rest. The passing run has `handler`
(also inside `alarm()`); `call`, a change while main is inside a `setAlarm`, is what run `race` has:
main chooses a channel before it masks anything, and only masks the timer, so that the button's
handler is given the same channel. `MaxLag` bounds the ticks that pass during one `setAlarm` of main
to one; the call takes a few microseconds, a tick is 15.6 (`main.cpp:82`).

`held` is a history variable: whether the button was pressed at every tick since `alarm()` saw it so.
`LongMeansHeld` allows the one release the code cannot see, between the reading of the level and the
enabling of the trailing edge's detector (`unseen`); without that exception it fails.

Stated in `PushButton` and checked by no run, each with a counterexample of a few steps, for whoever
repairs the code: `TriggeredArmed` (a button waiting for a long press has an alarm; line 200's
subtraction loses it once the compare value has wrapped), `LockHeld` (main's mask holds until main
lifts it).

### C. Motor driver: `Translator`, `BStepper`

A phase mask is its place 0..7 in the half-step sequence; `Translator` has the tables and `advance`
as index arithmetic. `BStepper` counts periods of TIM1: `rotate` splits the steps into rounds of the
8-bit repetition counter (`MaxReps` is 256 in the code), `Period` is one PWM period with its DMA
request and, at the end of a round, update event, reload and stop; `Handler` writes the register for
the last round one round ahead and ends with one-pulse mode. `todo` is a history variable: the steps
still owed. `StepMotor` is the abstract motor: one step at a time, in the direction asked for, as
often as asked.

`TimeBase` has the search for prescaler and reload value: the candidates are tried in the order of
words whose high half is the remainder accepted and whose low half is the prescaler, and the first
acceptable one is taken. The reload value is unsigned in the code, so that the quotient 0 wraps to a
value out of range; here it is -1, out of range too. `asked` is a history variable, the ticks a step of
this rotation should take.

*Limits.* The handler may be as late as the round it is due in, no later: a period is at least
hundreds of microseconds long, a round up to 256 of them, and the handler does not wait for anything.
A `rotate` that refuses (busy, no steps, a speed out of range) changes nothing and is no step here; main's
loop around it is in `Controller`. `enable` and `disable` only gate the outputs: they are `enabled` in
`Controller`.

### D. Main loop: `Controller`

One step per decision of main between two interactions with the outside; the motor turns and presses
arrive in between. Pattern memory and motor are at their interface (`Store == INSTANCE
PatternStore`, `Motor == INSTANCE StepMotor`); a press is a value left to be polled, as the handlers of B
leave it. Power may be lost at any time. After power-on the device files are opened, which fails if the
keyboard does not answer: main then calls `_exit()`, which resets. The sign of life is the turn and the
turn back, without a look at the keyboard or the button.

A line is the number it matches, in tenths of a degree, and its sign, or one of the errors; how text is
matched is left out. What becomes of it is not: `ToSegment` has the rounding of steps and speed
(`iround`), `ToAngle` the angle the display shows, which truncates. An angle below half a step is a
segment of no steps: it is stored, `rotate()` refuses it, and the playback stands still at it. The run
has such a line, and `ComesRound` excepts patterns with such a segment.

`AbortIsFinal` is stated and checked by no run: it fails, as disabling the outputs does not stop the
timer, which goes on with the aborted rotation.

### E. Keyboard port of the FPGA: `Ps2Controller`, `ScFifo`, `Ps2Peripheral`

One step is one clock cycle, in which every register takes its next value: `Cycle` of the wrapper
conjoins the next state of controller, FIFO, strobes and flags. `Input` is what the controller sees of
the line and of its timer in a cycle; the prescaled timer is abstracted to delays that end at some
time, in the order the thresholds give. (The watchdog is 110 us in `ps2_dp.sv:16`, 150 us in
`system_design.tex`; only its existence matters here.) `line` is a history variable, the frame as the
line carried it, which `IsFrame` compares with the byte.

`ScFifo` is shown to implement `ByteQueue`, a bounded show-ahead queue with the code's latencies
(checked with the wrapper around it, and proved for every depth).

*Limits.* The sclk domain of the SPI slave is reduced to the packet received and the packet sampled;
the master leaves two cycles between a write and the next transfer (phase `gap`), as the test bench
does and the software cannot avoid. `Packet` has the reads, the three writes the driver makes and the
one that switches the controller off. `Payload` restricts the bytes on the line to two.

### F. Displays: `UartRx`, `SSegPeripheral`, `SSegDisplay`

Main's `write`, `llseek` and `wait`, the alarm that scrolls, the DMA transfer, the line and the panel. The
text comes in pieces, as `printf` writes it. `Expected` is what the displays should show.

`UartRx` is the receiver in bit times: any falling edge starts it, a sample is shifted in, the frame
ends when the START bit comes out at the far end of the register, and is accepted if parity and stop bit
are right. Noise is a pulse shorter than half a bit. Each edge starts the wait for the next sample anew,
so within a frame a pulse across a sampling instant makes the receiver miss a bit, and on an idle line it
makes it see a frame that is none: then it shifts ones until the preset register's first zero, or a
real frame, ends it. A character is sent per step (`Received`), an idle bit time is a step of its own
(`LineIdle`) as long as the receiver is not at rest. A character may be lost, or received as another
one; the ring counter only moves for one that is accepted. The history variable `aligned` says that
since the last pulse a clear has met a receiver at rest.

*Limits.* The alarm never finds the previous transfer going on (500 ms against 0.6 ms for six
characters; the code exits if it does). The first string is out before the next call: the status bit
TC is set at reset and `wait` would not wait for the first one. Pieces are not empty. The non-blocking
returns are left out, as nobody sets the flag; so is the `close` of the displays, which nobody calls. The receiver's
prescaler and synchroniser are the bit time and a delay.

### G. Keyboard: `ScanCodeParser`, `Ps2Port`, `Keyboard`, `KeyboardSystem`

`ScanCodeParser` has every state of `parse()` and the whole lookup table. `Ps2Port` is E as the driver
sees it: mode, FIFO, last byte, overrun; `Stale` in it is what run `ps2_stale` found, a write that
makes the last byte come back. `Keyboard` is the driver, one step per SPI transfer, with the four
exchanges of the LED command, polls that give up, and the recovery of a stalled port.
`KeyboardSystem` adds a user and an external keyboard: scan code set 2, one key at a time, repeats,
answers before keys, nothing before the self test is over; faults are receive errors, lost bytes, lost and
refused commands; reconnections are self tests at any time.

`typed` is what the user has typed and the application not read yet, `alien` whether it ever read
something else, `loss` whether bytes of keys got lost: never, since the last self test, or only
before it. Bytes get lost by receive errors and overruns, by arriving just as a transfer begins that has sampled
an empty FIFO (`ReceiveUnseen`: what E's `PacketTells` allows for; it may happen to keys and to answers), but also when the driver resets the port or
sends a command with bytes in the FIFO (`Dropped` in `Ps2Port`), as it does when a key is typed while
it sets the LEDs. What it believes about modifiers is then not constrained until the next BAT code;
what it reads is constrained only as long as nothing got lost at all. That the premises are met in the
interesting cases was tried with negated probes: Caps Lock on with its LED and no loss, a recovery by
BAT, an `open()` that fails with no loss, a byte that comes with the error flag.

*Limits.* A poll of the LED exchange does not give up while the port still transmits and polls are
left: polls are 10 ms apart and a transmission ends within 17 ms. Locals that are dead outside their
call (`stage`, `polls`) are reset to keep the state space small. The character table has one key of
every shape of row. In the model as in the code: `open()` can fail on a working keyboard whose
acknowledge is late (the program exits); a left-over ACK parses as the make code of a key that types
nothing; an unknown code resets the modifiers while the LEDs stay.

### H. Device files: `FileManager`, `SpiMaster`, `LTC2308`, `Devices`

All calls are main's, one after the other; what goes on beside them is the converter. What can go wrong is
state that outlives the call it was made for: a place in a table filled before the driver has agreed,
settings in the peripheral of a slave that is gone, a byte left over from an odd read, a conversion begun
by the last transfer of an earlier read.

* `SpiMaster` has the table of slaves, the choice of the prescaler and the settings in the peripheral,
  written only if the slave changes. `asked` and `xfer` are history variables: what the client of
  an id has asked for, and the transfer just made. The program never removes a slave; a third client
  (`guest`) does, so that `removeSlave` and ids given again are there.
* `LTC2308` has each transfer and delay of `open` and `read` as a step. The converter is external: it
  starts a conversion at the end of each transfer with the options it has just received, and gives
  the result in the next. Its reply during a conversion may be any reading. `WholeSamples` compares the
  bytes a read returns with the conversions begun since the read was called. `Waits` is `delay()`'s
  rounding to ticks: with the program's 15625 ns (`Tick`) a delay of `T_CONV`, 1600 ns, is no tick, and
  `delay()` returns at once. So no step waits for the end of a conversion, and `WholeSamples` says nothing
  of it. `Converted`, what `read()`'s comment "Wait for the conversion to terminate" says, is stated and
  checked by no run: it fails, and holds with a tick of 1000 ns. In the device the time the code takes
  between two transfers has to be enough.
* `FileManager` has the parts of the calls before and after the driver's, `Devices` the drivers between
  them: the log's UART, the converter, and of the keyboard its use of the bus (G has the rest). `phase`
  follows the program: main attaches stderr, then stdout, to the UART; calls of any kind follow; `exit()` may
  come in the middle of anything (`Exit`), the C library may close what streams it has (`ExitStreams`, external),
  `_exit()` closes stderr (`ExitCloses`), then stdout, and resets. A reset of its own accord may come at any
  time, too (`Restart`), and finds the converter as it was.
* `CloseFile` is `FileManager::close` with the drivers': the UART's de-initialises it, whoever else is open
  on it, those of the two bus drivers refuse. The program's main closes no file; the model's may close
  those of the devices in `Closes`. In the run these are the two on the bus; in the proofs they are any.

`Connected` promises, of the two on the bus, a driver that answers for as long as the descriptor is open. Of the
log it cannot: between the two closes of `_exit()` stdout is open behind a UART that is de-initialised,
and so would every other descriptor of the log be if main closed one. So it promises an enabled UART as long
as main runs, if main closes no file of the log; both exceptions are needed (without the first the
run finds the state between the closes, without the second a `Closes` with the log in it does the same).

*Limits.* A refused call changes nothing but `errno`: it is no step, its reasons are the guards. No driver
of these looks at the file position, which is left out, as are `stat`, `fstat`, `link` and `unlink`, which
keep no state. Low power mode is fixed before `open()` and may be on or off. That the descriptor flags are
ignored by these drivers is the code's; the table keeps them. What `_exit()` prints, and the waits for the
end of a transmission before the UART is de-initialised, are left out.

## 4 Runs

| Run | Module, cfg | What it asks | Result |
|---|---|---|---|
| `torn` | `MCMotionPattern`, `MotionPatternTorn` | layout, nothing lost, implements `PatternStore` until something may be left half done | holds |
| `torn_push` | `MCMotionPattern`, `MotionPatternPush` | `StoredAsAcknowledged` | **violated** |
| `button` | `MCPushButton`, `PushButton` | detectors, channels, time, long presses, hold ends | holds |
| `race` | `MCPushButton`, `PushButtonRace` | `RejectingArmed` with presses during main's calls | **violated** |
| `step` | `MCBStepper`, `BStepper` | exact steps at the closest speed, implements `StepMotor`, ends | holds |
| `step_cw` | `MCBStepper`, `BStepperCw` | implements `StepMotor`, clockwise | **violated** |
| `controller` | `MCController`, `Controller` | presses served, order, rounds, changes as displayed | holds |
| `ps2` | `MCPs2Peripheral`, `Ps2Peripheral` | frames, packets, queue, watchdogs | holds |
| `ps2_stale` | `MCPs2Peripheral`, `Ps2Stale` | `StoresOnlyReceived` | **violated** |
| `display` | `MCSSegDisplay`, `SSegDisplay` | what is shown, buffer, the calls return | holds |
| `keyboard` | `MCKeyboard`, `Keyboard` | modifiers, locks, LEDs, what is read, recovery, exchanges end | holds |
| `devices` | `MCDevices`, `Devices` | settings on the bus, samples, open files | holds |

Deadlock is checked in all of them. Each property of a passing run has a seeded fault in PROJECT.json
(`mutants`) that breaks it: an operator with the comment "Seeded fault" that no other definition uses.

### Properties

*`torn`.* `Layout`: behind the chunk in use all is dirty, ahead all is erased, in it exactly the cached
entries are written, unless an erasure was cut short. `NothingLost`: no step alters or drops what a
reboot would find, but a clear, which drops all of it. `StoreUntilFault`: up to the first step that may
leave something half done the behaviour is one of `PatternStore`.

*`button`.* `OneDetector`: state and edge detector go together, no stale edge is pending. `NoLeak`: at
most one channel is the button's, none when it waits for nothing. `OnTime`: no alarm fires early or
has been passed by the counter. `LongMeansHeld`: a long press is one during which the button was held.
`HoldEnds`: a display write that waits for scrolling returns.

*`step`.* `ExactSteps`: the counter stops when exactly the steps asked for are made. `InTime`: no
setting of the registers comes closer, from below, to the period asked for than the one a rotation runs
with. `MotorSpec`: the phases driven are those of `StepMotor`, across rotations (so the recorded place
has to be the driven one). `RotationEnds`.

*`controller`.* `PressServed`, `InOrder` (segments start in order, none left out, however often
`rotate` refuses, and whatever is left of a playback aborted before), `ComesRound` (an undisturbed
playback comes to every segment again and again), `ChangesAsDisplayed` (the pattern changes only by the
segment on the display, with the index it gets, or a displayed clear).

*`ps2`.* `WholeFrames`: what is presented as received, and what the device acknowledges, is the byte of a
whole, checked frame on the line. `PacketTells`: a packet's valid byte is the one removed, one that is
removed unseen came in that very cycle, and TXC is of the last request. `FifoSpec`: refinement.
`FrameEnds`: silence does not hold the controller.

*`display`.* `Shows`: between transfers the displays show `Expected`, and recover from noise at a clear.
`AllSeen`: `write` returns when every character has been shown. `BufferHeld`: the DMA stream's buffer is
left alone. `Returns`.

*`keyboard`.* `KnowsKeys`, `LedsShowLocks` when all the keyboard has sent has gone through the driver;
`ReadIsTyped`, `TypedIsRead`; `Recovers`: an error is followed by a port that receives, and a driver that
has finished its exchanges.

*`devices`.* `Tuned`: each transfer is made with the pin, frame, clock mode and clock of its client.
`WholeSamples`: however reads divide the bytes, they are those of whole, consecutive samples, converted
since the read began, with the options in force and the reference up, but for the byte the read before
owes (that these conversions had ended is not part of it, see H). `Connected`: behind an open descriptor is a driver
whose `open()` succeeded and was not undone; of the log, as long as main runs and closes none of its files.

### What the violations say

1. `torn_push`: after a power loss inside an entry the next push programs over its cells; the segment
   is stored as the AND of both and acknowledged.
2. `race`: a press while main starts the display's alarm shares its channel; the button is deaf.
3. `step_cw`: clockwise, `advance()` reads the reversed table with the place as index; the first step of
   a rotation jumps unless the place is a multiple of four.
4. `ps2_stale`: `valid` outlives transmitter mode by a cycle; the last received byte is stored again.

### Bounds

| Run | Bounds | Why they are enough |
|---|---|---|
| `torn` | 2 chunks of 2 entries, cells of 2 bits, 2 segments | both kinds of clear (mark, erase), an erasure cut short after either chunk, first and last entry, chunk full and not; bits suffice for an AND that is neither value; larger sectors by proof |
| `torn_push` | 3 of 3, no refused programming | shortest trace uses one entry |
| `button`, `race` | 2 channels (the code's), `Period` 5, delays 1, 2, 3, at most 3 repetitions | every delay crosses the wrap from some start; two clients on two channels as in the program; any number of channels, period and delays by proof |
| `step` | rounds of 4, up to 19 steps; registers of 4 values, three speeds | 0 to 4 full rounds with every rest, and every sequence of rotations; speeds refused as too slow and too fast, one whose closest setting is not the first candidate, in half and full steps; all sizes by proof |
| `controller` | pattern of 2, a turn of 10 steps, lines of 0, 1 and 2 steps, both ends of the range of speeds | empty, partly filled and full pattern; wrap-around of the iterator; motor slower and faster than main; a segment that cannot be played |
| `ps2` | 2 data bits, FIFO of 2, 2 bytes | parities differ, bit order shows; FIFO empty, half full, full, overrun |
| `display` | 2 displays, strings of 2 and 3, buffer 6, characters of 2 bits, 1 pulse | fits, fits after a clear character, scrolls; two pieces concatenated; a window that wraps; every pattern of bits is a character, so that what a missed bit makes of a frame is shown; a pulse in every bit and in every gap |
| `keyboard` | 6 keys (letter, RETURN, shift, AltGr, Caps Lock, Pause), 2 key events or reconnections, 1 fault, 2 polls, FIFO of 2 | a key with every prefix; lock and repeat; overrun; late, lost and refused answers. Three events with four keys, and two events with Num Lock and the key pad, were checked once outside the runs, without violation |
| `devices` | 3 slaves, 5 descriptors of which 3 reserved (the code's; the log has two of them, attached, and a third one while a refused open is under way), 2 readings, both ranges, reads of 1 to 3 bytes | a table of slaves that is full and one with a place given again; a driver opened twice; the tick of the program; reads that end with a half sample and begin with one; the ambiguous reading in both ranges; settings that differ in width, mode and clock |

### Fairness

* `BStepper`: weak on `Period` (TIM1 runs) and `Handler` (interrupts are enabled). Nobody has to rotate.
* `Controller`: weak on `Main` (the only thread) and `MotorStep`. Not on lines, presses, power.
* `MotionPattern`, `Devices`: none; their properties are of safety.
* `PushButton`: weak on `Tick` and `Handler`; strong on main's progress inside a call or a hold, as
  the handlers interrupt main again and again but always return. Not on the input nor on new calls.
* `Ps2Peripheral`: weak on the clock, and on the timer's delays ending. The device need not do anything.
* `SSegDisplay`: weak on main, alarm and UART; the line need not be noisy, nor idle.
* `Keyboard`: weak on the thread (main in its loop of `select` and `fgets`; during a playback, `main.cpp:186`, it
  does not read the keyboard, and `TypedIsRead` says nothing of it), the keyboard sending what it has, and the end of a transmission (taken,
  refused or timed out, by the port's watchdogs).

## 5 Proofs

`MotionPatternProofs`. Assumptions: at least one chunk and one entry, `WRITTEN` different from `ERASED`
and `DIRTY`, segments are records of cells.

* `Typing`: `Spec => []TypeOK`. Not inductive alone: that the index stays in the sector needs `Control`
  (what each program point implies: at `mark` the chunk is not the last one, in a push there is room).
* `LayoutKept`: `Spec => []Layout`, for every sector, pattern and bits, with refused programming and
  power losses anywhere. `Layout` says nothing after an erasure cut short (`~intact`), and nothing while
  the device is off or erasing, so the invariant `LInv` adds what the flash looks like then:
  `Recoverable`, off and intact, some
  chunk is filled up to some entry with dirty chunks behind and erased ones ahead, or all chunks are
  dirty; `ErasedSoFar`, the chunks the erasure is done with are erased. What each programming does to
  the layout is a lemma (`ProgramDataLayout`, `ProgramAttrLayout`, `MarkLayout`); that the
  constructor's scan and load find what the layout says (`ScanIs`, `LoadIs`) rests on `LeastNumber`.
* `NextChunkIsErased`: the comment in `clear()`, with the same exception. So the comment fails because
  of interrupted erasures and of nothing else, and is true again after the next whole one.
* `NothingIsLost`: `Spec => NothingLost`. What a reboot would find is a function of the flash, so each
  programming is a lemma on `Durable`: the cells it touches belong to entries the scan does not count, or it
  completes one. The invariant adds `Spent`: while a sector is erased, the chunks still to be erased,
  but for the last, are ones the constructor passes over.
* `StoreRefined`: `FaultSpec => StoreUntilFault`, the refinement step by step. `Faultless` says what is true up to the
  first fault: what main has cached is what is stored (`Stored`), the cells programmed so far are those of
  the entry in progress (`InProgress`), and what is behind the index is erased (`Fresh`). The fault itself
  is a step that leaves the abstract store's promise, not a stutter in it.

`PushButtonProofs`. Assumptions: at least one channel, delays shorter than the counter's period, and two
different callbacks, the button's and the display's.

* `DetectorsExclude`, `LongPressesAreHeld`: `OneDetector` and `LongMeansHeld`, for any timer and delays and
  wherever the input changes, the race with main's calls included. The invariant `DetInv` adds to
  `OneDetector` what is known of the level: a reading that found the button pressed still holds or its
  release has been missed (`LevelRead`); from then on it holds, or the edge of its release is pending, which
  the handlers serve before the next tick (`LevelWatched`). So `held` is not "no" when the alarm of the long
  press fires.
* `Typing`, `ChannelsAreReturned`: `TypeOK` and `NoLeak`, if the input does not change during a
  `setAlarm()` of main: `ASSUME "call" \notin EdgesAt` in the theorems. With such changes `NoLeak` is
  false, which is what `race` is about, so the assumption is as weak as the code allows. `AlarmInv`
  relates the alarms to the state of the button (`OneChannel`; `Repeats`, an alarm that is set has
  repetitions left; `Waits`, a channel is held only while the button debounces or waits for a long press,
  and in the second case the next match is the last), says for every step of main's call
  what the timer looks like (`NewFound`: the channel found is still free; `StopFound`: it is still the
  alarm's; `LockKept`), and that no edge handler is due in a call (`CallQuiet`). The pieces of
  `HwAlarm` have a lemma each; that the search finds a channel rests on `LeastNat`.

* `AlarmsAreOnTime`: `Spec => []OnTime`, under the same assumption and `ShortCalls`: a call of `setAlarm()` takes no
  more ticks than the debouncing delay and its rest, and fewer than the scroll delay (microseconds
  against 35 ms). `TimeInv` says how far, round the wrap, the compare value of every alarm is from the counter
  (`Sharp`): ahead of it by one tick up to the alarm's delay, or, once the match is flagged, behind it by no more than
  main has held the interrupt masked. `Debouncing` is about the button's alarm, which has one delay to begin
  with and another for the long press; `Preparing`, about the values main's `setAlarm()` has worked out and not
  written yet.

`BStepperProofs`. Assumptions: repetition counter and number of steps at least one, registers of at least
one value, speeds and steps of a turn not zero.

* `Typing`: `Spec => []TypeOK`; the DMA stream never reads outside its table.
* `StepsAreExact`: `Spec => []ExactSteps` for every width of the counter, every number of steps and any
  sequence of rotations. The invariant `Counting` says how much is owed: during a rotation `todo` is
  what is left of this round (`rc + 1`) plus what follows (`After(Rounds)`), where the rounds
  that follow are full ones and, last, the rest; `Prepared` says that once the round before the
  last is reached the reload register holds the rest, or the handler that puts it there is still due.
  In the last round the one-pulse mode is set and exactly `rc + 1` steps are owed; between rotations
  none is.

* `SpeedsAreClosest`: `Spec => []InTime`, for registers of any width, any clock, and every speed not
  refused. First the search ends (`SearchEnds`): if the ticks fit the register, the first candidate is
  acceptable, otherwise at the latest the last one is, with the largest prescaler and threshold. The
  candidate taken has the least remainder among all prescalers whose reload value is representable (`LeastRemainder`), for
  the candidates are ordered by threshold first, and the product is the ticks less that remainder. It
  remains that a product with a reload value that is not the quotient is no better: if the quotient is
  too large for the register, the largest product is that of the largest reload value, and one of the
  next larger prescaler that fits comes at least as close (`MadeBelow`, `ChosenIsClosest`).

* `MotorRefined`: `ASSUME Direction \subseteq {"CCW"} PROVE Spec => MotorSpec`. The assumption excludes what run `step_cw`
  shows to be false. `OnTrack` says where the DMA stream is: as long as steps are owed, what it reads next is
  one step further than the phase driven, and the end of the rotation is as many steps away as are owed.

`ControllerProofs`. Assumptions: room for one segment at least, a turn of at least one step, angles of at
most 999.9 degrees, readings of at most 4095 mV.

* `Typing`, `ChangesAreDisplayed`, `PlaysInOrder`: `Spec => []TypeOK`, `Spec => ChangesAsDisplayed` and
  `Spec => InOrder`, for any pattern size, lines and number of steps, with power lost anywhere. None of
  the three is inductive. `Copies` says that between two calls of the pattern memory the copy main reads is the one in
  flash, and that in a clear that has taken effect the one in flash is empty; `Displayed`, what main has found
  out before it acts on it: there is a segment to play, there is room for one, and the display shows the
  notice of the clear, or the data point with the index the segment will get; `Follows`, that during a playback
  the iterator is one ahead of the segment that began last, round the pattern. Each group of actions has
  a lemma whose conclusion is the next invariant and both action properties; `Around` is the arithmetic
  of the iterator's return to the first segment.

`Ps2PeripheralProofs`. Assumptions: depth and frame size at least one,
the bytes of the FIFO are the bytes of the frames.

* `FifoIsQueue`: `Spec => FifoSpec`, the FIFO in the port is a `ByteQueue`, for every depth and any
  timing. The refinement maps the queue to the cells between the pointers (`Contents`). The invariant
  `FifoInv` relates flags and pointers: `full` says exactly that the distance of the pointers is the
  depth, but `empty` is a cycle late, so that only `~empty => Fill > 0` holds, which is what a pop
  needs. A pop leaves the tail (`RestIs`), a write appends and touches no other place (`PutIs`), both
  from the arithmetic of pointers with a wrap bit (`LocNext`, `LocApart`, `LocEnd`). The wrapper
  never writes a full FIFO nor pops an empty one, by the definitions of its strobes; that what it
  writes is a byte is the invariant `Bytes`. Deleting the register delay of `empty` breaks
  `ClockedStep`.
* `PortTyping`, `FramesAreWhole`: `Spec => []TypeOK` and `Spec => []WholeFrames`, for frames of any number of
  bits, any bytes and any timing of device and master. The invariant `PortInv` has a part for each thing the
  frame depends on. `Sizes`: how much of the frame the line has carried, by state and bit counter, from which
  the types follow. `Receiving`: the data bits taken so far are at the end of the shift register and the parity
  is theirs (`TakenStep`, one sample). `Link`: in the cycle after a write the enable signal is low wherever
  the controller is, in the next one the byte is loaded, so that no frame begun with another byte goes on;
  this is where the two cycles the master leaves (phase `gap`) are needed. `Sending`: what the line has carried is
  the beginning of the frame with the byte asked for, and the rest of it is at the front of the shift register.
  `ParityAppend` is the parity of one bit more; `WholeFrame`, that a line that agrees with `FrameBit` at
  every place passes `IsFrame`.
* `PacketsTell`: `Spec => []PacketTells`, for any depth. `Told` adds what the sampled packet relies on: a
  byte in the queue that is not on display has come in the cycle before, when the controller went to a state
  in which it cannot receive another one, so at most one is unseen; a request has emptied the queue
  before another transfer can begin; and a transmission that is done stays done while it is asked for, so
  that TXC in the sample still holds at the strobe.

`SSegDisplayProofs`. Assumptions: at least one display, a buffer that has room for more than fills them, at
least one scroll, codes that are all the words of `NCHAR` bits, each once.

* `DisplayTyped`, `TheBufferIsHeld`: `Spec => []TypeOK` and `Spec => BufferHeld`. Neither is inductive: that a transfer ends
  inside the buffer depends on where the scroll is. `Control` says what may be under way together (a
  string is built only when nothing is sent; once the UART's flag is set while main waits, neither a
  Clear nor a transfer is left), `Scrolling` that the buffer is the string and its separator turned round
  (`Alike`: equal up to a turn), with the next window behind the one `offset` says has been sent.
* `EverythingIsSeen`: `Spec => AllSeen`. `Progress`: in its first turn a scroll has sent the string from its first
  character to the end of the window; from the first rotation on, all of it. So `scrolled`, which is
  set at a rotation, comes late enough whatever MIN_SCROLL_TIMES is.
* `TheDisplaysShow`: `Spec => []Shows`, down to the bits of the frames. For the receiver: after `n` bits of a frame the
  register holds them behind the ones it was preset to, and the parity bit is theirs (`Mid`), so that the
  START bit comes out exactly with the STOP bit (`MidLast`), and a receiver at rest takes what was
  sent (`ReceivedClean`); one that is not, or is disturbed, ends in a state it may be found in
  (`ReceivedTyped`). For the driver and the panel: `LongShown`, what is left of a transfer is the rest of the
  window, and its beginning is shown; `ShortShown`, what has been sent of a string is shown from its last
  Clear on, which is what realigns displays that noise has shifted. Induction over the bits is
  over a bounded set (`Climb`), from the library's fact that `<` is well-founded.

`KeyboardProofs`. Assumptions: a FIFO of at least one place, more than one poll, keys that are their own
entry in the lookup table. Keys, their number, events and faults are arbitrary.

* `TheDriverKnowsKeys`, `WhatIsTypedIsRead`: `Spec => []KnowsKeys` and `Spec => []ReadIsTyped`. Both speak of what has gone through the
  driver; the invariant has to say what the bytes do that have not. `Accounts` does: there is a sequence
  of states, one per byte on its way (`Pending`: taken with an error, in the FIFO, still in the keyboard), that
  begins with the driver's parser and state, follows `AfterByte`, and ends with what the user means (`Meant`); and
  the characters `CharOf` gives along it are those typed and not read. If bytes were lost before a self
  test, it begins behind the self test's result. The sequence is extended by a byte of a key
  (`AccountsPush`), shortened when the driver takes one (`AccountsPop`), and is not changed by an answer
  (`AccountsAnswer`, `AccountsDrop`), because in the parser's first state 0xFA and 0xFE make keys that type
  nothing and are no modifiers (`AfterAnswer`), and no answer comes in the middle of a key. That the eight
  bytes of Pause, the fake shifts of Print Screen and every escaped code add up to the one key is a walk
  through the parser (`MakeRun`, `BreakRun`, by the moves of `RegularMoves` to `PauseMoves`); that the key does
  to the driver's state what it does to the user's, `KeysFollowed` and `TypesAre`. `StepIs` is that the code of `_step` is
  `AfterByte` and `CharOf`.
* `TheLedsShowLocks`: `Spec => []LedsShowLocks`. `Lit` goes through the four exchanges of `_trySet` and says what the keyboard
  expects and shows at each; in the third, that the acknowledge found in the FIFO is the one stored twice
  by the write that ended transmitter mode, so that the argument is sent before the keyboard's own
  acknowledge arrives. While the result of a self test is on its way (`Coming`) the LEDs are off.
* `KeyboardTyped`: `Spec => []TypeOK`. `Stages` says in which mode the port is at each transfer of `_pollTxRx`, `Books` what
  the driver has put aside, `Keyed` that an answer is only outstanding between two keys.

`DevicesProofs`. Assumptions: the pin of a free place is none of the pins, the third client's request
is not one of the drivers', one descriptor at least besides the three reserved.

* `TransfersAreTuned`: `Spec => []Tuned`, for any number of slaves, settings and clients. `Tuned` is not
  inductive: `BusInv` says that every place in use holds what its client has asked for (`Made`), that
  a free one has no client, and that the peripheral holds the settings of the active slave, which is
  in use. The last is what `removeSlave()` must not break: it forgets the active slave if it is the one
  removed. The bus sees five kinds of steps, with a lemma each.
* `FilesAreConnected`: `Spec => []Connected`, for any number of descriptors and slaves and any `Closes`. Closing
  is proved to concern the log alone (`CloseKeepsBehind`, `LogGiven`). The invariant `FileInv` says that the driver of an open file has an id whose place holds the driver's own request;
  the third client never has that id, because its request is another one, so that its removal cannot
  touch it, and a driver opened again moves to a new id with the same request.

* `DevicesTyped`: `Spec => []TypeOK`, with `BusInv` and `FileInv` for the tables and `ReadInv` for the driver.
* `ReadsAreWhole`: `ASSUME Waits(T_REFWAKE) PROVE Spec => []WholeSamples`, for any options, readings and lengths of reads. The
  assumption says that the delay for the reference is a delay at all, as it is with the program's tick;
  without it the first sample would be one of a reference still settling. `ReadInv` follows `read()`:
  which conversion is in the converter's register (`Sampling`), that what has been stored is whole and in
  sequence, and which half is kept for the next read (`KeptByte`, `Returning`; not for a reading whose half is
  the filler). `WakeInv` adds that every sample of this read was made with the reference up.

Only model-checked: everything temporal with fairness (`HoldEnds`, `RotationEnds`, `PressServed`,
`ComesRound`, `FrameEnds`, `Returns`, `TypedIsRead`, `Recovers`), as liveness is out of the prover's reach.

## 6 Not modelled

* Top level of the FPGA, reset synchronisers, pins and constraints: no behaviour beyond the parts they
  connect. The shifting of SPI bits in the sclk domain and the synchronisers are reduced to when a
  value may change (asynchronous clocks); the prescaled timers to delays that end.
* Start-up code, vector table, clock tree, linker script, `_sbrk`: sequential, and before anything
  that is modelled runs. Register helpers (bit positions, streams, vectors by address): lookups without
  state.
* Matching of text and formatting of numbers (newlib and the vendored `ctre`): a line is its number, a
  message its meaning. The table of segment patterns and all but one row of every shape of the
  table of characters: data.
* The `INVALID_DELAY` returns of HwAlarm and the arithmetic of its prescaler: all delays of the program are
  constants in range. Of the busy-wait `delay()` only how long it waits at all is modelled (`Waits`).
* Calls nobody makes: the `close` and the non-blocking returns of the displays, `read` of the keyboard with
  `O_NONBLOCK`, `setLayout()` (the key it moves types nothing in either layout), `FifoArray`.
* Test benches: stimuli, used here for the timing the peripherals are meant for.

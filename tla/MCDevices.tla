----------------------------- MODULE MCDevices -------------------------------
(* Devices with room for one slave more than the program has, so that one   *)
(* of the drivers can be opened twice or the third client comes and goes.   *)
EXTENDS Devices

Client(ssn, nbits, mode, max) ==
  [ssn |-> ssn, nbits |-> nbits, cpol |-> mode, cpha |-> mode, max |-> max]

MCAdc   == Client("adc", 12, FALSE, 4)
MCKbd   == Client("kbd", 16, FALSE, 4)
MCGuest == Client("guest", 8, TRUE, 1)

MCConfig == {[channel |-> 0, unipolar |-> TRUE], [channel |-> 0, unipolar |-> FALSE]}

Call(node, access, flags) == [node |-> node, access |-> access, flags |-> flags]

(* Closing one descriptor of the log takes the UART from the others: main  *)
(* leaves that to _exit().                                                 *)
MCCloses == {"ltc_2308", "kbd"}

MCOpens == {Call("ltc_2308", "RDONLY", {"BINARY"}), Call("kbd", "RDONLY", {}),
            Call("st_link_uart_tx", "RDWR", {"CREAT", "TRUNC"})}
=============================================================================

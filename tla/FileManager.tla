---------------------------- MODULE FileManager -----------------------------
(***************************************************************************)
(* The file manager (fw/core/inc/FileManager) behind the system calls of   *)
(* syscalls.cpp: the table of open files, and which driver a call goes to. *)
(* The operators are the parts of the calls before and after the driver's; *)
(* Devices puts the drivers between them.                                  *)
(*                                                                         *)
(* A call that is refused changes nothing but errno: it is no step, and    *)
(* the reasons it is refused for are the guards.  The position of an open  *)
(* file, which no driver but the displays' looks at, is left out; so are   *)
(* stat, fstat, link and unlink, which keep no state.  select() is in      *)
(* Keyboard, the only driver that polls.                                   *)
(***************************************************************************)
EXTENDS Integers

CONSTANTS
  NMAX_FD,  (* size of the table                                           *)
  Node      (* names of the devices                                        *)

STDIN  == 0
STDOUT == 1
STDERR == 2

(* The descriptors of the standard streams.                                *)
NRESERVED_FD == STDERR + 1

ASSUME FilesAssumption == NMAX_FD \in Nat /\ NMAX_FD > NRESERVED_FD

VARIABLE files

Fd == 0 .. NMAX_FD - 1

AccessFlags == {"RDONLY", "WRONLY", "RDWR"}
SETFL_MASK  == {"APPEND", "NONBLOCK"}
ValidFlags  == {"TRUNC", "BINARY"} \cup SETFL_MASK

(* (flags & O_ACCMODE) + 1 *)
Mode(access) == CASE access = "RDONLY" -> {"FREAD"}
                  [] access = "WRONLY" -> {"FWRITE"}
                  [] access = "RDWR" -> {"FREAD", "FWRITE"}

Closed == [node |-> "none"]

FilesInit == files = [fd \in Fd |-> Closed]

IsOpen(fd) == fd \in Fd /\ files[fd] # Closed
IsOpenFor(fd, access) == IsOpen(fd) /\ access \in files[fd].mode

-----------------------------------------------------------------------------
(* The lowest free descriptor past the reserved ones.                      *)
NextFd(fd) ==
  /\ fd \in NRESERVED_FD .. NMAX_FD - 1
  /\ ~IsOpen(fd)
  /\ \A lower \in NRESERVED_FD .. fd - 1 : IsOpen(lower)

Filled(fd, node, mode, flags) ==
  files' = [files EXCEPT ![fd] = [node |-> node, mode |-> mode, flags |-> flags]]

Freed(fd) == files' = [files EXCEPT ![fd] = Closed]

(* open() up to the driver's: files are not created.                       *)
Opening(fd, node, access, flags) ==
  /\ flags \ {"CREAT"} \subseteq ValidFlags
  /\ node \in Node
  /\ NextFd(fd)
  /\ Filled(fd, node, Mode(access), flags \ {"CREAT"})

(* stdStreamAttach(), whatever the descriptor was before.                  *)
Attaching(fd, node) ==
  /\ fd \in 0 .. NRESERVED_FD - 1
  /\ node \in Node
  /\ Filled(fd, node, IF fd = STDIN THEN {"FREAD"} ELSE {"FWRITE"}, {})

(* Seeded fault: the entry stays when the driver refuses.                  *)
DriverOpenedAnyway(fd, ok) == UNCHANGED files

(* ... and after it: a driver that refuses frees the entry.                *)
DriverOpened(fd, ok) == IF ok THEN UNCHANGED files ELSE Freed(fd)

(* close(), whatever the driver returns.                                   *)
Closing(fd) == IsOpen(fd) /\ Freed(fd)

(* fcntl(F_SETFL): what is written is appended or not from open() on.      *)
SetFlags(fd, flags) ==
  /\ IsOpen(fd)
  /\ ("APPEND" \in flags <=> "APPEND" \in files[fd].flags) \/ "FWRITE" \notin files[fd].mode
  /\ files' = [files EXCEPT ![fd].flags = (@ \ SETFL_MASK) \cup (flags \cap SETFL_MASK)]

FilesTypeOK ==
  files \in [Fd -> {Closed} \cup [node : Node, mode : {Mode(a) : a \in AccessFlags},
                                  flags : SUBSET ValidFlags]]
=============================================================================

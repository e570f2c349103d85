--------------------------- MODULE DevicesProofs ----------------------------
(***************************************************************************)
(* Every transfer on the SPI bus is made with the settings its client has  *)
(* asked for, behind every open descriptor is a driver that is connected,  *)
(* and what is read of the converter is whole samples, for any number of   *)
(* slaves, descriptors and options.                                        *)
(*                                                                         *)
(* Of the steps of Devices the bus sees five kinds.  What they preserve is *)
(* that a place in use holds what its client has asked for, and that the   *)
(* peripheral holds the settings of the active one; the files then only    *)
(* depend on the ids of the drivers, which no other client is given.  The  *)
(* samples depend on the converter alone: which conversion its register    *)
(* holds at each program point of read(), and which byte is left over.     *)
(***************************************************************************)
EXTENDS Devices, SequenceTheorems, TLAPS

(* What addSlave() makes of a request.                                     *)
Made(sl, r) ==
  /\ sl.ssn = r.ssn /\ sl.nbits = r.nbits /\ sl.cpol = r.cpol /\ sl.cpha = r.cpha
  /\ sl.br_psc \in Feasible(r.max)
  /\ \A psc \in Feasible(r.max) : sl.br_psc <= psc

BusInv ==
  /\ slaves \in [Sid -> Slave]
  /\ asked \in [Sid -> Request \cup {NoRequest}]
  /\ active_cfg \in 0 .. NMAX_SLAVES
  /\ \A s \in Sid : IF IsValid(s) THEN asked[s] \in Request /\ Made(slaves[s], asked[s])
                    ELSE asked[s] = NoRequest
  /\ active_cfg # NMAX_SLAVES => IsValid(active_cfg) /\ spi = Settings(slaves[active_cfg])
  /\ Tuned

(* Reset of the bus, as Restart has it.                                    *)
BusReset ==
  /\ slaves' = [s \in Sid |-> FreeSlave] /\ active_cfg' = NMAX_SLAVES
  /\ asked' = [s \in Sid |-> NoRequest] /\ xfer' = NoXfer

-----------------------------------------------------------------------------
(* Requests and free places are told apart by the pin.                     *)
LEMMA RequestFacts ==
  /\ NoRequest \notin Request
  /\ \A r \in Request : r.ssn \in Pin /\ r.ssn # Unwired /\ r.nbits \in Nat /\ r.cpol \in BOOLEAN
                        /\ r.cpha \in BOOLEAN /\ r.max \in Nat
  /\ FreeSlave \in Slave /\ FreeSlave.ssn = Unwired
  /\ NMAX_SLAVES \in Nat /\ NMAX_SLAVES \notin Sid
  /\ {AdcRequest, KbdRequest, GuestRequest} \subseteq Request
  /\ GuestRequest # AdcRequest /\ GuestRequest # KbdRequest
  BY SpiAssumption, AdcAssumption, DevicesAssumption
     DEF NoRequest, Request, FreeSlave, Slave, Prescaler, Sid

(* A step that leaves the bus alone.                                       *)
LEMMA IdleKeepsBus == BusInv /\ UNCHANGED <<slaves, active_cfg, spi, asked>> /\ xfer' \in {xfer, NoXfer} => BusInv'
  <1> SUFFICES ASSUME BusInv, UNCHANGED <<slaves, active_cfg, spi, asked>>, xfer' \in {xfer, NoXfer}
               PROVE  BusInv'
      OBVIOUS
  <1>1. Tuned'
    <2>1. CASE xfer' = NoXfer  BY <2>1 DEF Tuned
    <2>2. CASE xfer' = xfer    BY <2>2 DEF BusInv, Tuned
    <2> QED  BY <2>1, <2>2
  <1>2. \A s : IsValid(s)' <=> IsValid(s)  BY DEF IsValid
  <1> QED  BY <1>1, <1>2 DEF BusInv

LEMMA ResetKeepsBus == BusReset => BusInv'
  <1> SUFFICES ASSUME BusReset PROVE BusInv'  OBVIOUS
  <1> USE DEF BusReset
  <1>1. Tuned'  BY DEF Tuned
  <1>2. \A s \in Sid : ~IsValid(s)'  BY RequestFacts DEF IsValid
  <1>3. slaves' \in [Sid -> Slave] /\ asked' \in [Sid -> Request \cup {NoRequest}]
    BY RequestFacts
  <1>4. active_cfg' \in 0 .. NMAX_SLAVES  BY RequestFacts
  <1> QED  BY <1>1, <1>2, <1>3, <1>4 DEF BusInv

(* addSlave() fills a place nobody holds.                                  *)
LEMMA AddKeepsBus ==
  ASSUME BusInv, NEW r \in Request, NEW sid, AddSlave(r, sid)
  PROVE  BusInv' /\ sid \in Sid /\ asked[sid] = NoRequest /\ asked' = [asked EXCEPT ![sid] = r]
  <1>1. PICK psc \in Feasible(r.max) :
          /\ \A other \in Feasible(r.max) : psc <= other
          /\ slaves' = [slaves EXCEPT ![sid] =
               [ssn |-> r.ssn, nbits |-> r.nbits, cpol |-> r.cpol, cpha |-> r.cpha, br_psc |-> psc]]
    BY DEF AddSlave
  <1>2. /\ sid \in Sid /\ ~IsValid(sid) /\ asked' = [asked EXCEPT ![sid] = r]
        /\ xfer' = NoXfer /\ active_cfg' = active_cfg /\ spi' = spi
    BY DEF AddSlave
  <1> DEFINE sl == [ssn |-> r.ssn, nbits |-> r.nbits, cpol |-> r.cpol, cpha |-> r.cpha, br_psc |-> psc]
  <1>3. sl \in Slave /\ sl.ssn # Unwired /\ Made(sl, r)
    BY <1>1, RequestFacts DEF Slave, Made, Feasible
  <1>4. slaves' = [slaves EXCEPT ![sid] = sl]  BY <1>1
  <1> HIDE DEF sl
  <1>5. slaves' \in [Sid -> Slave] /\ asked' \in [Sid -> Request \cup {NoRequest}]
    BY <1>2, <1>3, <1>4 DEF BusInv
  <1>6. \A s \in Sid : s # sid => slaves'[s] = slaves[s] /\ asked'[s] = asked[s]
    BY <1>2, <1>4 DEF BusInv
  <1>7. slaves'[sid] = sl /\ asked'[sid] = r  BY <1>2, <1>4 DEF BusInv
  <1>8. \A s \in Sid : IsValid(s)' <=> s = sid \/ IsValid(s)
    BY <1>3, <1>6, <1>7 DEF IsValid
  <1>9. \A s \in Sid : IF IsValid(s)' THEN asked'[s] \in Request /\ Made(slaves'[s], asked'[s])
                       ELSE asked'[s] = NoRequest
    BY <1>3, <1>6, <1>7, <1>8 DEF BusInv
  <1>10. active_cfg' # NMAX_SLAVES => IsValid(active_cfg)' /\ spi' = Settings(slaves[active_cfg])'
    <2> SUFFICES ASSUME active_cfg # NMAX_SLAVES
                 PROVE  IsValid(active_cfg)' /\ spi' = Settings(slaves[active_cfg])'
        BY <1>2
    <2>1. IsValid(active_cfg) /\ active_cfg \in Sid /\ active_cfg # sid
      BY <1>2 DEF BusInv, IsValid
    <2>2. slaves'[active_cfg] = slaves[active_cfg]  BY <1>6, <2>1
    <2> QED  BY <1>2, <1>8, <2>1, <2>2 DEF BusInv, Settings, IsValid
  <1>11. Tuned'  BY <1>2 DEF Tuned
  <1>12. asked[sid] = NoRequest  BY <1>2 DEF BusInv
  <1> QED  BY <1>2, <1>5, <1>9, <1>10, <1>11, <1>12 DEF BusInv

(* removeSlave(): the place is free again and not the active one.          *)
LEMMA RemoveKeepsBus ==
  ASSUME BusInv, NEW sid, RemoveSlave(sid)
  PROVE  BusInv' /\ sid \in Sid /\ asked' = [asked EXCEPT ![sid] = NoRequest]
  <1>1. /\ sid \in Sid /\ IsValid(sid) /\ slaves' = [slaves EXCEPT ![sid].ssn = Unwired]
        /\ active_cfg' = IF sid = active_cfg THEN NMAX_SLAVES ELSE active_cfg
        /\ asked' = [asked EXCEPT ![sid] = NoRequest] /\ xfer' = NoXfer /\ spi' = spi
    BY DEF RemoveSlave, IsValid, ActiveWithout
  <1>2. \A s \in Sid : s # sid => slaves'[s] = slaves[s] /\ asked'[s] = asked[s]
    BY <1>1 DEF BusInv
  <1>3. slaves'[sid] = [slaves[sid] EXCEPT !.ssn = Unwired] /\ asked'[sid] = NoRequest
    BY <1>1 DEF BusInv
  <1>4. slaves[sid] \in Slave  BY <1>1 DEF BusInv
  <1>5. slaves'[sid] \in Slave /\ slaves'[sid].ssn = Unwired
    BY <1>3, <1>4 DEF Slave
  <1>6. slaves' \in [Sid -> Slave] /\ asked' \in [Sid -> Request \cup {NoRequest}]
    BY <1>1, <1>5 DEF BusInv
  <1>7. \A s \in Sid : IsValid(s)' <=> s # sid /\ IsValid(s)
    BY <1>2, <1>5 DEF IsValid
  <1>8. \A s \in Sid : IF IsValid(s)' THEN asked'[s] \in Request /\ Made(slaves'[s], asked'[s])
                       ELSE asked'[s] = NoRequest
    BY <1>2, <1>3, <1>7 DEF BusInv
  <1>9. active_cfg' # NMAX_SLAVES => IsValid(active_cfg)' /\ spi' = Settings(slaves[active_cfg])'
    <2> SUFFICES ASSUME active_cfg' # NMAX_SLAVES
                 PROVE  IsValid(active_cfg)' /\ spi' = Settings(slaves[active_cfg])'
        OBVIOUS
    <2>1. active_cfg' = active_cfg /\ sid # active_cfg /\ active_cfg # NMAX_SLAVES  BY <1>1
    <2>2. IsValid(active_cfg) /\ active_cfg \in Sid /\ spi = Settings(slaves[active_cfg])
      BY <2>1 DEF BusInv, IsValid
    <2>3. slaves'[active_cfg] = slaves[active_cfg]  BY <1>2, <2>1, <2>2
    <2> QED  BY <1>1, <1>7, <2>1, <2>2, <2>3 DEF Settings, IsValid
  <1>10. Tuned'  BY <1>1 DEF Tuned
  <1>11. active_cfg' \in 0 .. NMAX_SLAVES  BY <1>1, RequestFacts DEF BusInv
  <1> QED  BY <1>1, <1>6, <1>8, <1>9, <1>10, <1>11 DEF BusInv

(* What the settings written by _applyCfg() are worth to the client.       *)
LEMMA SettingsFit ==
  ASSUME NEW sl \in Slave, NEW r \in Request, Made(sl, r)
  PROVE  LET bus == Settings(sl) IN
           /\ sl.ssn = r.ssn
           /\ Wide(sl.nbits) = bus.wide /\ bus.wide = Wide(r.nbits)
           /\ bus.cpol = r.cpol /\ bus.pull_up = r.cpol /\ bus.cpha = r.cpha
           /\ Divided(bus.br) <= r.max
           /\ \A psc \in Prescaler : psc < bus.br => ~(Divided(psc) <= r.max)
  <1> DEFINE bus == Settings(sl)
  <1>1. bus.br = sl.br_psc /\ bus.wide = Wide(sl.nbits) /\ bus.cpol = sl.cpol
        /\ bus.pull_up = sl.cpol /\ bus.cpha = sl.cpha
    BY DEF Settings
  <1>2. sl.br_psc \in Feasible(r.max) /\ \A psc \in Feasible(r.max) : sl.br_psc <= psc
    BY DEF Made
  <1>3. Divided(sl.br_psc) <= r.max  BY <1>2 DEF Feasible
  <1>4. ASSUME NEW psc \in Prescaler, psc < sl.br_psc PROVE ~(Divided(psc) <= r.max)
    <2>1. psc \notin Feasible(r.max)
      BY <1>2, <1>4 DEF Feasible, Prescaler
    <2> QED  BY <2>1 DEF Feasible
  <1> QED  BY <1>1, <1>3, <1>4 DEF Made

(* txrx(): the settings are those of the slave, written now or before.     *)
LEMMA TxrxKeepsBus ==
  ASSUME BusInv, NEW sid, NEW word, Txrx(sid, word)
  PROVE  BusInv' /\ asked' = asked
  <1>1. /\ IsValid(sid) /\ sid \in Sid /\ active_cfg' = sid
        /\ slaves' = slaves /\ asked' = asked
        /\ xfer' = [sid |-> sid, pin |-> slaves[sid].ssn, bus |-> spi', word |-> word,
                    shifted_wide |-> Wide(slaves[sid].nbits)]
    BY DEF Txrx, IsValid
  <1>2. spi' = Settings(slaves[sid])
    <2>1. CASE active_cfg # sid  BY <2>1 DEF Txrx
    <2>2. CASE active_cfg = sid
      <3>1. spi' = spi  BY <2>2 DEF Txrx
      <3>2. active_cfg # NMAX_SLAVES  BY <2>2, <1>1, RequestFacts
      <3> QED  BY <2>2, <3>1, <3>2 DEF BusInv
    <2> QED  BY <2>1, <2>2
  <1>3. asked[sid] \in Request /\ Made(slaves[sid], asked[sid]) /\ slaves[sid] \in Slave
    BY <1>1 DEF BusInv
  <1>4. Tuned'
    <2> SUFFICES LET r == asked'[xfer'.sid] IN
          /\ xfer'.pin = r.ssn
          /\ xfer'.shifted_wide = xfer'.bus.wide /\ xfer'.bus.wide = Wide(r.nbits)
          /\ xfer'.bus.cpol = r.cpol /\ xfer'.bus.pull_up = r.cpol /\ xfer'.bus.cpha = r.cpha
          /\ Divided(xfer'.bus.br) <= r.max
          /\ \A psc \in Prescaler : psc < xfer'.bus.br => ~(Divided(psc) <= r.max)
        BY DEF Tuned
    <2>1. xfer'.sid = sid /\ xfer'.pin = slaves[sid].ssn /\ xfer'.bus = Settings(slaves[sid])
          /\ xfer'.shifted_wide = Wide(slaves[sid].nbits) /\ asked'[xfer'.sid] = asked[sid]
      BY <1>1, <1>2
    <2>2. LET bus == Settings(slaves[sid]) r == asked[sid] IN
           /\ slaves[sid].ssn = r.ssn
           /\ Wide(slaves[sid].nbits) = bus.wide /\ bus.wide = Wide(r.nbits)
           /\ bus.cpol = r.cpol /\ bus.pull_up = r.cpol /\ bus.cpha = r.cpha
           /\ Divided(bus.br) <= r.max
           /\ \A psc \in Prescaler : psc < bus.br => ~(Divided(psc) <= r.max)
      BY <1>3, SettingsFit
    <2> QED  BY <2>1, <2>2
  <1>5. \A s : IsValid(s)' <=> IsValid(s)  BY <1>1 DEF IsValid
  <1>6. active_cfg' \in 0 .. NMAX_SLAVES  BY <1>1, RequestFacts DEF Sid
  <1>7. IsValid(active_cfg)' /\ spi' = Settings(slaves[active_cfg])'
    BY <1>1, <1>2, <1>5 DEF IsValid, Settings
  <1>8. \A s \in Sid : IF IsValid(s)' THEN asked'[s] \in Request /\ Made(slaves'[s], asked'[s])
                       ELSE asked'[s] = NoRequest
    BY <1>1, <1>5 DEF BusInv
  <1>9. slaves' \in [Sid -> Slave] /\ asked' \in [Sid -> Request \cup {NoRequest}]
    BY <1>1 DEF BusInv
  <1> QED  BY <1>1, <1>4, <1>6, <1>7, <1>8, <1>9 DEF BusInv

-----------------------------------------------------------------------------
(* A descriptor of the log may have been closed: main has, or exit().      *)
LogGiven == "st_link_uart_tx" \in Closes \/ ~InCall

(* What open() or the reset of the keyboard has left behind a device.      *)
Behind(node) ==
  /\ node = "ltc_2308" => id \in Sid /\ asked[id] = AdcRequest
  /\ node = "kbd" => kid \in Sid /\ asked[kid] = KbdRequest
  /\ node = "st_link_uart_tx" => uart \/ LogGiven

Device == {"ltc_2308", "kbd", "st_link_uart_tx"}

Files == [Fd -> {Closed} \cup [node : Node, mode : {Mode(a) : a \in AccessFlags},
                               flags : SUBSET ValidFlags]]

FileInv ==
  /\ files \in Files
  /\ \A fd \in Fd : IsOpen(fd) => files[fd].node \in Device
  /\ phase \in Phase
  /\ opening \in {NotOpening} \cup [fd : Fd, ok : BOOLEAN]
  /\ opening # NotOpening /\ InCall => IsOpen(opening.fd)
  /\ guest # NMAX_SLAVES => guest \in Sid /\ asked[guest] = GuestRequest
  /\ \A fd \in Fd : IsOpen(fd) /\ (fd # opening.fd \/ opening.ok) => Behind(files[fd].node)

IInv == BusInv /\ FileInv

(* The invariant gives what is promised.                                   *)
LEMMA InvConnected == IInv => Connected
  <1> SUFFICES ASSUME IInv, NEW fd \in Fd, IsOpen(fd), fd # opening.fd
               PROVE  CASE files[fd].node = "ltc_2308" -> asked[id] = AdcRequest
                        [] files[fd].node = "kbd" -> asked[kid] = KbdRequest
                        [] files[fd].node = "st_link_uart_tx" ->
                             uart \/ "st_link_uart_tx" \in Closes \/ ~InCall
      BY DEF Connected
  <1>1. files[fd].node \in Device /\ Behind(files[fd].node)  BY DEF IInv, FileInv
  <1> QED  BY <1>1 DEF Behind, Device, LogGiven

(* No file is told apart by the step: what is behind it stays.             *)
LEMMA FilesKept ==
  ASSUME IInv, UNCHANGED <<files, opening>>, phase' \in Phase, InCall' => InCall,
         guest' # NMAX_SLAVES => guest' \in Sid /\ asked'[guest'] = GuestRequest,
         \A node \in Device : Behind(node) => Behind(node)'
  PROVE  FileInv'
  <1>1. \A fd : IsOpen(fd)' <=> IsOpen(fd)  BY DEF IsOpen
  <1>2. ASSUME NEW fd \in Fd, IsOpen(fd)', fd # opening'.fd \/ opening'.ok
        PROVE  Behind(files[fd].node)'
    <2>1. files[fd].node \in Device /\ Behind(files[fd].node)
      BY <1>1, <1>2 DEF IInv, FileInv
    <2> QED  BY <2>1 DEF Behind
  <1> QED  BY <1>1, <1>2 DEF IInv, FileInv

(* A client that is served is not disturbed by another that is added.      *)
LEMMA AddUndisturbed ==
  ASSUME BusInv, NEW r \in Request, NEW sid, AddSlave(r, sid)
  PROVE  /\ sid \in Sid /\ asked'[sid] = r
         /\ \A x \in Sid : asked[x] \in Request => asked'[x] = asked[x]
  BY AddKeepsBus, RequestFacts DEF BusInv

(* A step that disturbs no driver and no client.                           *)
Undisturbed ==
  /\ phase' \in Phase
  /\ guest' # NMAX_SLAVES => guest' \in Sid /\ asked'[guest'] = GuestRequest
  /\ \A node \in Device : Behind(node) => Behind(node)'

LEMMA Entry ==
  /\ Closed \notin [node : Node, mode : {Mode(a) : a \in AccessFlags}, flags : SUBSET ValidFlags]
  /\ NMAX_FD \notin Fd /\ NotOpening.fd = NMAX_FD
  /\ \A fd \in Fd, ok \in BOOLEAN : Opened(fd, ok) # NotOpening
  /\ \A fd \in Fd : fd # NotOpening.fd
  <1>1. NMAX_FD \notin Fd /\ NotOpening.fd = NMAX_FD
    BY FilesAssumption DEF Fd, NotOpening
  <1>2. Closed \notin [node : Node, mode : {Mode(a) : a \in AccessFlags}, flags : SUBSET ValidFlags]
    BY DEF Closed
  <1>3. \A fd \in Fd, ok \in BOOLEAN : Opened(fd, ok).fd = fd  BY DEF Opened
  <1> QED  BY <1>1, <1>2, <1>3

(* open() up to the driver's, with a driver that agrees or not.            *)
LEMMA OpenStep ==
  ASSUME IInv, opening = NotOpening, NEW fd \in Fd, NEW node \in Device \cap Node,
         NEW mode \in {Mode(a) : a \in AccessFlags}, NEW flags \in SUBSET ValidFlags,
         Filled(fd, node, mode, flags), NEW ok \in BOOLEAN, opening' = Opened(fd, ok),
         Undisturbed, ok => Behind(node)'
  PROVE  FileInv'
  <1> DEFINE entry == [node |-> node, mode |-> mode, flags |-> flags]
  <1>1. files' = [files EXCEPT ![fd] = entry]  BY DEF Filled
  <1>2. entry.node = node
        /\ entry \in [node : Node, mode : {Mode(a) : a \in AccessFlags}, flags : SUBSET ValidFlags]
    OBVIOUS
  <1> HIDE DEF entry
  <1>3. files \in Files  BY DEF IInv, FileInv, Files
  <1>4. files' \in Files /\ files'[fd] = entry /\ \A x \in Fd : x # fd => files'[x] = files[x]
    BY <1>1, <1>2, <1>3 DEF Files
  <1>5. entry # Closed  BY <1>2, Entry
  <1>6. \A x \in Fd : IsOpen(x)' <=> x = fd \/ IsOpen(x)
    BY <1>4, <1>5 DEF IsOpen
  <1>7. opening'.fd = fd /\ opening'.ok = ok /\ opening' \in [fd : Fd, ok : BOOLEAN]
    BY DEF Opened
  <1>8. \A x \in Fd : IsOpen(x)' => files'[x].node \in Device
    BY <1>2, <1>4, <1>6 DEF IInv, FileInv
  <1>9. ASSUME NEW x \in Fd, IsOpen(x)', x # opening'.fd \/ opening'.ok
        PROVE  Behind(files[x].node)'
    <2>1. CASE x = fd
      BY <1>2, <1>4, <1>7, <1>9, <2>1 DEF Behind
    <2>2. CASE x # fd
      <3>1. IsOpen(x) /\ files'[x] = files[x]  BY <1>4, <1>6, <1>9, <2>2
      <3>2. x # opening.fd  BY Entry
      <3>3. files[x].node \in Device /\ Behind(files[x].node)
        BY <3>1, <3>2 DEF IInv, FileInv
      <3> QED  BY <3>1, <3>3 DEF Undisturbed, Behind
    <2> QED  BY <2>1, <2>2
  <1>10. IsOpen(opening.fd)'  BY <1>6, <1>7
  <1> QED  BY <1>4, <1>7, <1>8, <1>9, <1>10 DEF FileInv, Files, Undisturbed

(* The entry of a file is freed.                                           *)
LEMMA FreeStep ==
  ASSUME IInv, NEW fd \in Fd, Freed(fd), opening' = NotOpening, Undisturbed,
         opening \in {NotOpening} \/ opening.fd = fd
  PROVE  FileInv'
  <1>1. files' = [files EXCEPT ![fd] = Closed] /\ files \in Files
    BY DEF Freed, IInv, FileInv, Files
  <1>2. files' \in Files /\ files'[fd] = Closed /\ \A x \in Fd : x # fd => files'[x] = files[x]
    BY <1>1 DEF Files
  <1>3. \A x \in Fd : IsOpen(x)' <=> x # fd /\ IsOpen(x)
    BY <1>2 DEF IsOpen
  <1>4. ASSUME NEW x \in Fd, IsOpen(x)'
        PROVE  files'[x].node \in Device /\ Behind(files[x].node)'
    <2>1. x # fd /\ IsOpen(x) /\ files'[x] = files[x]  BY <1>2, <1>3, <1>4
    <2>2. x # opening.fd  BY <2>1, Entry
    <2>3. files[x].node \in Device /\ Behind(files[x].node)
      BY <2>1, <2>2 DEF IInv, FileInv
    <2> QED  BY <2>1, <2>3 DEF Undisturbed, Behind
  <1> QED  BY <1>2, <1>4 DEF FileInv, Files, Undisturbed

(* open() after the driver's.                                              *)
LEMMA OpenedStep ==
  ASSUME IInv, opening # NotOpening, NEW ok \in BOOLEAN, ok => opening.ok,
         DriverOpened(opening.fd, ok), opening' = NotOpening, Undisturbed
  PROVE  FileInv'
  <1>1. opening \in [fd : Fd, ok : BOOLEAN] /\ opening.fd \in Fd  BY DEF IInv, FileInv
  <1>2. CASE ~ok
    BY <1>1, <1>2, FreeStep DEF DriverOpened
  <1>3. CASE ok
    <2>1. files' = files /\ \A x : IsOpen(x)' <=> IsOpen(x)
      BY <1>3 DEF DriverOpened, IsOpen
    <2>2. ASSUME NEW x \in Fd, IsOpen(x)
          PROVE  files[x].node \in Device /\ Behind(files[x].node)
      BY <1>3, <2>2 DEF IInv, FileInv
    <2>3. ASSUME NEW x \in Fd, IsOpen(x)' PROVE Behind(files[x].node)'
      BY <2>1, <2>2, <2>3 DEF Undisturbed, Behind
    <2> QED  BY <2>1, <2>2, <2>3 DEF FileInv, Undisturbed, IInv
  <1> QED  BY <1>2, <1>3

LEMMA QuietStep ==
  ASSUME IInv, UNCHANGED <<asked, id, kid, uart, guest, phase>>
  PROVE  Undisturbed
  BY DEF Undisturbed, Behind, LogGiven, InCall, IInv, FileInv

(* A step after which the files are as before, and nothing is disturbed.   *)
LEMMA SameFiles ==
  ASSUME IInv, UNCHANGED <<files, opening>>, Undisturbed, phase' = phase \/ ~InCall'
  PROVE  FileInv'
  <1>1. InCall' => InCall  BY DEF InCall
  <1> QED  BY <1>1, FilesKept DEF Undisturbed

-----------------------------------------------------------------------------
LEMMA LogStep ==
  ASSUME IInv, opening = NotOpening, NEW fd \in Fd,
         NEW mode \in {Mode(a) : a \in AccessFlags}, NEW flags \in SUBSET ValidFlags,
         "st_link_uart_tx" \in Node, Filled(fd, "st_link_uart_tx", mode, flags), LogOpen(fd),
         BusIdle, UNCHANGED <<ltcVars, kid, guest>>, InCall, phase' \in {phase, "attach_out", "runs"}
  PROVE  IInv'
  <1>1. PICK ok \in BOOLEAN : opening' = Opened(fd, ok) /\ uart' = IF ok THEN TRUE ELSE uart
    BY DEF LogOpen
  <1>2. id' = id /\ asked' = asked  BY DEF ltcVars, ltcDriver, BusIdle
  <1>3. Undisturbed
    BY <1>1, <1>2 DEF Undisturbed, Behind, LogGiven, InCall, Phase, IInv, FileInv
  <1>4. ok => Behind("st_link_uart_tx")'  BY <1>1 DEF Behind
  <1>5. FileInv'  BY <1>1, <1>3, <1>4, OpenStep DEF Device
  <1>6. BusInv'  BY IdleKeepsBus DEF BusIdle, IInv
  <1> QED  BY <1>5, <1>6 DEF IInv

(* What a call of open() has looked up.                                    *)
LEMMA OpeningFacts ==
  ASSUME NEW fd, NEW o \in Opens, Opening(fd, o.node, o.access, o.flags)
  PROVE  /\ fd \in Fd /\ o.node \in Node
         /\ Mode(o.access) \in {Mode(a) : a \in AccessFlags}
         /\ o.flags \ {"CREAT"} \in SUBSET ValidFlags
         /\ Filled(fd, o.node, Mode(o.access), o.flags \ {"CREAT"})
  <1>1. o.access \in AccessFlags  BY DevicesAssumption
  <1>2. fd \in Fd  BY FilesAssumption DEF Opening, NextFd, Fd, NRESERVED_FD, STDERR
  <1> QED  BY <1>1, <1>2 DEF Opening

LEMMA AttachStep == ASSUME IInv, NEW fd \in Fd, Attach(fd) PROVE IInv'
  <1>1. Filled(fd, "st_link_uart_tx", IF fd = STDIN THEN {"FREAD"} ELSE {"FWRITE"}, {})
        /\ "st_link_uart_tx" \in Node
    BY DEF Attach, Attaching
  <1>2. {"FREAD"} = Mode("RDONLY") /\ {"FWRITE"} = Mode("WRONLY")  BY DEF Mode
  <1>3. (IF fd = STDIN THEN {"FREAD"} ELSE {"FWRITE"}) \in {Mode(a) : a \in AccessFlags}
    BY <1>2 DEF AccessFlags
  <1>4. /\ opening = NotOpening /\ LogOpen(fd) /\ BusIdle /\ UNCHANGED <<ltcVars, kid, guest>>
        /\ InCall /\ phase' \in {phase, "attach_out", "runs"}
    BY DEF Attach, InCall
  <1> QED  BY <1>1, <1>3, <1>4, LogStep

LEMMA OpenLogStep == ASSUME IInv, NEW fd \in Fd, NEW o \in Opens, OpenLog(fd, o) PROVE IInv'
  <1>1. opening = NotOpening /\ LogOpen(fd) /\ BusIdle /\ UNCHANGED <<ltcVars, phase, kid, guest>>
        /\ InCall /\ o.node = "st_link_uart_tx" /\ Opening(fd, o.node, o.access, o.flags)
    BY DEF OpenLog, Calls, InCall
  <1>2. /\ "st_link_uart_tx" \in Node /\ Mode(o.access) \in {Mode(a) : a \in AccessFlags}
        /\ o.flags \ {"CREAT"} \in SUBSET ValidFlags
        /\ Filled(fd, "st_link_uart_tx", Mode(o.access), o.flags \ {"CREAT"})
    <2>1. o.node = "st_link_uart_tx" /\ Opening(fd, o.node, o.access, o.flags)  BY <1>1
    <2> QED  BY <2>1, OpeningFacts
  <1>3. /\ opening = NotOpening /\ LogOpen(fd) /\ BusIdle /\ UNCHANGED <<ltcVars, kid, guest>>
        /\ InCall /\ phase' = phase
    BY <1>1
  <1> QED  BY <1>2, <1>3, LogStep

LEMMA OpenAdcStep ==
  ASSUME IInv, NEW fd \in Fd, NEW o \in Opens, NEW sid \in Sid, OpenAdc(fd, o, sid) PROVE IInv'
  <1>1. /\ opening = NotOpening /\ o.node = "ltc_2308" /\ UNCHANGED <<phase, kid, guest, uart>>
        /\ Opening(fd, o.node, o.access, o.flags)
    BY DEF OpenAdc, Calls
  <1>2. PICK ok \in BOOLEAN :
          /\ opening' = Opened(fd, ok)
          /\ IF ok THEN LtcRegister(sid) ELSE BusIdle /\ UNCHANGED ltcVars
    BY DEF OpenAdc
  <1>3. CASE ok
    <2>1. AddSlave(AdcRequest, sid) /\ id' = sid  BY <1>2, <1>3 DEF LtcRegister
    <2>2. BusInv' /\ asked'[sid] = AdcRequest /\ \A x \in Sid : asked[x] \in Request => asked'[x] = asked[x]
      BY <2>1, AddKeepsBus, AddUndisturbed, RequestFacts DEF IInv
    <2>3. Undisturbed /\ Behind("ltc_2308")'
      BY <1>1, <2>1, <2>2, RequestFacts DEF Undisturbed, Behind, LogGiven, InCall, IInv, FileInv
    <2>4. FileInv'  BY <1>1, <1>2, <2>3, OpenStep, OpeningFacts DEF Device
    <2> QED  BY <2>2, <2>4 DEF IInv
  <1>4. CASE ~ok
    <2>1. BusIdle /\ UNCHANGED ltcVars  BY <1>2, <1>4
    <2>2. Undisturbed  BY <1>1, <2>1, QuietStep DEF BusIdle, ltcVars, ltcDriver
    <2>3. FileInv'  BY <1>1, <1>2, <1>4, <2>2, OpenStep, OpeningFacts DEF Device
    <2> QED  BY <2>1, <2>3, IdleKeepsBus DEF IInv, BusIdle
  <1> QED  BY <1>3, <1>4

LEMMA OpenKbdStep ==
  ASSUME IInv, NEW fd \in Fd, NEW o \in Opens, NEW sid \in Sid, OpenKbd(fd, o, sid) PROVE IInv'
  <1>1. /\ opening = NotOpening /\ o.node = "kbd" /\ UNCHANGED <<ltcVars, phase, guest, uart>>
        /\ Opening(fd, o.node, o.access, o.flags)
    BY DEF OpenKbd, Calls
  <1>2. PICK ok \in BOOLEAN :
          /\ opening' = Opened(fd, ok)
          /\ IF ok THEN AddSlave(KbdRequest, sid) /\ kid' = sid ELSE BusIdle /\ UNCHANGED kid
    BY DEF OpenKbd
  <1>3. id' = id  BY <1>1 DEF ltcVars, ltcDriver
  <1>4. CASE ok
    <2>1. AddSlave(KbdRequest, sid) /\ kid' = sid  BY <1>2, <1>4
    <2>2. BusInv' /\ asked'[sid] = KbdRequest /\ \A x \in Sid : asked[x] \in Request => asked'[x] = asked[x]
      BY <2>1, AddKeepsBus, AddUndisturbed, RequestFacts DEF IInv
    <2>3. Undisturbed /\ Behind("kbd")'
      BY <1>1, <1>3, <2>1, <2>2, RequestFacts DEF Undisturbed, Behind, LogGiven, InCall, IInv, FileInv
    <2>4. FileInv'  BY <1>1, <1>2, <2>3, OpenStep, OpeningFacts DEF Device
    <2> QED  BY <2>2, <2>4 DEF IInv
  <1>5. CASE ~ok
    <2>1. BusIdle /\ UNCHANGED kid  BY <1>2, <1>5
    <2>2. Undisturbed  BY <1>1, <1>3, <2>1, QuietStep DEF BusIdle
    <2>3. FileInv'  BY <1>1, <1>2, <1>5, <2>2, OpenStep, OpeningFacts DEF Device
    <2> QED  BY <2>1, <2>3, IdleKeepsBus DEF IInv, BusIdle
  <1> QED  BY <1>4, <1>5

(* A transfer, which disturbs nobody.                                      *)
LEMMA TransferStep ==
  ASSUME IInv, NEW sid, NEW word, Txrx(sid, word), UNCHANGED <<id, kid, uart, guest, phase>>
  PROVE  BusInv' /\ Undisturbed
  <1>1. BusInv' /\ asked' = asked  BY TxrxKeepsBus DEF IInv
  <1> QED  BY <1>1, QuietStep

LEMMA KbdResetStep == ASSUME IInv, KbdReset PROVE IInv'
  <1>1. /\ opening # NotOpening /\ opening.ok /\ Txrx(kid, "reset")
        /\ UNCHANGED <<ltcVars, phase, kid, guest, uart>> /\ opening' = NotOpening
    BY DEF KbdReset
  <1>2. PICK answered \in BOOLEAN : DriverOpened(opening.fd, answered)  BY DEF KbdReset
  <1>3. BusInv' /\ Undisturbed  BY <1>1, TransferStep DEF ltcVars, ltcDriver
  <1>4. FileInv'  BY <1>1, <1>2, <1>3, OpenedStep
  <1> QED  BY <1>3, <1>4 DEF IInv

LEMMA OpenReturnsStep == ASSUME IInv, OpenReturns PROVE IInv'
  <1>1. /\ opening # NotOpening /\ DriverOpened(opening.fd, opening.ok) /\ opening' = NotOpening
        /\ BusIdle /\ UNCHANGED <<ltcVars, phase, kid, guest, uart>>
    BY DEF OpenReturns
  <1>2. Undisturbed  BY <1>1, QuietStep DEF BusIdle, ltcVars, ltcDriver
  <1>3. opening.ok \in BOOLEAN  BY <1>1 DEF IInv, FileInv
  <1>4. FileInv'  BY <1>1, <1>2, <1>3, OpenedStep
  <1> QED  BY <1>1, <1>4, IdleKeepsBus DEF IInv, BusIdle

(* The converter's calls either leave the bus alone or are transfers.      *)
LEMMA LtcCallStep ==
  ASSUME IInv, LtcCall, UNCHANGED <<files, phase, opening, kid, guest, uart>> PROVE IInv'
  <1>1. id' = id /\ (BusIdle \/ \E word : Txrx(id, word))
    <2>1. ASSUME NEW sleep, Exchange(sleep) PROVE \E word : Txrx(id, word)
      BY <2>1 DEF Exchange
    <2> QED  BY <2>1 DEF LtcCall, LtcConfigure, Settle, Wake, RefWake, Trigger, AwaitSample,
                         Transfer, Return
  <1>2. CASE BusIdle
    <2>1. Undisturbed  BY <1>1, <1>2, QuietStep DEF BusIdle
    <2> QED  BY <1>2, <2>1, SameFiles, IdleKeepsBus DEF IInv, BusIdle
  <1>3. CASE \E word : Txrx(id, word)
    <2>1. BusInv' /\ Undisturbed  BY <1>1, <1>3, TransferStep
    <2> QED  BY <2>1, SameFiles DEF IInv
  <1> QED  BY <1>1, <1>2, <1>3

(* Steps that touch neither the bus nor the files.                         *)
LEMMA ElsewhereStep ==
  ASSUME IInv, BusIdle, id' = id, UNCHANGED <<files, phase, opening, kid, guest, uart>> PROVE IInv'
  <1>1. Undisturbed  BY QuietStep DEF BusIdle
  <1> QED  BY <1>1, SameFiles, IdleKeepsBus DEF IInv, BusIdle

LEMMA AskKbdStep == ASSUME IInv, NEW fd \in Fd, AskKbd(fd) PROVE IInv'
  <1>1. Txrx(kid, "none") /\ UNCHANGED <<ltcVars, files, phase, opening, kid, guest, uart>>  BY DEF AskKbd
  <1>2. BusInv' /\ Undisturbed  BY <1>1, TransferStep DEF ltcVars, ltcDriver
  <1> QED  BY <1>1, <1>2, SameFiles DEF IInv

(* What close() does to the UART concerns the log alone.                   *)
LEMMA CloseKeepsBehind ==
  ASSUME IInv, NEW fd \in Fd, CloseFile(fd), UNCHANGED <<asked, id, kid, guest>>, phase' \in Phase,
         files[fd].node = "st_link_uart_tx" => LogGiven',
         LogGiven => LogGiven'
  PROVE  Undisturbed
  <1>1. uart' = (uart /\ files[fd].node # "st_link_uart_tx")  BY DEF CloseFile
  <1>2. uart => uart' \/ LogGiven'  BY <1>1
  <1> QED  BY <1>2 DEF Undisturbed, Behind, IInv, FileInv

LEMMA CloseStep == ASSUME IInv, NEW fd \in Fd, Close(fd) PROVE IInv'
  <1>1. /\ opening = NotOpening /\ CloseFile(fd) /\ BusIdle /\ files[fd].node \in Closes
        /\ UNCHANGED <<ltcVars, phase, opening, kid, guest>>
    BY DEF Close, Calls
  <1>2. /\ phase' \in Phase
        /\ files[fd].node = "st_link_uart_tx" => LogGiven'
        /\ LogGiven => LogGiven'
    BY <1>1 DEF LogGiven, InCall, IInv, FileInv
  <1>3. Undisturbed  BY <1>1, <1>2, CloseKeepsBehind DEF BusIdle, ltcVars, ltcDriver
  <1>4. FileInv'  BY <1>1, <1>3, FreeStep DEF CloseFile, Closing
  <1> QED  BY <1>1, <1>4, IdleKeepsBus DEF IInv, BusIdle

LEMMA FcntlStep == ASSUME IInv, NEW fd \in Fd, NEW flags \in FlagSets, Fcntl(fd, flags) PROVE IInv'
  <1>1. /\ BusIdle /\ UNCHANGED <<ltcVars, phase, opening, kid, guest, uart>> /\ IsOpen(fd)
        /\ files' = [files EXCEPT ![fd].flags = (@ \ SETFL_MASK) \cup (flags \cap SETFL_MASK)]
    BY DEF Fcntl, SetFlags
  <1>2. Undisturbed  BY <1>1, QuietStep DEF BusIdle, ltcVars, ltcDriver
  <1> DEFINE entry == [files[fd] EXCEPT !.flags = (@ \ SETFL_MASK) \cup (flags \cap SETFL_MASK)]
  <1>3. files \in Files /\ files' = [files EXCEPT ![fd] = entry]
    BY <1>1 DEF IInv, FileInv
  <1>4. files[fd] \in [node : Node, mode : {Mode(a) : a \in AccessFlags}, flags : SUBSET ValidFlags]
    BY <1>1, <1>3 DEF Files, IsOpen
  <1>5. SETFL_MASK \subseteq ValidFlags  BY DEF ValidFlags
  <1>6. /\ entry \in [node : Node, mode : {Mode(a) : a \in AccessFlags}, flags : SUBSET ValidFlags]
        /\ entry.node = files[fd].node
    BY <1>4, <1>5
  <1> HIDE DEF entry
  <1>7. files' \in Files /\ files'[fd] = entry /\ \A x \in Fd : x # fd => files'[x] = files[x]
    BY <1>3, <1>6 DEF Files
  <1>8. \A x \in Fd : IsOpen(x)' => IsOpen(x) /\ files'[x].node = files[x].node
    BY <1>1, <1>6, <1>7 DEF IsOpen
  <1>9. \A x \in Fd : IsOpen(x) => IsOpen(x)'
    BY <1>6, <1>7, Entry DEF IsOpen
  <1>10. ASSUME NEW x \in Fd, IsOpen(x)', x # opening'.fd \/ opening'.ok
         PROVE  Behind(files[x].node)'
    <2>1. files'[x].node = files[x].node /\ files[x].node \in Device /\ Behind(files[x].node)
      BY <1>1, <1>8, <1>10 DEF IInv, FileInv
    <2> QED  BY <1>2, <2>1 DEF Undisturbed, Behind
  <1>11. FileInv'
    <2>1. \A x \in Fd : IsOpen(x)' => files'[x].node \in Device  BY <1>8 DEF IInv, FileInv
    <2>2. opening' \in {NotOpening} \cup [fd : Fd, ok : BOOLEAN]
          /\ (opening' # NotOpening /\ InCall' => IsOpen(opening.fd)')
      BY <1>1, <1>9 DEF IInv, FileInv, InCall
    <2> QED  BY <1>2, <1>7, <1>10, <2>1, <2>2 DEF FileInv, Undisturbed
  <1> QED  BY <1>1, <1>11, IdleKeepsBus DEF IInv, BusIdle

LEMMA GuestStep ==
  ASSUME IInv, (\E sid \in Sid : GuestComes(sid)) \/ GuestAsks \/ GuestGoes PROVE IInv'
  <1>1. CASE \E sid \in Sid : GuestComes(sid)
    <2>1. PICK sid \in Sid : GuestComes(sid)  BY <1>1
    <2>2. /\ AddSlave(GuestRequest, sid) /\ guest' = sid
          /\ UNCHANGED <<ltcVars, files, phase, opening, kid, uart>>
      BY <2>1 DEF GuestComes
    <2>3. BusInv' /\ asked'[sid] = GuestRequest /\ \A x \in Sid : asked[x] \in Request => asked'[x] = asked[x]
      BY <2>2, AddKeepsBus, AddUndisturbed, RequestFacts DEF IInv
    <2>4. Undisturbed
      BY <2>2, <2>3, RequestFacts
         DEF Undisturbed, Behind, LogGiven, InCall, ltcVars, ltcDriver, IInv, FileInv
    <2> QED  BY <2>2, <2>3, <2>4, SameFiles DEF IInv
  <1>2. CASE GuestAsks
    <2>1. Txrx(guest, "none") /\ UNCHANGED <<ltcVars, files, phase, opening, kid, guest, uart>>
      BY <1>2 DEF GuestAsks
    <2>2. BusInv' /\ Undisturbed  BY <2>1, TransferStep DEF ltcVars, ltcDriver
    <2> QED  BY <2>1, <2>2, SameFiles DEF IInv
  <1>3. CASE GuestGoes
    <2>1. /\ RemoveSlave(guest) /\ guest' = NMAX_SLAVES
          /\ UNCHANGED <<ltcVars, files, phase, opening, kid, uart>>
      BY <1>3 DEF GuestGoes
    <2>2. BusInv' /\ guest \in Sid /\ asked' = [asked EXCEPT ![guest] = NoRequest]
      BY <2>1, RemoveKeepsBus DEF IInv
    <2>3. asked[guest] = GuestRequest  BY <2>2, RequestFacts DEF IInv, FileInv
    <2>4. \A x \in Sid : asked[x] \in {AdcRequest, KbdRequest} => asked'[x] = asked[x]
      BY <2>2, <2>3, RequestFacts DEF IInv, BusInv
    <2>5. Undisturbed
      BY <2>1, <2>4 DEF Undisturbed, Behind, LogGiven, InCall, ltcVars, ltcDriver, IInv, FileInv
    <2> QED  BY <2>1, <2>2, <2>5, SameFiles DEF IInv
  <1> QED  BY <1>1, <1>2, <1>3

(* exit() takes main away; the files are as they were.                     *)
LEMMA ExitStep == ASSUME IInv, Exit PROVE IInv'
  <1>1. /\ BusIdle /\ id' = id /\ UNCHANGED <<files, opening, kid, guest, uart>>
        /\ InCall /\ phase' = "close_err"
    BY DEF Exit
  <1>2. ~InCall' /\ phase' \in Phase /\ (LogGiven => LogGiven')
    BY <1>1 DEF InCall, Phase, LogGiven
  <1>3. Undisturbed  BY <1>1, <1>2 DEF BusIdle, Undisturbed, Behind, IInv, FileInv
  <1> QED  BY <1>1, <1>2, <1>3, SameFiles, IdleKeepsBus DEF IInv, BusIdle

(* Of the files that are closed then one may be on the point of being      *)
(* opened.                                                                 *)
LEMMA ExitClosing ==
  ASSUME IInv, NEW fd \in Fd, CloseFile(fd), BusIdle, UNCHANGED <<ltcVars, opening, kid, guest>>,
         ~InCall', phase' \in Phase
  PROVE  IInv'
  <1>1. LogGiven'  BY DEF LogGiven
  <1>2. Undisturbed  BY <1>1, CloseKeepsBehind DEF BusIdle, ltcVars, ltcDriver
  <1>3. files' = [files EXCEPT ![fd] = Closed] /\ files \in Files
    BY DEF CloseFile, Closing, Freed, IInv, FileInv
  <1>4. files' \in Files /\ files'[fd] = Closed /\ \A x \in Fd : x # fd => files'[x] = files[x]
    BY <1>3 DEF Files
  <1>5. ASSUME NEW x \in Fd, IsOpen(x)' PROVE IsOpen(x) /\ files'[x] = files[x]
    BY <1>4, <1>5 DEF IsOpen
  <1>6. ASSUME NEW x \in Fd, IsOpen(x)', x # opening'.fd \/ opening'.ok
        PROVE  Behind(files[x].node)'
    <2>1. files'[x] = files[x] /\ files[x].node \in Device /\ Behind(files[x].node)
      BY <1>5, <1>6 DEF IInv, FileInv
    <2> QED  BY <1>2, <2>1 DEF Undisturbed, Behind
  <1>7. FileInv'  BY <1>2, <1>4, <1>5, <1>6 DEF FileInv, Undisturbed, IInv
  <1> QED  BY <1>7, IdleKeepsBus DEF IInv, BusIdle

LEMMA ExitStreamsStep == ASSUME IInv, ExitStreams PROVE IInv'
  <1>1. PICK fd \in Fd : CloseFile(fd)  BY DEF ExitStreams
  <1>2. BusIdle /\ UNCHANGED <<ltcVars, opening, kid, guest>> /\ ~InCall' /\ phase' \in Phase
    BY DEF ExitStreams, InCall, Phase
  <1> QED  BY <1>1, <1>2, ExitClosing

LEMMA ExitClosesStep == ASSUME IInv, ExitCloses PROVE IInv'
  <1> DEFINE fd == IF phase = "close_err" THEN STDERR ELSE STDOUT
  <1>1. /\ BusIdle /\ UNCHANGED <<ltcVars, opening, kid, guest>>
        /\ phase' \in {"close_out", "reset"}
        /\ IF IsOpen(fd) THEN CloseFile(fd) ELSE UNCHANGED <<files, uart>>
    BY DEF ExitCloses
  <1>2. fd \in Fd  BY FilesAssumption DEF Fd, NRESERVED_FD, STDERR, STDOUT
  <1> HIDE DEF fd
  <1>3. ~InCall' /\ phase' \in Phase /\ LogGiven'
    BY <1>1 DEF InCall, Phase, LogGiven
  <1>4. CASE IsOpen(fd)  BY <1>1, <1>2, <1>3, <1>4, ExitClosing
  <1>5. CASE ~IsOpen(fd)
    <2>1. UNCHANGED <<files, uart>>  BY <1>1, <1>5
    <2>2. Undisturbed
      BY <1>1, <1>3, <2>1 DEF BusIdle, ltcVars, ltcDriver, Undisturbed, Behind, IInv, FileInv
    <2> QED  BY <1>1, <1>3, <2>1, <2>2, SameFiles, IdleKeepsBus DEF IInv, BusIdle
  <1> QED  BY <1>4, <1>5

LEMMA RestartStep == ASSUME Restart PROVE IInv'
  <1>1. BusInv'  BY ResetKeepsBus DEF Restart, BusReset
  <1>2. /\ files' = [fd \in Fd |-> Closed] /\ opening' = NotOpening /\ guest' = NMAX_SLAVES
        /\ phase' \in Phase
    BY DEF Restart, Phase
  <1>3. files' \in Files /\ \A fd \in Fd : ~IsOpen(fd)'
    BY <1>2 DEF Files, IsOpen
  <1> QED  BY <1>1, <1>2, <1>3 DEF IInv, FileInv

LEMMA InitInv == Init => IInv
  <1> SUFFICES ASSUME Init PROVE IInv  OBVIOUS
  <1>1. BusInv
    <2>1. /\ slaves = [s \in Sid |-> FreeSlave] /\ active_cfg = NMAX_SLAVES
          /\ asked = [s \in Sid |-> NoRequest] /\ xfer = NoXfer
      BY DEF Init, ProgramInit, SpiInit
    <2>2. \A s \in Sid : ~IsValid(s)  BY <2>1, RequestFacts DEF IsValid
    <2> QED  BY <2>1, <2>2, RequestFacts DEF BusInv, Tuned
  <1>2. /\ files = [fd \in Fd |-> Closed] /\ opening = NotOpening /\ guest = NMAX_SLAVES
        /\ phase \in Phase
    BY DEF Init, ProgramInit, FilesInit, Phase
  <1>3. files \in Files /\ \A fd \in Fd : ~IsOpen(fd)
    BY <1>2 DEF Files, IsOpen
  <1> QED  BY <1>1, <1>2, <1>3 DEF IInv, FileInv

(* The inductive step.                                                     *)
LEMMA NextInv == IInv /\ [Next]_vars => IInv'
  <1> SUFFICES ASSUME IInv, [Next]_vars PROVE IInv'  OBVIOUS
  <1>1. CASE UNCHANGED vars
    <2>1. UNCHANGED <<slaves, active_cfg, spi, asked, xfer, id, files, phase, opening, kid, guest, uart>>
      BY <1>1 DEF vars, spiVars, ltcVars, ltcDriver
    <2>2. Undisturbed  BY <2>1, QuietStep
    <2> QED  BY <2>1, <2>2, SameFiles, IdleKeepsBus DEF IInv
  <1>2. CASE Main
    <2>1. CASE \E fd \in Fd : Attach(fd) \/ AskKbd(fd) \/ Close(fd)
      BY <2>1, AttachStep, AskKbdStep, CloseStep
    <2>2. CASE \E fd \in Fd, o \in Opens : OpenLog(fd, o)  BY <2>2, OpenLogStep
    <2>3. CASE \E fd \in Fd, o \in Opens, sid \in Sid : OpenAdc(fd, o, sid) \/ OpenKbd(fd, o, sid)
      BY <2>3, OpenAdcStep, OpenKbdStep
    <2>4. CASE KbdReset \/ OpenReturns  BY <2>4, KbdResetStep, OpenReturnsStep
    <2>5. CASE \E fd \in Fd, n \in 1 .. MaxRead : ReadAdc(fd, n)
      BY <2>5, ElsewhereStep DEF ReadAdc, Read
    <2>6. CASE AdcCall  BY <2>6, LtcCallStep DEF AdcCall
    <2>7. CASE \E cfg \in Config : AdcOptions(cfg)
      BY <2>7, ElsewhereStep DEF AdcOptions, SetOptions
    <2>8. CASE \E fd \in Fd, flags \in FlagSets : Fcntl(fd, flags)  BY <2>8, FcntlStep
    <2>9. CASE (\E sid \in Sid : GuestComes(sid)) \/ GuestAsks \/ GuestGoes  BY <2>9, GuestStep
    <2> QED  BY <1>2, <2>1, <2>2, <2>3, <2>4, <2>5, <2>6, <2>7, <2>8, <2>9 DEF Main
  <1>3. CASE Converter /\ UNCHANGED <<files, phase, opening, kid, guest, uart>>
    BY <1>3, ElsewhereStep DEF Converter, ConversionEnds, ReferenceSettles, ltcDriver
  <1>4. CASE Exit \/ ExitStreams \/ ExitCloses \/ Restart
    BY <1>4, ExitStep, ExitStreamsStep, ExitClosesStep, RestartStep
  <1> QED  BY <1>1, <1>2, <1>3, <1>4 DEF Next

(* The inductive invariant.                                                *)
THEOREM Invariance == Spec => []IInv
  BY InitInv, NextInv, PTL DEF Spec

(* SpiMaster::txrx: however slaves are added, removed and addressed, every *)
(* transfer is made with the pin, frame, clock mode and clock that the     *)
(* client of its id has asked for.                                         *)
THEOREM TransfersAreTuned == Spec => []Tuned
  <1>1. IInv => Tuned  BY DEF IInv, BusInv
  <1> QED  BY <1>1, Invariance, PTL

(* FileManager::open, close and stdStreamAttach: a descriptor that is open *)
(* has a driver behind it whose own open() has succeeded and lasts, from   *)
(* the attaching of stderr to the reset after _exit(), whatever fails on   *)
(* the way.  A close() of one of the log's descriptors takes the UART from *)
(* the others: of the log nothing is promised if main closes one of its    *)
(* files, nor from exit() on.                                              *)
THEOREM FilesAreConnected == Spec => []Connected
  BY InvConnected, Invariance, PTL

-----------------------------------------------------------------------------
(* The reads of the converter.  Between reads the driver keeps the byte    *)
(* that is owed; during one, what it has delivered is whole samples but    *)
(* for that byte, and the converter holds the next one.                    *)
ByteType == [sample : Sample, half : {1, 2}]

Led(w) == IF w = None THEN 0 ELSE 1

Whole(o, w, cfg) ==
  /\ Led(w) <= Len(o)
  /\ Led(w) = 1 => o[1] = Byte(w, 2)
  /\ \A k \in 1 .. Len(o) - Led(w) :
       /\ o[Led(w) + k].half = IF k % 2 = 1 THEN 1 ELSE 2
       /\ o[Led(w) + k].sample.conv > 0 /\ o[Led(w) + k].sample.cfg = cfg
       /\ k > 1 => o[Led(w) + k].sample.conv =
                     o[Led(w) + (k - 1)].sample.conv + (IF k % 2 = 1 THEN 1 ELSE 0)

KeptByte ==
  rpc \in {"idle", "configure"} => owed = IF sdi = NULL_FRAME THEN None ELSE sdi

Asking ==
  rpc \in {"settle", "wake", "refwake", "trigger"} =>
    count > 0 /\ out = IF owed = None THEN <<>> ELSE <<Byte(owed, 2)>>

Sampling ==
  rpc \in {"convert", "transfer"} =>
    /\ ntransfers > 0 /\ count \in {2 * ntransfers - 1, 2 * ntransfers}
    /\ Whole(out, owed, sdo)
    /\ (Len(out) - Led(owed)) % 2 = 0
    /\ conv > 0 /\ adc.held.conv = conv /\ adc.held.cfg = sdo
    /\ Len(out) > Led(owed) => out[Len(out)].sample.conv = conv - 1

Returning ==
  rpc = "return" =>
    /\ count = 0 /\ Len(out) > 0
    /\ Whole(out, owed, sdo)
    /\ LET last == out[Len(out)] IN
         sdi = IF last.half = 2 \/ Ambiguous(last.sample) THEN NULL_FRAME ELSE last.sample

ReadInv == LtcTypeOK /\ KeptByte /\ Asking /\ Sampling /\ Returning

LEMMA SampleFacts ==
  /\ NULL_FRAME \notin Sample /\ None \notin Sample /\ NULL_FRAME # None
  /\ \A x \in Sample : Aged(x) \in Sample /\ Aged(x) = [x EXCEPT !.conv = 0]
  /\ Aged(NULL_FRAME) = NULL_FRAME
  /\ \A x \in Sample, half \in {1, 2} :
       /\ Byte(x, half) \in ByteType
       /\ Byte(x, half).sample = x /\ Byte(x, half).half = half
  <1>1. NULL_FRAME \notin Sample /\ None \notin Sample
    BY DEF NULL_FRAME, None, Sample
  <1>2. NULL_FRAME # None
    <2>1. NULL_FRAME.reading = "null" /\ None.reading = "none"  BY DEF NULL_FRAME, None
    <2> QED  BY <2>1
  <1>3. ASSUME NEW x \in Sample PROVE Aged(x) \in Sample /\ Aged(x) = [x EXCEPT !.conv = 0]
    <2>1. Aged(x) = [x EXCEPT !.conv = 0]  BY <1>1 DEF Aged
    <2>2. [x EXCEPT !.conv = 0] \in Sample  BY DEF Sample
    <2> QED  BY <2>1, <2>2
  <1>4. Aged(NULL_FRAME) = NULL_FRAME  BY DEF Aged
  <1>5. \A x \in Sample, half \in {1, 2} :
          /\ Byte(x, half) \in ByteType
          /\ Byte(x, half).sample = x /\ Byte(x, half).half = half
    BY DEF Byte, ByteType
  <1> QED  BY <1>1, <1>2, <1>3, <1>4, <1>5

(* One sample more, by half or whole.                                      *)
LEMMA Copied ==
  ASSUME NEW o \in Seq(ByteType), NEW reply \in Sample, NEW copied \in {1, 2}
  PROVE  LET p == o \o [half \in 1 .. copied |-> Byte(reply, half)] IN
           /\ p \in Seq(ByteType) /\ Len(p) = Len(o) + copied /\ Len(o) \in Nat
           /\ \A k \in 1 .. Len(o) : p[k] = o[k]
           /\ p[Len(o) + 1] = Byte(reply, 1)
           /\ copied = 2 => p[Len(o) + 2] = Byte(reply, 2)
  <1> DEFINE q == [half \in 1 .. copied |-> Byte(reply, half)]
             p == o \o q
  <1>1. q \in Seq(ByteType) /\ Len(q) = copied
    <2>1. CASE copied = 1
      <3>1. q \in [1 .. 1 -> ByteType] /\ 1 \in Nat  BY <2>1, SampleFacts
      <3> QED  BY <2>1, <3>1
    <2>2. CASE copied = 2
      <3>1. q \in [1 .. 2 -> ByteType] /\ 2 \in Nat  BY <2>2, SampleFacts
      <3> QED  BY <2>2, <3>1
    <2> QED  BY <2>1, <2>2
  <1>2. q[1] = Byte(reply, 1) /\ (copied = 2 => q[2] = Byte(reply, 2))
    OBVIOUS
  <1> HIDE DEF q
  <1>3. /\ p \in Seq(ByteType) /\ Len(p) = Len(o) + Len(q) /\ Len(o) \in Nat
        /\ \A i \in 1 .. Len(o) + Len(q) : p[i] = IF i <= Len(o) THEN o[i] ELSE q[i - Len(o)]
    BY <1>1, ConcatProperties, LenProperties
  <1> HIDE DEF p
  <1>4. \A k \in 1 .. Len(o) : p[k] = o[k]
    BY <1>1, <1>3
  <1>5. p[Len(o) + 1] = Byte(reply, 1)
    <2>1. Len(o) + 1 \in 1 .. Len(o) + Len(q) /\ ~(Len(o) + 1 <= Len(o)) /\ (Len(o) + 1) - Len(o) = 1
      BY <1>1, <1>3
    <2> QED  BY <1>2, <1>3, <2>1
  <1>6. ASSUME copied = 2 PROVE p[Len(o) + 2] = Byte(reply, 2)
    <2>1. Len(o) + 2 \in 1 .. Len(o) + Len(q) /\ ~(Len(o) + 2 <= Len(o)) /\ (Len(o) + 2) - Len(o) = 2
      BY <1>1, <1>3, <1>6
    <2> QED  BY <1>2, <1>3, <1>6, <2>1
  <1> QED  BY <1>1, <1>3, <1>4, <1>5, <1>6 DEF p, q

LEMMA WholeCopied ==
  ASSUME NEW o \in Seq(ByteType), NEW w, NEW cfg, NEW reply \in Sample, NEW copied \in {1, 2},
         Whole(o, w, cfg), (Len(o) - Led(w)) % 2 = 0,
         reply.conv > 0, reply.cfg = cfg,
         Len(o) > Led(w) => o[Len(o)].sample.conv = reply.conv - 1
  PROVE  Whole(o \o [half \in 1 .. copied |-> Byte(reply, half)], w, cfg)
  <1> DEFINE p == o \o [half \in 1 .. copied |-> Byte(reply, half)]
             n == Len(o) - Led(w)
  <1>1. /\ Len(p) = Len(o) + copied /\ Len(o) \in Nat
        /\ \A k \in 1 .. Len(o) : p[k] = o[k]
        /\ p[Len(o) + 1] = Byte(reply, 1)
        /\ copied = 2 => p[Len(o) + 2] = Byte(reply, 2)
    BY Copied
  <1>2. Led(w) \in {0, 1} /\ Led(w) <= Len(o) /\ n \in Nat /\ Len(o) = Led(w) + n /\ n % 2 = 0
    <2>1. Led(w) \in {0, 1} /\ Led(w) <= Len(o)  BY DEF Led, Whole
    <2>2. n \in Nat /\ Len(o) = Led(w) + n  BY <1>1, <2>1
    <2> QED  BY <2>1, <2>2
  <1>3. /\ Byte(reply, 1).sample = reply /\ Byte(reply, 1).half = 1
        /\ Byte(reply, 2).sample = reply /\ Byte(reply, 2).half = 2
        /\ reply.conv \in Nat
    BY SampleFacts DEF Sample
  <1> HIDE DEF p
  <1>4. Led(w) <= Len(p) /\ (Led(w) = 1 => p[1] = Byte(w, 2))
    BY <1>1, <1>2 DEF Whole
  <1>5. Len(p) - Led(w) = n + copied /\ Len(o) - Led(w) = n
    BY <1>1, <1>2
  <1> HIDE DEF n
  <1>6. ASSUME NEW k \in 1 .. n
        PROVE  /\ p[Led(w) + k].half = IF k % 2 = 1 THEN 1 ELSE 2
               /\ p[Led(w) + k].sample.conv > 0 /\ p[Led(w) + k].sample.cfg = cfg
               /\ k > 1 => p[Led(w) + k].sample.conv =
                             p[Led(w) + (k - 1)].sample.conv + (IF k % 2 = 1 THEN 1 ELSE 0)
    <2>1. Led(w) + k \in 1 .. Len(o) /\ k \in 1 .. Len(o) - Led(w)
      <3>1. k \in 1 .. Len(o) - Led(w)  BY <1>5
      <3>2. k \in Nat /\ 1 <= k /\ k <= n  BY <1>2
      <3>3. Led(w) + k \in Nat /\ 1 <= Led(w) + k /\ Led(w) + k <= Led(w) + n
        BY <1>2, <3>2
      <3> QED  BY <1>1, <1>2, <3>1, <3>3
    <2>2. p[Led(w) + k] = o[Led(w) + k]
      BY <1>1, <2>1
    <2>3. ASSUME k > 1 PROVE p[Led(w) + (k - 1)] = o[Led(w) + (k - 1)]
      <3>1. Led(w) + (k - 1) \in 1 .. Len(o)  BY <1>1, <1>2, <2>3
      <3> QED  BY <1>1, <3>1
    <2> QED  BY <2>1, <2>2, <2>3 DEF Whole
  <1>7. /\ p[Led(w) + (n + 1)] = Byte(reply, 1) /\ (n + 1) % 2 = 1
        /\ n + 1 > 1 => p[Led(w) + ((n + 1) - 1)].sample.conv = reply.conv - 1
    <2>1. Led(w) + (n + 1) = Len(o) + 1  BY <1>1, <1>2
    <2>2. (n + 1) % 2 = 1  BY <1>2
    <2>3. ASSUME n + 1 > 1 PROVE p[Led(w) + ((n + 1) - 1)].sample.conv = reply.conv - 1
      <3>1. Led(w) + ((n + 1) - 1) = Len(o) /\ Len(o) \in 1 .. Len(o) /\ Len(o) > Led(w)
        BY <1>1, <1>2, <2>3
      <3> QED  BY <1>1, <3>1
    <2> QED  BY <1>1, <2>1, <2>2, <2>3
  <1>8. ASSUME copied = 2
        PROVE  /\ p[Led(w) + (n + 2)] = Byte(reply, 2) /\ (n + 2) % 2 = 0
               /\ p[Led(w) + ((n + 2) - 1)] = Byte(reply, 1)
    <2>1. Led(w) + (n + 2) = Len(o) + 2 /\ Led(w) + ((n + 2) - 1) = Len(o) + 1
      BY <1>1, <1>2
    <2>2. (n + 2) % 2 = 0  BY <1>2
    <2> QED  BY <1>1, <1>8, <2>1, <2>2
  <1>9. ASSUME NEW k \in 1 .. n + copied
        PROVE  /\ p[Led(w) + k].half = IF k % 2 = 1 THEN 1 ELSE 2
               /\ p[Led(w) + k].sample.conv > 0 /\ p[Led(w) + k].sample.cfg = cfg
               /\ k > 1 => p[Led(w) + k].sample.conv =
                             p[Led(w) + (k - 1)].sample.conv + (IF k % 2 = 1 THEN 1 ELSE 0)
    <2>1. CASE k \in 1 .. n
      BY <1>6, <2>1
    <2>2. CASE k = n + 1
      <3>1. p[Led(w) + k].sample = reply /\ p[Led(w) + k].half = 1 /\ k % 2 = 1
        BY <1>3, <1>7, <2>2
      <3>2. k > 1 => p[Led(w) + (k - 1)].sample.conv = reply.conv - 1
        BY <1>7, <2>2
      <3>3. (reply.conv - 1) + 1 = reply.conv
        BY <1>3
      <3> QED  BY <3>1, <3>2, <3>3
    <2>3. CASE copied = 2 /\ k = n + 2
      <3>1. p[Led(w) + k].sample = reply /\ p[Led(w) + k].half = 2 /\ k % 2 = 0
        BY <1>3, <1>8, <2>3
      <3>2. p[Led(w) + (k - 1)].sample = reply
        BY <1>3, <1>8, <2>3
      <3>3. reply.conv + 0 = reply.conv
        BY <1>3
      <3> QED  BY <3>1, <3>2, <3>3
    <2> QED  BY <1>2, <2>1, <2>2, <2>3
  <1>10. Whole(p, w, cfg)
    BY <1>4, <1>5, <1>9 DEF Whole
  <1> QED  BY <1>10 DEF p

-----------------------------------------------------------------------------
(* The converter, and what a transfer makes of it.                         *)
AdcType ==
  [busy : BOOLEAN, sleep : BOOLEAN, reference : {"on", "off", "waking"}, held : Sample]

LEMMA AdcAged ==
  ASSUME adc \in AdcType
  PROVE  LET a == [adc EXCEPT !.held = Aged(@)] IN
           a \in AdcType /\ a.sleep = adc.sleep /\ a.reference = adc.reference
  <1>1. Aged(adc.held) \in Sample  BY SampleFacts DEF AdcType
  <1> QED  BY <1>1 DEF AdcType

LEMMA ExchangeFacts ==
  ASSUME LtcTypeOK, NEW sleep \in BOOLEAN, Exchange(sleep)
  PROVE  /\ conv' = conv + 1 /\ conv' \in Nat /\ conv' > 0
         /\ adc' \in AdcType
         /\ adc'.held.conv = conv' /\ adc'.held.cfg = sdo
         /\ adc'.held.settled <=> adc.reference = "on"
         /\ adc'.sleep <=> sleep
         /\ adc.reference = "on" => adc'.reference = "on"
  <1> DEFINE word == [cfg |-> sdo, sleep |-> sleep]
             ref == IF adc.reference = "off" /\ ~word.sleep THEN "waking" ELSE adc.reference
             sample(r) == [reading |-> r, cfg |-> word.cfg, settled |-> adc.reference = "on",
                           ended |-> TRUE, conv |-> conv']
  <1>1. conv' = conv + 1 /\ conv \in Nat /\ sdo \in Config /\ adc \in AdcType
    BY DEF Exchange, Convert, LtcTypeOK, AdcType
  <1>2. PICK r \in Reading : adc' = [busy |-> TRUE, sleep |-> word.sleep,
                                     reference |-> ref, held |-> sample(r)]
    BY DEF Exchange, Convert
  <1>3. ref \in {"on", "off", "waking"} /\ (adc.reference = "on" => ref = "on")
    BY <1>1 DEF AdcType
  <1>4. /\ sample(r) \in Sample /\ sample(r).conv = conv' /\ sample(r).cfg = sdo
        /\ sample(r).settled <=> adc.reference = "on"
    <2> DEFINE up == adc.reference = "on"
    <2>1. up \in BOOLEAN  OBVIOUS
    <2>2. sample(r) = [reading |-> r, cfg |-> sdo, settled |-> up, ended |-> TRUE, conv |-> conv']
      OBVIOUS
    <2>3. conv' \in Nat  BY <1>1
    <2> HIDE DEF up, sample
    <2>4. sample(r) \in Sample /\ sample(r).conv = conv' /\ sample(r).cfg = sdo /\ sample(r).settled = up
      BY <1>1, <2>1, <2>2, <2>3 DEF Sample
    <2> QED  BY <2>4 DEF up
  <1> HIDE DEF ref, sample
  <1> QED  BY <1>1, <1>2, <1>3, <1>4 DEF AdcType

LEMMA ReplyFacts ==
  ASSUME adc \in AdcType, NEW reply \in Replies
  PROVE  /\ reply \in Sample /\ reply.conv = adc.held.conv /\ reply.cfg = adc.held.cfg
         /\ reply.settled = adc.held.settled
  <1>1. adc.held \in Sample  BY DEF AdcType
  <1>2. CASE reply = adc.held  BY <1>1, <1>2
  <1>3. CASE \E r \in Reading : reply = [adc.held EXCEPT !.reading = r, !.ended = FALSE]
    <2>1. PICK r \in Reading : reply = [adc.held EXCEPT !.reading = r, !.ended = FALSE]
      BY <1>3
    <2> DEFINE h == adc.held
    <2> HIDE DEF h
    <2>2. h \in Sample /\ reply = [h EXCEPT !.reading = r, !.ended = FALSE]
      BY <1>1, <2>1 DEF h
    <2>3. reply \in Sample /\ reply.conv = h.conv /\ reply.cfg = h.cfg /\ reply.settled = h.settled
      BY <2>2 DEF Sample
    <2> QED  BY <2>3 DEF h
  <1> QED  BY <1>2, <1>3 DEF Replies

LEMMA ReadInit == Init => ReadInv
  <1> SUFFICES ASSUME Init PROVE ReadInv  OBVIOUS
  <1>1. PICK cfg \in Config, low_power \in BOOLEAN : LtcInit(cfg, low_power)
    BY DEF Init, ProgramInit
  <1>2. /\ id = NMAX_SLAVES /\ sdo = cfg /\ lp = low_power /\ sdi = NULL_FRAME
        /\ rpc = "idle" /\ count = 0 /\ ntransfers = 0 /\ out = <<>> /\ owed = None /\ conv = 0
    BY <1>1 DEF LtcInit
  <1>3. adc \in AdcType
    BY <1>2, AdcAssumption DEF Init, AdcPowered, AdcType, Sample
  <1>4. out \in Seq(ByteType) /\ id \in 0 .. NMAX_SLAVES
    BY <1>2, RequestFacts
  <1> QED
    BY <1>2, <1>3, <1>4 DEF ReadInv, LtcTypeOK, AdcType, ByteType, KeptByte, Asking, Sampling, Returning

(* The converter goes on, or nothing happens to it.                        *)
LEMMA ReadSame == ReadInv /\ UNCHANGED ltcVars => ReadInv'
  BY DEF ltcVars, ltcDriver, ltcHistory, ReadInv, LtcTypeOK, KeptByte, Asking, Sampling, Returning,
         Whole

LEMMA ReadConverter == ReadInv /\ Converter => ReadInv'
  <1> SUFFICES ASSUME ReadInv, Converter PROVE ReadInv'  OBVIOUS
  <1>1. UNCHANGED <<id, sdo, lp, sdi, rpc, count, ntransfers, out, owed, conv>>
    BY DEF Converter, ConversionEnds, ReferenceSettles, ltcDriver, ltcHistory
  <1>2. adc \in AdcType  BY DEF ReadInv, LtcTypeOK, AdcType
  <1>3. adc' \in AdcType /\ adc'.held = adc.held
    BY <1>2 DEF Converter, ConversionEnds, ReferenceSettles, AdcType
  <1> QED
    BY <1>1, <1>3
    DEF ReadInv, LtcTypeOK, AdcType, KeptByte, Asking, Sampling, Returning, Whole

(* open() and setOptions(), between two reads.                             *)
LEMMA ReadBetween ==
  ASSUME ReadInv,
         (\E sid \in Sid : LtcRegister(sid)) \/ LtcConfigure \/ (\E cfg \in Config : SetOptions(cfg))
  PROVE  ReadInv'
  <1>1. /\ UNCHANGED <<sdi, count, ntransfers, out, owed, lp>>
        /\ rpc \in {"idle", "configure"} /\ rpc' \in {"idle", "configure"}
        /\ sdo' \in Config /\ id' \in 0 .. NMAX_SLAVES
    <2>1. Sid \subseteq 0 .. NMAX_SLAVES  BY SpiAssumption DEF Sid
    <2> QED
      BY <2>1 DEF LtcRegister, LtcConfigure, SetOptions, ltcHistory, ReadInv, LtcTypeOK
  <1>2. conv' \in Nat /\ adc' \in AdcType
    <2>1. CASE LtcConfigure
      <3>1. LtcTypeOK /\ lp \in BOOLEAN /\ Exchange(lp)
        BY <2>1 DEF LtcConfigure, ReadInv, LtcTypeOK
      <3> QED  BY <3>1, ExchangeFacts
    <2>2. CASE UNCHANGED <<conv, adc>>
      BY <2>2 DEF ReadInv, LtcTypeOK, AdcType
    <2> QED  BY <2>1, <2>2 DEF LtcRegister, SetOptions, ltcHistory
  <1> QED
    BY <1>1, <1>2
    DEF ReadInv, LtcTypeOK, AdcType, KeptByte, Asking, Sampling, Returning

(* read() begins, with the byte that is owed.                              *)
LEMMA ReadBegins ==
  ASSUME ReadInv, NEW n \in 1 .. MaxRead, Read(n)
  PROVE  ReadInv'
  <1>1. n \in Nat /\ n > 0  BY DevicesAssumption
  <1>2. /\ rpc = "idle" /\ sdi' = NULL_FRAME /\ conv' = 0 /\ adc' = [adc EXCEPT !.held = Aged(@)]
        /\ UNCHANGED <<id, sdo, lp, ntransfers, owed>>
    BY DEF Read
  <1>3. adc' \in AdcType /\ 0 \in Nat
    <2>1. adc \in AdcType  BY DEF ReadInv, LtcTypeOK, AdcType
    <2> QED  BY <1>2, <2>1, AdcAged
  <1>4. owed = (IF sdi = NULL_FRAME THEN None ELSE sdi) /\ sdi \in Sample \cup {NULL_FRAME}
    BY <1>2 DEF ReadInv, KeptByte, LtcTypeOK
  <1>5. CASE sdi = NULL_FRAME
    <2>1. out' = <<>> /\ count' = n /\ rpc' = "settle" /\ owed' = None
      BY <1>2, <1>4, <1>5 DEF Read
    <2>2. out' \in Seq(ByteType)  BY <2>1
    <2> QED
      BY <1>1, <1>2, <1>3, <2>1, <2>2
      DEF ReadInv, LtcTypeOK, AdcType, ByteType, KeptByte, Asking, Sampling, Returning
  <1>6. CASE sdi # NULL_FRAME
    <2>1. /\ sdi \in Sample /\ owed = sdi /\ owed # None /\ out' = <<Byte(owed, 2)>>
          /\ count' = n - 1 /\ rpc' = IF n = 1 THEN "return" ELSE "settle"
      BY <1>2, <1>4, <1>6, SampleFacts DEF Read
    <2> DEFINE b == Byte(owed, 2)
    <2>2. b \in ByteType /\ b.half = 2  BY <2>1, SampleFacts
    <2> HIDE DEF b
    <2>3. /\ out' \in Seq(ByteType) /\ Len(out') = 1 /\ out'[1] = b
      BY <2>1, <2>2 DEF b
    <2>4. count' \in Nat /\ (n = 1 => count' = 0) /\ (n # 1 => count' > 0)
      BY <1>1, <2>1
    <2>5. LtcTypeOK'
      BY <1>2, <1>3, <2>1, <2>3, <2>4 DEF ReadInv, LtcTypeOK, AdcType, ByteType
    <2>6. KeptByte' /\ Sampling'
      BY <2>1 DEF KeptByte, Sampling
    <2>7. Asking'
      BY <1>2, <2>1, <2>4 DEF Asking
    <2>8. Returning'
      <3>1. SUFFICES ASSUME rpc' = "return" PROVE Returning'
        BY DEF Returning
      <3>2. count' = 0  BY <2>1, <2>4, <3>1
      <3>3. Whole(out', owed, sdo)
        <4>1. Led(owed) = 1 /\ Len(out') - Led(owed) = 0  BY <2>1, <2>3 DEF Led
        <4> DEFINE none == Len(out') - Led(owed)
        <4>2. none = 0  BY <4>1
        <4> HIDE DEF none
        <4>3. \A k \in 1 .. none : FALSE  BY <4>2
        <4>4. \A k \in 1 .. Len(out') - Led(owed) : FALSE  BY <4>3 DEF none
        <4> QED  BY <2>3, <4>1, <4>4 DEF Whole, b
      <3>4. out'[Len(out')].half = 2  BY <2>2, <2>3
      <3> QED  BY <1>2, <2>3, <3>2, <3>3, <3>4 DEF Returning
    <2> QED  BY <2>5, <2>6, <2>7, <2>8 DEF ReadInv
  <1> QED  BY <1>5, <1>6

(* The converter is woken up, if need be, and a conversion is begun.       *)
LEMMA ReadAsks ==
  ASSUME ReadInv, Settle \/ Wake \/ RefWake \/ AwaitSample
  PROVE  ReadInv'
  <1>1. CASE Wake
    <2>1. /\ rpc = "wake" /\ rpc' = "refwake" /\ Exchange(FALSE)
          /\ UNCHANGED <<id, sdo, lp, sdi, count, ntransfers, out, owed>>
      BY <1>1 DEF Wake
    <2>2. conv' \in Nat /\ adc' \in AdcType
      BY <2>1, ExchangeFacts DEF ReadInv
    <2> QED
      BY <2>1, <2>2
      DEF ReadInv, LtcTypeOK, AdcType, KeptByte, Asking, Sampling, Returning
  <1>2. CASE Settle \/ RefWake \/ AwaitSample
    <2>1. /\ UNCHANGED <<id, sdo, lp, sdi, count, ntransfers, adc, out, owed, conv>>
          /\ \/ rpc \in {"settle", "refwake"} /\ rpc' \in {"wake", "trigger"}
             \/ rpc = "convert" /\ rpc' = "transfer"
      BY <1>2 DEF Settle, RefWake, AwaitSample, ltcHistory
    <2> QED
      BY <2>1
      DEF ReadInv, LtcTypeOK, AdcType, KeptByte, Asking, Sampling, Returning, Whole
  <1> QED  BY <1>1, <1>2

LEMMA ReadTriggers ==
  ASSUME ReadInv, Trigger
  PROVE  ReadInv'
  <1>1. /\ rpc = "trigger" /\ rpc' = "convert" /\ ntransfers' = (count + 1) \div 2 /\ Exchange(FALSE)
        /\ UNCHANGED <<id, sdo, lp, sdi, count, out, owed>>
    BY DEF Trigger
  <1>2. /\ conv' \in Nat /\ conv' > 0 /\ adc' \in AdcType
        /\ adc'.held.conv = conv' /\ adc'.held.cfg = sdo
    BY <1>1, ExchangeFacts DEF ReadInv
  <1>3. count \in Nat /\ count > 0 /\ out = IF owed = None THEN <<>> ELSE <<Byte(owed, 2)>>
    BY <1>1 DEF ReadInv, Asking, LtcTypeOK
  <1>4. ntransfers' \in Nat /\ ntransfers' > 0 /\ count \in {2 * ntransfers' - 1, 2 * ntransfers'}
    BY <1>1, <1>3
  <1>5. Len(out) = Led(owed) /\ (owed # None => out[1] = Byte(owed, 2))
    BY <1>3 DEF Led
  <1>6. Led(owed) \in {0, 1} /\ (Led(owed) = 1 => owed # None)
    BY DEF Led
  <1>7. Len(out) - Led(owed) = 0 /\ Len(out) \in Nat
    BY <1>5, <1>6
  <1>8. Whole(out, owed, sdo)
    <2>1. \A k \in 1 .. Len(out) - Led(owed) : FALSE  BY <1>7
    <2>2. Led(owed) <= Len(out)  BY <1>5, <1>7
    <2> QED  BY <1>5, <1>6, <2>1, <2>2 DEF Whole
  <1>9. Sampling'
    <2>1. (Len(out) - Led(owed)) % 2 = 0  BY <1>7
    <2>2. ~(Len(out) > Led(owed))  BY <1>5, <1>7
    <2> QED  BY <1>1, <1>2, <1>4, <1>8, <2>1, <2>2 DEF Sampling
  <1> QED
    BY <1>1, <1>2, <1>4, <1>9
    DEF ReadInv, LtcTypeOK, AdcType, KeptByte, Asking, Returning

(* A sample comes in; it is the last one, of which half may do, or the     *)
(* converter has begun the next.                                           *)
LEMMA ReadTransfers ==
  ASSUME ReadInv, Transfer
  PROVE  ReadInv'
  <1> DEFINE copied == IF count = 1 THEN 1 ELSE 2
  <1>1. /\ rpc = "transfer" /\ Exchange(lp /\ ntransfers = 1) /\ ntransfers' = ntransfers - 1
        /\ rpc' = IF ntransfers = 1 THEN "return" ELSE "convert"
        /\ UNCHANGED <<id, sdo, lp, owed>>
    BY DEF Transfer
  <1>2. PICK reply \in Replies :
          /\ out' = out \o [half \in 1 .. copied |-> Byte(reply, half)]
          /\ count' = count - copied
          /\ sdi' = Left(reply, copied)
    BY DEF Transfer
  <1>3. /\ ntransfers > 0 /\ count \in {2 * ntransfers - 1, 2 * ntransfers}
        /\ Whole(out, owed, sdo) /\ (Len(out) - Led(owed)) % 2 = 0
        /\ conv > 0 /\ adc.held.conv = conv /\ adc.held.cfg = sdo
        /\ Len(out) > Led(owed) => out[Len(out)].sample.conv = conv - 1
    BY <1>1 DEF ReadInv, Sampling
  <1>4. LtcTypeOK /\ adc \in AdcType /\ out \in Seq(ByteType) /\ count \in Nat /\ ntransfers \in Nat
    BY DEF ReadInv, LtcTypeOK, AdcType, ByteType
  <1>5. copied \in {1, 2}  OBVIOUS
  <1>6. /\ conv' = conv + 1 /\ conv' \in Nat /\ conv' > 0 /\ conv \in Nat
        /\ adc' \in AdcType /\ adc'.held.conv = conv' /\ adc'.held.cfg = sdo
    <2>1. (lp /\ ntransfers = 1) \in BOOLEAN  OBVIOUS
    <2>2. conv \in Nat  BY <1>4 DEF LtcTypeOK
    <2> QED  BY <1>1, <1>4, <2>1, <2>2, ExchangeFacts
  <1>7. reply \in Sample /\ reply.conv = conv /\ reply.cfg = sdo
    BY <1>3, <1>4, ReplyFacts
  <1>8. Left(reply, copied) \in Sample \cup {NULL_FRAME}
    BY <1>7 DEF Left
  <1>9. count' \in Nat /\ ntransfers' \in Nat
        /\ (ntransfers = 1 => count' = 0 /\ copied = count)
        /\ (ntransfers # 1 => /\ ntransfers' > 0 /\ copied = 2
                              /\ count' \in {2 * ntransfers' - 1, 2 * ntransfers'})
    BY <1>1, <1>2, <1>3, <1>4
  <1> HIDE DEF copied
  <1>10. /\ out' \in Seq(ByteType) /\ Len(out') = Len(out) + copied /\ Len(out) \in Nat
         /\ out'[Len(out) + 1] = Byte(reply, 1)
         /\ copied = 2 => out'[Len(out) + 2] = Byte(reply, 2)
    BY <1>2, <1>4, <1>5, <1>7, Copied
  <1>11. out'[Len(out')] = Byte(reply, copied)
    BY <1>5, <1>10
  <1>12. Whole(out', owed, sdo)
    <2>1. Whole(out \o [half \in 1 .. copied |-> Byte(reply, half)], owed, sdo)
      BY <1>3, <1>4, <1>5, <1>7, WholeCopied
    <2> QED  BY <1>2, <2>1
  <1>13. Byte(reply, copied).sample = reply /\ Byte(reply, copied).half = copied
    BY <1>5, <1>7, SampleFacts
  <1>14. LtcTypeOK'
    BY <1>1, <1>2, <1>4, <1>6, <1>8, <1>9, <1>10 DEF LtcTypeOK, AdcType, ByteType
  <1>15. KeptByte' /\ Asking'  BY <1>1 DEF KeptByte, Asking
  <1>16. CASE ntransfers = 1
    <2>1. rpc' = "return" /\ count' = 0 /\ Len(out') > 0
      BY <1>1, <1>5, <1>9, <1>10, <1>16
    <2>2. sdi' = IF copied = 2 \/ Ambiguous(reply) THEN NULL_FRAME ELSE reply
      BY <1>2 DEF Left
    <2>3. Returning'
      BY <1>1, <1>11, <1>12, <1>13, <2>1, <2>2 DEF Returning
    <2>4. Sampling'  BY <2>1 DEF Sampling
    <2> QED  BY <1>14, <1>15, <2>3, <2>4 DEF ReadInv
  <1>17. CASE ntransfers # 1
    <2>1. /\ rpc' = "convert" /\ ntransfers' > 0 /\ copied = 2
          /\ count' \in {2 * ntransfers' - 1, 2 * ntransfers'}
      BY <1>1, <1>9, <1>17
    <2>2. (Len(out') - Led(owed)) % 2 = 0
      <3>1. Led(owed) \in {0, 1}  BY DEF Led
      <3>2. Len(out') - Led(owed) = (Len(out) - Led(owed)) + 2
        BY <1>10, <2>1, <3>1
      <3>3. Len(out) - Led(owed) \in Int  BY <1>10, <3>1
      <3> QED  BY <1>3, <3>2, <3>3
    <2>3. out'[Len(out')].sample.conv = conv' - 1
      BY <1>6, <1>7, <1>11, <1>13
    <2>4. Sampling'
      BY <1>1, <1>6, <1>12, <2>1, <2>2, <2>3 DEF Sampling
    <2>5. Returning'  BY <2>1 DEF Returning
    <2> QED  BY <1>14, <1>15, <2>4, <2>5 DEF ReadInv
  <1> QED  BY <1>16, <1>17

(* The read is over: what it keeps is what it owes.                        *)
LEMMA ReadReturns ==
  ASSUME ReadInv, Return
  PROVE  ReadInv'
  <1> DEFINE last == out[Len(out)]
             kept == IF last.half = 2 \/ Ambiguous(last.sample) THEN NULL_FRAME ELSE last.sample
  <1>1. /\ rpc = "return" /\ rpc' = "idle" /\ sdi' = Aged(sdi) /\ out' = <<>> /\ conv' = 0
        /\ owed' = IF last.half = 2 \/ Ambiguous(last.sample) THEN None ELSE Aged(last.sample)
        /\ adc' = [adc EXCEPT !.held = Aged(@)]
        /\ UNCHANGED <<id, sdo, lp, count, ntransfers>>
    BY DEF Return
  <1>2. Len(out) > 0 /\ sdi = kept  BY <1>1 DEF ReadInv, Returning
  <1>3. last \in ByteType /\ last.sample \in Sample
    <2>1. out \in Seq(ByteType)  BY DEF ReadInv, LtcTypeOK, ByteType
    <2>2. last \in ByteType  BY <1>2, <2>1
    <2> QED  BY <2>2 DEF ByteType
  <1>4. adc' \in AdcType
    <2>1. adc \in AdcType  BY DEF ReadInv, LtcTypeOK, AdcType
    <2> QED  BY <1>1, <2>1, AdcAged
  <1> HIDE DEF last
  <1>5. /\ sdi' \in Sample \cup {NULL_FRAME} /\ owed' \in Sample \cup {None}
        /\ owed' = IF sdi' = NULL_FRAME THEN None ELSE sdi'
    <2>1. CASE last.half = 2 \/ Ambiguous(last.sample)
      <3>1. sdi' = NULL_FRAME /\ owed' = None  BY <1>1, <1>2, <2>1, SampleFacts
      <3> QED  BY <3>1
    <2>2. CASE ~(last.half = 2 \/ Ambiguous(last.sample))
      <3>1. sdi' = Aged(last.sample) /\ owed' = Aged(last.sample)  BY <1>1, <1>2, <2>2
      <3>2. Aged(last.sample) \in Sample  BY <1>3, SampleFacts
      <3> QED  BY <3>1, <3>2, SampleFacts
    <2> QED  BY <2>1, <2>2
  <1>6. out' \in Seq(ByteType) /\ conv' \in Nat  BY <1>1
  <1> QED
    BY <1>1, <1>4, <1>5, <1>6
    DEF ReadInv, LtcTypeOK, AdcType, ByteType, KeptByte, Asking, Sampling, Returning

(* A reset, and exit(), find the converter as it is.                       *)
LEMMA ReadRestarts ==
  ASSUME ReadInv, Exit \/ Restart
  PROVE  ReadInv'
  <1>1. /\ id' \in {id, NMAX_SLAVES} /\ sdi' = NULL_FRAME /\ rpc' = "idle" /\ count' = 0 /\ ntransfers' = 0
        /\ out' = <<>> /\ owed' = None /\ conv' = 0 /\ adc' = [adc EXCEPT !.held = Aged(@)]
        /\ sdo' \in Config /\ UNCHANGED lp
    BY DEF Exit, Restart, LtcForgotten, ReadInv, LtcTypeOK
  <1>2. adc' \in AdcType
    <2>1. adc \in AdcType  BY DEF ReadInv, LtcTypeOK, AdcType
    <2> QED  BY <1>1, <2>1, AdcAged
  <1>3. out' \in Seq(ByteType) /\ id' \in 0 .. NMAX_SLAVES
    BY <1>1, RequestFacts DEF ReadInv, LtcTypeOK
  <1> QED
    BY <1>1, <1>2, <1>3
    DEF ReadInv, LtcTypeOK, AdcType, ByteType, KeptByte, Asking, Sampling, Returning

(* What the step may be, seen from the driver.                             *)
LEMMA ReadKinds ==
  ASSUME [Next]_vars
  PROVE  \/ UNCHANGED ltcVars \/ Converter \/ Exit \/ Restart
         \/ (\E sid \in Sid : LtcRegister(sid)) \/ (\E cfg \in Config : SetOptions(cfg))
         \/ (\E n \in 1 .. MaxRead : Read(n)) \/ LtcCall
  <1>1. CASE UNCHANGED vars  BY <1>1 DEF vars
  <1>2. CASE Main
    <2>1. CASE \E fd \in Fd : Attach(fd) \/ AskKbd(fd) \/ Close(fd)
      BY <2>1 DEF Attach, AskKbd, Close
    <2>2. CASE \E fd \in Fd, o \in Opens : OpenLog(fd, o)  BY <2>2 DEF OpenLog
    <2>3. CASE \E fd \in Fd, o \in Opens, sid \in Sid : OpenAdc(fd, o, sid) \/ OpenKbd(fd, o, sid)
      <3>1. PICK fd \in Fd, o \in Opens, sid \in Sid : OpenAdc(fd, o, sid) \/ OpenKbd(fd, o, sid)
        BY <2>3
      <3>2. LtcRegister(sid) \/ UNCHANGED ltcVars  BY <3>1 DEF OpenAdc, OpenKbd
      <3> QED  BY <3>2
    <2>4. CASE KbdReset \/ OpenReturns  BY <2>4 DEF KbdReset, OpenReturns
    <2>5. CASE \E fd \in Fd, n \in 1 .. MaxRead : ReadAdc(fd, n)  BY <2>5 DEF ReadAdc
    <2>6. CASE AdcCall  BY <2>6 DEF AdcCall
    <2>7. CASE \E cfg \in Config : AdcOptions(cfg)  BY <2>7 DEF AdcOptions
    <2>8. CASE \E fd \in Fd, flags \in FlagSets : Fcntl(fd, flags)  BY <2>8 DEF Fcntl
    <2>9. CASE (\E sid \in Sid : GuestComes(sid)) \/ GuestAsks \/ GuestGoes
      BY <2>9 DEF GuestComes, GuestAsks, GuestGoes
    <2> QED  BY <1>2, <2>1, <2>2, <2>3, <2>4, <2>5, <2>6, <2>7, <2>8, <2>9 DEF Main
  <1>3. CASE ExitStreams \/ ExitCloses  BY <1>3 DEF ExitStreams, ExitCloses
  <1> QED  BY <1>1, <1>2, <1>3 DEF Next

LEMMA ReadStep == ReadInv /\ [Next]_vars => ReadInv'
  <1> SUFFICES ASSUME ReadInv, [Next]_vars PROVE ReadInv'  OBVIOUS
  <1>1. CASE LtcCall
    BY <1>1, ReadBetween, ReadAsks, ReadTriggers, ReadTransfers, ReadReturns DEF LtcCall
  <1>2. CASE \E n \in 1 .. MaxRead : Read(n)  BY <1>2, ReadBegins
  <1>3. CASE (\E sid \in Sid : LtcRegister(sid)) \/ (\E cfg \in Config : SetOptions(cfg))
    BY <1>3, ReadBetween
  <1> QED  BY <1>1, <1>2, <1>3, ReadKinds, ReadSame, ReadConverter, ReadRestarts

LEMMA ReadInvariance == Spec => []ReadInv
  BY ReadInit, ReadStep, PTL DEF Spec

-----------------------------------------------------------------------------
(* The reference.  It is up whenever a conversion is begun whose result is *)
(* delivered, if the delay for it is one: either the converter is never    *)
(* put to sleep, or the read has woken it.                                 *)
Up == ~adc.sleep /\ adc.reference = "on"

Settled(o, w) == \A k \in 1 .. Len(o) : k > Led(w) => o[k].sample.settled

Awake ==
  /\ ~lp => Up
  /\ rpc = "refwake" => ~adc.sleep
  /\ rpc \in {"trigger", "convert", "transfer"} => Up
  /\ rpc \in {"convert", "transfer"} => adc.held.settled

WakeInv == Awake /\ Settled(out, owed)

LEMMA WakeInit == Init => WakeInv
  <1> SUFFICES ASSUME Init PROVE WakeInv  OBVIOUS
  <1>1. adc = AdcPowered(sdo) /\ rpc = "idle" /\ out = <<>>
    BY DEF Init, ProgramInit, LtcInit
  <1>2. Up  BY <1>1 DEF Up, AdcPowered
  <1>3. Len(out) = 0  BY <1>1
  <1>4. \A k \in 1 .. Len(out) : FALSE  BY <1>3
  <1> QED  BY <1>1, <1>2, <1>4 DEF WakeInv, Awake, Settled

(* What has been delivered stays so.                                       *)
LEMMA SettledKept ==
  /\ WakeInv /\ UNCHANGED <<out, owed>> => Settled(out, owed)'
  /\ out' = <<>> => Settled(out, owed)'
  <1>1. ASSUME out' = <<>> PROVE Settled(out, owed)'
    <2>1. Len(out') = 0  BY <1>1
    <2>2. \A k \in 1 .. Len(out') : FALSE  BY <2>1
    <2> QED  BY <2>2 DEF Settled
  <1> QED  BY <1>1 DEF WakeInv, Settled

LEMMA WakeConverter == ReadInv /\ WakeInv /\ Converter => WakeInv'
  <1> SUFFICES ASSUME ReadInv, WakeInv, Converter PROVE WakeInv'  OBVIOUS
  <1>1. UNCHANGED <<lp, rpc, out, owed>>
    BY DEF Converter, ConversionEnds, ReferenceSettles, ltcDriver, ltcHistory
  <1>2. adc \in AdcType  BY DEF ReadInv, LtcTypeOK, AdcType
  <1>3. adc'.held = adc.held /\ adc'.sleep = adc.sleep /\ (Up => Up')
    BY <1>2 DEF Converter, ConversionEnds, ReferenceSettles, AdcType, Up
  <1> QED  BY <1>1, <1>3, SettledKept DEF WakeInv, Awake

(* Steps in which the converter's state is kept, but for the reading's age. *)
LEMMA WakeAged ==
  ASSUME ReadInv, WakeInv, UNCHANGED lp, adc' = [adc EXCEPT !.held = Aged(@)]
  PROVE  (Up <=> Up') /\ (~lp' => Up')
  <1>1. adc \in AdcType  BY DEF ReadInv, LtcTypeOK, AdcType
  <1>2. adc'.sleep = adc.sleep /\ adc'.reference = adc.reference  BY <1>1, AdcAged
  <1> QED  BY <1>2 DEF Up, WakeInv, Awake

LEMMA WakeBetween ==
  ASSUME ReadInv, WakeInv,
         (\E sid \in Sid : LtcRegister(sid)) \/ LtcConfigure \/ (\E cfg \in Config : SetOptions(cfg))
  PROVE  WakeInv'
  <1>1. UNCHANGED <<out, owed, lp>> /\ rpc' \in {"idle", "configure"}
    BY DEF LtcRegister, LtcConfigure, SetOptions, ltcHistory
  <1>2. ~lp => Up'
    <2>1. CASE LtcConfigure
      <3>1. LtcTypeOK /\ lp \in BOOLEAN /\ Exchange(lp)
        BY <2>1 DEF LtcConfigure, ReadInv, LtcTypeOK
      <3>2. /\ adc'.sleep <=> lp
            /\ adc.reference = "on" => adc'.reference = "on"
        BY <3>1, ExchangeFacts
      <3> QED  BY <3>2 DEF WakeInv, Awake, Up
    <2>2. CASE UNCHANGED adc  BY <2>2 DEF WakeInv, Awake, Up
    <2> QED  BY <2>1, <2>2 DEF LtcRegister, SetOptions
  <1> QED  BY <1>1, <1>2, SettledKept DEF WakeInv, Awake

LEMMA WakeBegins ==
  ASSUME ReadInv, WakeInv, NEW n \in 1 .. MaxRead, Read(n)
  PROVE  WakeInv'
  <1>1. /\ rpc = "idle" /\ rpc' \in {"settle", "return"} /\ adc' = [adc EXCEPT !.held = Aged(@)]
        /\ UNCHANGED <<lp, owed>>
    BY DEF Read
  <1>2. Settled(out, owed)'
    <2>1. CASE sdi = NULL_FRAME  BY <2>1, SettledKept DEF Read
    <2>2. CASE sdi # NULL_FRAME
      <3>1. owed = sdi /\ sdi \in Sample
        BY <1>1, <2>2 DEF ReadInv, KeptByte, LtcTypeOK
      <3>2. Led(owed) = 1  BY <3>1, SampleFacts DEF Led
      <3>3. Len(out') = 1  BY <2>2 DEF Read
      <3>4. \A k \in 1 .. Len(out') : ~(k > Led(owed))  BY <3>2, <3>3
      <3> QED  BY <1>1, <3>4 DEF Settled
    <2> QED  BY <2>1, <2>2
  <1> QED  BY <1>1, <1>2, WakeAged DEF WakeInv, Awake

(* The delay for the reference ends when it is up, if it waits at all.     *)
LEMMA WakeAsks ==
  ASSUME ReadInv, WakeInv, Waits(T_REFWAKE), Settle \/ Wake \/ RefWake \/ AwaitSample \/ Trigger
  PROVE  WakeInv'
  <1>1. CASE Wake
    <2>1. /\ rpc' = "refwake" /\ Exchange(FALSE) /\ LtcTypeOK
          /\ UNCHANGED <<lp, out, owed>>
      BY <1>1 DEF Wake, ReadInv
    <2>2. /\ adc'.sleep <=> FALSE
          /\ adc.reference = "on" => adc'.reference = "on"
      BY <2>1, ExchangeFacts
    <2> QED  BY <2>1, <2>2, SettledKept DEF WakeInv, Awake, Up
  <1>2. CASE Settle
    <2>1. UNCHANGED <<lp, adc, out, owed>> /\ rpc' = IF lp THEN "wake" ELSE "trigger"
      BY <1>2 DEF Settle, ltcHistory
    <2> QED  BY <2>1, SettledKept DEF WakeInv, Awake, Up
  <1>3. CASE RefWake
    <2>1. /\ rpc = "refwake" /\ UNCHANGED <<lp, adc, out, owed>> /\ rpc' = "trigger"
          /\ adc.reference = "on"
      BY <1>3 DEF RefWake, ltcHistory
    <2>2. Up  BY <2>1 DEF WakeInv, Awake, Up
    <2> QED  BY <2>1, <2>2, SettledKept DEF WakeInv, Awake, Up
  <1>4. CASE AwaitSample
    <2>1. rpc = "convert" /\ UNCHANGED <<lp, adc, out, owed>> /\ rpc' = "transfer"
      BY <1>4 DEF AwaitSample, ltcHistory
    <2> QED  BY <2>1, SettledKept DEF WakeInv, Awake, Up
  <1>5. CASE Trigger
    <2>1. /\ rpc = "trigger" /\ rpc' = "convert" /\ Exchange(FALSE) /\ LtcTypeOK
          /\ UNCHANGED <<lp, out, owed>>
      BY <1>5 DEF Trigger, ReadInv
    <2>2. /\ adc'.sleep <=> FALSE
          /\ adc.reference = "on" => adc'.reference = "on"
          /\ adc'.held.settled <=> adc.reference = "on"
      BY <2>1, ExchangeFacts
    <2>3. Up  BY <2>1 DEF WakeInv, Awake
    <2> QED  BY <2>1, <2>2, <2>3, SettledKept DEF WakeInv, Awake, Up
  <1> QED  BY <1>1, <1>2, <1>3, <1>4, <1>5

LEMMA WakeTransfers ==
  ASSUME ReadInv, WakeInv, Transfer
  PROVE  WakeInv'
  <1> DEFINE copied == IF count = 1 THEN 1 ELSE 2
  <1>1. /\ rpc = "transfer" /\ Exchange(lp /\ ntransfers = 1)
        /\ rpc' = IF ntransfers = 1 THEN "return" ELSE "convert"
        /\ UNCHANGED <<lp, owed>>
    BY DEF Transfer
  <1>2. PICK reply \in Replies : out' = out \o [half \in 1 .. copied |-> Byte(reply, half)]
    BY DEF Transfer
  <1>3. LtcTypeOK /\ adc \in AdcType /\ out \in Seq(ByteType)
    BY DEF ReadInv, LtcTypeOK, AdcType, ByteType
  <1>4. Up /\ adc.held.settled /\ Settled(out, owed)  BY <1>1 DEF WakeInv, Awake
  <1>5. /\ adc'.sleep <=> (lp /\ ntransfers = 1)
        /\ adc.reference = "on" => adc'.reference = "on"
        /\ adc'.held.settled <=> adc.reference = "on"
    <2>1. (lp /\ ntransfers = 1) \in BOOLEAN  OBVIOUS
    <2> QED  BY <1>1, <1>3, <2>1, ExchangeFacts
  <1>6. reply \in Sample /\ reply.settled  BY <1>3, <1>4, ReplyFacts
  <1>7. copied \in {1, 2}  OBVIOUS
  <1> HIDE DEF copied
  <1>8. /\ Len(out') = Len(out) + copied /\ Len(out) \in Nat
        /\ \A k \in 1 .. Len(out) : out'[k] = out[k]
        /\ out'[Len(out) + 1] = Byte(reply, 1)
        /\ copied = 2 => out'[Len(out) + 2] = Byte(reply, 2)
    BY <1>2, <1>3, <1>6, <1>7, Copied
  <1>9. Byte(reply, 1).sample = reply /\ Byte(reply, 2).sample = reply
    BY <1>6, SampleFacts
  <1>10. Settled(out, owed)'
    <2>1. ASSUME NEW k \in 1 .. Len(out'), k > Led(owed) PROVE out'[k].sample.settled
      <3>1. CASE k \in 1 .. Len(out)  BY <1>4, <1>8, <2>1, <3>1 DEF Settled
      <3>2. CASE k = Len(out) + 1  BY <1>6, <1>8, <1>9, <3>2
      <3>3. CASE copied = 2 /\ k = Len(out) + 2  BY <1>6, <1>8, <1>9, <3>3
      <3>4. k \in 1 .. Len(out) + copied  BY <1>8
      <3> QED  BY <1>7, <1>8, <3>1, <3>2, <3>3, <3>4
    <2> QED  BY <1>1, <2>1 DEF Settled
  <1> QED  BY <1>1, <1>4, <1>5, <1>10 DEF WakeInv, Awake, Up

LEMMA WakeStep == ReadInv /\ WakeInv /\ Waits(T_REFWAKE) /\ [Next]_vars => WakeInv'
  <1> SUFFICES ASSUME ReadInv, WakeInv, Waits(T_REFWAKE), [Next]_vars PROVE WakeInv'  OBVIOUS
  <1>1. CASE LtcCall
    <2>1. CASE Return
      <3>1. out' = <<>> /\ rpc' = "idle" /\ UNCHANGED lp /\ adc' = [adc EXCEPT !.held = Aged(@)]
        BY <2>1 DEF Return
      <3> QED  BY <3>1, WakeAged, SettledKept DEF WakeInv, Awake
    <2> QED  BY <1>1, <2>1, WakeBetween, WakeAsks, WakeTransfers DEF LtcCall
  <1>2. CASE \E n \in 1 .. MaxRead : Read(n)  BY <1>2, WakeBegins
  <1>3. CASE (\E sid \in Sid : LtcRegister(sid)) \/ (\E cfg \in Config : SetOptions(cfg))
    BY <1>3, WakeBetween
  <1>4. CASE UNCHANGED ltcVars
    <2>1. UNCHANGED <<lp, rpc, adc, out, owed>>  BY <1>4 DEF ltcVars, ltcDriver, ltcHistory
    <2> QED  BY <2>1, SettledKept DEF WakeInv, Awake, Up
  <1>5. CASE Exit \/ Restart
    <2>1. out' = <<>> /\ rpc' = "idle" /\ UNCHANGED lp /\ adc' = [adc EXCEPT !.held = Aged(@)]
      BY <1>5 DEF Exit, Restart, LtcForgotten
    <2> QED  BY <2>1, WakeAged, SettledKept DEF WakeInv, Awake
  <1>6. CASE Converter  BY <1>6, WakeConverter
  <1> QED  BY <1>1, <1>2, <1>3, <1>4, <1>5, <1>6, ReadKinds

LEMMA Delivered ==
  ASSUME ReadInv, WakeInv, rpc = "return"
  PROVE  WholeSamples
  <1> DEFINE led  == IF owed = None THEN 0 ELSE 1
             body == SubSeq(out, led + 1, Len(out))
  <1>1. count = 0 /\ Whole(out, owed, sdo) /\ Settled(out, owed) /\ out \in Seq(ByteType)
    BY DEF ReadInv, Returning, WakeInv, LtcTypeOK, ByteType
  <1>2. led = Led(owed) /\ led \in {0, 1} /\ Len(out) \in Nat  BY <1>1 DEF Led
  <1> HIDE DEF led
  <1>3. led <= Len(out) /\ (led = 1 => out[1] = Byte(owed, 2))
    BY <1>1, <1>2 DEF Whole
  <1>4. /\ Len(body) = Len(out) - led
        /\ \A k \in 1 .. Len(out) - led : body[k] = out[led + k]
        /\ DOMAIN body = 1 .. Len(out) - led
    <2>1. \A i \in led + 1 .. Len(out) : i \in 1 .. Len(out)  BY <1>2
    <2>2. \A i \in led + 1 .. Len(out) : out[i] \in ByteType
      BY <1>1, <2>1, ElementOfSeq
    <2>3. led + 1 \in Int /\ Len(out) \in Int  BY <1>2
    <2>4. /\ Len(body) = IF led + 1 <= Len(out) THEN (Len(out) - (led + 1)) + 1 ELSE 0
          /\ body \in Seq(ByteType)
      BY <2>2, <2>3, SubSeqProperties
    <2>5. Len(body) = Len(out) - led  BY <1>2, <1>3, <2>4
    <2>6. DOMAIN body = 1 .. Len(out) - led  BY <2>4, <2>5, LenProperties
    <2>7. \A i \in 1 .. Len(body) : body[i] = out[((led + 1) + i) - 1]
      BY <2>2, <2>3, <2>5, SubSeqProperties
    <2>8. ASSUME NEW k \in 1 .. Len(out) - led PROVE body[k] = out[led + k]
      <3>1. ((led + 1) + k) - 1 = led + k  BY <1>2
      <3> QED  BY <2>5, <2>7, <3>1
    <2> QED  BY <2>5, <2>6, <2>8
  <1> HIDE DEF body
  <1>5. ASSUME NEW k \in DOMAIN body
        PROVE  /\ body[k].half = IF k % 2 = 1 THEN 1 ELSE 2
               /\ body[k].sample.conv > 0 /\ body[k].sample.settled /\ body[k].sample.cfg = sdo
               /\ k > 1 => body[k].sample.conv =
                             body[k - 1].sample.conv + (IF k % 2 = 1 THEN 1 ELSE 0)
    <2>1. k \in 1 .. Len(out) - led /\ body[k] = out[led + k]  BY <1>4
    <2>2. led + k \in 1 .. Len(out) /\ led + k > led  BY <1>2, <2>1
    <2>3. body[k].sample.settled  BY <1>1, <1>2, <2>1, <2>2 DEF Settled
    <2>4. ASSUME k > 1 PROVE body[k - 1] = out[led + (k - 1)]
      <3>1. k - 1 \in 1 .. Len(out) - led  BY <1>2, <2>1, <2>4
      <3> QED  BY <1>4, <3>1
    <2> QED  BY <1>1, <1>2, <2>1, <2>3, <2>4 DEF Whole
  <1> QED  BY <1>1, <1>3, <1>5 DEF WholeSamples, led, body

(* LTC2308::read: what reads deliver is whole samples, however they divide *)
(* them, of consecutive conversions begun by the read itself, with the     *)
(* options in force; the reference is up, provided that the delay for it   *)
(* is at least a tick of the alarms' timer.                                *)
THEOREM ReadsAreWhole ==
  ASSUME Waits(T_REFWAKE)
  PROVE  Spec => []WholeSamples
  <1>1. ReadInv /\ WakeInv /\ [Next]_vars => WakeInv'  BY WakeStep
  <1>2. ReadInv /\ WakeInv => WholeSamples  BY Delivered DEF WholeSamples
  <1> QED  BY <1>1, <1>2, WakeInit, ReadInvariance, PTL DEF Spec

-----------------------------------------------------------------------------
(* What is left of the types.                                              *)
Peripheral ==
  [pull_up : BOOLEAN, wide : BOOLEAN, cpol : BOOLEAN, cpha : BOOLEAN, br : Prescaler]

RestType == spi \in Peripheral /\ kid \in 0 .. NMAX_SLAVES /\ uart \in BOOLEAN

LEMMA ResetTyped ==
  /\ [pull_up |-> FALSE, wide |-> FALSE, cpol |-> FALSE, cpha |-> FALSE, br |-> 0] \in Peripheral
  /\ NMAX_SLAVES \in 0 .. NMAX_SLAVES
  <1>1. 0 \in Prescaler  BY DEF Prescaler
  <1>2. NMAX_SLAVES \in Nat  BY SpiAssumption
  <1> QED  BY <1>1, <1>2 DEF Peripheral

LEMMA RestInit == Init => RestType
  <1> SUFFICES ASSUME Init PROVE RestType  OBVIOUS
  <1>1. /\ spi = [pull_up |-> FALSE, wide |-> FALSE, cpol |-> FALSE, cpha |-> FALSE, br |-> 0]
        /\ kid = NMAX_SLAVES /\ uart = FALSE
    BY DEF Init, ProgramInit, SpiInit
  <1> QED  BY <1>1, ResetTyped DEF RestType

(* The peripheral is only written with settings of a slave's.              *)
LEMMA SettingsTyped == \A sl \in Slave : Settings(sl) \in Peripheral
  <1> SUFFICES ASSUME NEW sl \in Slave PROVE Settings(sl) \in Peripheral  OBVIOUS
  <1>1. Wide(sl.nbits) \in BOOLEAN  BY DEF Wide
  <1>2. sl.cpol \in BOOLEAN /\ sl.cpha \in BOOLEAN /\ sl.br_psc \in Prescaler  BY DEF Slave
  <1> QED  BY <1>1, <1>2 DEF Settings, Peripheral

LEMMA SpiTyped ==
  ASSUME BusInv, spi \in Peripheral,
         \/ UNCHANGED spi
         \/ \E sid, word : Txrx(sid, word)
         \/ \E r, sid : AddSlave(r, sid)
         \/ \E sid : RemoveSlave(sid)
         \/ BusIdle
  PROVE  spi' \in Peripheral
  <1>1. CASE \E sid, word : Txrx(sid, word)
    <2>1. PICK sid, word : Txrx(sid, word)  BY <1>1
    <2>2. sid \in Sid /\ spi' = IF active_cfg # sid THEN Settings(slaves[sid]) ELSE spi
      BY <2>1 DEF Txrx, IsValid
    <2>3. slaves[sid] \in Slave  BY <2>2 DEF BusInv
    <2> QED  BY <2>2, <2>3, SettingsTyped
  <1> QED  BY <1>1 DEF AddSlave, RemoveSlave, BusIdle

LEMMA RestStep == IInv /\ RestType /\ [Next]_vars => RestType'
  <1> SUFFICES ASSUME IInv, RestType, [Next]_vars PROVE RestType'  OBVIOUS
  <1>1. BusInv /\ spi \in Peripheral  BY DEF IInv, RestType
  <1>2. Sid \subseteq 0 .. NMAX_SLAVES  BY SpiAssumption DEF Sid
  <1>3. CASE UNCHANGED vars  BY <1>3 DEF vars, spiVars, RestType
  <1>4. CASE Converter /\ UNCHANGED <<files, phase, opening, kid, guest, uart>>
    <2>1. BusIdle  BY <1>4 DEF Converter, ConversionEnds, ReferenceSettles
    <2> QED  BY <1>1, <1>4, <2>1, SpiTyped DEF RestType
  <1>5. CASE Restart
    <2>1. /\ spi' = [pull_up |-> FALSE, wide |-> FALSE, cpol |-> FALSE, cpha |-> FALSE, br |-> 0]
          /\ kid' = NMAX_SLAVES /\ uart' = FALSE
      BY <1>5 DEF Restart
    <2> QED  BY <2>1, ResetTyped DEF RestType
  <1>7. CASE Exit \/ ExitStreams \/ ExitCloses
    <2>1. BusIdle /\ kid' = kid  BY <1>7 DEF Exit, ExitStreams, ExitCloses
    <2>2. uart' \in BOOLEAN  BY <1>7 DEF Exit, ExitStreams, ExitCloses, CloseFile, RestType
    <2> QED  BY <1>1, <2>1, <2>2, SpiTyped DEF RestType
  <1>6. CASE Main
    <2>1. CASE \E fd \in Fd : Attach(fd) \/ AskKbd(fd) \/ Close(fd)
      BY <1>1, <2>1, SpiTyped DEF Attach, LogOpen, AskKbd, Close, CloseFile, RestType
    <2>2. CASE \E fd \in Fd, o \in Opens : OpenLog(fd, o)
      BY <1>1, <2>2, SpiTyped DEF OpenLog, LogOpen, RestType
    <2>3. CASE \E fd \in Fd, o \in Opens, sid \in Sid : OpenAdc(fd, o, sid) \/ OpenKbd(fd, o, sid)
      <3>1. PICK fd \in Fd, o \in Opens, sid \in Sid : OpenAdc(fd, o, sid) \/ OpenKbd(fd, o, sid)
        BY <2>3
      <3>2. BusIdle \/ \E r : AddSlave(r, sid)
        BY <3>1 DEF OpenAdc, OpenKbd, LtcRegister
      <3>3. kid' \in {kid, sid} /\ uart' = uart  BY <3>1 DEF OpenAdc, OpenKbd
      <3> QED  BY <1>1, <1>2, <3>2, <3>3, SpiTyped DEF RestType
    <2>4. CASE KbdReset \/ OpenReturns
      BY <1>1, <2>4, SpiTyped DEF KbdReset, OpenReturns, RestType
    <2>5. CASE \E fd \in Fd, n \in 1 .. MaxRead : ReadAdc(fd, n)
      <3>1. PICK fd \in Fd, n \in 1 .. MaxRead : ReadAdc(fd, n)  BY <2>5
      <3>2. Read(n) /\ UNCHANGED <<kid, uart>>  BY <3>1 DEF ReadAdc
      <3>3. BusIdle  BY <3>2 DEF Read
      <3> QED  BY <1>1, <3>2, <3>3, SpiTyped DEF RestType
    <2>6. CASE AdcCall
      <3>1. BusIdle \/ \E word : Txrx(id, word)
        BY <2>6 DEF AdcCall, LtcCall, LtcConfigure, Settle, Wake, RefWake, Trigger, AwaitSample,
                    Transfer, Return, Exchange
      <3> QED  BY <1>1, <2>6, <3>1, SpiTyped DEF AdcCall, RestType
    <2>7. CASE \E cfg \in Config : AdcOptions(cfg)
      BY <1>1, <2>7, SpiTyped DEF AdcOptions, SetOptions, RestType
    <2>8. CASE \E fd \in Fd, flags \in FlagSets : Fcntl(fd, flags)
      BY <1>1, <2>8, SpiTyped DEF Fcntl, RestType
    <2>9. CASE (\E sid \in Sid : GuestComes(sid)) \/ GuestAsks \/ GuestGoes
      BY <1>1, <2>9, SpiTyped DEF GuestComes, GuestAsks, GuestGoes, RestType
    <2> QED  BY <1>6, <2>1, <2>2, <2>3, <2>4, <2>5, <2>6, <2>7, <2>8, <2>9 DEF Main
  <1> QED  BY <1>3, <1>4, <1>5, <1>6, <1>7 DEF Next

(* Every variable of the bus, the files and the drivers on it has its type. *)
THEOREM DevicesTyped == Spec => []TypeOK
  <1>1. IInv /\ ReadInv /\ RestType => TypeOK
    <2> SUFFICES ASSUME IInv, ReadInv, RestType PROVE TypeOK  OBVIOUS
    <2>1. SpiTypeOK  BY DEF SpiTypeOK, IInv, BusInv, RestType, Peripheral
    <2>2. FilesTypeOK  BY DEF FilesTypeOK, IInv, FileInv, Files
    <2>3. guest \in 0 .. NMAX_SLAVES
      BY SpiAssumption DEF IInv, FileInv, Sid
    <2> QED
      BY <2>1, <2>2, <2>3 DEF TypeOK, ReadInv, RestType, IInv, FileInv
  <1> QED  BY <1>1, RestInit, RestStep, ReadInvariance, Invariance, PTL DEF Spec
=============================================================================

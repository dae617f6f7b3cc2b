---------------------------- MODULE SystemProofs ----------------------------
(***************************************************************************)
(* What is proved about the fabric for every address space, every set of   *)
(* accesses and every number of banks.                                     *)
(***************************************************************************)
EXTENDS System, Hooks, BusProofs, FiniteSetTheorems, SequenceTheorems, WellFoundedInduction

-----------------------------------------------------------------------------
(* Facts about the data.                                                   *)

LEMMA BankSpace == BANK_SPACE \in Nat /\ BANK_SPACE > 1
  BY BankAssumption, SegmentAssumption DEF BANK_SPACE

LEMMA HwAddress == \A v \in Nat : hw_address(v) \in 0 .. BANK_CAPACITY - 1
<1> SUFFICES ASSUME NEW v \in Nat PROVE hw_address(v) \in 0 .. BANK_CAPACITY - 1
  OBVIOUS
<1>1. v % BANK_SPACE \in Nat
  BY BankSpace
<1>2. BANK_CAPACITY \in Nat /\ BANK_CAPACITY > 0
  BY BankSpace DEF BANK_CAPACITY
<1> QED BY <1>1, <1>2 DEF hw_address

LEMMA VirtualAddress ==
  BankTypeOK => \A a \in Address : virtual_address(a) \in Nat
<1> SUFFICES ASSUME BankTypeOK, NEW a \in Address
             PROVE virtual_address(a) \in Nat
  OBVIOUS
<1>1. a % MMIO_BANK_WIDTH \in Nat
  BY SegmentAssumption DEF Address
<1>2. MMIO_BANK_WIDTH * bank_index \in Nat
  BY SegmentAssumption, BankAssumption DEF BankTypeOK
<1> QED BY <1>1, <1>2 DEF virtual_address

LEMMA BankReadType == BankTypeOK => \A a \in Address : bank_read(a) \in Line
<1> SUFFICES ASSUME BankTypeOK, NEW a \in Address PROVE bank_read(a) \in Line
  OBVIOUS
<1>1. \A i \in 0 .. LINE - 1 :
        hw_address(virtual_address(a) + i) \in 0 .. BANK_CAPACITY - 1
  BY HwAddress, VirtualAddress, WordAssumption
<1> QED BY <1>1 DEF bank_read, BankTypeOK, Line

LEMMA NameType == FileSystemTypeOK => name \in Seq(BYTE)
<1> SUFFICES ASSUME FileSystemTypeOK PROVE name \in Seq(BYTE)
  OBVIOUS
<1> DEFINE before == {i \in 1 .. Len(path) : \A j \in 1 .. i : path[j] # 0}
<1>1. Len(path) \in Nat
  BY DEF FileSystemTypeOK
<1>2. /\ IsFiniteSet(1 .. Len(path)) /\ Cardinality(1 .. Len(path)) = Len(path)
  <2> HIDE DEF before
  <2> DEFINE n == Len(path)
  <2>1. n \in Int /\ 1 \in Int
    BY <1>1
  <2> HIDE DEF n
  <2>2. IsFiniteSet(1 .. n) /\ Cardinality(1 .. n) = IF 1 > n THEN 0 ELSE n - 1 + 1
    BY ONLY <2>1, FS_Interval
  <2>3. n \in Nat => (IF 1 > n THEN 0 ELSE n - 1 + 1) = n
    OBVIOUS
  <2> QED BY <1>1, <2>2, <2>3 DEF n
<1>3. Cardinality(before) \in Nat /\ Cardinality(before) <= Len(path)
  BY <1>1, <1>2, FS_Subset, FS_CardinalityType
<1>4. \A i \in 1 .. Cardinality(before) : path[i] \in BYTE
  BY <1>1, <1>3 DEF FileSystemTypeOK
<1>5. [i \in 1 .. Cardinality(before) |-> path[i]] \in Seq(BYTE)
  BY <1>3, <1>4
<1> QED BY <1>5 DEF name

-----------------------------------------------------------------------------
(* Type correctness.                                                       *)

LEMMA InitType == system_create => TypeOK
<1> SUFFICES ASSUME system_create PROVE TypeOK
  OBVIOUS
<1> USE DEF system_create
<1>1. DevicesTypeOK
  BY ByteLineType, SmallBytes
     DEF DevicesInit, DevicesTypeOK, device_create, Mailbox, DeviceState
<1>2. BusTypeOK /\ slot \in 1 .. Len(clock_order)
  BY Orders DEF BusInit, BusTypeOK
<1>3. RamTypeOK
  BY SmallBytes DEF RamInit, RamTypeOK
<1>4. BankTypeOK
  BY SmallBytes, BankAssumption DEF BankInit, BankTypeOK
<1>5. TerminalTypeOK
  BY DEF TerminalInit, TerminalTypeOK
<1>6. FileSystemTypeOK
  BY SmallBytes, FileSystemAssumption DEF FileSystemInit, FileSystemTypeOK, M_BASE
<1>7. /\ access \in Access \cup {None}
      /\ sent \in Seq(BYTE) /\ age \in 0 .. MaxAge + 1
  BY ClientAssumption
<1> QED BY <1>1, <1>2, <1>3, <1>4, <1>5, <1>6, <1>7 DEF TypeOK

ClientTypeOK ==
  /\ access \in Access \cup {None}
  /\ sent \in Seq(BYTE) /\ age \in 0 .. MaxAge + 1

LEMMA BeginType ==
  ASSUME DevicesTypeOK, ClientTypeOK, NEW a \in Access, NEW p \in Mailbox,
         Begin(a, p)
  PROVE  DevicesTypeOK' /\ ClientTypeOK'
<1>1. a.address \in Address /\ a.byte \in BYTE
  BY SmallBytes DEF Access
<1>2. Request(a, p) \in Mailbox
  BY <1>1, ByteLineType DEF Request, Mailbox, DeviceState
<1>3. DevicesTypeOK'
  BY <1>2, MailboxStep DEF Begin, Device
<1>4. sent' \in Seq(BYTE)
  BY <1>1 DEF Begin, ClientTypeOK
<1> QED BY <1>3, <1>4, ClientAssumption DEF Begin, ClientTypeOK

LEMMA PauseType ==
  ASSUME DevicesTypeOK, ClientTypeOK, NEW p \in Mailbox, Pause(p)
  PROVE  DevicesTypeOK' /\ ClientTypeOK'
<1>1. DevicesTypeOK'
  BY MailboxStep DEF Pause, Device
<1> QED BY <1>1, ClientAssumption DEF Pause, ClientTypeOK

LEMMA CpuType ==
  ASSUME DevicesTypeOK, ClientTypeOK,
         \/ CpuStart \/ CpuWait \/ CpuTake
         \/ CpuDropInterrupt \/ CpuAcceptInterrupt
  PROVE  DevicesTypeOK' /\ ClientTypeOK'
<1>1. port \in Mailbox
  BY DEF DevicesTypeOK, port, Device
<1>2. Released(port) \in Mailbox
  BY <1>1 DEF Released, Mailbox, DeviceState
<1>3. Dropped \in Mailbox /\ Released(Dropped) \in Mailbox
  BY <1>1 DEF Released, Dropped, Mailbox, DeviceState
<1>4. Accesses \subseteq Access /\ Pushes \subseteq Access
  BY ClientAssumption
<1>5. CASE CpuStart
  BY <1>1, <1>4, <1>5, BeginType, PauseType DEF CpuStart
<1>6. CASE CpuWait
  BY <1>6, ClientAssumption DEF CpuWait, DevicesTypeOK, ClientTypeOK
<1>7. CASE CpuTake
  BY <1>2, <1>4, <1>7, BeginType, PauseType DEF CpuTake
<1>8. CASE CpuDropInterrupt
  <2>1. CASE access # None /\ dev' = [dev EXCEPT !["CPU"] = Request(access, Dropped)]
             /\ UNCHANGED client
    <3>1. access \in Access
      BY <2>1 DEF ClientTypeOK
    <3>2. access.address \in Address /\ access.byte \in BYTE
      BY <3>1, SmallBytes DEF Access
    <3>3. Request(access, Dropped) \in Mailbox
      BY <1>3, <3>2, ByteLineType DEF Request, Mailbox, DeviceState
    <3> QED BY <2>1, <3>3, MailboxStep DEF client, ClientTypeOK, Device
  <2> QED BY <1>3, <1>4, <1>8, <2>1, BeginType, PauseType DEF CpuDropInterrupt
<1>9. CASE CpuAcceptInterrupt
  BY <1>3, <1>4, <1>9, BeginType, PauseType DEF CpuAcceptInterrupt
<1> QED BY <1>5, <1>6, <1>7, <1>8, <1>9

LEMMA BankClockType ==
  ASSUME DevicesTypeOK, BankTypeOK, memory_bank_clock
  PROVE  DevicesTypeOK' /\ BankTypeOK'
<1>1. "MEMORY_BANK" \in Device /\ dev["MEMORY_BANK"] \in Mailbox
  BY DEF Device, Slave, DevicesTypeOK
<1>2. dev["MEMORY_BANK"].data[0] \in BYTE
  BY <1>1, LineByte DEF Mailbox
<1>3. CASE BankFetch
  BY <1>1, <1>3, BankReadType, DoneWithType DEF BankFetch, BankTypeOK, Mailbox
<1>4. CASE BankSelect
  <2>1. DevicesTypeOK'
    BY <1>1, <1>4, DoneType DEF BankSelect
  <2>2. dev["MEMORY_BANK"].data[0] % NUM_BANKS \in 0 .. NUM_BANKS - 1
    BY <1>2, BankAssumption, WordAssumption DEF BYTE
  <2> QED BY <1>4, <2>1, <2>2 DEF BankSelect, BankTypeOK
<1>5. CASE BankStore
  <2>1. DevicesTypeOK'
    BY <1>1, <1>5, DoneType DEF BankStore
  <2> QED BY <1>2, <1>5, <2>1 DEF BankStore, BankTypeOK
<1>6. CASE BankWait
  BY <1>6 DEF BankWait, DevicesTypeOK, BankTypeOK
<1> QED BY <1>3, <1>4, <1>5, <1>6 DEF memory_bank_clock

LEMMA TerminalClockType ==
  ASSUME DevicesTypeOK, TerminalTypeOK, terminal_clock
  PROVE  DevicesTypeOK' /\ TerminalTypeOK'
<1>1. "TERMINAL" \in Device /\ dev["TERMINAL"] \in Mailbox
  BY DEF Device, Slave, DevicesTypeOK
<1>2. CASE TerminalPrint
  <2>1. DevicesTypeOK'
    BY <1>1, <1>2, DoneType DEF TerminalPrint
  <2>2. dev["TERMINAL"].data[0] \in BYTE
    BY <1>1, LineByte DEF Mailbox
  <2> QED BY <1>2, <2>1, <2>2 DEF TerminalPrint, TerminalTypeOK
<1>3. CASE TerminalWait
  BY <1>3 DEF TerminalWait, DevicesTypeOK, TerminalTypeOK
<1> QED BY <1>2, <1>3 DEF terminal_clock

LEMMA FileSystemClockType ==
  ASSUME DevicesTypeOK, FileSystemTypeOK, filesystem_clock
  PROVE  DevicesTypeOK' /\ FileSystemTypeOK'
<1>1. "FILESYSTEM" \in Device /\ dev["FILESYSTEM"] \in Mailbox
  BY DEF Device, Slave, DevicesTypeOK
<1>2. byte \in BYTE
  BY <1>1, LineByte DEF byte, Mailbox
<1>3. M_BASE \in BYTE
  BY SmallBytes DEF M_BASE
<1>4. CASE FsStoreMode
  <2>1. DevicesTypeOK'
    BY <1>1, <1>4, DoneType DEF FsStoreMode
  <2>2. CASE UNCHANGED <<mode, path, output, files>>
    BY <2>1, <2>2 DEF FileSystemTypeOK
  <2>3. CASE FsPathReset
    BY <2>1, <2>3, <1>3, FileSystemAssumption DEF FsPathReset, FileSystemTypeOK
  <2>4. CASE FsProbe
    BY <2>1, <2>4, <1>3 DEF FsProbe, FileSystemTypeOK
  <2>5. CASE FsCreate
    <3>1. /\ mode' \in BYTE /\ output' \in {0, 1} /\ path' = path
      BY <2>5, <1>3 DEF FsCreate
    <3>2. CASE files' = files
      BY <2>1, <3>1, <3>2 DEF FileSystemTypeOK
    <3>3. CASE files' = [n \in DOMAIN files \cup {name} |->
                           IF n = name THEN "empty" ELSE files[n]]
      <4>1. name \in Seq(BYTE)
        BY NameType
      <4>2. DOMAIN files' = DOMAIN files \cup {name}
        BY <3>3
      <4>3. DOMAIN files' \subseteq Seq(BYTE)
        BY <4>1, <4>2 DEF FileSystemTypeOK
      <4>4. files' \in [DOMAIN files' -> {"bytes", "empty"}]
        BY <3>3, <4>2 DEF FileSystemTypeOK
      <4> QED BY <2>1, <3>1, <4>3, <4>4 DEF FileSystemTypeOK
    <3> QED BY <2>5, <3>2, <3>3 DEF FsCreate
  <2>6. CASE FsEnterMode
    BY <2>1, <2>6, <1>2 DEF FsEnterMode, FileSystemTypeOK
  <2> QED BY <1>4, <2>1, <2>2, <2>3, <2>4, <2>5, <2>6 DEF FsStoreMode
<1>5. CASE FsStoreInput
  <2>1. DevicesTypeOK'
    BY <1>1, <1>5, DoneType DEF FsStoreInput
  <2>2. path' \in Seq(BYTE) /\ Len(path') <= PATH_LIMIT
    BY <1>2, <1>5, FileSystemAssumption DEF FsStoreInput, FileSystemTypeOK
  <2> QED BY <1>3, <1>5, <2>1, <2>2 DEF FsStoreInput, FileSystemTypeOK
<1>6. CASE FsFetchMode
  <2>1. ByteLine(mode) \in Line
    BY ByteLineType DEF FileSystemTypeOK
  <2> QED BY <1>1, <1>6, <2>1, DoneWithType DEF FsFetchMode, FileSystemTypeOK
<1>7. CASE FsFetchOutput
  <2>1. ByteLine(output) \in Line
    BY ByteLineType, SmallBytes DEF FileSystemTypeOK
  <2> QED BY <1>1, <1>7, <2>1, DoneWithType DEF FsFetchOutput, FileSystemTypeOK
<1>8. CASE FsModifier
  BY <1>1, <1>8, DoneType DEF FsModifier, FileSystemTypeOK
<1>9. CASE FsWait
  BY <1>9 DEF FsWait, DevicesTypeOK, FileSystemTypeOK
<1> QED BY <1>4, <1>5, <1>6, <1>7, <1>8, <1>9 DEF filesystem_clock

LEMMA StepType == TypeOK /\ [system_clock]_vars => TypeOK'
<1> SUFFICES ASSUME TypeOK, [system_clock]_vars PROVE TypeOK'
  OBVIOUS
<1> USE DEF TypeOK
<1>1. CASE CpuClock
  BY <1>1, CpuType, SlotType
     DEF CpuClock, ClientTypeOK, memory, BusTypeOK, RamTypeOK, BankTypeOK,
         TerminalTypeOK, FileSystemTypeOK
<1>2. CASE RamClock
  BY <1>2, RamClockType, SlotType
     DEF RamClock, client, BusTypeOK, BankTypeOK, TerminalTypeOK,
         FileSystemTypeOK
<1>3. CASE TerminalClock
  BY <1>3, TerminalClockType, SlotType
     DEF TerminalClock, client, BusTypeOK, RamTypeOK, BankTypeOK,
         FileSystemTypeOK
<1>4. CASE BankClock
  BY <1>4, BankClockType, SlotType
     DEF BankClock, client, BusTypeOK, RamTypeOK, TerminalTypeOK,
         FileSystemTypeOK
<1>5. CASE FileSystemClock
  BY <1>5, FileSystemClockType, SlotType
     DEF FileSystemClock, client, BusTypeOK, RamTypeOK, BankTypeOK,
         TerminalTypeOK
<1>6. CASE TickerClock
  BY <1>6, TickerClockType, SlotType
     DEF TickerClock, client, memory, BusTypeOK, RamTypeOK, BankTypeOK,
         TerminalTypeOK, FileSystemTypeOK
<1>7. CASE BusClock
  BY <1>7, BusClockType, SlotType
     DEF BusClock, client, memory, RamTypeOK, BankTypeOK, TerminalTypeOK,
         FileSystemTypeOK
<1>8. CASE UNCHANGED vars
  BY <1>8 DEF vars, memory, client, DevicesTypeOK, BusTypeOK, RamTypeOK,
              BankTypeOK, TerminalTypeOK, FileSystemTypeOK
<1> QED BY <1>1, <1>2, <1>3, <1>4, <1>5, <1>6, <1>7, <1>8 DEF system_clock

\* Every variable of the fabric stays in its range: addresses are addresses,
\* replies have LINE bytes, the bank index selects a bank, the path fits its
\* buffer, the bus attends a device that exists.
THEOREM TypeCorrect == Spec => []TypeOK
<1>1. system_create => TypeOK
  BY InitType
<1>2. TypeOK /\ [system_clock]_vars => TypeOK'
  BY StepType
<1> QED BY <1>1, <1>2, PTL DEF Spec

-----------------------------------------------------------------------------
(* At most one request, held by the device that listens.                   *)

LEMMA OneListener ==
  ASSUME NEW a, NEW d, NEW e
  PROVE  /\ ReadListener(d, a) /\ ReadListener(e, a) => d = e
         /\ WriteListener(d, a) /\ WriteListener(e, a) => d = e
  BY DEF ReadListener, WriteListener, Position, Slave, Device

\* The segments do not overlap, so "the last listener" is the only one: the
\* look-up never meets the case its disabled message calls "not unique".
THEOREM ListenersUnique ==
  \A a \in Address : \A d, e \in Slave :
    (Reads(d, a) /\ Reads(e, a) => d = e) /\ (Writes(d, a) /\ Writes(e, a) => d = e)
<1> SUFFICES ASSUME NEW a \in Address, NEW d \in Slave, NEW e \in Slave
             PROVE  /\ Reads(d, a) /\ Reads(e, a) => d = e
                    /\ Writes(d, a) /\ Writes(e, a) => d = e
  OBVIOUS
<1> USE SegmentAssumption
    DEF Address, SEGMENT_CODE, MMIO_INPUT_REGISTER, MMIO_REGISTER_ADDRESS,
        MMIO_MODE_REGISTER_ADDRESS, MMIO_MODIFIER_REGISTER_ADDRESS,
        MMIO_INPUT_REGISTER_ADDRESS, MMIO_OUTPUT_REGISTER_ADDRESS
<1>1. Reads(d, a) /\ Reads(e, a) => d = e
  BY DEF Reads
<1>2. Writes(d, a) /\ Writes(e, a) => d = e
  BY DEF Writes
<1> QED BY <1>1, <1>2

LEMMA InitOneRequest == system_create => OneRequest
  BY DEF system_create, DevicesInit, device_create, OneRequest, Serving, Slave,
         Device

\* Nobody serves while the CPU's mailbox is idle, interrupted or answered.
LEMMA NobodyServes ==
  ASSUME OneRequest,
         port.state \in {"DS_IDLE", "DS_INTERRUPT"} \/ port.processed = 1
  PROVE  \A d \in Slave : dev[d].state = "DS_IDLE"
  BY DEF OneRequest, Serving

\* The CPU's step writes no mailbox but its own, and its own only when nobody
\* serves.
LEMMA CpuStep ==
  ASSUME DevicesTypeOK,
         \/ CpuStart \/ CpuTake \/ CpuDropInterrupt \/ CpuAcceptInterrupt
  PROVE  /\ port.state \in {"DS_IDLE", "DS_INTERRUPT"} \/ port.processed = 1
         /\ \A d \in Slave : dev'[d] = dev[d]
<1>1. \A d \in Slave : d \in Device /\ d # "CPU"
  BY DEF Slave, Device
<1>2. ASSUME NEW a, NEW p, Begin(a, p) PROVE \A d \in Slave : dev'[d] = dev[d]
  BY <1>1, <1>2 DEF Begin, DevicesTypeOK
<1>3. ASSUME NEW p, Pause(p) PROVE \A d \in Slave : dev'[d] = dev[d]
  BY <1>1, <1>3 DEF Pause, DevicesTypeOK
<1>4. CASE CpuStart
  BY <1>2, <1>3, <1>4 DEF CpuStart
<1>5. CASE CpuTake
  BY <1>2, <1>3, <1>5 DEF CpuTake, Answered
<1>6. CASE CpuDropInterrupt
  BY <1>1, <1>2, <1>3, <1>6 DEF CpuDropInterrupt, DevicesTypeOK
<1>7. CASE CpuAcceptInterrupt
  BY <1>2, <1>3, <1>7 DEF CpuAcceptInterrupt
<1> QED BY <1>4, <1>5, <1>6, <1>7

\* A device that serves its request keeps all of it but the data of a fetch.
LEMMA ServeStep ==
  ASSUME DevicesTypeOK, OneRequest, NEW d \in Slave,
         \/ Done(d)
         \/ dev[d].state = "DS_FETCH" /\ \E l : DoneWith(d, l)
  PROVE  OneRequest'
<1>1. "CPU" \in Device /\ Slave \subseteq Device /\ "CPU" \notin Slave
  BY DEF Slave, Device
<1>2. dev'["CPU"] = dev["CPU"]
  BY <1>1 DEF Done, DoneWith, DevicesTypeOK
<1>3. \A e \in Slave : e # d => dev'[e] = dev[e]
  BY <1>1 DEF Done, DoneWith, DevicesTypeOK
<1>4. /\ dev'[d].state = dev[d].state /\ dev'[d].address = dev[d].address
      /\ dev[d].state = "DS_STORE" => dev'[d].data = dev[d].data
  BY <1>1 DEF Done, DoneWith, DevicesTypeOK, Mailbox
<1> QED BY <1>2, <1>3, <1>4 DEF OneRequest, Serving, port

LEMMA BusStep ==
  ASSUME DevicesTypeOK, OneRequest, bus_clock
  PROVE  OneRequest'
<1>1. /\ "CPU" \in Device /\ "TICKER" \in Device /\ Slave \subseteq Device
      /\ "CPU" \notin Slave /\ "TICKER" \notin Slave
  BY DEF Slave, Device
<1>2. dev["CPU"] \in Mailbox /\ \A d \in Slave : dev[d] \in Mailbox
  BY <1>1 DEF DevicesTypeOK
<1>3. ASSUME NEW d \in Slave, BusForwardFetch(d) PROVE OneRequest'
  <2>1. \A e \in Device : e # d => dev'[e] = dev[e]
    BY <1>1, <1>3 DEF BusForwardFetch, DevicesTypeOK
  <2>2. /\ dev'[d].state = "DS_FETCH" /\ dev'[d].processed = 0
        /\ dev'[d].address = dev["CPU"].address
    BY <1>1, <1>2, <1>3 DEF BusForwardFetch, DevicesTypeOK, Mailbox
  <2>3. /\ dev["CPU"].state = "DS_FETCH" /\ dev["CPU"].processed = 0
        /\ ReadListener(d, dev["CPU"].address)
    BY <1>3 DEF BusForwardFetch, Requesting, Pending
  <2>4. dev'["CPU"] = dev["CPU"]
    BY <1>1, <2>1
  <2> QED BY <1>1, <2>1, <2>2, <2>3, <2>4 DEF OneRequest, Serving, port
<1>4. ASSUME NEW d \in Slave, BusForwardStore(d) PROVE OneRequest'
  <2>1. \A e \in Device : e # d => dev'[e] = dev[e]
    BY <1>1, <1>4 DEF BusForwardStore, DevicesTypeOK
  <2>2. /\ dev'[d].state = "DS_STORE" /\ dev'[d].processed = 0
        /\ dev'[d].address = dev["CPU"].address
        /\ dev'[d].data = dev["CPU"].data
    BY <1>1, <1>2, <1>4 DEF BusForwardStore, DevicesTypeOK, Mailbox
  <2>3. /\ dev["CPU"].state = "DS_STORE" /\ dev["CPU"].processed = 0
        /\ WriteListener(d, dev["CPU"].address)
    BY <1>4 DEF BusForwardStore, Requesting, Pending
  <2>4. dev'["CPU"] = dev["CPU"]
    BY <1>1, <2>1
  <2> QED BY <1>1, <2>1, <2>2, <2>3, <2>4 DEF OneRequest, Serving, port
<1>5. ASSUME NEW d \in Slave, BusListenerBusy(d) PROVE OneRequest'
  BY <1>5 DEF BusListenerBusy, OneRequest, Serving, port
<1>6. ASSUME NEW d \in Slave, BusReplyFetch(d) \/ BusReplyStore(d)
      PROVE  OneRequest'
  <2>1. Serving(d)
    BY <1>6 DEF BusReplyFetch, BusReplyStore, Serving
  <2>2. \A e \in Slave : e # d => ~Serving(e)
    BY <2>1, OneListener DEF OneRequest
  <2>3. \A e \in Slave : e # d => dev'[e] = dev[e]
    BY <1>1, <1>6 DEF BusReplyFetch, BusReplyStore, DevicesTypeOK
  <2>4. dev'[d].state = "DS_IDLE"
    BY <1>1, <1>2, <1>6 DEF BusReplyFetch, BusReplyStore, DevicesTypeOK, Mailbox
  <2> QED BY <2>2, <2>3, <2>4 DEF OneRequest, Serving
<1>7. CASE BusOpen
  <2>1. \A d \in Slave : ~Serving(d)
    BY <1>7 DEF BusOpen, OneRequest, OpenRead, OpenWrite, ReadListener,
                WriteListener, Requesting, Pending, port
  <2>2. \A d \in Slave : dev'[d] = dev[d]
    BY <1>1, <1>7 DEF BusOpen, DevicesTypeOK
  <2> QED BY <2>1, <2>2 DEF OneRequest, Serving
<1>8. CASE BusInterrupt
  <2>1. \A d \in Slave : dev[d].state = "DS_IDLE"
    BY <1>8, NobodyServes DEF BusInterrupt, port
  <2>2. \A d \in Slave : dev'[d] = dev[d]
    BY <1>1, <1>8 DEF BusInterrupt, DevicesTypeOK
  <2> QED BY <2>1, <2>2 DEF OneRequest, Serving
<1>9. CASE BusNothing
  BY <1>9 DEF BusNothing, OneRequest, Serving, port
<1> QED BY <1>3, <1>4, <1>5, <1>6, <1>7, <1>8, <1>9 DEF bus_clock

LEMMA StepOneRequest == TypeOK /\ OneRequest /\ [system_clock]_vars => OneRequest'
<1> SUFFICES ASSUME TypeOK, OneRequest, [system_clock]_vars PROVE OneRequest'
  OBVIOUS
<1>1. DevicesTypeOK /\ Slave \subseteq Device
  BY DEF TypeOK, Device
<1>2. UNCHANGED dev => OneRequest'
  BY DEF OneRequest, Serving, port
<1>3. CASE CpuClock
  <2>1. CASE CpuWait
    BY <2>1, <1>2 DEF CpuWait
  <2>2. CASE CpuStart \/ CpuTake \/ CpuDropInterrupt \/ CpuAcceptInterrupt
    BY <1>1, <2>2, CpuStep, NobodyServes DEF OneRequest, Serving
  <2> QED BY <1>3, <2>1, <2>2 DEF CpuClock
<1>4. CASE RamClock
  <2>1. "RAM" \in Slave
    BY DEF Slave
  <2> QED BY <1>1, <1>2, <1>4, <2>1, ServeStep
          DEF RamClock, ram_clock, RamFetch, RamStore, RamWait, Pending
<1>5. CASE TerminalClock
  <2>1. "TERMINAL" \in Slave
    BY DEF Slave
  <2> QED BY <1>1, <1>2, <1>5, <2>1, ServeStep
          DEF TerminalClock, terminal_clock, TerminalPrint, TerminalWait
<1>6. CASE BankClock
  <2>1. "MEMORY_BANK" \in Slave
    BY DEF Slave
  <2> QED BY <1>1, <1>2, <1>6, <2>1, ServeStep
          DEF BankClock, memory_bank_clock, BankFetch, BankSelect, BankStore,
              BankWait, Pending
<1>7. CASE FileSystemClock
  <2>1. "FILESYSTEM" \in Slave
    BY DEF Slave
  <2> QED BY <1>1, <1>2, <1>7, <2>1, ServeStep
          DEF FileSystemClock, filesystem_clock, FsStoreMode, FsStoreInput,
              FsFetchMode, FsFetchOutput, FsModifier, FsWait, Pending
<1>8. CASE TickerClock
  <2>1. "TICKER" \notin Slave /\ "CPU" # "TICKER" /\ "CPU" \in Device
    BY DEF Slave, Device
  <2>2. CASE TickerFire
    <3>1. dev'["CPU"] = dev["CPU"] /\ \A d \in Slave : dev'[d] = dev[d]
      BY <1>1, <2>1, <2>2 DEF TickerFire, DevicesTypeOK
    <3> QED BY <3>1 DEF OneRequest, Serving, port
  <2> QED BY <1>2, <1>8, <2>2 DEF TickerClock, ticker_clock, TickerWait
<1>9. CASE BusClock
  BY <1>1, <1>9, BusStep DEF BusClock
<1>10. CASE UNCHANGED vars
  BY <1>2, <1>10 DEF vars
<1> QED BY <1>3, <1>4, <1>5, <1>6, <1>7, <1>8, <1>9, <1>10 DEF system_clock

\* For every program, ticker and size of the memory map: a busy device is busy
\* with the request the CPU is waiting on now, so no request is served twice,
\* by two devices, or after the CPU has moved on.
THEOREM OneRequestAtATime == Spec => []OneRequest
<1>1. system_create => TypeOK /\ OneRequest
  BY InitType, InitOneRequest
<1>2. TypeOK /\ OneRequest /\ [system_clock]_vars => (TypeOK /\ OneRequest)'
  BY StepType, StepOneRequest
<1> QED BY <1>1, <1>2, PTL DEF Spec

-----------------------------------------------------------------------------
(* A request is kept until it is answered.                                 *)

LEMMA SlaveClockKeepsPort ==
  ASSUME DevicesTypeOK, NEW d \in Slave,
         Done(d) \/ \E l : DoneWith(d, l)
  PROVE  dev'["CPU"] = dev["CPU"]
  BY DEF Done, DoneWith, DevicesTypeOK, Slave, Device

\* The clocks of the devices leave the CPU's mailbox alone.
LEMMA DevicesKeepPort ==
  ASSUME DevicesTypeOK,
         \/ ram_clock \/ memory_bank_clock \/ terminal_clock
         \/ filesystem_clock \/ ticker_clock
  PROVE  dev'["CPU"] = dev["CPU"]
<1>1. /\ "RAM" \in Slave /\ "MEMORY_BANK" \in Slave /\ "TERMINAL" \in Slave
      /\ "FILESYSTEM" \in Slave
  BY DEF Slave
<1>2. CASE ram_clock
  BY <1>1, <1>2, SlaveClockKeepsPort DEF ram_clock, RamFetch, RamStore, RamWait
<1>3. CASE memory_bank_clock
  BY <1>1, <1>3, SlaveClockKeepsPort
     DEF memory_bank_clock, BankFetch, BankSelect, BankStore, BankWait
<1>4. CASE terminal_clock
  BY <1>1, <1>4, SlaveClockKeepsPort
     DEF terminal_clock, TerminalPrint, TerminalWait
<1>5. CASE filesystem_clock
  BY <1>1, <1>5, SlaveClockKeepsPort
     DEF filesystem_clock, FsStoreMode, FsStoreInput, FsFetchMode,
         FsFetchOutput, FsModifier, FsWait
<1>6. CASE ticker_clock
  BY <1>6 DEF ticker_clock, TickerFire, TickerWait, DevicesTypeOK, Device
<1> QED BY <1>2, <1>3, <1>4, <1>5, <1>6

\* What the bus can do to the CPU's mailbox.
LEMMA BusOnPort ==
  ASSUME DevicesTypeOK, OneRequest, bus_clock
  PROVE  \/ port' = port
         \/ /\ port.state = "DS_FETCH" /\ port.processed = 0
            /\ \E d \in Slave :
                 /\ dev[d].state = "DS_FETCH" /\ dev[d].processed = 1
                 /\ port' = [port EXCEPT !.data = dev[d].data, !.processed = 1]
         \/ /\ port.state = "DS_STORE" /\ port.processed = 0
            /\ \E d \in Slave :
                 /\ dev[d].state = "DS_STORE" /\ dev[d].processed = 1
                 /\ port' = [port EXCEPT !.processed = 1]
         \/ /\ port.processed = 0
            /\ \/ port.state = "DS_FETCH" /\ OpenRead(port.address)
               \/ port.state = "DS_STORE" /\ OpenWrite(port.address)
            /\ port' = [port EXCEPT !.processed = 1, !.state = "DS_IDLE"]
         \/ /\ port.state = "DS_IDLE"
            /\ port' = [port EXCEPT !.state = "DS_INTERRUPT",
                                    !.address = dev["TICKER"].address]
<1>1. /\ "CPU" \in Device /\ "TICKER" \in Device /\ Slave \subseteq Device
      /\ "CPU" \notin Slave /\ "CPU" # "TICKER"
  BY DEF Slave, Device
<1> USE DEF port
<1>2. ASSUME NEW d \in Slave, BusForwardFetch(d) \/ BusForwardStore(d)
      PROVE  port' = port
  BY <1>1, <1>2 DEF BusForwardFetch, BusForwardStore, DevicesTypeOK
<1>3. ASSUME NEW d \in Slave, BusListenerBusy(d) PROVE port' = port
  BY <1>3 DEF BusListenerBusy
<1>4. ASSUME NEW d \in Slave, BusReplyFetch(d)
      PROVE  /\ port.state = "DS_FETCH" /\ port.processed = 0
             /\ dev[d].state = "DS_FETCH" /\ dev[d].processed = 1
             /\ port' = [port EXCEPT !.data = dev[d].data, !.processed = 1]
  <2>1. /\ port.state = "DS_FETCH" /\ port.processed = 0
        /\ dev[d].state = "DS_FETCH" /\ dev[d].processed = 1
    BY <1>4 DEF BusReplyFetch, OneRequest, Serving
  <2>2. port' = [port EXCEPT !.data = dev[d].data, !.processed = 1]
    BY <1>1, <1>4 DEF BusReplyFetch, DevicesTypeOK
  <2> QED BY <2>1, <2>2
<1>5. ASSUME NEW d \in Slave, BusReplyStore(d)
      PROVE  /\ port.state = "DS_STORE" /\ port.processed = 0
             /\ dev[d].state = "DS_STORE" /\ dev[d].processed = 1
             /\ port' = [port EXCEPT !.processed = 1]
  <2>1. /\ port.state = "DS_STORE" /\ port.processed = 0
        /\ dev[d].state = "DS_STORE" /\ dev[d].processed = 1
    BY <1>5 DEF BusReplyStore, OneRequest, Serving
  <2>2. port' = [port EXCEPT !.processed = 1]
    BY <1>1, <1>5 DEF BusReplyStore, DevicesTypeOK
  <2> QED BY <2>1, <2>2
<1>6. CASE BusOpen
  BY <1>1, <1>6 DEF BusOpen, Requesting, Pending, DevicesTypeOK
<1>7. CASE BusInterrupt
  BY <1>1, <1>7 DEF BusInterrupt, DevicesTypeOK
<1>8. CASE BusNothing
  BY <1>8 DEF BusNothing
<1> QED BY <1>2, <1>3, <1>4, <1>5, <1>6, <1>7, <1>8 DEF bus_clock

\* A slot either is the CPU's, or is the bus's, or leaves the port alone.
LEMMA PortStep ==
  ASSUME DevicesTypeOK, [system_clock]_vars
  PROVE  \/ CpuClock
         \/ bus_clock /\ UNCHANGED <<memory, client>>
         \/ port' = port /\ UNCHANGED client
  BY DevicesKeepPort
     DEF system_clock, BusClock, RamClock, BankClock, TerminalClock,
         FileSystemClock, TickerClock, port, vars

RequestKeptStep ==
  port.state \in {"DS_FETCH", "DS_STORE"} /\ port.processed = 0
     => /\ port'.address = port.address
        /\ port.state = "DS_STORE" => port'.data = port.data
        /\ \/ port'.state = port.state
           \/ port'.state = "DS_IDLE" /\ port'.processed = 1

LEMMA StepRequestKept ==
  TypeOK /\ OneRequest /\ [system_clock]_vars => RequestKeptStep
<1> SUFFICES ASSUME TypeOK, OneRequest, [system_clock]_vars,
                    port.state \in {"DS_FETCH", "DS_STORE"}, port.processed = 0
             PROVE  /\ port'.address = port.address
                    /\ port.state = "DS_STORE" => port'.data = port.data
                    /\ \/ port'.state = port.state
                       \/ port'.state = "DS_IDLE" /\ port'.processed = 1
  BY DEF RequestKeptStep
<1>1. DevicesTypeOK /\ port \in Mailbox
  BY DEF TypeOK, DevicesTypeOK, Device, port
<1>2. CASE CpuClock
  <2>1. CpuWait
    BY <1>1, <1>2, CpuStep DEF CpuClock
  <2> QED BY <2>1 DEF CpuWait, port
<1>3. CASE bus_clock
  BY <1>1, <1>3, BusOnPort DEF Mailbox
<1> QED BY <1>1, <1>2, <1>3, PortStep

\* No interrupt, late reply or other device ever overwrites a request that is
\* still unanswered: neither its kind, nor its address, nor its data.
THEOREM RequestsAreKept == Spec => RequestKept
<1>1. system_create => TypeOK /\ OneRequest
  BY InitType, InitOneRequest
<1>2. TypeOK /\ OneRequest /\ [system_clock]_vars => (TypeOK /\ OneRequest)'
  BY StepType, StepOneRequest
<1>3. TypeOK /\ OneRequest /\ [system_clock]_vars => [RequestKeptStep]_vars
  BY StepRequestKept
<1>4. Spec => [][RequestKeptStep]_vars
  BY <1>1, <1>2, <1>3, PTL DEF Spec
<1> QED BY <1>4 DEF RequestKept, RequestKeptStep

-----------------------------------------------------------------------------
(* The access the CPU is at is the request in its mailbox.                 *)

\* The mailboxes the CPU begins and pauses with.
LEMMA CpuMailboxes ==
  ASSUME TypeOK
  PROVE  /\ port \in Mailbox
         /\ Released(port) \in Mailbox /\ Released(port).state = "DS_IDLE"
         /\ Dropped \in Mailbox /\ Dropped.state = "DS_IDLE"
         /\ Dropped.processed = port.processed
         /\ Dropped.data = port.data /\ Dropped.address = port.address
         /\ Released(Dropped) \in Mailbox /\ Released(Dropped).state = "DS_IDLE"
<1>1. port \in Mailbox
  BY DEF TypeOK, DevicesTypeOK, Device, port
<1> QED BY <1>1 DEF Released, Dropped, Mailbox, DeviceState

LEMMA InitMatches == system_create => AccessMatchesRequest
  BY DEF system_create, DevicesInit, device_create, AccessMatchesRequest, port,
         Device

LEMMA BeginMatches ==
  ASSUME DevicesTypeOK, NEW a \in Access, NEW p \in Mailbox, Begin(a, p)
  PROVE  AccessMatchesRequest'
<1>1. a.op \in {"read", "write"} /\ a # None
  BY DEF Access, None
<1>2. port' = Request(a, p) /\ access' = a
  BY DEF Begin, port, DevicesTypeOK, Device
<1>3. /\ Request(a, p).address = a.address
      /\ Request(a, p).state = IF a.op = "read" THEN "DS_FETCH" ELSE "DS_STORE"
  BY <1>1 DEF Request, Mailbox
<1> QED BY <1>1, <1>2, <1>3 DEF AccessMatchesRequest

LEMMA PauseMatches ==
  ASSUME DevicesTypeOK, NEW p \in Mailbox, p.state = "DS_IDLE", Pause(p)
  PROVE  AccessMatchesRequest'
<1>1. port' = p /\ access' = None
  BY DEF Pause, port, DevicesTypeOK, Device
<1> QED BY <1>1 DEF AccessMatchesRequest

LEMMA StepMatches ==
  TypeOK /\ OneRequest /\ AccessMatchesRequest /\ [system_clock]_vars
    => AccessMatchesRequest'
<1> SUFFICES ASSUME TypeOK, OneRequest, AccessMatchesRequest,
                    [system_clock]_vars
             PROVE  AccessMatchesRequest'
  OBVIOUS
<1>1. DevicesTypeOK /\ port \in Mailbox /\ access \in Access \cup {None}
  BY DEF TypeOK, DevicesTypeOK, Device, port
<1>2. port' = port /\ UNCHANGED client => AccessMatchesRequest'
  BY DEF AccessMatchesRequest, client
<1>3. /\ Released(port) \in Mailbox /\ Released(port).state = "DS_IDLE"
      /\ Dropped \in Mailbox /\ Dropped.state = "DS_IDLE"
      /\ Released(Dropped) \in Mailbox /\ Released(Dropped).state = "DS_IDLE"
  BY <1>1 DEF Released, Dropped, Mailbox, DeviceState
<1>4. Accesses \subseteq Access /\ Pushes \subseteq Access
  BY ClientAssumption
<1>5. CASE CpuClock
  <2>1. CASE CpuStart
    BY <1>1, <1>4, <2>1, BeginMatches, PauseMatches DEF CpuStart
  <2>2. CASE CpuWait
    BY <1>2, <2>2 DEF CpuWait, port, AccessMatchesRequest
  <2>3. CASE CpuTake
    BY <1>1, <1>3, <1>4, <2>3, BeginMatches, PauseMatches DEF CpuTake
  <2>4. CASE CpuDropInterrupt
    <3>1. CASE /\ access # None
               /\ dev' = [dev EXCEPT !["CPU"] = Request(access, Dropped)]
               /\ UNCHANGED client
      <4>1. access \in Access /\ access.op \in {"read", "write"}
        BY <1>1, <3>1 DEF Access
      <4>2. port' = Request(access, Dropped) /\ access' = access
        BY <1>1, <3>1 DEF port, DevicesTypeOK, Device, client
      <4>3. /\ Request(access, Dropped).address = access.address
            /\ Request(access, Dropped).state =
                 IF access.op = "read" THEN "DS_FETCH" ELSE "DS_STORE"
        BY <1>3, <4>1 DEF Request, Mailbox
      <4> QED BY <3>1, <4>1, <4>2, <4>3 DEF AccessMatchesRequest
    <3> QED BY <1>1, <1>3, <1>4, <2>4, <3>1, BeginMatches, PauseMatches
            DEF CpuDropInterrupt
  <2>5. CASE CpuAcceptInterrupt
    BY <1>1, <1>3, <1>4, <2>5, BeginMatches, PauseMatches
       DEF CpuAcceptInterrupt
  <2> QED BY <1>5, <2>1, <2>2, <2>3, <2>4, <2>5 DEF CpuClock
<1>6. CASE bus_clock /\ UNCHANGED <<memory, client>>
  <2>1. access' = access
    BY <1>6 DEF client
  <2> QED BY <1>1, <1>2, <1>6, <2>1, BusOnPort DEF AccessMatchesRequest, Mailbox
<1> QED BY <1>1, <1>2, <1>5, <1>6, PortStep

\* The program's access and the request in the mailbox agree at every moment;
\* only the open bus leaves an answer behind with the mailbox idle.
THEOREM AccessMatches == Spec => []AccessMatchesRequest
<1>1. system_create => TypeOK /\ OneRequest /\ AccessMatchesRequest
  BY InitType, InitOneRequest, InitMatches
<1>2. TypeOK /\ OneRequest /\ AccessMatchesRequest /\ [system_clock]_vars
        => (TypeOK /\ OneRequest /\ AccessMatchesRequest)'
  BY StepType, StepOneRequest, StepMatches
<1> QED BY <1>1, <1>2, PTL DEF Spec

-----------------------------------------------------------------------------
(* Replies are what memory holds.                                          *)

\* Memory changes only while the CPU waits for a store, and then the port and
\* every other device stay as they are.
LEMMA MemoryStep ==
  ASSUME TypeOK, OneRequest, [system_clock]_vars
  PROVE  \/ UNCHANGED memory
         \/ /\ port.state = "DS_STORE" /\ port.processed = 0 /\ port' = port
            /\ \/ RamClock /\ RamStore
               \/ BankClock /\ (BankSelect \/ BankStore)
               \/ TerminalClock /\ TerminalPrint
               \/ FileSystemClock /\ (FsStoreMode \/ FsStoreInput)
<1>1. DevicesTypeOK
  BY DEF TypeOK
<1>2. /\ "RAM" \in Slave /\ "MEMORY_BANK" \in Slave /\ "TERMINAL" \in Slave
      /\ "FILESYSTEM" \in Slave
  BY DEF Slave
<1>3. ASSUME NEW d \in Slave, Pending(d, "DS_STORE")
      PROVE  port.state = "DS_STORE" /\ port.processed = 0
  BY <1>3 DEF Pending, OneRequest, Serving
<1>4. CASE RamClock
  BY <1>1, <1>2, <1>3, <1>4, DevicesKeepPort
     DEF RamClock, ram_clock, RamFetch, RamStore, RamWait, memory, port
<1>5. CASE BankClock
  BY <1>1, <1>2, <1>3, <1>5, DevicesKeepPort
     DEF BankClock, memory_bank_clock, BankFetch, BankSelect, BankStore,
         BankWait, memory, port
<1>6. CASE TerminalClock
  BY <1>1, <1>2, <1>3, <1>6, DevicesKeepPort
     DEF TerminalClock, terminal_clock, TerminalPrint, TerminalWait, memory,
         port
<1>7. CASE FileSystemClock
  BY <1>1, <1>2, <1>3, <1>7, DevicesKeepPort
     DEF FileSystemClock, filesystem_clock, FsStoreMode, FsStoreInput,
         FsFetchMode, FsFetchOutput, FsModifier, FsWait, memory, port
<1>8. CASE CpuClock \/ BusClock \/ TickerClock
  BY <1>8 DEF CpuClock, BusClock, TickerClock, memory
<1>9. CASE UNCHANGED vars
  BY <1>9 DEF vars, memory
<1> QED BY <1>4, <1>5, <1>6, <1>7, <1>8, <1>9 DEF system_clock

\* What one step can do to device d.
LEMMA SlaveStep ==
  ASSUME TypeOK, OneRequest, [system_clock]_vars, NEW d \in Slave
  PROVE  \/ dev'[d] = dev[d]
         \/ dev'[d].state = "DS_IDLE"
         \/ dev'[d].processed = 0
         \/ /\ Pending(d, "DS_FETCH") /\ UNCHANGED memory
            /\ dev'[d].state = "DS_FETCH" /\ dev'[d].address = dev[d].address
            /\ dev[d].address # MMIO_MODIFIER_REGISTER_ADDRESS
                 => dev'[d].data = Contents(d, dev[d].address)
         \/ /\ Pending(d, "DS_STORE")
            /\ dev' = [dev EXCEPT ![d].processed = 1]
            /\ \/ RamStore /\ d = "RAM"
               \/ (BankSelect \/ BankStore) /\ d = "MEMORY_BANK"
               \/ d \in {"TERMINAL", "FILESYSTEM"}
<1>1. DevicesTypeOK /\ d \in Device /\ dev[d] \in Mailbox /\ d # "CPU" /\ d # "TICKER"
  BY DEF TypeOK, DevicesTypeOK, Device, Slave
<1>2. CASE CpuClock
  BY <1>1, <1>2, CpuStep DEF CpuClock, CpuWait
<1>3. CASE BusClock
  <2>1. ASSUME NEW e \in Slave, BusForwardFetch(e) \/ BusForwardStore(e)
        PROVE  dev'[d] = dev[d] \/ dev'[d].processed = 0
    BY <1>1, <2>1 DEF BusForwardFetch, BusForwardStore, DevicesTypeOK, Mailbox,
                      Device
  <2>2. ASSUME NEW e \in Slave, BusReplyFetch(e) \/ BusReplyStore(e)
        PROVE  dev'[d] = dev[d] \/ dev'[d].state = "DS_IDLE"
    BY <1>1, <2>2 DEF BusReplyFetch, BusReplyStore, DevicesTypeOK, Mailbox,
                      Device
  <2>3. CASE BusOpen \/ BusInterrupt \/ BusNothing
    BY <1>1, <2>3 DEF BusOpen, BusInterrupt, BusNothing, DevicesTypeOK
  <2> QED BY <1>3, <2>1, <2>2, <2>3 DEF BusClock, bus_clock, BusListenerBusy
<1>4. CASE RamClock
  <2>1. d # "RAM" => dev'[d] = dev[d]
    BY <1>1, <1>4 DEF RamClock, ram_clock, RamFetch, RamStore, RamWait, Done,
                      DoneWith, DevicesTypeOK
  <2>2. CASE d = "RAM" /\ RamFetch
    BY <1>1, <1>4, <2>2
       DEF RamClock, RamFetch, DoneWith, Pending, Contents, memory,
           DevicesTypeOK, Mailbox
  <2>3. CASE d = "RAM" /\ RamStore
    BY <2>3 DEF RamStore, Done
  <2> QED BY <1>4, <2>1, <2>2, <2>3 DEF RamClock, ram_clock, RamWait
<1>5. CASE BankClock
  <2>1. d # "MEMORY_BANK" => dev'[d] = dev[d]
    BY <1>1, <1>5 DEF BankClock, memory_bank_clock, BankFetch, BankSelect,
                      BankStore, BankWait, Done, DoneWith, DevicesTypeOK
  <2>2. CASE d = "MEMORY_BANK" /\ BankFetch
    BY <1>1, <1>5, <2>2
       DEF BankClock, BankFetch, DoneWith, Pending, Contents, memory,
           DevicesTypeOK, Mailbox
  <2>3. CASE d = "MEMORY_BANK" /\ (BankSelect \/ BankStore)
    BY <2>3 DEF BankSelect, BankStore, Done
  <2> QED BY <1>5, <2>1, <2>2, <2>3 DEF BankClock, memory_bank_clock, BankWait
<1>6. CASE TerminalClock
  <2>1. d # "TERMINAL" => dev'[d] = dev[d]
    BY <1>1, <1>6 DEF TerminalClock, terminal_clock, TerminalPrint,
                      TerminalWait, Done, DevicesTypeOK
  <2> QED BY <1>6, <2>1 DEF TerminalClock, terminal_clock, TerminalPrint,
                            TerminalWait, Done
<1>7. CASE FileSystemClock
  <2>1. d # "FILESYSTEM" => dev'[d] = dev[d]
    BY <1>1, <1>7 DEF FileSystemClock, filesystem_clock, FsStoreMode,
                      FsStoreInput, FsFetchMode, FsFetchOutput, FsModifier,
                      FsWait, Done, DoneWith, DevicesTypeOK
  <2>2. CASE d = "FILESYSTEM" /\ (FsStoreMode \/ FsStoreInput)
    BY <2>2 DEF FsStoreMode, FsStoreInput, Done
  <2>3. CASE d = "FILESYSTEM" /\ FsFetchMode
    BY <1>1, <1>7, <2>3
       DEF FileSystemClock, FsFetchMode, DoneWith, Pending, Contents, memory,
           register, DevicesTypeOK, Mailbox
  <2>4. CASE d = "FILESYSTEM" /\ FsFetchOutput
    <3>1. MMIO_OUTPUT_REGISTER_ADDRESS # MMIO_MODE_REGISTER_ADDRESS
      BY SegmentAssumption
         DEF MMIO_OUTPUT_REGISTER_ADDRESS, MMIO_MODE_REGISTER_ADDRESS
    <3> QED BY <1>1, <1>7, <2>4, <3>1
            DEF FileSystemClock, FsFetchOutput, DoneWith, Pending, Contents,
                memory, register, DevicesTypeOK, Mailbox
  <2>5. CASE d = "FILESYSTEM" /\ FsModifier
    BY <1>1, <1>7, <2>5
       DEF FileSystemClock, FsModifier, Done, Pending, memory, register,
           DevicesTypeOK, Mailbox
  <2> QED BY <1>7, <2>1, <2>2, <2>3, <2>4, <2>5
          DEF FileSystemClock, filesystem_clock, FsWait
<1>8. CASE TickerClock
  BY <1>1, <1>8 DEF TickerClock, ticker_clock, TickerFire, TickerWait,
                    DevicesTypeOK
<1>9. CASE UNCHANGED vars
  BY <1>9 DEF vars
<1> QED BY <1>2, <1>3, <1>4, <1>5, <1>6, <1>7, <1>8, <1>9 DEF system_clock

\* What one step can do to the answer in the CPU's mailbox.
LEMMA PortAnswer ==
  ASSUME TypeOK, OneRequest, [system_clock]_vars, port'.processed = 1,
         port'.state \in {"DS_FETCH", "DS_STORE"}
  PROVE  \/ port' = port
         \/ /\ port.state = port'.state /\ port.address = port'.address
            /\ \E d \in Slave :
                 /\ dev[d].state = port.state /\ dev[d].processed = 1
                 /\ port.state = "DS_FETCH" => port'.data = dev[d].data
                 /\ port.state = "DS_STORE" => port'.data = port.data
<1>1. DevicesTypeOK /\ port \in Mailbox
  BY DEF TypeOK, DevicesTypeOK, Device, port
<1>2. CASE CpuClock
  <2>1. ASSUME NEW a \in Access, NEW p \in Mailbox, Begin(a, p) PROVE FALSE
    <3>1. port' = Request(a, p)
      BY <1>1, <2>1 DEF Begin, port, DevicesTypeOK, Device
    <3>2. Request(a, p).processed = 0
      BY DEF Request, Mailbox
    <3> QED BY <3>1, <3>2
  <2>2. ASSUME NEW p \in Mailbox, p.state = "DS_IDLE", Pause(p) PROVE FALSE
    <3>1. port' = p
      BY <1>1, <2>2 DEF Pause, port, DevicesTypeOK, Device
    <3> QED BY <2>2, <3>1
  <2>3. /\ Released(port) \in Mailbox /\ Released(port).state = "DS_IDLE"
        /\ Dropped \in Mailbox /\ Dropped.state = "DS_IDLE"
        /\ Released(Dropped) \in Mailbox /\ Released(Dropped).state = "DS_IDLE"
    BY <1>1 DEF Released, Dropped, Mailbox, DeviceState
  <2>4. Accesses \subseteq Access /\ Pushes \subseteq Access
    BY ClientAssumption
  <2>5. ~(dev' = [dev EXCEPT !["CPU"] = Request(access, Dropped)])
    <3>1. Request(access, Dropped).processed = 0
      BY <2>3 DEF Request, Mailbox
    <3> QED BY <1>1, <3>1 DEF port, DevicesTypeOK, Device
  <2>6. CpuWait
    BY <1>1, <1>2, <2>1, <2>2, <2>3, <2>4, <2>5
       DEF CpuClock, CpuStart, CpuTake, CpuDropInterrupt, CpuAcceptInterrupt
  <2> QED BY <2>6 DEF CpuWait, port
<1>3. CASE bus_clock
  BY <1>1, <1>3, BusOnPort DEF Mailbox
<1> QED BY <1>1, <1>2, <1>3, PortStep

LEMMA InitReplies == system_create => ReadReply /\ StoreReply
<1> SUFFICES ASSUME system_create PROVE ReadReply /\ StoreReply
  OBVIOUS
<1>1. \A d \in Device : dev[d].state = "DS_IDLE"
  BY DEF system_create, DevicesInit, device_create
<1>2. "CPU" \in Device /\ Slave \subseteq Device
  BY DEF Device
<1> QED BY <1>1, <1>2 DEF ReadReply, StoreReply, port

LEMMA StepReadReply ==
  TypeOK /\ OneRequest /\ ReadReply /\ [system_clock]_vars => ReadReply'
<1> SUFFICES ASSUME TypeOK, OneRequest, ReadReply, [system_clock]_vars
             PROVE  ReadReply'
  OBVIOUS
<1>1. ASSUME NEW d \in Slave, dev'[d].state = "DS_FETCH", dev'[d].processed = 1,
             dev'[d].address # MMIO_MODIFIER_REGISTER_ADDRESS
      PROVE  dev'[d].data = Contents(d, dev[d].address)'
  <2>1. CASE dev'[d] = dev[d]
    <3>1. dev[d].data = Contents(d, dev[d].address)
      BY <1>1, <2>1 DEF ReadReply
    <3>2. port.state = "DS_FETCH"
      BY <1>1, <2>1 DEF OneRequest, Serving
    <3>3. UNCHANGED memory
      BY <3>2, MemoryStep
    <3> QED BY <2>1, <3>1, <3>3
            DEF Contents, memory, ram_read, bank_read, hw_address,
                virtual_address
  <2>2. CASE /\ UNCHANGED memory
             /\ dev'[d].address = dev[d].address
             /\ dev[d].address # MMIO_MODIFIER_REGISTER_ADDRESS
                  => dev'[d].data = Contents(d, dev[d].address)
    BY <1>1, <2>2 DEF Contents, memory, ram_read, bank_read, hw_address,
                      virtual_address
  <2>3. CASE Pending(d, "DS_STORE") /\ dev' = [dev EXCEPT ![d].processed = 1]
    BY <1>1, <2>3 DEF Pending, TypeOK, DevicesTypeOK, Device, Mailbox
  <2> QED BY <1>1, <2>1, <2>2, <2>3, SlaveStep
<1>2. ASSUME port'.state = "DS_FETCH", port'.processed = 1,
             port'.address # MMIO_MODIFIER_REGISTER_ADDRESS
      PROVE  \E d \in Slave : /\ ReadListener(d, port'.address)
                              /\ port'.data = Contents(d, port.address)'
  <2>1. UNCHANGED memory
    BY <1>2, MemoryStep
  <2>2. \E d \in Slave : /\ ReadListener(d, port'.address)
                         /\ port'.address = port.address
                         /\ port'.data = Contents(d, port.address)
    <3>1. CASE port' = port
      BY <1>2, <3>1 DEF ReadReply
    <3>2. CASE /\ port.state = port'.state /\ port.address = port'.address
               /\ \E d \in Slave :
                    /\ dev[d].state = port.state /\ dev[d].processed = 1
                    /\ port.state = "DS_FETCH" => port'.data = dev[d].data
      <4>1. PICK d \in Slave : /\ dev[d].state = "DS_FETCH" /\ dev[d].processed = 1
                               /\ port'.data = dev[d].data
        BY <1>2, <3>2
      <4>2. ReadListener(d, port.address) /\ dev[d].address = port.address
        BY <4>1 DEF OneRequest, Serving
      <4> QED BY <1>2, <3>2, <4>1, <4>2 DEF ReadReply
    <3> QED BY <1>2, <3>1, <3>2, PortAnswer
  <2> QED BY <2>1, <2>2 DEF Contents, memory, ram_read, bank_read, hw_address,
                            virtual_address
<1>3. (\E d \in Slave : /\ ReadListener(d, port'.address)
                        /\ port'.data = Contents(d, port.address)')
        <=> (\E d \in Slave : /\ ReadListener(d, port.address)
                              /\ port.data = Contents(d, port.address))'
  BY DEF ReadListener, Reads, Slave, port
<1> QED BY <1>1, <1>2, <1>3 DEF ReadReply, port

LEMMA StepStoreReply ==
  TypeOK /\ OneRequest /\ StoreReply /\ [system_clock]_vars => StoreReply'
<1> SUFFICES ASSUME TypeOK, OneRequest, StoreReply, [system_clock]_vars
             PROVE  StoreReply'
  OBVIOUS
<1>1. \A a, b : UNCHANGED memory /\ Stored(a, b) =>
        /\ WriteListener("RAM", a) => ram'[a] = b
        /\ WriteListener("MEMORY_BANK", a) =>
             IF a = MMIO_REGISTER_ADDRESS THEN bank_index' = b % NUM_BANKS
             ELSE bank_ram'[hw_address(MMIO_BANK_WIDTH * bank_index'
                                         + (a % MMIO_BANK_WIDTH))] = b
  BY DEF Stored, memory, virtual_address
<1> DEFINE StoredNow(a, b) ==
             /\ WriteListener("RAM", a) => ram'[a] = b
             /\ WriteListener("MEMORY_BANK", a) =>
                  IF a = MMIO_REGISTER_ADDRESS THEN bank_index' = b % NUM_BANKS
                  ELSE bank_ram'[hw_address(MMIO_BANK_WIDTH * bank_index'
                                              + (a % MMIO_BANK_WIDTH))] = b
<1>2. \A d \in Slave : dev[d].state = "DS_STORE" =>
        WriteListener(d, dev[d].address) /\ dev[d].address = port.address
  BY DEF OneRequest, Serving
<1>3. ASSUME NEW d \in Slave, dev'[d].state = "DS_STORE", dev'[d].processed = 1
      PROVE  StoredNow(dev'[d].address, dev'[d].data[0])
  <2>1. CASE dev'[d] = dev[d]
    <3>1. Stored(dev[d].address, dev[d].data[0])
      BY <1>3, <2>1 DEF StoreReply
    <3>2. UNCHANGED memory
      <4>1. \A e \in Slave : ~Pending(e, "DS_STORE")
        BY <1>2, <1>3, <2>1, OneListener DEF Pending
      <4> QED BY <4>1, MemoryStep
              DEF RamStore, BankSelect, BankStore, TerminalPrint, FsStoreMode,
                  FsStoreInput, Slave
    <3> QED BY <1>1, <2>1, <3>1, <3>2
  <2>2. CASE /\ Pending(d, "DS_STORE") /\ dev' = [dev EXCEPT ![d].processed = 1]
             /\ \/ RamStore /\ d = "RAM"
                \/ (BankSelect \/ BankStore) /\ d = "MEMORY_BANK"
                \/ d \in {"TERMINAL", "FILESYSTEM"}
    <3>1. dev'[d].address = dev[d].address /\ dev'[d].data = dev[d].data
      BY <2>2 DEF TypeOK, DevicesTypeOK, Device, Mailbox
    <3>2. dev[d].address \in Address
      BY DEF TypeOK, DevicesTypeOK, Device, Mailbox
    <3>3. /\ WriteListener("RAM", dev[d].address) => d = "RAM"
          /\ WriteListener("MEMORY_BANK", dev[d].address) => d = "MEMORY_BANK"
      BY <1>2, <2>2, OneListener DEF Pending
    <3>4. CASE d = "RAM"
      <4>1. ram' = [ram EXCEPT ![dev["RAM"].address] = dev["RAM"].data[0]]
        BY <2>2, <3>4 DEF RamStore, ram_write
      <4>2. ram'[dev[d].address] = dev[d].data[0]
        BY <3>2, <3>4, <4>1 DEF TypeOK, RamTypeOK
      <4> QED BY <3>1, <3>3, <3>4, <4>2
    <3>5. CASE d = "MEMORY_BANK" /\ BankSelect
      BY <3>1, <3>3, <3>5 DEF BankSelect
    <3>6. CASE d = "MEMORY_BANK" /\ BankStore
      <4>1. virtual_address(dev[d].address) \in Nat
        BY <3>2, VirtualAddress DEF TypeOK
      <4>2. hw_address(virtual_address(dev[d].address)) \in 0 .. BANK_CAPACITY - 1
        BY <4>1, HwAddress
      <4>3. /\ bank_index' = bank_index
            /\ bank_ram'[hw_address(virtual_address(dev[d].address))] = dev[d].data[0]
            /\ dev[d].address # MMIO_REGISTER_ADDRESS
        BY <3>6, <4>2 DEF BankStore, TypeOK, BankTypeOK
      <4> QED BY <3>1, <3>3, <3>6, <4>3 DEF virtual_address
    <3>7. CASE d \in {"TERMINAL", "FILESYSTEM"}
      BY <3>1, <3>3, <3>7
    <3> QED BY <2>2, <3>4, <3>5, <3>6, <3>7
  <2>3. CASE dev'[d].state = "DS_FETCH"
    BY <1>3, <2>3
  <2> QED BY <1>3, <2>1, <2>2, <2>3, SlaveStep
<1>4. ASSUME port'.state = "DS_STORE", port'.processed = 1
      PROVE  StoredNow(port'.address, port'.data[0])
  <2>1. UNCHANGED memory
    BY <1>4, MemoryStep
  <2>2. Stored(port'.address, port'.data[0])
    <3>1. CASE port' = port
      BY <1>4, <3>1 DEF StoreReply
    <3>2. CASE /\ port.state = port'.state /\ port.address = port'.address
               /\ \E d \in Slave :
                    /\ dev[d].state = port.state /\ dev[d].processed = 1
                    /\ port.state = "DS_STORE" => port'.data = port.data
      <4>1. PICK d \in Slave : dev[d].state = "DS_STORE" /\ dev[d].processed = 1
        BY <1>4, <3>2
      <4>2. dev[d].address = port.address /\ dev[d].data = port.data
        BY <4>1 DEF OneRequest, Serving
      <4> QED BY <1>4, <3>2, <4>1, <4>2 DEF StoreReply
    <3> QED BY <1>4, <3>1, <3>2, PortAnswer
  <2> QED BY <1>1, <2>1, <2>2
<1> QED BY <1>3, <1>4
        DEF StoreReply, Stored, port, virtual_address, hw_address,
            WriteListener, Writes

LEMMA RepliesInvariant ==
  Spec => [](TypeOK /\ OneRequest /\ ReadReply /\ StoreReply)
<1> DEFINE Inv == TypeOK /\ OneRequest /\ ReadReply /\ StoreReply
<1>1. system_create => Inv
  BY InitType, InitOneRequest, InitReplies
<1>2. Inv /\ [system_clock]_vars => Inv'
  BY StepType, StepOneRequest, StepReadReply, StepStoreReply
<1> QED BY <1>1, <1>2, PTL DEF Spec

\* For every memory map and program, the answer to a read is what the device
\* holds while the answer is under way.
THEOREM RepliesAreMemory == Spec => []ReadReply
  BY RepliesInvariant, PTL

\* For every memory map and program, a store is acknowledged only when its
\* byte is in memory, and it stays there until the CPU has seen that.
THEOREM StoresAreDone == Spec => []StoreReply
  BY RepliesInvariant, PTL

-----------------------------------------------------------------------------
(* What the file system promises the program, whatever it stores and       *)
(* however its stores are clocked: the file system's own guards, and the   *)
(* fabric's promise that the byte it is served is the one in the CPU's     *)
(* mailbox right now (OneRequest).                                         *)

fileState == <<mode, path, output, files>>

\* Only the file system's own clock changes what it holds.
LEMMA OthersKeepFiles ==
  ASSUME [system_clock]_vars
  PROVE  FileSystemClock \/ UNCHANGED fileState
<1>1. CASE CpuClock
  BY <1>1 DEF CpuClock, memory, fileState
<1>2. CASE BusClock
  BY <1>2 DEF BusClock, memory, fileState
<1>3. CASE RamClock \/ TerminalClock \/ BankClock
  BY <1>3 DEF RamClock, TerminalClock, BankClock, fileState
<1>4. CASE TickerClock
  BY <1>4 DEF TickerClock, memory, fileState
<1>5. CASE UNCHANGED vars
  BY <1>5 DEF vars, memory, fileState
<1> QED BY <1>1, <1>2, <1>3, <1>4, <1>5 DEF system_clock

\* A store the file system is working on is the one the CPU is waiting for.
LEMMA ServedStore ==
  ASSUME OneRequest, Pending("FILESYSTEM", "DS_STORE")
  PROVE  port.address = register /\ port.data[0] = byte
  BY DEF OneRequest, Serving, Pending, register, byte, Slave

LEMMA StepModeHolds ==
  ASSUME OneRequest, [system_clock]_vars, mode # M_BASE, ~UNCHANGED fileState
  PROVE  /\ mode' = M_BASE /\ UNCHANGED <<output, files>>
         /\ port.address = MMIO_INPUT_REGISTER_ADDRESS
<1>1. filesystem_clock
  BY OthersKeepFiles DEF FileSystemClock
<1>2. FsStoreInput
  BY <1>1 DEF filesystem_clock, FsStoreMode, FsFetchMode, FsFetchOutput,
              FsModifier, FsWait, fileState
<1> QED BY <1>2, ServedStore DEF FsStoreInput

\* A mode, once set, holds until a byte reaches the input register, for every
\* program and memory map: no store to the mode register replaces it or acts
\* in between, and what ends it touches neither the output nor a file.
THEOREM ModesHold == Spec => ModeHolds
<1>1. OneRequest /\ [system_clock]_vars =>
        [mode # M_BASE /\ <<mode, path, output, files>>' # <<mode, path, output, files>>
           => mode' = M_BASE /\ UNCHANGED <<output, files>>
              /\ port.address = MMIO_INPUT_REGISTER_ADDRESS]_vars
  BY StepModeHolds DEF fileState
<1> QED BY <1>1, OneRequestAtATime, PTL DEF Spec, ModeHolds

LEMMA StepFiles ==
  ASSUME OneRequest, [system_clock]_vars,
         NEW n \in DOMAIN files \cup DOMAIN files',
         n \notin DOMAIN files \/ n \notin DOMAIN files' \/ files'[n] # files[n]
  PROVE  /\ n = name /\ n # <<>> /\ n \in DOMAIN files'
         /\ port.data[0] = M_CREATE_FILE
<1>1. files' # files
  OBVIOUS
<1>2. filesystem_clock
  BY <1>1, OthersKeepFiles DEF FileSystemClock, fileState
<1>3. FsStoreMode /\ FsCreate
  BY <1>1, <1>2 DEF filesystem_clock, FsStoreMode, FsStoreInput, FsFetchMode,
                    FsFetchOutput, FsModifier, FsWait, FsPathReset, FsProbe,
                    FsEnterMode
<1>4. /\ byte = M_CREATE_FILE /\ name # <<>>
      /\ files' = [m \in DOMAIN files \cup {name} |->
                     IF m = name THEN "empty" ELSE files[m]]
  BY <1>1, <1>3 DEF FsCreate
<1>5. n = name /\ n \in DOMAIN files'
  BY <1>4
<1> QED BY <1>3, <1>4, <1>5, ServedStore DEF FsStoreMode

\* No sequence of stores touches a file of the host but the one whose path
\* the program has spelled out, and only a create request does.
THEOREM OnlyTheNamedFile == Spec => OnlyNamedFile
<1>1. OneRequest /\ [system_clock]_vars =>
        [\A n \in DOMAIN files \cup DOMAIN files' :
           (n \notin DOMAIN files \/ n \notin DOMAIN files' \/ files'[n] # files[n])
             => /\ n = name /\ n # <<>> /\ n \in DOMAIN files'
                /\ port.data[0] = M_CREATE_FILE]_vars
  BY StepFiles
<1> QED BY <1>1, OneRequestAtATime, PTL DEF Spec, OnlyNamedFile

-----------------------------------------------------------------------------
(***************************************************************************)
(* The clocked fabric implements the atomic memory of MemoryPort, for      *)
(* every memory map and every program: each step of system_clock is, seen  *)
(* through the refinement mapping of System, one step of the abstract      *)
(* memory or none.  The lemma for a device says which.                     *)
(*                                                                         *)
(* Then when the bus comes to whom: between the accesses to the ticker,    *)
(* and in time to a device that serves one.  How long an access takes      *)
(* depends on where the bus is when it is begun, so the proofs count the   *)
(* clocks of the bus since then.                                           *)
(***************************************************************************)

(* How the abstract memory sees a state of the fabric.                     *)

LEMMA ViewIdle ==
  access = None => abstract_phase = "idle" /\ abstract_reply = 0
  BY DEF abstract_phase, abstract_reply

LEMMA ViewRequested ==
  access # None /\ ~Performed => abstract_phase = "requested" /\ abstract_reply = 0
  BY DEF abstract_phase, abstract_reply

LEMMA ViewAnswered ==
  access # None /\ port.processed = 1 =>
    /\ abstract_phase = "performed"
    /\ abstract_reply = IF access.op = "read" THEN port.data[0] ELSE 0
  BY DEF abstract_phase, abstract_reply, Performed

\* At most one device serves, so the choice in abstract_reply is no choice.
ServedIsPerformed ==
  \A d \in Slave : Serving(d) /\ dev[d].processed = 1 =>
    /\ abstract_phase = "performed"
    /\ abstract_reply = IF access.op = "read" THEN dev[d].data[0] ELSE 0

LEMMA ViewServed == OneRequest /\ access # None => ServedIsPerformed
<1> SUFFICES ASSUME OneRequest, access # None, NEW d \in Slave, Serving(d),
                    dev[d].processed = 1
             PROVE  /\ abstract_phase = "performed"
                    /\ abstract_reply = IF access.op = "read" THEN dev[d].data[0]
                                        ELSE 0
  BY DEF ServedIsPerformed
<1>1. abstract_phase = "performed"
  BY DEF abstract_phase, Performed
<1>2. port.processed # 1
  BY DEF OneRequest
<1>3. \A e \in Slave : Serving(e) => e = d
  BY OneListener DEF OneRequest
<1>4. {dev[e].data : e \in {f \in Slave : Serving(f)}} = {dev[d].data}
  BY <1>3
<1>5. served = dev[d].data
  BY <1>4, Zenon DEF served
<1> QED BY <1>1, <1>2, <1>5 DEF abstract_reply

-----------------------------------------------------------------------------
(* The data of a store are those of the program's access.                  *)

StoreData == port.state = "DS_STORE" => port.data = ByteLine(access.byte)

PortInv == TypeOK /\ OneRequest /\ AccessMatchesRequest /\ StoreData

LEMMA InitStoreData == system_create => StoreData
  BY DEF system_create, DevicesInit, device_create, StoreData, port, Device

LEMMA BeginData ==
  ASSUME DevicesTypeOK, NEW a \in Access, NEW p \in Mailbox, Begin(a, p)
  PROVE  StoreData'
<1>1. port' = Request(a, p) /\ access' = a
  BY DEF Begin, port, DevicesTypeOK, Device
<1>2. Request(a, p).state = "DS_STORE" => Request(a, p).data = ByteLine(a.byte)
  BY DEF Request, Mailbox
<1> QED BY <1>1, <1>2 DEF StoreData

LEMMA PauseData ==
  ASSUME DevicesTypeOK, NEW p \in Mailbox, p.state = "DS_IDLE", Pause(p)
  PROVE  StoreData'
<1>1. port' = p
  BY DEF Pause, port, DevicesTypeOK, Device
<1> QED BY <1>1 DEF StoreData

LEMMA StepStoreData ==
  TypeOK /\ OneRequest /\ StoreData /\ [system_clock]_vars => StoreData'
<1> SUFFICES ASSUME TypeOK, OneRequest, StoreData, [system_clock]_vars
             PROVE  StoreData'
  OBVIOUS
<1>1. DevicesTypeOK /\ access \in Access \cup {None}
  BY DEF TypeOK
<1>2. port' = port /\ access' = access => StoreData'
  BY DEF StoreData
<1>3. Accesses \subseteq Access /\ Pushes \subseteq Access
  BY ClientAssumption
<1>4. CASE CpuClock
  <2>1. CASE CpuStart
    BY <1>1, <1>3, <2>1, CpuMailboxes, BeginData, PauseData DEF CpuStart
  <2>2. CASE CpuWait
    BY <1>2, <2>2 DEF CpuWait, port
  <2>3. CASE CpuTake
    BY <1>1, <1>3, <2>3, CpuMailboxes, BeginData, PauseData DEF CpuTake
  <2>4. CASE CpuDropInterrupt
    <3>1. CASE /\ access # None
               /\ dev' = [dev EXCEPT !["CPU"] = Request(access, Dropped)]
               /\ UNCHANGED client
      <4>1. port' = Request(access, Dropped) /\ access' = access
        BY <1>1, <3>1 DEF port, DevicesTypeOK, Device, client
      <4>2. Request(access, Dropped).state = "DS_STORE" =>
              Request(access, Dropped).data = ByteLine(access.byte)
        BY CpuMailboxes DEF Request, Mailbox
      <4> QED BY <4>1, <4>2 DEF StoreData
    <3> QED BY <1>1, <1>3, <2>4, <3>1, CpuMailboxes, BeginData, PauseData
            DEF CpuDropInterrupt
  <2>5. CASE CpuAcceptInterrupt
    BY <1>1, <1>3, <2>5, CpuMailboxes, BeginData, PauseData
       DEF CpuAcceptInterrupt
  <2> QED BY <1>4, <2>1, <2>2, <2>3, <2>4, <2>5 DEF CpuClock
<1>5. CASE bus_clock /\ UNCHANGED <<memory, client>>
  <2>1. access' = access /\ port \in Mailbox
    BY <1>5, CpuMailboxes DEF client
  <2> QED BY <1>1, <1>2, <1>5, <2>1, BusOnPort DEF StoreData, Mailbox
<1>6. CASE port' = port /\ UNCHANGED client
  BY <1>2, <1>6 DEF client
<1> QED BY <1>1, <1>4, <1>5, <1>6, PortStep

LEMMA PortInvariant == Spec => []PortInv
<1>1. system_create => PortInv
  BY InitType, InitOneRequest, InitMatches, InitStoreData DEF PortInv
<1>2. PortInv /\ [system_clock]_vars => PortInv'
  BY StepType, StepOneRequest, StepMatches, StepStoreData DEF PortInv
<1> QED BY <1>1, <1>2, PTL DEF Spec

-----------------------------------------------------------------------------
(* Each slot of the clock is a step of the abstract memory or none of it.  *)

\* The request the CPU has in its mailbox, not answered yet.
LEMMA PendingAccess ==
  ASSUME PortInv, port.state \in {"DS_FETCH", "DS_STORE"}
  PROVE  /\ access # None /\ access \in Access /\ access.address \in Address
         /\ access.byte \in BYTE
         /\ port.address = access.address
         /\ port.state = "DS_FETCH" <=> access.op = "read"
         /\ port.state = "DS_STORE" <=> access.op = "write"
         /\ port.state = "DS_STORE" => port.data = ByteLine(access.byte)
<1>1. access # None /\ access \in Access
  BY DEF PortInv, TypeOK, AccessMatchesRequest
<1>2. access.op \in {"read", "write"} /\ access.address \in Address /\ access.byte \in BYTE
  BY <1>1, SmallBytes DEF Access
<1> QED BY <1>1, <1>2 DEF PortInv, AccessMatchesRequest, StoreData

LEMMA CellsStay == UNCHANGED memory => UNCHANGED <<abstract_cell, bank_index, screen>>
  BY DEF memory, abstract_cell

\* The abstract memory is mapped like the fabric.
LEMMA PortMap ==
  /\ \A d, a : Port!Reads(d, a) <=> Reads(d, a)
  /\ \A a : Port!OpenRead(a) <=> OpenRead(a)
  /\ Port!MMIO_REGISTER_ADDRESS = MMIO_REGISTER_ADDRESS
  /\ Port!MMIO_INPUT_REGISTER = MMIO_INPUT_REGISTER
  /\ Port!BYTE = BYTE /\ Port!Address = Address
<1>1. /\ Port!MMIO_REGISTER_ADDRESS = MMIO_REGISTER_ADDRESS
      /\ Port!MMIO_INPUT_REGISTER = MMIO_INPUT_REGISTER
      /\ Port!BYTE = BYTE /\ Port!Address = Address
  BY DEF Port!MMIO_REGISTER_ADDRESS, MMIO_REGISTER_ADDRESS, BYTE, Port!BYTE,
         Port!MMIO_INPUT_REGISTER, MMIO_INPUT_REGISTER, Address, Port!Address
<1>2. \A d, a : Port!Reads(d, a) <=> Reads(d, a)
  BY DEF Reads, Port!Reads, Port!SEGMENT_CODE, SEGMENT_CODE,
         Port!MMIO_MODE_REGISTER_ADDRESS, MMIO_MODE_REGISTER_ADDRESS,
         Port!MMIO_MODIFIER_REGISTER_ADDRESS, MMIO_MODIFIER_REGISTER_ADDRESS,
         Port!MMIO_OUTPUT_REGISTER_ADDRESS, MMIO_OUTPUT_REGISTER_ADDRESS
<1>3. \A a : Port!OpenRead(a) <=> OpenRead(a)
  BY <1>2 DEF Port!OpenRead, OpenRead, Port!Slave, Slave
<1> QED BY <1>1, <1>2, <1>3

\* The CPU begins access a while nobody serves: the memory sees a request.
LEMMA BeginView ==
  ASSUME TypeOK, NEW a \in Access, NEW p \in Mailbox,
         \A d \in Slave : ~Serving(d) /\ dev'[d] = dev[d],
         Begin(a, p)
  PROVE  Port!Ask(a)
<1>1. port' = Request(a, p) /\ access' = a
  BY DEF Begin, port, TypeOK, DevicesTypeOK, Device
<1>2. Request(a, p).processed = 0
  BY DEF Request, Mailbox
<1>3. ~Performed'
  BY <1>1, <1>2 DEF Performed, Serving
<1>4. a # None
  BY DEF Access, None
<1>5. (access # None /\ ~Performed => abstract_phase = "requested" /\ abstract_reply = 0)'
  BY ViewRequested, PTL
<1> QED BY <1>1, <1>3, <1>4, <1>5 DEF Port!Ask

LEMMA PauseView ==
  ASSUME NEW p, Pause(p)
  PROVE  abstract_phase' = "idle" /\ access' = None /\ abstract_reply' = 0
<1>1. (access = None => abstract_phase = "idle" /\ abstract_reply = 0)'
  BY ViewIdle, PTL
<1> QED BY <1>1 DEF Pause

LEMMA CpuRefines ==
  ASSUME PortInv, CpuClock
  PROVE  [Port!PortNext]_(Port!portVars)
<1>1. TypeOK /\ OneRequest /\ DevicesTypeOK /\ access \in Access \cup {None}
  BY DEF PortInv, TypeOK
<1>2. UNCHANGED <<abstract_cell, bank_index, screen>>
  BY CellsStay DEF CpuClock
<1>3. Accesses \subseteq Access /\ Pushes \subseteq Access
  BY ClientAssumption
<1>4. CASE CpuWait
  <2>1. UNCHANGED <<dev, access>>
    BY <1>4 DEF CpuWait
  <2>2. UNCHANGED <<abstract_phase, abstract_reply>>
    BY <2>1 DEF abstract_phase, abstract_reply, Performed, Serving, served, port
  <2> QED BY <1>2, <2>1, <2>2 DEF Port!portVars
<1>5. CASE CpuStart \/ CpuTake \/ CpuDropInterrupt \/ CpuAcceptInterrupt
  <2>1. \A d \in Slave : ~Serving(d) /\ dev'[d] = dev[d]
    BY <1>1, <1>5, CpuStep, NobodyServes DEF Serving
  <2>2. ASSUME NEW a \in Accesses \cup Pushes, NEW p \in Mailbox, Begin(a, p)
        PROVE  Port!Ask(a)
    BY <1>1, <1>3, <2>1, <2>2, BeginView
  <2>3. ASSUME access = None, \E a \in Accesses \cup Pushes : Port!Ask(a)
        PROVE  Port!PortRequest
    BY <1>2, <2>3, ViewIdle DEF Port!PortRequest
  <2>4. ASSUME access # None, port.processed = 1,
               \/ \E a \in Accesses \cup Pushes : Port!Ask(a)
               \/ \E p : Pause(p)
        PROVE  Port!PortFinish
    BY <1>2, <2>4, ViewAnswered, PauseView DEF Port!PortFinish
  <2>5. ASSUME access = None, NEW p, Pause(p)
        PROVE  UNCHANGED Port!portVars
    BY <1>2, <2>5, ViewIdle, PauseView DEF Port!portVars
  <2>6. CASE CpuStart
    BY <2>2, <2>3, <2>5, <2>6, <1>1, CpuMailboxes DEF CpuStart, Port!PortNext
  <2>7. CASE CpuTake
    BY <2>2, <2>4, <2>7, <1>1, CpuMailboxes DEF CpuTake, Answered, Port!PortNext
  <2>8. CASE CpuDropInterrupt
    <3>1. CASE access = None
      BY <2>2, <2>3, <2>5, <2>8, <3>1, <1>1, CpuMailboxes
         DEF CpuDropInterrupt, Answered, Port!PortNext
    <3>2. CASE access # None /\ Answered(Dropped)
      BY <2>2, <2>4, <2>8, <3>2, <1>1, CpuMailboxes
         DEF CpuDropInterrupt, Answered, Port!PortNext
    <3>3. CASE /\ access # None /\ ~Answered(Dropped)
               /\ dev' = [dev EXCEPT !["CPU"] = Request(access, Dropped)]
               /\ UNCHANGED client
      <4>1. port.processed = 1 /\ (access.op = "read" => OpenRead(access.address))
        BY <2>8, <3>3 DEF CpuDropInterrupt, PortInv, AccessMatchesRequest
      <4>2. access.op = "read"
        BY <1>1, <3>3, <4>1, CpuMailboxes DEF Answered
      <4>3. port' = Request(access, Dropped) /\ access' = access
        BY <1>1, <3>3 DEF port, DevicesTypeOK, Device, client
      <4>4. Request(access, Dropped).processed = 0
        BY <1>1, CpuMailboxes DEF Request, Mailbox
      <4>5. ~Performed'
        BY <2>1, <4>3, <4>4 DEF Performed, Serving
      <4>6. (access # None /\ ~Performed
               => abstract_phase = "requested" /\ abstract_reply = 0)'
        BY ViewRequested, PTL
      <4>7. Port!Ask(access)
        BY <3>3, <4>3, <4>5, <4>6 DEF Port!Ask
      <4>8. Port!OpenRead(access.address)
        BY <4>1, <4>2, PortMap
      <4>9. Port!PortRetry
        BY <1>2, <3>3, <4>1, <4>2, <4>7, <4>8, ViewAnswered DEF Port!PortRetry
      <4> QED BY <4>9 DEF Port!PortNext
    <3> QED BY <2>8, <3>1, <3>2, <3>3 DEF CpuDropInterrupt
  <2>9. CASE CpuAcceptInterrupt
    <3>1. CASE access = None
      BY <2>2, <2>3, <2>5, <2>9, <3>1, <1>1, CpuMailboxes
         DEF CpuAcceptInterrupt, Port!PortNext
    <3>2. CASE access # None
      <4>1. port.processed = 1
        BY <2>9, <3>2 DEF CpuAcceptInterrupt, PortInv, AccessMatchesRequest
      <4> QED BY <2>2, <2>4, <2>9, <3>2, <4>1, <1>1, CpuMailboxes
              DEF CpuAcceptInterrupt, Port!PortNext
    <3> QED BY <3>1, <3>2
  <2> QED BY <1>5, <2>6, <2>7, <2>8, <2>9
<1> QED BY <1>4, <1>5 DEF CpuClock

\* While a request is pending and no device has processed it.
LEMMA PendingView ==
  ASSUME PortInv, port.state \in {"DS_FETCH", "DS_STORE"}, port.processed = 0,
         \A d \in Slave : Serving(d) => dev[d].processed = 0
  PROVE  abstract_phase = "requested" /\ abstract_reply = 0
<1>1. access # None
  BY PendingAccess
<1>2. ~Performed
  BY DEF Performed
<1> QED BY <1>1, <1>2, ViewRequested

\* A device that finds work is the only one that serves, and serves the
\* program's access.
LEMMA ServingAccess ==
  ASSUME PortInv, NEW d \in Slave, NEW s \in {"DS_FETCH", "DS_STORE"}, Pending(d, s)
  PROVE  /\ abstract_phase = "requested" /\ abstract_reply = 0
         /\ access # None /\ access \in Access
         /\ dev[d].address = access.address
         /\ s = "DS_FETCH" => access.op = "read" /\ ReadListener(d, access.address)
         /\ s = "DS_STORE" => /\ access.op = "write" /\ WriteListener(d, access.address)
                              /\ dev[d].data[0] = access.byte
<1>1. Serving(d) /\ dev[d].processed = 0 /\ dev[d].state = s
  BY DEF Pending, Serving
<1>2. /\ port.state = s /\ port.processed = 0
      /\ dev[d].address = port.address
      /\ s = "DS_FETCH" => ReadListener(d, port.address)
      /\ s = "DS_STORE" => WriteListener(d, port.address) /\ dev[d].data = port.data
  BY <1>1 DEF PortInv, OneRequest
<1>3. \A e \in Slave : Serving(e) => e = d
  BY <1>1, OneListener DEF PortInv, OneRequest
<1>4. /\ access # None /\ access \in Access
      /\ port.address = access.address
      /\ s = "DS_FETCH" => access.op = "read"
      /\ s = "DS_STORE" => access.op = "write" /\ port.data = ByteLine(access.byte)
  BY <1>2, PendingAccess
<1>5. \A b : ByteLine(b)[0] = b
  BY WordAssumption DEF ByteLine
<1>6. abstract_phase = "requested" /\ abstract_reply = 0
  BY <1>1, <1>2, <1>3, PendingView
<1> QED BY <1>2, <1>4, <1>5, <1>6

\* After its clock the device has performed the access.
LEMMA ServedView ==
  ASSUME PortInv, PortInv', NEW d \in Slave, NEW s \in {"DS_FETCH", "DS_STORE"},
         Pending(d, s), UNCHANGED access,
         Done(d) \/ \E l : DoneWith(d, l)
  PROVE  /\ abstract_phase' = "performed"
         /\ abstract_reply' = IF access.op = "read" THEN dev'[d].data[0] ELSE 0
<1>1. d \in Device
  BY DEF Device
<1>2. dev'[d].state = s /\ dev'[d].processed = 1
  BY <1>1 DEF Done, DoneWith, Pending, PortInv, TypeOK, DevicesTypeOK, Mailbox
<1>3. Serving(d)'
  BY <1>2 DEF Serving
<1>4. access' # None
  BY ServingAccess
<1>5. (OneRequest /\ access # None => ServedIsPerformed)'
  BY ViewServed, PTL
<1> QED BY <1>2, <1>3, <1>4, <1>5 DEF PortInv, ServedIsPerformed

\* A clock that leaves the mailboxes of the CPU and the slaves alone, and the
\* memory, is none of the abstract memory's steps.
LEMMA Quiet ==
  ASSUME UNCHANGED <<dev["CPU"], memory, access>>,
         \A d \in Slave : dev'[d] = dev[d]
  PROVE  UNCHANGED Port!portVars
<1>1. {dev'[d].data : d \in {e \in Slave : dev'[e].state # "DS_IDLE"}}
        = {dev[d].data : d \in {e \in Slave : dev[e].state # "DS_IDLE"}}
  OBVIOUS
<1>2. served' = served
  BY <1>1 DEF served, Serving
<1>3. UNCHANGED <<abstract_phase, abstract_reply>>
  BY <1>2 DEF abstract_phase, abstract_reply, Performed, Serving, port
<1> QED BY <1>3, CellsStay DEF Port!portVars

\* A device performs a read: the reply is the first byte of its answer.
LEMMA ReadPerformed ==
  ASSUME PortInv, PortInv', NEW d \in Slave, Pending(d, "DS_FETCH"),
         UNCHANGED <<access, memory>>, NEW l, Done(d) \/ DoneWith(d, l),
         \/ Port!InRam(access.address) \/ Port!InWindow(access.address)
           => dev'[d].data[0] = abstract_cell[Port!Place(access.address)]
  PROVE  Port!PortPerform
<1>1. /\ abstract_phase = "requested" /\ access.op = "read"
  BY ServingAccess
<1>2. /\ abstract_phase' = "performed" /\ abstract_reply' = dev'[d].data[0]
  BY <1>1, ServedView
<1>3. dev'[d].data[0] \in BYTE
  BY LineByte DEF PortInv, TypeOK, DevicesTypeOK, Mailbox, Device
<1> QED BY <1>1, <1>2, <1>3, CellsStay, PortMap
        DEF Port!PortPerform, Port!PerformRead

\* The bank wraps nowhere inside its window: the place of address a in the
\* backing RAM is the one the abstract memory gives it.
LEMMA WindowPlace ==
  ASSUME BankTypeOK, NEW a \in Address
  PROVE  /\ hw_address(virtual_address(a)) \in 0 .. BANK_CAPACITY - 1
         /\ hw_address(virtual_address(a)) =
              (MMIO_BANK_WIDTH * bank_index + (a % MMIO_BANK_WIDTH)) % (Port!Space - 1)
<1> DEFINE W == MMIO_BANK_WIDTH
           v == W * bank_index + (a % W)
<1>1. /\ W \in Nat \ {0} /\ NUM_BANKS \in Nat \ {0}
      /\ bank_index \in 0 .. NUM_BANKS - 1 /\ a \in Nat
  BY SegmentAssumption, BankAssumption DEF BankTypeOK, Address
<1>2. a % W \in 0 .. W - 1
  BY <1>1
<1>3. W * bank_index + W <= W * NUM_BANKS /\ W * bank_index \in Nat
  <2>1. \A m, n \in Nat : m <= n => W * m <= W * n
    BY <1>1
  <2>2. W * (bank_index + 1) <= W * NUM_BANKS
    BY <1>1, <2>1
  <2>3. W * (bank_index + 1) = W * bank_index + W /\ W * bank_index \in Nat
    BY <1>1
  <2> QED BY <2>2, <2>3
<1>4. NUM_BANKS * W = W * NUM_BANKS
  BY <1>1
<1>5. v \in 0 .. BANK_SPACE - 1
  BY <1>1, <1>2, <1>3, <1>4 DEF BANK_SPACE
<1>6. v % BANK_SPACE = v
  BY <1>5, BankSpace
<1>7. Port!Space - 1 = BANK_CAPACITY
  BY DEF Port!Space, BANK_CAPACITY, BANK_SPACE
<1>8. hw_address(v) = v % (Port!Space - 1)
  BY <1>6, <1>7 DEF hw_address
<1>9. hw_address(v) \in 0 .. BANK_CAPACITY - 1
  BY <1>5, HwAddress, BankSpace
<1> QED BY <1>8, <1>9 DEF virtual_address

LEMMA Places ==
  ASSUME TypeOK, NEW a \in Address
  PROVE  /\ Port!InRam(a) <=> Reads("RAM", a)
         /\ Port!InWindow(a) <=> Reads("MEMORY_BANK", a)
         /\ Port!InRam(a) => /\ ~Port!InWindow(a)
                             /\ Port!Place(a) = <<"ram", a>>
                             /\ abstract_cell[Port!Place(a)] = ram[a]
         /\ Port!InWindow(a) =>
              /\ Port!Place(a) = <<"bank", hw_address(virtual_address(a))>>
              /\ abstract_cell[Port!Place(a)] = bank_ram[hw_address(virtual_address(a))]
<1>1. /\ Port!InRam(a) <=> Reads("RAM", a)
      /\ Port!InWindow(a) <=> Reads("MEMORY_BANK", a)
  BY PortMap DEF Port!InRam, Port!InWindow
<1>2. ~(Port!InRam(a) /\ Port!InWindow(a))
  BY <1>1, ListenersUnique DEF Slave
<1>3. /\ hw_address(virtual_address(a)) \in 0 .. BANK_CAPACITY - 1
      /\ hw_address(virtual_address(a)) =
           (MMIO_BANK_WIDTH * bank_index + (a % MMIO_BANK_WIDTH)) % (Port!Space - 1)
  BY WindowPlace DEF TypeOK
<1>4. /\ Port!InRam(a) => Port!Place(a) = <<"ram", a>>
      /\ Port!InWindow(a) => Port!Place(a) = <<"bank", hw_address(virtual_address(a))>>
  BY <1>2, <1>3 DEF Port!Place
<1>5. abstract_cell[<<"ram", a>>] = ram[a]
  BY DEF abstract_cell
<1>6. abstract_cell[<<"bank", hw_address(virtual_address(a))>>]
        = bank_ram[hw_address(virtual_address(a))]
  BY <1>3 DEF abstract_cell
<1> QED BY <1>1, <1>2, <1>4, <1>5, <1>6

LEMMA RamCell ==
  ASSUME RamTypeOK, NEW a \in Address, NEW b,
         ram' = [ram EXCEPT ![a] = b], bank_ram' = bank_ram
  PROVE  abstract_cell' = [abstract_cell EXCEPT ![<<"ram", a>>] = b]
<1> DEFINE D == {<<"ram", x>> : x \in Address}
                  \cup {<<"bank", c>> : c \in 0 .. BANK_CAPACITY - 1}
<1>1. abstract_cell = [p \in D |-> IF p[1] = "ram" THEN ram[p[2]] ELSE bank_ram[p[2]]]
  BY DEF abstract_cell
<1>2. abstract_cell' = [p \in D |-> IF p[1] = "ram" THEN ram'[p[2]] ELSE bank_ram[p[2]]]
  BY DEF abstract_cell
<1>3. ASSUME NEW p \in D
      PROVE  (IF p[1] = "ram" THEN ram'[p[2]] ELSE bank_ram[p[2]])
               = IF p = <<"ram", a>> THEN b
                 ELSE IF p[1] = "ram" THEN ram[p[2]] ELSE bank_ram[p[2]]
  BY DEF RamTypeOK
<1> HIDE DEF D
<1> QED BY <1>1, <1>2, <1>3

LEMMA BankCell ==
  ASSUME BankTypeOK, NEW a \in 0 .. BANK_CAPACITY - 1, NEW b,
         bank_ram' = [bank_ram EXCEPT ![a] = b], ram' = ram
  PROVE  abstract_cell' = [abstract_cell EXCEPT ![<<"bank", a>>] = b]
<1> DEFINE D == {<<"ram", x>> : x \in Address}
                  \cup {<<"bank", c>> : c \in 0 .. BANK_CAPACITY - 1}
<1>1. abstract_cell = [p \in D |-> IF p[1] = "ram" THEN ram[p[2]] ELSE bank_ram[p[2]]]
  BY DEF abstract_cell
<1>2. abstract_cell' = [p \in D |-> IF p[1] = "ram" THEN ram[p[2]] ELSE bank_ram'[p[2]]]
  BY DEF abstract_cell
<1>3. ASSUME NEW p \in D
      PROVE  (IF p[1] = "ram" THEN ram[p[2]] ELSE bank_ram'[p[2]])
               = IF p = <<"bank", a>> THEN b
                 ELSE IF p[1] = "ram" THEN ram[p[2]] ELSE bank_ram[p[2]]
  BY DEF BankTypeOK
<1> HIDE DEF D
<1> QED BY <1>1, <1>2, <1>3

\* A device performs a write: memory, bank and screen change as the abstract
\* memory's do.
LEMMA WritePerformed ==
  ASSUME PortInv, PortInv', NEW d \in Slave, Pending(d, "DS_STORE"), Done(d),
         UNCHANGED access,
         abstract_cell' =
           IF Port!InRam(access.address) \/ Port!InWindow(access.address)
           THEN [abstract_cell EXCEPT ![Port!Place(access.address)] = access.byte]
           ELSE abstract_cell,
         bank_index' = IF access.address = MMIO_REGISTER_ADDRESS
                       THEN access.byte % NUM_BANKS ELSE bank_index,
         screen' = IF access.address = MMIO_INPUT_REGISTER
                   THEN Append(screen, access.byte) ELSE screen
  PROVE  Port!PortPerform
<1>1. abstract_phase = "requested" /\ access.op = "write"
  BY ServingAccess
<1>2. abstract_phase' = "performed" /\ abstract_reply' = 0
  BY <1>1, ServedView
<1> QED BY <1>1, <1>2, PortMap DEF Port!PortPerform, Port!PerformWrite

\* Who the registers belong to.
LEMMA Registers ==
  /\ ~Reads("RAM", MMIO_REGISTER_ADDRESS)
  /\ ~Reads("MEMORY_BANK", MMIO_REGISTER_ADDRESS)
  /\ \A a \in Address :
       /\ Writes("RAM", a) => Reads("RAM", a) /\ a # MMIO_REGISTER_ADDRESS
                               /\ a # MMIO_INPUT_REGISTER
       /\ Writes("MEMORY_BANK", a) /\ a # MMIO_REGISTER_ADDRESS
            => Reads("MEMORY_BANK", a)
       /\ Writes("MEMORY_BANK", a) => a # MMIO_INPUT_REGISTER
       /\ Writes("TERMINAL", a) => a = MMIO_INPUT_REGISTER
       /\ Writes("TERMINAL", a) \/ Writes("FILESYSTEM", a) =>
            ~Reads("RAM", a) /\ ~Reads("MEMORY_BANK", a) /\ a # MMIO_REGISTER_ADDRESS
       /\ Writes("FILESYSTEM", a) => a # MMIO_INPUT_REGISTER
       /\ Reads("RAM", a) => Writes("RAM", a)
       /\ Reads("MEMORY_BANK", a) => Writes("MEMORY_BANK", a)
       /\ Reads("FILESYSTEM", a) => ~Reads("RAM", a) /\ ~Reads("MEMORY_BANK", a)
  BY SegmentAssumption
     DEF Reads, Writes, Address, SEGMENT_CODE, MMIO_INPUT_REGISTER,
         MMIO_REGISTER_ADDRESS, MMIO_MODE_REGISTER_ADDRESS,
         MMIO_MODIFIER_REGISTER_ADDRESS, MMIO_INPUT_REGISTER_ADDRESS,
         MMIO_OUTPUT_REGISTER_ADDRESS

LEMMA RamRefines ==
  ASSUME PortInv, PortInv', RamClock
  PROVE  [Port!PortNext]_(Port!portVars)
<1>1. TypeOK /\ "RAM" \in Slave /\ "RAM" \in Device /\ DevicesTypeOK
  BY DEF PortInv, TypeOK, Slave, Device
<1>2. UNCHANGED <<access, bank_index, bank_ram, screen>>
  BY DEF RamClock, client
<1>3. \A s \in {"DS_FETCH", "DS_STORE"} : Pending("RAM", s) => access.address \in Address
  BY <1>1, ServingAccess DEF Access
<1>4. CASE RamFetch
  <2>1. Pending("RAM", "DS_FETCH") /\ UNCHANGED <<access, memory>>
    BY <1>4 DEF RamFetch, RamClock, memory, client
  <2> DEFINE a == access.address
  <2>2. a \in Address /\ dev["RAM"].address = a /\ Reads("RAM", a)
    BY <1>1, <1>3, <2>1, ServingAccess DEF ReadListener
  <2>3. DoneWith("RAM", ram_read(a))
    BY <1>4, <2>2 DEF RamFetch
  <2>4. dev'["RAM"].data = ram_read(a)
    BY <1>1, <2>3 DEF DoneWith, DevicesTypeOK, Mailbox
  <2>5. (a + 0) % ADDRESS_SPACE = a
    BY <2>2, SegmentAssumption DEF Address
  <2>6. ram_read(a)[0] = ram[a]
    BY <2>5, WordAssumption DEF ram_read
  <2>7. Port!InRam(a) /\ abstract_cell[Port!Place(a)] = ram[a]
    BY <1>1, <2>2, Places
  <2> QED BY <1>1, <2>1, <2>3, <2>4, <2>6, <2>7, ReadPerformed DEF Port!PortNext
<1>5. CASE RamStore
  <2>1. Pending("RAM", "DS_STORE") /\ Done("RAM")
    BY <1>5 DEF RamStore
  <2> DEFINE a == access.address
  <2>2. /\ a \in Address /\ dev["RAM"].address = a /\ Writes("RAM", a)
        /\ dev["RAM"].data[0] = access.byte
    BY <1>1, <1>3, <2>1, ServingAccess DEF WriteListener
  <2>3. ram' = [ram EXCEPT ![a] = access.byte]
    BY <1>5, <2>2 DEF RamStore, ram_write
  <2>4. Port!InRam(a) /\ Port!Place(a) = <<"ram", a>>
        /\ a # MMIO_REGISTER_ADDRESS /\ a # MMIO_INPUT_REGISTER
    BY <1>1, <2>2, Places, Registers
  <2>5. abstract_cell' = [abstract_cell EXCEPT ![Port!Place(a)] = access.byte]
    BY <1>1, <1>2, <2>2, <2>3, <2>4, RamCell DEF TypeOK
  <2> QED BY <1>1, <1>2, <2>1, <2>4, <2>5, WritePerformed DEF Port!PortNext
<1>6. CASE RamWait
  BY <1>2, <1>6, Quiet DEF RamWait, RamClock, memory, client
<1> QED BY <1>4, <1>5, <1>6 DEF RamClock, ram_clock

LEMMA BankRefines ==
  ASSUME PortInv, PortInv', BankClock
  PROVE  [Port!PortNext]_(Port!portVars)
<1> DEFINE M == "MEMORY_BANK"
           a == access.address
<1>1. TypeOK /\ M \in Slave /\ M \in Device /\ DevicesTypeOK
  BY DEF PortInv, TypeOK, Slave, Device
<1>2. UNCHANGED <<access, ram, screen>>
  BY DEF BankClock, client
<1>3. \A s \in {"DS_FETCH", "DS_STORE"} : Pending(M, s) => a \in Address
  BY <1>1, ServingAccess DEF Access
<1>4. CASE BankFetch
  <2>1. Pending(M, "DS_FETCH") /\ UNCHANGED <<access, memory>>
    BY <1>4 DEF BankFetch, BankClock, memory, client
  <2>2. a \in Address /\ dev[M].address = a /\ Reads(M, a)
    BY <1>1, <1>3, <2>1, ServingAccess DEF ReadListener
  <2>3. DoneWith(M, bank_read(a))
    BY <1>4, <2>2 DEF BankFetch
  <2>4. dev'[M].data = bank_read(a)
    BY <1>1, <2>3 DEF DoneWith, DevicesTypeOK, Mailbox
  <2>5. virtual_address(a) + 0 = virtual_address(a)
    BY <1>1, <2>2, VirtualAddress DEF TypeOK
  <2>6. bank_read(a)[0] = bank_ram[hw_address(virtual_address(a))]
    BY <2>5, WordAssumption DEF bank_read
  <2>7. Port!InWindow(a)
        /\ abstract_cell[Port!Place(a)] = bank_ram[hw_address(virtual_address(a))]
    BY <1>1, <2>2, Places
  <2> QED BY <1>1, <2>1, <2>3, <2>4, <2>6, <2>7, ReadPerformed DEF Port!PortNext
<1>5. ASSUME Pending(M, "DS_STORE")
      PROVE  /\ a \in Address /\ dev[M].address = a /\ Writes(M, a)
             /\ dev[M].data[0] = access.byte /\ a # MMIO_INPUT_REGISTER
  BY <1>1, <1>3, <1>5, ServingAccess, Registers DEF WriteListener
<1>6. CASE BankSelect
  <2>1. Pending(M, "DS_STORE") /\ Done(M) /\ a = MMIO_REGISTER_ADDRESS
        /\ bank_index' = access.byte % NUM_BANKS /\ bank_ram' = bank_ram
    BY <1>5, <1>6 DEF BankSelect
  <2>2. ~Port!InRam(a) /\ ~Port!InWindow(a)
    BY <1>1, <1>5, <2>1, Places, Registers
  <2>3. abstract_cell' = abstract_cell
    BY <1>2, <2>1 DEF abstract_cell
  <2> QED BY <1>1, <1>2, <1>5, <2>1, <2>2, <2>3, WritePerformed DEF Port!PortNext
<1>7. CASE BankStore
  <2>1. Pending(M, "DS_STORE") /\ Done(M) /\ a # MMIO_REGISTER_ADDRESS
        /\ bank_ram' = [bank_ram EXCEPT ![hw_address(virtual_address(a))] = access.byte]
        /\ bank_index' = bank_index
    BY <1>5, <1>7 DEF BankStore
  <2>2. /\ Port!InWindow(a)
        /\ Port!Place(a) = <<"bank", hw_address(virtual_address(a))>>
    BY <1>1, <1>5, <2>1, Places, Registers
  <2>3. hw_address(virtual_address(a)) \in 0 .. BANK_CAPACITY - 1
    BY <1>1, <1>5, <2>1, WindowPlace DEF TypeOK
  <2>4. abstract_cell' = [abstract_cell EXCEPT ![Port!Place(a)] = access.byte]
    BY <1>1, <1>2, <2>1, <2>2, <2>3, BankCell DEF TypeOK
  <2> QED BY <1>1, <1>2, <1>5, <2>1, <2>2, <2>4, WritePerformed DEF Port!PortNext
<1>8. CASE BankWait
  BY <1>2, <1>8, Quiet DEF BankWait, BankClock, memory, client
<1> QED BY <1>4, <1>6, <1>7, <1>8 DEF BankClock, memory_bank_clock

LEMMA TerminalRefines ==
  ASSUME PortInv, PortInv', TerminalClock
  PROVE  [Port!PortNext]_(Port!portVars)
<1> DEFINE a == access.address
<1>1. TypeOK /\ "TERMINAL" \in Slave
  BY DEF PortInv, Slave
<1>2. UNCHANGED <<access, ram, bank_index, bank_ram, abstract_cell>>
  BY DEF TerminalClock, client, abstract_cell
<1>3. CASE TerminalPrint
  <2>1. Pending("TERMINAL", "DS_STORE") /\ Done("TERMINAL")
    BY <1>3 DEF TerminalPrint
  <2>2. /\ a \in Address /\ Writes("TERMINAL", a)
        /\ dev["TERMINAL"].data[0] = access.byte
    BY <1>1, <2>1, ServingAccess DEF WriteListener, Access
  <2>3. /\ a = MMIO_INPUT_REGISTER /\ a # MMIO_REGISTER_ADDRESS
        /\ ~Port!InRam(a) /\ ~Port!InWindow(a)
    BY <1>1, <2>2, Places, Registers
  <2>4. screen' = Append(screen, access.byte)
    BY <1>3, <2>2 DEF TerminalPrint
  <2> QED BY <1>1, <1>2, <2>1, <2>3, <2>4, WritePerformed DEF Port!PortNext
<1>4. CASE TerminalWait
  BY <1>2, <1>4, Quiet DEF TerminalWait, TerminalClock, memory, client
<1> QED BY <1>3, <1>4 DEF TerminalClock, terminal_clock

LEMMA FileSystemRefines ==
  ASSUME PortInv, PortInv', FileSystemClock
  PROVE  [Port!PortNext]_(Port!portVars)
<1> DEFINE F == "FILESYSTEM"
           a == access.address
<1>1. TypeOK /\ F \in Slave
  BY DEF PortInv, Slave
<1>2. UNCHANGED <<access, ram, bank_index, bank_ram, screen, abstract_cell>>
  BY DEF FileSystemClock, client, abstract_cell
<1>3. ASSUME Pending(F, "DS_FETCH"), UNCHANGED memory, NEW l, Done(F) \/ DoneWith(F, l)
      PROVE  Port!PortNext
  <2>1. a \in Address /\ Reads(F, a)
    BY <1>1, <1>3, ServingAccess DEF ReadListener, Access
  <2>2. ~Port!InRam(a) /\ ~Port!InWindow(a)
    BY <1>1, <2>1, Places, Registers
  <2> QED BY <1>1, <1>2, <1>3, <2>2, ReadPerformed DEF Port!PortNext
<1>4. ASSUME Pending(F, "DS_STORE"), Done(F)
      PROVE  Port!PortNext
  <2>1. a \in Address /\ Writes(F, a)
    BY <1>1, <1>4, ServingAccess DEF WriteListener, Access
  <2>2. /\ ~Port!InRam(a) /\ ~Port!InWindow(a)
        /\ a # MMIO_REGISTER_ADDRESS /\ a # MMIO_INPUT_REGISTER
    BY <1>1, <2>1, Places, Registers
  <2> QED BY <1>1, <1>2, <1>4, <2>2, WritePerformed DEF Port!PortNext
<1>5. CASE FsStoreMode \/ FsStoreInput
  BY <1>4, <1>5 DEF FsStoreMode, FsStoreInput
<1>6. CASE FsFetchMode \/ FsFetchOutput
  BY <1>2, <1>3, <1>6 DEF FsFetchMode, FsFetchOutput, memory
<1>7. CASE FsModifier
  BY <1>2, <1>3, <1>4, <1>7 DEF FsModifier, memory
<1>8. CASE FsWait
  BY <1>2, <1>8, Quiet DEF FsWait, memory
<1> QED BY <1>5, <1>6, <1>7, <1>8 DEF FileSystemClock, filesystem_clock

LEMMA TickerRefines ==
  ASSUME PortInv, TickerClock
  PROVE  [Port!PortNext]_(Port!portVars)
<1>1. dev'["CPU"] = dev["CPU"] /\ \A d \in Slave : dev'[d] = dev[d]
  BY DEF PortInv, TypeOK, DevicesTypeOK, TickerClock, ticker_clock, TickerFire,
         TickerWait, Slave, Device
<1> QED BY <1>1, Quiet DEF TickerClock, client

LEMMA BusRefines ==
  ASSUME PortInv, PortInv', BusClock
  PROVE  [Port!PortNext]_(Port!portVars)
<1>1. /\ TypeOK /\ OneRequest /\ DevicesTypeOK /\ port \in Mailbox
      /\ "CPU" \in Device /\ "TICKER" \in Device /\ Slave \subseteq Device
      /\ "CPU" \notin Slave /\ "TICKER" \notin Slave
  BY CpuMailboxes DEF PortInv, TypeOK, Slave, Device
<1>2. UNCHANGED <<access, memory, abstract_cell, bank_index, screen>>
  BY CellsStay DEF BusClock, client, memory
<1>3. \A d \in Slave : dev[d] \in Mailbox /\ dev'[d] \in Mailbox
  BY <1>1 DEF DevicesTypeOK, PortInv, TypeOK
<1>4. (access = None => abstract_phase = "idle" /\ abstract_reply = 0)'
  BY ViewIdle, PTL
<1>5. (access # None /\ ~Performed => abstract_phase = "requested" /\ abstract_reply = 0)'
  BY ViewRequested, PTL
<1>6. (access # None /\ port.processed = 1 =>
        /\ abstract_phase = "performed"
        /\ abstract_reply = IF access.op = "read" THEN port.data[0] ELSE 0)'
  BY ViewAnswered, PTL
\* A request is forwarded: the device has not processed it yet.
<1>7. ASSUME NEW d \in Slave, BusForwardFetch(d) \/ BusForwardStore(d)
      PROVE  UNCHANGED Port!portVars
  <2>1. port.state \in {"DS_FETCH", "DS_STORE"} /\ port.processed = 0
        /\ ~Serving(d)
        /\ IF port.state = "DS_FETCH" THEN ReadListener(d, port.address)
           ELSE WriteListener(d, port.address)
    BY <1>7 DEF BusForwardFetch, BusForwardStore, Requesting, Pending, Serving, port
  <2>2. \A e \in Slave : ~Serving(e)
    BY <1>1, <2>1, OneListener DEF OneRequest
  <2>3. abstract_phase = "requested" /\ abstract_reply = 0 /\ access # None
    BY <2>1, <2>2, PendingView, PendingAccess
  <2>4. port' = port /\ dev'[d].processed = 0 /\ \A e \in Slave \ {d} : dev'[e] = dev[e]
    BY <1>1, <1>3, <1>7 DEF BusForwardFetch, BusForwardStore, DevicesTypeOK, port, Mailbox
  <2>5. ~Performed'
    BY <2>1, <2>2, <2>4 DEF Performed, Serving
  <2> QED BY <1>2, <1>5, <2>3, <2>5 DEF Port!portVars
<1>8. ASSUME UNCHANGED dev
      PROVE  UNCHANGED Port!portVars
  BY <1>2, <1>8, Quiet
\* A reply is handed back: the line moves from the device to the CPU.
<1>9. ASSUME NEW d \in Slave, BusReplyFetch(d) \/ BusReplyStore(d)
      PROVE  UNCHANGED Port!portVars
  <2>1. Serving(d) /\ dev[d].processed = 1
    BY <1>9 DEF BusReplyFetch, BusReplyStore, Serving
  <2>2. port.state = dev[d].state /\ port.state \in {"DS_FETCH", "DS_STORE"}
    BY <1>1, <2>1 DEF OneRequest
  <2>3. /\ access # None
        /\ port.state = "DS_FETCH" <=> access.op = "read"
    BY <2>2, PendingAccess
  <2>4. /\ abstract_phase = "performed"
        /\ abstract_reply = IF access.op = "read" THEN dev[d].data[0] ELSE 0
    BY <1>1, <2>1, <2>3, ViewServed DEF ServedIsPerformed
  <2>5. port'.processed = 1 /\ (port.state = "DS_FETCH" => port'.data = dev[d].data)
    BY <1>1, <1>9, <2>2 DEF BusReplyFetch, BusReplyStore, DevicesTypeOK, port, Mailbox
  <2> QED BY <1>2, <1>6, <2>3, <2>4, <2>5 DEF Port!portVars
\* Nobody listens: the access is performed here and now.
<1>10. ASSUME BusOpen PROVE Port!PortPerform
  <2>1. /\ port.processed = 0
        /\ \/ port.state = "DS_FETCH" /\ OpenRead(port.address)
           \/ port.state = "DS_STORE" /\ OpenWrite(port.address)
        /\ port' = [port EXCEPT !.processed = 1, !.state = "DS_IDLE"]
    BY <1>1, <1>10 DEF BusOpen, Requesting, Pending, port, DevicesTypeOK
  <2> DEFINE a == access.address
  <2>2. /\ access # None /\ a \in Address /\ port.address = a
        /\ port.state = "DS_FETCH" <=> access.op = "read"
        /\ port.state = "DS_STORE" <=> access.op = "write"
    BY <2>1, PendingAccess
  <2>3. \A d \in Slave : ~Serving(d)
    BY <1>1, <2>1 DEF OneRequest, OpenRead, OpenWrite, ReadListener, WriteListener
  <2>4. abstract_phase = "requested" /\ abstract_reply = 0
    BY <2>1, <2>3, PendingView
  <2>5. port'.processed = 1 /\ port'.data \in Line
    BY <1>1, <2>1 DEF Mailbox
  <2>6. abstract_phase' = "performed"
        /\ abstract_reply' = IF access.op = "read" THEN port'.data[0] ELSE 0
    BY <1>2, <1>6, <2>2, <2>5
  <2>7. ~Port!InRam(a) /\ ~Port!InWindow(a)
    BY <1>1, <2>1, <2>2, Places, Registers DEF OpenRead, OpenWrite, Slave
  <2>8. access.op = "write" => a # MMIO_REGISTER_ADDRESS /\ a # MMIO_INPUT_REGISTER
    BY <2>1, <2>2 DEF OpenWrite, Writes, Slave
  <2>9. CASE access.op = "read"
    BY <1>2, <2>4, <2>5, <2>6, <2>7, <2>9, LineByte, PortMap
       DEF Port!PortPerform, Port!PerformRead
  <2>10. CASE access.op = "write"
    BY <1>2, <2>4, <2>6, <2>7, <2>8, <2>10, PortMap
       DEF Port!PortPerform, Port!PerformWrite
  <2> QED BY <2>1, <2>2, <2>9, <2>10
\* An interrupt reaches the CPU while it is idle, perhaps on an answer.
<1>11. ASSUME BusInterrupt PROVE UNCHANGED Port!portVars
  <2>1. /\ port.state = "DS_IDLE"
        /\ port'.processed = port.processed /\ port'.data = port.data
        /\ \A d \in Slave : dev'[d] = dev[d]
    BY <1>1, <1>11 DEF BusInterrupt, port, DevicesTypeOK, Mailbox
  <2>2. CASE access = None
    BY <1>2, <1>4, <2>2, ViewIdle DEF Port!portVars
  <2>3. CASE access # None
    <3>1. port.processed = 1
      BY <2>1, <2>3 DEF PortInv, AccessMatchesRequest
    <3> QED BY <1>2, <1>6, <2>1, <2>3, <3>1, ViewAnswered DEF Port!portVars
  <2> QED BY <2>2, <2>3
<1> QED BY <1>7, <1>8, <1>9, <1>10, <1>11
        DEF BusClock, bus_clock, BusListenerBusy, BusNothing, Port!PortNext

LEMMA InitRefines == system_create => Port!PortInit
<1> SUFFICES ASSUME system_create PROVE Port!PortInit
  OBVIOUS
<1>1. access = None /\ bank_index = 0 /\ screen = <<>>
  BY DEF system_create, BankInit, TerminalInit
<1>2. BANK_CAPACITY - 1 = Port!Space - 2 /\ Port!Address = Address
  BY BankSpace, PortMap DEF BANK_CAPACITY, BANK_SPACE, Port!Space
<1>3. Port!Places = {<<"ram", a>> : a \in Address}
                      \cup {<<"bank", c>> : c \in 0 .. BANK_CAPACITY - 1}
  BY <1>2 DEF Port!Places
<1>4. ram = [a \in Address |-> 0] /\ bank_ram = [c \in 0 .. BANK_CAPACITY - 1 |-> 0]
  BY DEF system_create, RamInit, BankInit
<1>5. abstract_cell = [p \in Port!Places |-> 0]
  <2> DEFINE D == {<<"ram", a>> : a \in Address}
                    \cup {<<"bank", c>> : c \in 0 .. BANK_CAPACITY - 1}
  <2>1. \A p \in D : (IF p[1] = "ram" THEN ram[p[2]] ELSE bank_ram[p[2]]) = 0
    BY <1>4
  <2>2. abstract_cell = [p \in D |-> IF p[1] = "ram" THEN ram[p[2]] ELSE bank_ram[p[2]]]
    BY DEF abstract_cell
  <2>3. Port!Places = D
    BY <1>3
  <2> HIDE DEF D
  <2> QED BY <2>1, <2>2, <2>3
<1> QED BY <1>1, <1>5, ViewIdle DEF Port!PortInit

LEMMA StepRefines ==
  PortInv /\ PortInv' /\ [system_clock]_vars => [Port!PortNext]_(Port!portVars)
<1> SUFFICES ASSUME PortInv, PortInv', [system_clock]_vars
             PROVE  [Port!PortNext]_(Port!portVars)
  OBVIOUS
<1>1. CASE UNCHANGED vars
  BY <1>1, Quiet DEF vars, client
<1> QED BY <1>1, CpuRefines, RamRefines, BankRefines, TerminalRefines,
           FileSystemRefines, TickerRefines, BusRefines DEF system_clock

\* The clocked devices, the bus and the mailboxes implement the atomic memory
\* for every memory map, every number of banks, every set of accesses and
\* every behaviour of the ticker: each access takes effect once, between its
\* request and its completion, and a read brings back the byte that is there
\* at that moment.
THEOREM FabricImplementsPort == Spec => ImplementsPort
<1>1. Spec => []PortInv
  BY PortInvariant
<1>2. system_create => Port!PortInit
  BY InitRefines
<1>3. PortInv /\ PortInv' /\ [system_clock]_vars => [Port!PortNext]_(Port!portVars)
  BY StepRefines
<1> QED BY <1>1, <1>2, <1>3, PTL DEF Spec, ImplementsPort, Port!PortSpec

-----------------------------------------------------------------------------
(* Interrupts come between accesses.                                       *)

\* Once the open bus has answered, the CPU's slot comes before the bus does to
\* the ticker.
OpenAnswerTaken ==
  access # None /\ port.state = "DS_IDLE" =>
    attended_device_index <= 1 + TurnsBefore[slot]

BetweenInv ==
  /\ TypeOK /\ OneRequest /\ AccessMatchesRequest
  /\ OpenAnswerTaken /\ InterruptsBetween

LEMMA InitBetween == system_create => OpenAnswerTaken /\ InterruptsBetween
  BY DEF system_create, OpenAnswerTaken, InterruptsBetween

LEMMA BeginBetween ==
  ASSUME DevicesTypeOK, NEW a \in Access, NEW p \in Mailbox, Begin(a, p)
  PROVE  /\ port' = Request(a, p) /\ port'.state \in {"DS_FETCH", "DS_STORE"}
         /\ port'.processed = 0
<1>1. port' = Request(a, p)
  BY DEF Begin, port, DevicesTypeOK, Device
<1> QED BY <1>1 DEF Request, Mailbox

\* What the CPU's slot does: wait, begin an access, or pause.
LEMMA CpuMoves ==
  ASSUME BetweenInv, CpuClock
  PROVE  \/ CpuWait
         \/ /\ \A d \in Slave : dev[d].state = "DS_IDLE" /\ dev'[d] = dev[d]
            /\ age' = 0
            /\ \/ port'.state \in {"DS_FETCH", "DS_STORE"} /\ port'.processed = 0
               \/ port'.state = "DS_IDLE" /\ access' = None
<1>1. DevicesTypeOK /\ "CPU" \in Device
  BY DEF BetweenInv, TypeOK, Device
<1>2. Accesses \subseteq Access /\ Pushes \subseteq Access
  BY ClientAssumption
<1>3. ASSUME NEW p \in Mailbox, p.state = "DS_IDLE", Pause(p)
      PROVE  port'.state = "DS_IDLE" /\ access' = None /\ age' = 0
  BY <1>1, <1>3 DEF Pause, port, DevicesTypeOK
<1>4. ASSUME NEW a \in Access, NEW p \in Mailbox, Begin(a, p)
      PROVE  port'.state \in {"DS_FETCH", "DS_STORE"} /\ port'.processed = 0
             /\ age' = 0
  BY <1>1, <1>4, BeginBetween DEF Begin
<1>5. port.state = "DS_INTERRUPT" => access = None
  BY DEF BetweenInv, InterruptsBetween
<1>6. TypeOK
  BY DEF BetweenInv
<1>7. CASE CpuStart \/ CpuTake \/ CpuDropInterrupt \/ CpuAcceptInterrupt
  <2>1. \A d \in Slave : dev[d].state = "DS_IDLE" /\ dev'[d] = dev[d]
    BY <1>1, <1>7, CpuStep, NobodyServes DEF BetweenInv
  <2>2. CASE CpuStart
    BY <1>2, <1>3, <1>4, <1>6, <2>1, <2>2, CpuMailboxes DEF CpuStart
  <2>3. CASE CpuTake
    BY <1>2, <1>3, <1>4, <1>6, <2>1, <2>3, CpuMailboxes DEF CpuTake
  <2>4. CASE CpuDropInterrupt
    BY <1>2, <1>3, <1>4, <1>5, <1>6, <2>1, <2>4, CpuMailboxes
       DEF CpuDropInterrupt, Answered
  <2>5. CASE CpuAcceptInterrupt
    BY <1>2, <1>3, <1>4, <1>6, <2>1, <2>5, CpuMailboxes DEF CpuAcceptInterrupt
  <2> QED BY <1>7, <2>2, <2>3, <2>4, <2>5
<1> QED BY <1>7 DEF CpuClock

LEMMA StepBetween ==
  BetweenInv /\ [system_clock]_vars => OpenAnswerTaken' /\ InterruptsBetween'
<1> SUFFICES ASSUME BetweenInv, [system_clock]_vars
             PROVE  OpenAnswerTaken' /\ InterruptsBetween'
  OBVIOUS
<1>1. /\ DevicesTypeOK /\ BusTypeOK /\ slot \in 1 .. Len(clock_order)
      /\ OneRequest /\ port \in Mailbox
  BY CpuMailboxes DEF BetweenInv, TypeOK
<1>2. CASE CpuClock
  <2>1. CASE CpuWait
    <3>1. port' = port /\ access' = access /\ port.state \in {"DS_FETCH", "DS_STORE"}
      BY <1>1, <2>1 DEF CpuWait, port, BetweenInv, AccessMatchesRequest, Mailbox,
                        DeviceState
    <3> QED BY <3>1 DEF OpenAnswerTaken, InterruptsBetween
  <2>2. CASE \/ port'.state \in {"DS_FETCH", "DS_STORE"}
             \/ port'.state = "DS_IDLE" /\ access' = None
    BY <2>2 DEF OpenAnswerTaken, InterruptsBetween
  <2> QED BY <1>2, <2>1, <2>2, CpuMoves
<1>3. CASE BusClock
  <2>1. /\ At("BUS") /\ slot' = next_slot /\ access' = access
        /\ attended_device_index' = next_attended
    BY <1>3 DEF BusClock, Slot, bus_clock, client
  <2>2. /\ TurnsBefore[slot] < Turns /\ Turns \in {4, 5}
        /\ TurnsBefore[slot'] = TurnsBefore[slot] + 1
        /\ TurnsBefore[slot] \in 0 .. Turns
    BY <1>1, <2>1, Turning
  <2>3. attended_device_index <= 1 + TurnsBefore[slot] =>
          /\ attended # "TICKER"
          /\ attended_device_index' <= 1 + TurnsBefore[slot']
    BY <1>1, <2>1, <2>2, Attending DEF Rounds
  <2>4. CASE port' = port
    BY <2>1, <2>3, <2>4 DEF BetweenInv, OpenAnswerTaken, InterruptsBetween
  <2>5. CASE BusOpen
    <3>1. attended = "CPU" /\ port'.state = "DS_IDLE"
      BY <1>1, <2>5 DEF BusOpen, Requesting, DevicesTypeOK, port, Device, Mailbox
    <3> QED BY <1>1, <2>1, <2>2, <3>1, Attending
            DEF OpenAnswerTaken, InterruptsBetween, Rounds
  <2>6. CASE BusInterrupt
    <3>1. attended = "TICKER" /\ port.state = "DS_IDLE"
      BY <2>6 DEF BusInterrupt, port
    <3>2. access = None
      BY <2>3, <3>1 DEF BetweenInv, OpenAnswerTaken
    <3> QED BY <2>1, <3>2 DEF OpenAnswerTaken, InterruptsBetween
  <2>7. ASSUME NEW d \in Slave, BusReplyFetch(d) \/ BusReplyStore(d)
        PROVE  port'.state \in {"DS_FETCH", "DS_STORE"}
    <3>1. port.state \in {"DS_FETCH", "DS_STORE"}
      BY <1>1, <2>7 DEF BusReplyFetch, BusReplyStore, OneRequest, Serving
    <3>2. port'.state = port.state
      BY <1>1, <2>7 DEF BusReplyFetch, BusReplyStore, DevicesTypeOK, port, Device,
                        Slave, Mailbox
    <3> QED BY <3>1, <3>2
  <2>8. ASSUME NEW d \in Slave,
               BusForwardFetch(d) \/ BusForwardStore(d) \/ BusListenerBusy(d)
        PROVE  port' = port
    BY <1>1, <2>8 DEF BusForwardFetch, BusForwardStore, BusListenerBusy,
                      DevicesTypeOK, port, Device, Slave
  <2>9. CASE BusNothing
    BY <2>4, <2>9 DEF BusNothing, port
  <2> QED BY <1>3, <2>4, <2>5, <2>6, <2>7, <2>8, <2>9
          DEF BusClock, bus_clock, OpenAnswerTaken, InterruptsBetween
<1>4. CASE \/ RamClock \/ TerminalClock \/ FileSystemClock \/ BankClock
           \/ TickerClock
  <2>1. port' = port /\ access' = access
    BY <1>1, <1>4, DevicesKeepPort
       DEF RamClock, TerminalClock, FileSystemClock, BankClock, TickerClock,
           client, port
  <2>2. /\ ~At("CPU") /\ ~At("BUS") /\ slot' = next_slot
        /\ attended_device_index' = attended_device_index
    BY <1>4 DEF RamClock, TerminalClock, FileSystemClock, BankClock, TickerClock,
                Slot, At
  <2>3. TurnsBefore[slot'] = TurnsBefore[slot]
    BY <1>1, <2>2, Turning
  <2> QED BY <2>1, <2>2, <2>3 DEF BetweenInv, OpenAnswerTaken, InterruptsBetween
<1>5. CASE UNCHANGED vars
  BY <1>5 DEF vars, client, port, BetweenInv, OpenAnswerTaken, InterruptsBetween
<1> QED BY <1>2, <1>3, <1>4, <1>5 DEF system_clock

LEMMA BetweenInvariant == Spec => []BetweenInv
<1>1. system_create => BetweenInv
  BY InitType, InitOneRequest, InitMatches, InitBetween DEF BetweenInv
<1>2. BetweenInv /\ [system_clock]_vars => BetweenInv'
  BY StepType, StepOneRequest, StepMatches, StepBetween DEF BetweenInv
<1> QED BY <1>1, <1>2, PTL DEF Spec

\* For every memory map and program, with the ticker or without: no interrupt
\* is delivered while the CPU is at an access, not even when the open bus has
\* answered it and the mailbox is idle.
THEOREM InterruptsComeBetween == Spec => []InterruptsBetween
<1>1. BetweenInv => InterruptsBetween
  BY DEF BetweenInv
<1> QED BY <1>1, BetweenInvariant, PTL

-----------------------------------------------------------------------------
(* Accesses are answered within two system clocks.                         *)

\* The clocks of the bus since the access was begun.
elapsed == Turns * age + TurnsBefore[slot]

\* Those after which device d has served it, and those before the bus then
\* comes to d, if the bus came to the CPU after f.
ServedBy(f, d) ==
  f + 1 + ((TurnsBefore[ClockedAt[d]] + 2 * Turns - f - 1) % Turns)
AnsweredBy(f, d) ==
  ServedBy(f, d) + ((Position[d] - 1 + 2 * Rounds + f - ServedBy(f, d)) % Rounds)

\* The access is where it must be by now, if the bus comes to the CPU after f.
Attends(f) == attended_device_index = 1 + ((elapsed + Rounds - f) % Rounds)
InTime(f, d) ==
  IF dev[d].processed = 0
  THEN \/ elapsed < ServedBy(f, d)
       \/ elapsed = ServedBy(f, d) /\ slot <= ClockedAt[d]
  ELSE elapsed <= AnsweredBy(f, d)
Timely(f) ==
  /\ Attends(f)
  /\ (\A d \in Slave : ~Serving(d)) => elapsed <= f
  /\ \A d \in Slave : Serving(d) => InTime(f, d)

Waiting == port.processed = 0 /\ port.state \in {"DS_FETCH", "DS_STORE"}

TimeInv == age <= 2 /\ (Waiting => \E f \in 0 .. Turns : Timely(f))

LEMMA Clocked ==
  \A d \in Slave :
    \/ d = "RAM" /\ ClockedAt[d] = 3 /\ TurnsBefore[ClockedAt[d]] = 1 /\ Position[d] = 2
    \/ d = "TERMINAL" /\ ClockedAt[d] = 5 /\ TurnsBefore[ClockedAt[d]] = 2 /\ Position[d] = 3
    \/ d = "FILESYSTEM" /\ ClockedAt[d] = 6 /\ TurnsBefore[ClockedAt[d]] = 2 /\ Position[d] = 5
    \/ /\ d = "MEMORY_BANK" /\ Position[d] = 4
       /\ ClockedAt[d] = 2 * Turns
       /\ TurnsBefore[ClockedAt[d]] = Turns - 1
<1>1. CASE TICKER_ACTIVE
  BY <1>1, Positions DEF Slave, ClockedAt, TurnsBefore, Turns
<1>2. CASE ~TICKER_ACTIVE
  BY <1>2, Positions DEF Slave, ClockedAt, TurnsBefore, Turns
<1> QED BY <1>1, <1>2

LEMMA TurnsType == Turns \in {4, 5} /\ Rounds = Turns + 1
  BY DEF Turns, Rounds

LEMMA Bounds ==
  ASSUME NEW f \in 0 .. Turns, NEW d \in Slave
  PROVE  /\ ServedBy(f, d) \in f + 1 .. f + Turns
         /\ ServedBy(f, d) % Turns = TurnsBefore[ClockedAt[d]]
         /\ AnsweredBy(f, d) \in ServedBy(f, d) .. 3 * Turns - 1
         /\ (AnsweredBy(f, d) + Rounds - f) % Rounds = Position[d] - 1
<1> DEFINE b == TurnsBefore[ClockedAt[d]]
           p == Position[d]
           s == ServedBy(f, d)
           a == AnsweredBy(f, d)
<1>1. \/ b = 1 /\ p = 2
      \/ b = 2 /\ p \in {3, 5}
      \/ b = Turns - 1 /\ p = 4
  BY Clocked
<1>2. /\ s = f + 1 + ((b + 2 * Turns - f - 1) % Turns)
      /\ a = s + ((p - 1 + 2 * Rounds + f - s) % Rounds)
  BY DEF ServedBy, AnsweredBy
<1>3. CASE Turns = 5
  <2> HIDE DEF b, p, s, a
  <2>1. \/ b = 1 /\ p = 2
        \/ b = 2 /\ p \in {3, 5}
        \/ b = 4 /\ p = 4
    BY <1>1, <1>3
  <2>2. f \in 0 .. 5 /\ b \in 1 .. 4 /\ p \in 2 .. 5
    BY <2>1, <1>3
  <2>3. s = f + 1 + ((b + 2 * 5 - f - 1) % 5)
    BY <1>2, <1>3
  <2>4. a = s + ((p - 1 + 2 * 6 + f - s) % 6)
    BY <1>2, <1>3 DEF Rounds
  <2>5. /\ s \in f + 1 .. f + 5 /\ s % 5 = b
        /\ a \in s .. 14 /\ (a + 6 - f) % 6 = p - 1
    <3>1. s \in f + 1 .. f + 5 /\ s % 5 = b
      BY ONLY <2>2, <2>3
    <3>2. a \in Int /\ (a + 6 - f) % 6 = p - 1
      BY ONLY <2>2, <2>4, <3>1
    <3>3. a \in s .. 14
      <4>1. CASE b = 1 /\ p = 2
        BY ONLY <2>2, <2>4, <3>1, <4>1
      <4>2. CASE b = 2 /\ p = 3
        BY ONLY <2>2, <2>4, <3>1, <4>2
      <4>3. CASE b = 2 /\ p = 5
        BY ONLY <2>2, <2>4, <3>1, <4>3
      <4>4. CASE b = 4 /\ p = 4
        BY ONLY <2>2, <2>4, <3>1, <4>4
      <4> QED BY <2>1, <4>1, <4>2, <4>3, <4>4
    <3> QED BY <3>1, <3>2, <3>3
  <2> QED BY <1>3, <2>5 DEF b, p, s, a, Rounds
<1>4. CASE Turns = 4
  <2> HIDE DEF b, p, s, a
  <2>1. \/ b = 1 /\ p = 2
        \/ b = 2 /\ p \in {3, 5}
        \/ b = 3 /\ p = 4
    BY <1>1, <1>4
  <2>2. f \in 0 .. 4 /\ b \in 1 .. 3 /\ p \in 2 .. 5
    BY <2>1, <1>4
  <2>3. s = f + 1 + ((b + 2 * 4 - f - 1) % 4)
    BY <1>2, <1>4
  <2>4. a = s + ((p - 1 + 2 * 5 + f - s) % 5)
    BY <1>2, <1>4 DEF Rounds
  <2>5. /\ s \in f + 1 .. f + 4 /\ s % 4 = b
        /\ a \in s .. 11 /\ (a + 5 - f) % 5 = p - 1
    <3>1. s \in f + 1 .. f + 4 /\ s % 4 = b
      BY ONLY <2>2, <2>3
    <3>2. a \in Int /\ (a + 5 - f) % 5 = p - 1
      BY ONLY <2>2, <2>4, <3>1
    <3>3. a \in s .. 11
      <4>1. CASE b = 1 /\ p = 2
        BY ONLY <2>2, <2>4, <3>1, <4>1
      <4>2. CASE b = 2 /\ p = 3
        BY ONLY <2>2, <2>4, <3>1, <4>2
      <4>3. CASE b = 2 /\ p = 5
        BY ONLY <2>2, <2>4, <3>1, <4>3
      <4>4. CASE b = 3 /\ p = 4
        BY ONLY <2>2, <2>4, <3>1, <4>4
      <4> QED BY <2>1, <4>1, <4>2, <4>3, <4>4
    <3> QED BY <3>1, <3>2, <3>3
  <2> QED BY <1>4, <2>5 DEF b, p, s, a, Rounds
<1> QED BY <1>3, <1>4, TurnsType

\* While nothing has answered, the bus forwards the request when it comes to
\* the CPU, and has nothing to hand back.
LEMMA BusForwards ==
  ASSUME BetweenInv, BusClock, Waiting'
  PROVE  /\ Waiting /\ port' = port
         /\ \/ /\ dev' = dev
               /\ attended = "CPU" => \E d \in Slave : Serving(d)
               /\ \A d \in Slave : Serving(d) /\ dev[d].processed = 1 => attended # d
            \/ /\ attended = "CPU" /\ \A d \in Slave : ~Serving(d)
               /\ \E d \in Slave : /\ Serving(d)' /\ dev'[d].processed = 0
                                   /\ \A e \in Slave : e # d => dev'[e] = dev[e]
<1>1. /\ DevicesTypeOK /\ OneRequest /\ port \in Mailbox
      /\ "CPU" \in Device /\ Slave \subseteq Device
      /\ "CPU" \notin Slave /\ "TICKER" \notin Slave
  BY CpuMailboxes DEF BetweenInv, TypeOK, Slave, Device
<1>2. ASSUME NEW d \in Slave, BusForwardFetch(d) \/ BusForwardStore(d)
      PROVE  /\ Waiting /\ port' = port /\ attended = "CPU"
             /\ \A e \in Slave : ~Serving(e)
             /\ Serving(d)' /\ dev'[d].processed = 0
             /\ \A e \in Slave : e # d => dev'[e] = dev[e]
  <2>1. \A e \in Slave : ~Serving(e)
    BY <1>1, <1>2, OneListener
       DEF BusForwardFetch, BusForwardStore, Requesting, Pending, OneRequest,
           Serving, port
  <2> QED BY <1>1, <1>2, <2>1
          DEF BusForwardFetch, BusForwardStore, Requesting, Pending, Waiting,
              Serving, port, DevicesTypeOK, Mailbox
<1>3. ASSUME NEW d \in Slave, BusListenerBusy(d)
      PROVE  /\ Waiting /\ dev' = dev /\ attended = "CPU" /\ Serving(d)
  BY <1>3 DEF BusListenerBusy, Requesting, Pending, Waiting, Serving, port
<1>4. ASSUME NEW d \in Slave, BusReplyFetch(d) \/ BusReplyStore(d) PROVE FALSE
  BY <1>1, <1>4 DEF BusReplyFetch, BusReplyStore, Waiting, port, DevicesTypeOK,
                    Mailbox
<1>5. CASE BusOpen
  BY <1>1, <1>5 DEF BusOpen, Waiting, port, DevicesTypeOK, Mailbox
<1>6. CASE BusInterrupt
  BY <1>1, <1>6 DEF BusInterrupt, Waiting, port, DevicesTypeOK, Mailbox
<1>7. CASE BusNothing
  BY <1>1, <1>7 DEF BusNothing, Pending, Waiting, Serving, port
<1> QED
  BY <1>1, <1>2, <1>3, <1>4, <1>5, <1>6, <1>7 DEF BusClock, bus_clock, port

\* A device that is clocked serves what it has been asked; nobody else moves.
LEMMA DeviceServes ==
  ASSUME BetweenInv,
         RamClock \/ TerminalClock \/ FileSystemClock \/ BankClock \/ TickerClock
  PROVE  /\ ~At("CPU") /\ ~At("BUS") /\ slot' = next_slot
         /\ port' = port /\ age' = age
         /\ attended_device_index' = attended_device_index
         /\ \A d \in Slave :
              /\ dev'[d].state = dev[d].state
              /\ ~At(d) => dev'[d] = dev[d]
              /\ At(d) /\ Serving(d) => dev'[d].processed = 1
<1>1. /\ DevicesTypeOK /\ OneRequest /\ \A d \in Slave : d \in Device
      /\ \A d \in Slave : Serving(d) => dev[d].state \in {"DS_FETCH", "DS_STORE"}
      /\ \A d \in Slave : dev[d] \in Mailbox
  BY DEF BetweenInv, TypeOK, OneRequest, DevicesTypeOK, Slave, Device
<1>2. /\ ~At("CPU") /\ ~At("BUS") /\ slot' = next_slot
      /\ port' = port /\ age' = age
      /\ attended_device_index' = attended_device_index
  BY <1>1, DevicesKeepPort
     DEF RamClock, TerminalClock, FileSystemClock, BankClock, TickerClock,
         Slot, At, client, port
<1>3. CASE RamClock
  BY <1>1, <1>2, <1>3
     DEF RamClock, Slot, At, ram_clock, RamFetch, RamStore, RamWait, Done,
         DoneWith, Pending, Serving, Slave, DevicesTypeOK, Mailbox
<1>4. CASE BankClock
  BY <1>1, <1>2, <1>4
     DEF BankClock, Slot, At, memory_bank_clock, BankFetch, BankSelect, BankStore,
         BankWait, Done, DoneWith, Pending, Serving, Slave, DevicesTypeOK, Mailbox
<1>5. CASE TerminalClock
  <2>1. Serving("TERMINAL") => dev["TERMINAL"].state = "DS_STORE"
    BY <1>1 DEF OneRequest, ReadListener, Reads, Slave
  <2> QED BY <1>1, <1>2, <1>5, <2>1
          DEF TerminalClock, Slot, At, terminal_clock, TerminalPrint,
              TerminalWait, Done, Pending, Serving, Slave, DevicesTypeOK, Mailbox
<1>6. CASE FileSystemClock
  BY <1>1, <1>2, <1>6
     DEF FileSystemClock, Slot, At, filesystem_clock, FsStoreMode, FsStoreInput,
         FsFetchMode, FsFetchOutput, FsModifier, FsWait, Done, DoneWith,
         Pending, Serving, Slave, DevicesTypeOK, Mailbox
<1>7. CASE TickerClock
  BY <1>1, <1>2, <1>7
     DEF TickerClock, Slot, At, ticker_clock, TickerFire, TickerWait, Slave,
         DevicesTypeOK
<1> QED BY <1>3, <1>4, <1>5, <1>6, <1>7

\* The bus goes on by one device.
LEMMA AttendsNext ==
  ASSUME NEW R \in {5, 6}, NEW e \in 0 .. 15, NEW f \in 0 .. R - 1
  PROVE  /\ 1 + ((e + 1 + R - f) % R) =
              IF 1 + ((e + R - f) % R) = R THEN 1 ELSE 2 + ((e + R - f) % R)
         /\ 1 + ((e + R - f) % R) = 1 /\ e <= f => e = f
         /\ 1 + ((f + R - f) % R) = 1
<1>1. CASE R = 5
  BY <1>1
<1>2. CASE R = 6
  BY <1>2
<1> QED BY <1>1, <1>2

LEMMA Remainder ==
  ASSUME NEW m \in 0 .. 2, NEW t \in 0 .. Turns
  PROVE  /\ Turns * m + t \in 0 .. 3 * Turns
         /\ (Turns * m + t) % Turns = IF t < Turns THEN t ELSE 0
<1>1. m \in {0, 1, 2}
  OBVIOUS
<1>2. CASE Turns = 4
  <2>1. t \in 0 .. 4
    BY <1>2
  <2>2. CASE m = 0
    BY <1>2, <2>1, <2>2
  <2>3. CASE m = 1
    BY <1>2, <2>1, <2>3
  <2>4. CASE m = 2
    BY <1>2, <2>1, <2>4
  <2> QED BY <1>1, <2>2, <2>3, <2>4
<1>3. CASE Turns = 5
  <2>1. t \in 0 .. 5
    BY <1>3
  <2>2. CASE m = 0
    BY <1>3, <2>1, <2>2
  <2>3. CASE m = 1
    BY <1>3, <2>1, <2>3
  <2>4. CASE m = 2
    BY <1>3, <2>1, <2>4
  <2> QED BY <1>1, <2>2, <2>3, <2>4
<1> QED BY <1>2, <1>3, TurnsType

\* How the clocks of the bus are counted.
LEMMA ElapsedNext ==
  ASSUME slot \in 1 .. Len(clock_order), age \in 0 .. 2
  PROVE  /\ elapsed \in 0 .. 3 * Turns
         /\ TurnsBefore[slot] < Turns => elapsed % Turns = TurnsBefore[slot]
         /\ slot = 1 => elapsed % Turns = 0 /\ elapsed = Turns * age + Turns
         /\ slot = 1 /\ slot' = next_slot /\ age' = age + 1 => elapsed' = elapsed
         /\ slot = 1 /\ slot' = next_slot /\ age' = 0 => elapsed' = 0
         /\ age' = age /\ TurnsBefore[slot'] = TurnsBefore[slot] => elapsed' = elapsed
         /\ age' = age /\ At("BUS") /\ slot' = next_slot =>
              /\ elapsed' = elapsed + 1
              /\ elapsed' % Turns = IF TurnsBefore[slot'] < Turns
                                    THEN TurnsBefore[slot'] ELSE 0
<1> DEFINE t == TurnsBefore[slot]
           u == TurnsBefore[slot']
<1>1. age \in {0, 1, 2} /\ Turns \in {4, 5} /\ t \in 0 .. Turns
  BY TurnsType, Turning
<1>2. /\ elapsed = Turns * age + t /\ elapsed' = Turns * age' + u
      /\ slot' = next_slot =>
           /\ u \in 0 .. Turns
           /\ slot = 1 => t = Turns /\ u = 0
           /\ At("BUS") => t < Turns /\ u = t + 1
  BY Turning DEF elapsed
<1>3. slot = 1 => t = Turns
  BY Turning
<1> HIDE DEF t, u
<1>4. /\ elapsed \in 0 .. 3 * Turns
      /\ elapsed % Turns = IF t < Turns THEN t ELSE 0
  BY <1>1, <1>2, Remainder
<1>5. age' = age /\ t = u => elapsed' = elapsed
  BY <1>2
<1>6. slot = 1 /\ slot' = next_slot /\ age' = age + 1 => elapsed' = elapsed
  BY <1>1, <1>2
<1>7. slot = 1 /\ slot' = next_slot /\ age' = 0 => elapsed' = 0
  BY <1>1, <1>2
<1>8. ASSUME age' = age, At("BUS"), slot' = next_slot
      PROVE  /\ elapsed' = elapsed + 1
             /\ elapsed' % Turns = IF u < Turns THEN u ELSE 0
  <2>1. u \in 0 .. Turns /\ u = t + 1
    BY <1>2, <1>8
  <2>2. elapsed' = elapsed + 1
    BY <1>1, <1>2, <1>8, <2>1
  <2>3. (Turns * age + u) % Turns = IF u < Turns THEN u ELSE 0
    BY <2>1, Remainder
  <2> QED BY <1>2, <1>8, <2>2, <2>3
<1> QED
  BY <1>1, <1>2, <1>3, <1>4, <1>5, <1>6, <1>7, <1>8 DEF t, u

TimingInv == BetweenInv /\ TimeInv

LEMMA InTimeBound ==
  ASSUME TimingInv, NEW f \in 0 .. Turns, Timely(f)
  PROVE  elapsed <= 3 * Turns - 1
<1>1. elapsed \in 0 .. 3 * Turns
  BY ElapsedNext DEF TimingInv, BetweenInv, TypeOK, TimeInv
<1>2. \A d \in Slave : /\ ServedBy(f, d) \in f + 1 .. f + Turns
                       /\ AnsweredBy(f, d) \in ServedBy(f, d) .. 3 * Turns - 1
  BY Bounds
<1>3. CASE \A d \in Slave : ~Serving(d)
  BY <1>1, <1>3, TurnsType DEF Timely
<1>4. ASSUME NEW d \in Slave, Serving(d) PROVE elapsed <= 3 * Turns - 1
  <2>1. InTime(f, d)
    BY <1>4 DEF Timely
  <2> QED BY <1>1, <1>2, <2>1, TurnsType DEF InTime
<1> QED BY <1>3, <1>4

\* The CPU waits for another system clock, or nobody serves and whatever it
\* begins is forwarded when the bus comes to it.
LEMMA CpuInTime ==
  ASSUME MaxAge >= 2, TimingInv, CpuClock
  PROVE  TimeInv'
<1>1. /\ BetweenInv /\ BusTypeOK /\ slot \in 1 .. Len(clock_order) /\ age \in 0 .. 2
      /\ port \in Mailbox
  BY CpuMailboxes DEF TimingInv, BetweenInv, TypeOK, TimeInv
<1>2. /\ slot = 1 /\ slot' = next_slot
      /\ attended_device_index' = attended_device_index
  BY <1>1, Turning DEF CpuClock, Slot
<1>3. CASE CpuWait
  <2>1. Waiting /\ dev' = dev /\ age' = age + 1
    BY <1>1, <1>3, ClientAssumption
       DEF CpuWait, Waiting, BetweenInv, AccessMatchesRequest, Mailbox, DeviceState
  <2>2. elapsed' = elapsed
    BY <1>1, <1>2, <2>1, ElapsedNext
  <2>3. PICK f \in 0 .. Turns : Timely(f)
    BY <2>1 DEF TimingInv, TimeInv
  <2>4. age' <= 2
    <3>1. elapsed <= 3 * Turns - 1
      BY <2>3, InTimeBound
    <3>2. elapsed = Turns * age + Turns
      BY <1>1, <1>2, ElapsedNext
    <3>3. age # 2
      BY <3>1, <3>2, TurnsType
    <3> QED BY <1>1, <2>1, <3>3
  <2>5. ASSUME NEW d \in Slave, Serving(d)'
        PROVE  InTime(f, d)'
    <3>1. InTime(f, d)
      BY <2>1, <2>3, <2>5 DEF Timely, Serving
    <3>2. elapsed # ServedBy(f, d)
      <4>1. ServedBy(f, d) % Turns = TurnsBefore[ClockedAt[d]]
        BY Bounds
      <4>2. TurnsBefore[ClockedAt[d]] # 0
        BY Clocked, TurnsType
      <4>3. elapsed % Turns = 0
        BY <1>1, <1>2, ElapsedNext
      <4> QED BY <4>1, <4>2, <4>3
    <3> QED BY <2>1, <2>2, <3>1, <3>2 DEF InTime
  <2>6. Timely(f)'
    BY <1>2, <2>1, <2>2, <2>3, <2>5 DEF Timely, Attends, Serving
  <2> QED BY <2>4, <2>6 DEF TimeInv
<1>4. CASE /\ \A d \in Slave : dev[d].state = "DS_IDLE" /\ dev'[d] = dev[d]
           /\ age' = 0
  <2>1. elapsed' = 0
    BY <1>1, <1>2, <1>4, ElapsedNext
  <2>2. attended_device_index \in 1 .. Rounds
    BY <1>1, Attending
  <2>3. PICK f \in 0 .. Turns :
          attended_device_index = 1 + ((0 + Rounds - f) % Rounds)
    <3> DEFINE g == IF attended_device_index = 1 THEN 0
                    ELSE Rounds + 1 - attended_device_index
    <3>1. g \in 0 .. Turns
      BY <2>2, TurnsType
    <3>2. attended_device_index = 1 + ((0 + Rounds - g) % Rounds)
      <4>1. CASE Rounds = 5
        BY <2>2, <4>1
      <4>2. CASE Rounds = 6
        BY <2>2, <4>2
      <4> QED BY <4>1, <4>2, TurnsType
    <3> QED BY <3>1, <3>2
  <2>4. \A d \in Slave : ~Serving(d)'
    BY <1>4 DEF Serving
  <2>5. Timely(f)'
    BY <1>2, <2>1, <2>3, <2>4 DEF Timely, Attends
  <2> QED BY <1>4, <2>5 DEF TimeInv
<1> QED BY <1>1, <1>3, <1>4, CpuMoves

\* The bus forwards the request in time, and hands the answer back in time.
LEMMA BusInTime ==
  ASSUME TimingInv, BusClock
  PROVE  TimeInv'
<1>1. /\ BetweenInv /\ BusTypeOK /\ slot \in 1 .. Len(clock_order) /\ age \in 0 .. 2
      /\ DevicesTypeOK /\ \A d \in Slave : d \in Device
  BY DEF TimingInv, BetweenInv, TypeOK, TimeInv, Device
<1>2. /\ At("BUS") /\ slot' = next_slot /\ age' = age
      /\ attended_device_index' = next_attended
  BY DEF BusClock, Slot, bus_clock, client
<1> SUFFICES ASSUME Waiting'
             PROVE  \E f \in 0 .. Turns : Timely(f)'
  BY <1>1, <1>2 DEF TimeInv
<1>3. Waiting
  BY <1>1, BusForwards
<1>4. PICK f \in 0 .. Turns : Timely(f)
  BY <1>3 DEF TimingInv, TimeInv
<1>5. /\ elapsed \in 0 .. 3 * Turns /\ elapsed <= 3 * Turns - 1
      /\ elapsed' = elapsed + 1
      /\ elapsed % Turns = TurnsBefore[slot]
      /\ elapsed' % Turns = IF TurnsBefore[slot'] < Turns THEN TurnsBefore[slot'] ELSE 0
  BY <1>1, <1>2, <1>4, ElapsedNext, Turning, InTimeBound
<1>6. Attends(f)'
  <2>1. attended_device_index = 1 + ((elapsed + Rounds - f) % Rounds)
    BY <1>4 DEF Timely, Attends
  <2>2. attended_device_index' = IF attended_device_index = Rounds THEN 1
                                 ELSE attended_device_index + 1
    BY <1>1, <1>2, Attending
  <2>3. Rounds \in {5, 6} /\ elapsed \in 0 .. 15 /\ f \in 0 .. Rounds - 1
    BY <1>5, TurnsType
  <2>4. attended_device_index' = 1 + ((elapsed + 1 + Rounds - f) % Rounds)
    BY <1>1, <2>1, <2>2, <2>3, AttendsNext, Attending
  <2> QED BY <1>5, <2>4 DEF Attends
<1>7. attended = "CPU" <=> (elapsed + Rounds - f) % Rounds = 0
  BY <1>1, <1>4, <1>5, Attending, TurnsType DEF Timely, Attends
<1>8. CASE /\ dev' = dev
           /\ attended = "CPU" => \E d \in Slave : Serving(d)
           /\ \A d \in Slave : Serving(d) /\ dev[d].processed = 1 => attended # d
  <2>1. ASSUME \A d \in Slave : ~Serving(d) PROVE elapsed' <= f
    <3>1. elapsed <= f /\ attended # "CPU"
      BY <1>4, <1>8, <2>1 DEF Timely
    <3>2. elapsed # f
      BY <1>7, <3>1, AttendsNext, TurnsType
    <3> QED BY <1>5, <3>1, <3>2
  <2>2. ASSUME NEW d \in Slave, Serving(d)
        PROVE  InTime(f, d)'
    <3>1. InTime(f, d)
      BY <1>4, <2>2 DEF Timely
    <3>2. /\ ServedBy(f, d) \in Int /\ AnsweredBy(f, d) \in Int
          /\ ServedBy(f, d) % Turns = TurnsBefore[ClockedAt[d]]
          /\ (AnsweredBy(f, d) + Rounds - f) % Rounds = Position[d] - 1
      BY Bounds
    <3>3. dev[d].processed = 0 => elapsed < ServedBy(f, d)
      BY <1>1, <1>2, <1>5, <3>1, <3>2, Turning DEF InTime
    <3>4. TurnsBefore[ClockedAt[d]] \in 1 .. Turns - 1
      BY Clocked, TurnsType
    <3>5. elapsed' = ServedBy(f, d) => slot' <= ClockedAt[d]
      BY <1>1, <1>2, <1>5, <3>2, <3>4, Turning
    <3>6. dev[d].processed # 0 => elapsed # AnsweredBy(f, d)
      <4>1. dev[d].processed # 0 => attended # d
        BY <1>1, <1>8, <2>2 DEF DevicesTypeOK, Mailbox
      <4>2. elapsed = AnsweredBy(f, d) => attended_device_index = Position[d]
        BY <1>4, <3>2, Clocked DEF Timely, Attends
      <4> QED BY <1>1, <4>1, <4>2, Attending
    <3> QED BY <1>5, <1>8, <3>1, <3>2, <3>3, <3>5, <3>6 DEF InTime
  <2> QED BY <1>6, <1>8, <2>1, <2>2 DEF Timely, Serving
<1>9. ASSUME attended = "CPU", \A d \in Slave : ~Serving(d),
             NEW d \in Slave, Serving(d)', dev'[d].processed = 0,
             \A e \in Slave : e # d => dev'[e] = dev[e]
      PROVE  Timely(f)'
  <2>1. elapsed = f
    BY <1>4, <1>5, <1>7, <1>9, AttendsNext, TurnsType DEF Timely
  <2>2. /\ ServedBy(f, d) \in Int /\ ServedBy(f, d) >= f + 1
        /\ ServedBy(f, d) % Turns = TurnsBefore[ClockedAt[d]]
    BY Bounds
  <2>3. TurnsBefore[ClockedAt[d]] \in 1 .. Turns - 1
    BY Clocked, TurnsType
  <2>4. ASSUME elapsed' = ServedBy(f, d) PROVE slot' <= ClockedAt[d]
    <3>1. TurnsBefore[slot'] \in 0 .. Turns
      BY <1>1, <1>2, Turning
    <3>2. TurnsBefore[slot'] = TurnsBefore[ClockedAt[d]]
      BY <1>5, <2>2, <2>3, <2>4, <3>1, TurnsType
    <3> QED BY <1>1, <1>2, <3>2, Turning
  <2>5. InTime(f, d)'
    BY <1>5, <1>9, <2>1, <2>2, <2>4 DEF InTime
  <2> QED BY <1>6, <1>9, <2>5 DEF Timely, Serving
<1> QED BY <1>1, <1>8, <1>9, BusForwards

\* A device serves its request in the first of its slots.
LEMMA DevicesInTime ==
  ASSUME TimingInv,
         RamClock \/ TerminalClock \/ FileSystemClock \/ BankClock \/ TickerClock
  PROVE  TimeInv'
<1>1. /\ BetweenInv /\ slot \in 1 .. Len(clock_order) /\ age \in 0 .. 2
  BY DEF TimingInv, BetweenInv, TypeOK, TimeInv
<1>2. /\ ~At("CPU") /\ ~At("BUS") /\ slot' = next_slot
      /\ port' = port /\ age' = age
      /\ attended_device_index' = attended_device_index
      /\ \A d \in Slave :
           /\ dev'[d].state = dev[d].state
           /\ ~At(d) => dev'[d] = dev[d]
           /\ At(d) /\ Serving(d) => dev'[d].processed = 1
  BY <1>1, DeviceServes
<1> SUFFICES ASSUME Waiting'
             PROVE  \E f \in 0 .. Turns : Timely(f)'
  BY <1>1, <1>2 DEF TimeInv
<1>3. PICK f \in 0 .. Turns : Timely(f)
  BY <1>2 DEF TimingInv, TimeInv, Waiting
<1>4. elapsed' = elapsed /\ elapsed \in Int
  BY <1>1, <1>2, ElapsedNext, Turning
<1>5. ASSUME NEW d \in Slave, Serving(d)
      PROVE  InTime(f, d)'
  <2>1. InTime(f, d)
    BY <1>3, <1>5 DEF Timely
  <2>2. ServedBy(f, d) \in Int /\ AnsweredBy(f, d) \in Int
        /\ ServedBy(f, d) <= AnsweredBy(f, d)
    BY Bounds
  <2>3. CASE At(d)
    BY <1>2, <1>4, <1>5, <2>1, <2>2, <2>3 DEF InTime
  <2>4. CASE ~At(d)
    <3>1. slot <= ClockedAt[d] => slot' <= ClockedAt[d]
      BY <1>1, <1>2, <2>4, Turning, Clocked, TurnsType
    <3> QED BY <1>2, <1>4, <2>1, <2>4, <3>1 DEF InTime
  <2> QED BY <2>3, <2>4
<1> QED BY <1>2, <1>3, <1>4, <1>5 DEF Timely, Attends, Serving

\* For every memory map and program, with the ticker or without: no access
\* waits for more than two system clocks, whatever the bus was at when it was
\* begun.
THEOREM AccessesAnswered ==
  ASSUME MaxAge >= 2
  PROVE  Spec => []AnsweredInTime
<1>1. system_create => TimeInv
  BY DEF system_create, DevicesInit, device_create, Device, TimeInv, Waiting, port
<1>2. TimingInv /\ [system_clock]_vars => TimeInv'
  <2>1. CASE UNCHANGED vars
    <3> SUFFICES ASSUME TimingInv PROVE TimeInv'
      BY <2>1
    <3> USE <2>1 DEF vars, client
    <3>1. \A f : Timely(f)' = Timely(f)
      BY DEF Timely, Attends, InTime, Serving, elapsed
    <3> QED BY <3>1 DEF TimingInv, TimeInv, Waiting, port
  <2> QED BY <2>1, CpuInTime, BusInTime, DevicesInTime DEF system_clock
<1>3. BetweenInv /\ TimeInv => AnsweredInTime
  BY ClientAssumption DEF BetweenInv, TypeOK, TimeInv, AnsweredInTime
<1> QED BY <1>1, <1>2, <1>3, BetweenInvariant, PTL DEF Spec, TimingInv

-----------------------------------------------------------------------------
(***************************************************************************)
(* The debug hooks of system_clock_debug, for any hooks on any number of   *)
(* bytes, set at any clocks.  What is saved lies behind what the hooks     *)
(* before have saved, and nothing else says where: setting a hook must     *)
(* move nobody's bytes, and saving all anew must put each where it was.    *)
(***************************************************************************)
\* Induction over the natural numbers, for a set instead of a predicate.
LEMMA HookInduction ==
  ASSUME NEW S, 0 \in S, \A n \in Nat : n \in S => n + 1 \in S
  PROVE  Nat \subseteq S
<1> SUFFICES ASSUME Nat \ S # {}
             PROVE  FALSE
  OBVIOUS
<1>1. PICK n \in Nat \ S : \A m \in Nat \ S : ~(<<m, n>> \in OpToRel(<, Nat))
  <2>1. IsWellFoundedOn(OpToRel(<, Nat), Nat)
    BY NatLessThanWellFounded
  <2>2. Nat \ S \subseteq Nat
    OBVIOUS
  <2> HIDE DEF OpToRel
  <2> QED BY <2>1, <2>2, WFMin, Zenon
<1>2. n # 0 /\ n - 1 \in Nat /\ n - 1 < n
  OBVIOUS
<1>3. <<n - 1, n>> \in OpToRel(<, Nat)
  BY <1>2 DEF OpToRel
<1>4. n - 1 \in S
  BY <1>1, <1>2, <1>3
<1> QED BY <1>2, <1>4

\* The hooks that are set, and how many of them a clock has looked at.
HooksSet ==
  /\ hook \in Seq(HookSet) /\ Len(hook) \in Nat /\ checked \in 0 .. Len(hook)
  /\ cells \in [Cell -> Byte]

\* What the hooks that are set are.
LEMMA HookFacts ==
  ASSUME HooksSet, NEW k \in 1 .. Len(hook)
  PROVE  /\ hook[k] \in HookSet /\ hook[k].target \in Nat /\ hook[k].target_bytes \in Nat
         /\ hook[k].target + hook[k].target_bytes <= CELLS
         /\ Saves(hook[k]) \in Nat
<1>1. hook[k] \in HookSet
  BY DEF HooksSet
<1>2. hook[k] \in Hook
  BY <1>1, HookAssumption
<1>3. /\ hook[k].target \in Cell /\ hook[k].target_bytes \in 1 .. CELLS
      /\ hook[k].target + hook[k].target_bytes <= CELLS
  BY <1>1, <1>2, HookAssumption DEF Hook
<1>4. CELLS \in Nat
  BY HookAssumption
<1>5. hook[k].target \in Nat /\ hook[k].target_bytes \in Nat
  BY <1>3, <1>4 DEF Cell
<1> QED BY <1>1, <1>3, <1>5 DEF Saves

\* A hook's target is as many bytes as it says.
LEMMA WatchedBytes ==
  ASSUME NEW h, h.target \in Nat, h.target_bytes \in Nat,
         h.target + h.target_bytes <= CELLS, NEW m \in [Cell -> Byte]
  PROVE  Watched(h, m) \in Seq(Byte) /\ Len(Watched(h, m)) = h.target_bytes
<1> DEFINE s == [i \in 1 .. CELLS |-> m[i - 1]]
           a == h.target + 1
           b == h.target + h.target_bytes
<1>1. CELLS \in Nat /\ a \in Int /\ b \in Int /\ b <= CELLS
  BY HookAssumption
<1>2. \A i \in a .. b : s[i] \in Byte
  <2> SUFFICES ASSUME NEW i \in a .. b
               PROVE  s[i] \in Byte
    OBVIOUS
  <2>1. i \in 1 .. CELLS /\ i - 1 \in Cell
    BY <1>1 DEF Cell
  <2> QED BY <2>1
<1> HIDE DEF s
<1>3. SubSeq(s, a, b) \in Seq(Byte) /\ Len(SubSeq(s, a, b)) = IF a <= b THEN b - a + 1 ELSE 0
  <2> HIDE DEF a, b
  <2> QED BY <1>1, <1>2, SubSeqProperties
<1>4. (IF a <= b THEN b - a + 1 ELSE 0) = h.target_bytes
  OBVIOUS
<1>5. SubSeq(s, a, b) \in Seq(Byte) /\ Len(SubSeq(s, a, b)) = h.target_bytes
  <2> HIDE DEF a, b
  <2> QED BY <1>3, <1>4
<1> QED BY <1>5 DEF Watched, s

\* The offsets, unrolled.
LEMMA OffsetsAre ==
  ASSUME Len(hook) \in Nat
  PROVE  Offsets = [k \in 0 .. Len(hook) |->
                      IF k = 0 THEN 0 ELSE Offsets[k - 1] + Saves(hook[k])]
<1> DEFINE Is(w, m) == w = [k \in 0 .. m |-> IF k = 0 THEN 0 ELSE w[k - 1] + Saves(hook[k])]
           S == {m \in Nat : \E w : Is(w, m)}
<1>1. 0 \in S
  <2> DEFINE w == [k \in 0 .. 0 |-> 0]
  <2>1. Is(w, 0)
    OBVIOUS
  <2> HIDE DEF w, Is
  <2> QED BY <2>1
<1>2. ASSUME NEW m \in Nat, m \in S
      PROVE  m + 1 \in S
  <2>1. PICK w : Is(w, m)
    BY <1>2
  <2> DEFINE x == [k \in 0 .. m + 1 |-> IF k = m + 1 THEN w[m] + Saves(hook[m + 1]) ELSE w[k]]
  <2> HIDE DEF Saves
  <2>2. \A k \in 0 .. m + 1 : x[k] = IF k = 0 THEN 0 ELSE x[k - 1] + Saves(hook[k])
    <3> SUFFICES ASSUME NEW k \in 0 .. m + 1
                 PROVE  x[k] = IF k = 0 THEN 0 ELSE x[k - 1] + Saves(hook[k])
      OBVIOUS
    <3>1. CASE k = m + 1
      BY <3>1
    <3>2. CASE k # m + 1
      <4>1. k \in 0 .. m
        BY <3>2
      <4>2. w[k] = IF k = 0 THEN 0 ELSE w[k - 1] + Saves(hook[k])
        BY <2>1, <4>1
      <4>3. k # 0 => k - 1 \in 0 .. m + 1 /\ k - 1 # m + 1
        BY <4>1
      <4>4. k # 0 => x[k - 1] = w[k - 1]
        BY <4>3
      <4> QED BY <3>2, <4>2, <4>4
    <3> QED BY <3>1, <3>2
  <2>3. x = [k \in 0 .. m + 1 |-> x[k]]
    OBVIOUS
  <2> HIDE DEF x
  <2>4. Is(x, m + 1)
    BY <2>2, <2>3
  <2> QED BY <2>4
<1> HIDE DEF S
<1>3. Len(hook) \in S
  BY <1>1, <1>2, HookInduction
<1>4. \E w : Is(w, Len(hook))
  BY <1>3 DEF S
<1>5. Offsets = CHOOSE w : Is(w, Len(hook))
  BY DEF Offsets
<1> HIDE DEF Is
<1>6. Is(Offsets, Len(hook))
  BY <1>4, <1>5
<1> QED BY <1>6 DEF Is

\* Where the bytes of a hook lie: behind those of the hooks before it.
OffsetsOK ==
  /\ Offsets[0] = 0
  /\ \A k \in 0 .. Len(hook) : Offsets[k] \in Nat
  /\ \A k \in 1 .. Len(hook) : Offsets[k] = Offsets[k - 1] + Saves(hook[k])
  /\ \A k \in 0 .. Len(hook) : \A i \in 1 .. k :
       Offsets[i - 1] + Saves(hook[i]) <= Offsets[k]

LEMMA Offset == HooksSet => OffsetsOK
<1> SUFFICES ASSUME HooksSet
             PROVE  OffsetsOK
  OBVIOUS
<1>1. Len(hook) \in Nat
  BY DEF HooksSet
<1>2. /\ Offsets[0] = 0
      /\ \A k \in 1 .. Len(hook) : Offsets[k] = Offsets[k - 1] + Saves(hook[k])
  <2> DEFINE f == Offsets
  <2> HIDE DEF f, Saves
  <2>1. f = [k \in 0 .. Len(hook) |-> IF k = 0 THEN 0 ELSE f[k - 1] + Saves(hook[k])]
    BY <1>1, OffsetsAre DEF f
  <2>2. 0 \in 0 .. Len(hook) /\ \A k \in 1 .. Len(hook) : k \in 0 .. Len(hook) /\ k # 0
    BY <1>1
  <2> QED BY <2>1, <2>2 DEF f
<1>3. \A k \in 1 .. Len(hook) : Saves(hook[k]) \in Nat
  BY HookFacts
<1> DEFINE S == {k \in Nat : k <= Len(hook) =>
                    /\ \A j \in 0 .. k : Offsets[j] \in Nat
                    /\ \A i \in 1 .. k : Offsets[i - 1] + Saves(hook[i]) <= Offsets[k]}
<1> HIDE DEF Offsets, Saves
<1>4. 0 \in S
  BY <1>2
<1>5. ASSUME NEW k \in Nat, k \in S
      PROVE  k + 1 \in S
  <2> SUFFICES ASSUME k + 1 <= Len(hook)
               PROVE  /\ \A j \in 0 .. k + 1 : Offsets[j] \in Nat
                      /\ \A i \in 1 .. k + 1 : Offsets[i - 1] + Saves(hook[i]) <= Offsets[k + 1]
    OBVIOUS
  <2>1. k + 1 \in 1 .. Len(hook) /\ (k + 1) - 1 = k /\ k <= Len(hook)
    BY <1>1
  <2>2. Offsets[k + 1] = Offsets[k] + Saves(hook[k + 1]) /\ Saves(hook[k + 1]) \in Nat
    BY <1>2, <1>3, <2>1
  <2>3. Offsets[k] \in Nat /\ \A j \in 0 .. k : Offsets[j] \in Nat
    BY <1>5, <2>1
  <2>4. ASSUME NEW i \in 1 .. k + 1
        PROVE  Offsets[i - 1] + Saves(hook[i]) <= Offsets[k + 1]
    <3>1. CASE i = k + 1
      BY <2>1, <2>2, <2>3, <3>1
    <3>2. CASE i # k + 1
      <4>1. i \in 1 .. k /\ i \in 1 .. Len(hook) /\ i - 1 \in Nat /\ i - 1 <= k /\ i - 1 + 1 = i
        BY <1>1, <2>1, <3>2
      <4>2. Offsets[i - 1] + Saves(hook[i]) <= Offsets[k]
        BY <1>5, <2>1, <4>1
      <4>3. Saves(hook[i]) \in Nat
        BY <1>3, <4>1
      <4>4. Offsets[i - 1] \in Nat
        BY <1>5, <2>1, <4>1
      <4> QED BY <2>2, <2>3, <4>2, <4>3, <4>4
    <3> QED BY <3>1, <3>2
  <2>5. \A j \in 0 .. k + 1 : j \in 0 .. k \/ j = k + 1
    OBVIOUS
  <2> QED BY <2>2, <2>3, <2>4, <2>5
<1> HIDE DEF S
<1>6. Nat \subseteq S
  BY <1>4, <1>5, HookInduction
<1>7. ASSUME NEW k \in 0 .. Len(hook)
      PROVE  /\ Offsets[k] \in Nat
             /\ \A i \in 1 .. k : Offsets[i - 1] + Saves(hook[i]) <= Offsets[k]
  BY <1>1, <1>6 DEF S
<1> QED BY <1>2, <1>7 DEF OffsetsOK

\* What is saved, unrolled.
LEMMA SavedIs ==
  ASSUME Len(hook) \in Nat, NEW m
  PROVE  \E w : /\ w = [k \in 0 .. Len(hook) |->
                          IF k = 0 THEN <<>>
                          ELSE w[k - 1] \o SubSeq(Watched(hook[k], m), 1, Saves(hook[k]))]
                /\ Saved(m) = w[Len(hook)]
<1> DEFINE Part(k) == SubSeq(Watched(hook[k], m), 1, Saves(hook[k]))
           Is(w, n) == w = [k \in 0 .. n |-> IF k = 0 THEN <<>> ELSE w[k - 1] \o Part(k)]
           S == {n \in Nat : \E w : Is(w, n)}
<1>1. Saved(m) = (CHOOSE w : Is(w, Len(hook)))[Len(hook)]
  BY DEF Saved
<1> HIDE DEF Part
<1>2. 0 \in S
  <2> DEFINE w == [k \in 0 .. 0 |-> <<>>]
  <2>1. Is(w, 0)
    OBVIOUS
  <2> HIDE DEF w, Is
  <2> QED BY <2>1
<1>3. ASSUME NEW n \in Nat, n \in S
      PROVE  n + 1 \in S
  <2>1. PICK w : Is(w, n)
    BY <1>3
  <2> DEFINE x == [k \in 0 .. n + 1 |-> IF k = n + 1 THEN w[n] \o Part(n + 1) ELSE w[k]]
  <2>2. \A k \in 0 .. n + 1 : x[k] = IF k = 0 THEN <<>> ELSE x[k - 1] \o Part(k)
    <3> SUFFICES ASSUME NEW k \in 0 .. n + 1
                 PROVE  x[k] = IF k = 0 THEN <<>> ELSE x[k - 1] \o Part(k)
      OBVIOUS
    <3>1. CASE k = n + 1
      BY <3>1
    <3>2. CASE k # n + 1
      <4>1. k \in 0 .. n
        BY <3>2
      <4>2. w[k] = IF k = 0 THEN <<>> ELSE w[k - 1] \o Part(k)
        BY <2>1, <4>1
      <4>3. k # 0 => k - 1 \in 0 .. n + 1 /\ k - 1 # n + 1
        BY <4>1
      <4>4. k # 0 => x[k - 1] = w[k - 1]
        BY <4>3
      <4> QED BY <3>2, <4>2, <4>4
    <3> QED BY <3>1, <3>2
  <2>3. x = [k \in 0 .. n + 1 |-> x[k]]
    OBVIOUS
  <2> HIDE DEF x
  <2>4. Is(x, n + 1)
    BY <2>2, <2>3
  <2> HIDE DEF Is
  <2> QED BY <2>4
<1> HIDE DEF S
<1>4. Len(hook) \in S
  BY <1>2, <1>3, HookInduction
<1>5. \E w : Is(w, Len(hook))
  BY <1>4 DEF S
<1> HIDE DEF Is
<1>6. Is(CHOOSE w : Is(w, Len(hook)), Len(hook))
  BY <1>5
<1> QED BY <1>1, <1>6 DEF Is, Part

\* Bytes saved by k hooks are their targets, each at its offset.
Holds(bytes, k, m) ==
  /\ bytes \in Seq(Byte) /\ Len(bytes) = Offsets[k]
  /\ \A i \in 1 .. k : hook[i].condition = "HC_CHANGE" =>
       \A j \in 1 .. hook[i].target_bytes : bytes[Offsets[i - 1] + j] = Watched(hook[i], m)[j]

\* One hook more.
LEMMA HoldsMore ==
  ASSUME HooksSet, NEW m \in [Cell -> Byte],
         NEW k \in Nat, k + 1 <= Len(hook), NEW bytes, Holds(bytes, k, m)
  PROVE  Holds(bytes \o SubSeq(Watched(hook[k + 1], m), 1, Saves(hook[k + 1])), k + 1, m)
<1> DEFINE h == hook[k + 1]
           w == Watched(h, m)
           part == SubSeq(w, 1, Saves(h))
           all == bytes \o part
<1>1. Len(hook) \in Nat /\ k + 1 \in 1 .. Len(hook) /\ k \in 0 .. Len(hook) /\ (k + 1) - 1 = k
  BY DEF HooksSet
<1>2. /\ h.target \in Nat /\ h.target_bytes \in Nat /\ h.target + h.target_bytes <= CELLS
      /\ Saves(h) \in Nat
  BY <1>1, HookFacts
<1>3. w \in Seq(Byte) /\ Len(w) = h.target_bytes
  BY <1>2, WatchedBytes
<1>4. Offsets[k] \in Nat /\ Offsets[k + 1] = Offsets[k] + Saves(h)
  BY <1>1, Offset DEF OffsetsOK
<1>5. Saves(h) = h.target_bytes \/ Saves(h) = 0
  BY DEF Saves
<1>6. h.condition = "HC_CHANGE" => Saves(h) = h.target_bytes
  BY DEF Saves
<1>7. /\ part \in Seq(Byte) /\ Len(part) = Saves(h)
      /\ \A j \in 1 .. Saves(h) : part[j] = w[j]
  <2>1. \A j \in 1 .. Saves(h) : w[j] \in Byte
    <3> HIDE DEF w, h
    <3> QED BY <1>2, <1>3, <1>5
  <2>2. PICK n \in Nat : n = Saves(h)
    BY <1>2
  <2>3. /\ part \in Seq(Byte) /\ Len(part) = IF 1 <= n THEN n - 1 + 1 ELSE 0
        /\ \A j \in 1 .. n - 1 + 1 : part[j] = w[1 + j - 1]
    <3> HIDE DEF w, h
    <3> QED BY <2>1, <2>2, SubSeqProperties
  <2> HIDE DEF part, w, h
  <2> QED BY <2>2, <2>3
<1>8. bytes \in Seq(Byte) /\ Len(bytes) = Offsets[k]
  BY DEF Holds
<1> HIDE DEF part, w, h
<1>9. /\ all \in Seq(Byte) /\ Len(all) = Offsets[k] + Saves(h)
      /\ \A x \in 1 .. Offsets[k] + Saves(h) :
           all[x] = IF x <= Offsets[k] THEN bytes[x] ELSE part[x - Offsets[k]]
  <2>1. /\ all \in Seq(Byte) /\ Len(all) = Len(bytes) + Len(part)
        /\ \A x \in 1 .. Len(bytes) + Len(part) :
             all[x] = IF x <= Len(bytes) THEN bytes[x] ELSE part[x - Len(bytes)]
    BY <1>7, <1>8, ConcatProperties
  <2> HIDE DEF all
  <2> QED BY <1>7, <1>8, <2>1
<1> HIDE DEF all
<1>10. ASSUME NEW i \in 1 .. k + 1, hook[i].condition = "HC_CHANGE",
              NEW j \in 1 .. hook[i].target_bytes
       PROVE  all[Offsets[i - 1] + j] = Watched(hook[i], m)[j]
  <2>0. \A a, n \in Nat : \A x \in 1 .. n :
          a + x \in 1 .. a + n /\ ~(a + x <= a) /\ (a + x) - a = x
    OBVIOUS
  <2>1. CASE i = k + 1
    <3>1. hook[i] = h /\ i - 1 = k
      BY <1>1, <2>1 DEF h
    <3>2. j \in 1 .. Saves(h)
      BY <1>6, <1>10, <3>1
    <3>3. Offsets[k] + j \in 1 .. Offsets[k] + Saves(h) /\ ~(Offsets[k] + j <= Offsets[k])
          /\ (Offsets[k] + j) - Offsets[k] = j
      BY <1>2, <1>4, <2>0, <3>2
    <3>4. all[Offsets[k] + j] = part[j]
      BY <1>9, <3>3
    <3> QED BY <1>7, <3>1, <3>2, <3>4 DEF w
  <2>2. CASE i # k + 1
    <3>1. i \in 1 .. k /\ i \in 1 .. Len(hook) /\ i - 1 \in 0 .. Len(hook)
      BY <1>1, <2>2
    <3>2. bytes[Offsets[i - 1] + j] = Watched(hook[i], m)[j]
      BY <1>10, <3>1 DEF Holds
    <3>3. Offsets[i - 1] + Saves(hook[i]) <= Offsets[k] /\ Offsets[i - 1] \in Nat
      BY <1>1, <3>1, Offset DEF OffsetsOK
    <3>4. Saves(hook[i]) = hook[i].target_bytes /\ hook[i].target_bytes \in Nat
      BY <1>10, <3>1, HookFacts DEF Saves
    <3>5. /\ Offsets[i - 1] + j \in 1 .. Offsets[k] + Saves(h)
          /\ Offsets[i - 1] + j <= Offsets[k]
      <4>1. \A a, b, c, d \in Nat : \A x \in 1 .. b :
              a + b <= c => a + x \in 1 .. c + d /\ a + x <= c
        OBVIOUS
      <4> QED BY <1>2, <1>4, <1>10, <3>3, <3>4, <4>1
    <3> QED BY <1>9, <3>2, <3>5
  <2> QED BY <2>1, <2>2
<1>11. Holds(all, k + 1, m)
  BY <1>4, <1>9, <1>10 DEF Holds
<1> QED BY <1>11 DEF all, part, w, h

\* What a clock saves.
LEMMA SavedHolds ==
  ASSUME HooksSet, NEW m \in [Cell -> Byte]
  PROVE  Holds(Saved(m), Len(hook), m)
<1>1. Len(hook) \in Nat
  BY DEF HooksSet
<1>2. PICK w : /\ w = [k \in 0 .. Len(hook) |->
                         IF k = 0 THEN <<>>
                         ELSE w[k - 1] \o SubSeq(Watched(hook[k], m), 1, Saves(hook[k]))]
               /\ Saved(m) = w[Len(hook)]
  BY <1>1, SavedIs
<1> DEFINE S == {k \in Nat : k <= Len(hook) => Holds(w[k], k, m)}
<1>3. 0 \in S
  <2>1. w[0] = <<>>
    BY <1>1, <1>2
  <2>2. <<>> \in Seq(Byte) /\ Len(<<>>) = 0
    OBVIOUS
  <2>3. Offsets[0] = 0
    BY Offset DEF OffsetsOK
  <2>4. \A i : i \notin 1 .. 0
    OBVIOUS
  <2>5. Holds(w[0], 0, m)
    BY <2>1, <2>2, <2>3, <2>4 DEF Holds
  <2> QED BY <2>5
<1>4. ASSUME NEW k \in Nat, k \in S
      PROVE  k + 1 \in S
  <2> SUFFICES ASSUME k + 1 <= Len(hook)
               PROVE  Holds(w[k + 1], k + 1, m)
    OBVIOUS
  <2>1. k <= Len(hook) /\ k + 1 \in 0 .. Len(hook) /\ k + 1 # 0 /\ (k + 1) - 1 = k
    BY <1>1
  <2>2. w[k + 1] = w[k] \o SubSeq(Watched(hook[k + 1], m), 1, Saves(hook[k + 1]))
    BY <1>2, <2>1
  <2>3. Holds(w[k], k, m)
    BY <1>4, <2>1
  <2> QED BY <2>2, <2>3, HoldsMore
<1> HIDE DEF S
<1>5. Len(hook) \in S
  BY <1>1, <1>3, <1>4, HookInduction
<1> QED BY <1>1, <1>2, <1>5 DEF S

\* Between two clocks the bytes of the hooks that have been through one are
\* their targets, and there are bytes for all.
HookInv ==
  /\ HooksSet
  /\ memory_intermediate \in Seq(Byte) /\ Len(memory_intermediate) = Offsets[Len(hook)]
  /\ \A i \in 1 .. checked : hook[i].condition = "HC_CHANGE" =>
       \A j \in 1 .. hook[i].target_bytes :
         memory_intermediate[Offsets[i - 1] + j] = Watched(hook[i], cells)[j]

\* There are no hooks at first.
LEMMA HooksStart == HookInit => HookInv
<1> SUFFICES ASSUME HookInit
             PROVE  HookInv
  OBVIOUS
<1>1. hook = <<>> /\ memory_intermediate = <<>> /\ checked = 0 /\ cells \in [Cell -> Byte]
  BY DEF HookInit
<1>2. <<>> \in Seq(HookSet) /\ <<>> \in Seq(Byte) /\ Len(<<>>) = 0 /\ 0 \in 0 .. 0
  OBVIOUS
<1>3. HooksSet
  BY <1>1, <1>2 DEF HooksSet
<1>4. Offsets[0] = 0
  BY <1>3, Offset DEF OffsetsOK
<1> QED BY <1>1, <1>2, <1>3, <1>4 DEF HookInv

\* Setting a hook moves no offset.
LEMMA HookAdded ==
  ASSUME HookInv, NEW h \in HookSet, system_hook(h)
  PROVE  HookInv'
<1>1. /\ hook' = Append(hook, h) /\ checked' = checked /\ cells' = cells
      /\ Len(hook) \in Nat /\ hook \in Seq(HookSet) /\ checked \in 0 .. Len(hook)
  BY DEF HookInv, HooksSet, system_hook
<1>2. PICK new \in [1 .. Saves(h) -> Byte] : memory_intermediate' = memory_intermediate \o new
  BY DEF system_hook
<1>3. /\ hook' \in Seq(HookSet) /\ Len(hook') = Len(hook) + 1 /\ hook'[Len(hook) + 1] = h
      /\ \A k \in 1 .. Len(hook) : hook'[k] = hook[k]
  BY <1>1, AppendProperties
<1>4. HooksSet'
  BY <1>1, <1>3 DEF HooksSet, HookInv
<1>5. OffsetsOK'
  BY <1>4, Offset, PTL
<1>6. /\ Offsets'[0] = 0
      /\ \A k \in 1 .. Len(hook') : Offsets'[k] = Offsets'[k - 1] + Saves(hook'[k])
  BY <1>5 DEF OffsetsOK
<1>7. \A k \in 0 .. Len(hook) : Offsets'[k] = Offsets[k]
  <2> DEFINE S == {k \in Nat : k <= Len(hook) => Offsets'[k] = Offsets[k]}
  <2> HIDE DEF Offsets, Saves
  <2>1. 0 \in S
    BY <1>6, Offset DEF HookInv, OffsetsOK
  <2>2. ASSUME NEW k \in Nat, k \in S
        PROVE  k + 1 \in S
    <3> SUFFICES ASSUME k + 1 <= Len(hook)
                 PROVE  Offsets'[k + 1] = Offsets[k + 1]
      OBVIOUS
    <3>1. k + 1 \in 1 .. Len(hook) /\ k + 1 \in 1 .. Len(hook') /\ (k + 1) - 1 = k /\ k <= Len(hook)
      BY <1>1, <1>3
    <3>2. Offsets'[k + 1] = Offsets'[k] + Saves(hook'[k + 1]) /\ hook'[k + 1] = hook[k + 1]
      BY <1>3, <1>6, <3>1
    <3>3. Offsets[k + 1] = Offsets[k] + Saves(hook[k + 1])
      BY <3>1, Offset DEF HookInv, OffsetsOK
    <3> QED BY <2>2, <3>1, <3>2, <3>3
  <2> HIDE DEF S
  <2>3. Nat \subseteq S
    BY <2>1, <2>2, HookInduction
  <2> QED BY <1>1, <2>3 DEF S
<1>8. Offsets'[Len(hook')] = Offsets[Len(hook)] + Saves(h)
  <2>1. Len(hook') \in 1 .. Len(hook') /\ Len(hook') - 1 = Len(hook) /\ Len(hook) \in 0 .. Len(hook)
    BY <1>1, <1>3
  <2> QED BY <1>3, <1>6, <1>7, <2>1
<1>9. Saves(h) \in Nat
  <2>1. h.target_bytes \in 1 .. CELLS /\ CELLS \in Nat
    BY HookAssumption DEF Hook
  <2> QED BY <2>1 DEF Saves
<1>10. new \in Seq(Byte) /\ Len(new) = Saves(h)
  BY <1>9
<1>11. memory_intermediate \in Seq(Byte) /\ Len(memory_intermediate) = Offsets[Len(hook)]
  BY DEF HookInv
<1>12. /\ memory_intermediate' \in Seq(Byte)
       /\ Len(memory_intermediate') = Offsets[Len(hook)] + Saves(h)
       /\ \A x \in 1 .. Offsets[Len(hook)] + Saves(h) :
            x <= Offsets[Len(hook)] => memory_intermediate'[x] = memory_intermediate[x]
  <2>1. /\ memory_intermediate' \in Seq(Byte)
        /\ Len(memory_intermediate') = Len(memory_intermediate) + Len(new)
        /\ \A x \in 1 .. Len(memory_intermediate) + Len(new) :
             memory_intermediate'[x] = IF x <= Len(memory_intermediate) THEN memory_intermediate[x]
                                       ELSE new[x - Len(memory_intermediate)]
    BY <1>2, <1>10, <1>11, ConcatProperties
  <2> QED BY <1>10, <1>11, <2>1
<1>13. ASSUME NEW i \in 1 .. checked', hook'[i].condition = "HC_CHANGE",
              NEW j \in 1 .. hook'[i].target_bytes
       PROVE  memory_intermediate'[Offsets'[i - 1] + j] = Watched(hook'[i], cells')[j]
  <2>1. i \in 1 .. checked /\ i \in 1 .. Len(hook) /\ i - 1 \in 0 .. Len(hook)
    BY <1>1
  <2>2. hook'[i] = hook[i] /\ Offsets'[i - 1] = Offsets[i - 1]
    BY <1>3, <1>7, <2>1
  <2>3. memory_intermediate[Offsets[i - 1] + j] = Watched(hook[i], cells)[j]
    BY <1>13, <2>1, <2>2 DEF HookInv
  <2>4. Saves(hook[i]) = hook[i].target_bytes /\ hook[i].target_bytes \in Nat
    BY <1>13, <2>1, <2>2, HookFacts DEF Saves, HookInv
  <2>5. /\ Offsets[i - 1] \in Nat /\ Offsets[Len(hook)] \in Nat
        /\ Offsets[i - 1] + Saves(hook[i]) <= Offsets[Len(hook)]
    <3>1. OffsetsOK
      BY Offset DEF HookInv
    <3>2. Len(hook) \in 0 .. Len(hook)
      BY <1>1
    <3> HIDE DEF Offsets
    <3> QED BY <2>1, <3>1, <3>2 DEF OffsetsOK
  <2>6. /\ Offsets[i - 1] + j \in 1 .. Offsets[Len(hook)] + Saves(h)
        /\ Offsets[i - 1] + j <= Offsets[Len(hook)]
    <3>1. \A a, b, c, d \in Nat : \A x \in 1 .. b :
            a + b <= c => a + x \in 1 .. c + d /\ a + x <= c
      OBVIOUS
    <3>2. j \in 1 .. hook[i].target_bytes
      BY <2>2
    <3> QED BY <1>9, <2>4, <2>5, <3>1, <3>2
  <2> QED BY <1>1, <1>12, <2>2, <2>3, <2>6
<1> QED BY <1>4, <1>8, <1>12, <1>13 DEF HookInv

\* A clock saves all of them anew.
LEMMA HookClock ==
  ASSUME HookInv, system_clock_debug
  PROVE  HookInv'
<1>1. /\ hook' = hook /\ checked' = Len(hook) /\ cells' \in [Cell -> Byte]
      /\ memory_intermediate' = Saved(cells') /\ Len(hook) \in Nat /\ HooksSet
  BY DEF system_clock_debug, HookInv, HooksSet
<1>2. HooksSet'
  BY <1>1 DEF HooksSet
<1>3. Offsets' = Offsets
  BY <1>1 DEF Offsets
<1>4. Holds(memory_intermediate', Len(hook), cells')
  BY <1>1, SavedHolds
<1> QED BY <1>1, <1>2, <1>3, <1>4 DEF HookInv, Holds

\* The invariant is kept by every step.
LEMMA HooksStep == HookInv /\ [HookNext]_hook_vars => HookInv'
<1> SUFFICES ASSUME HookInv, [HookNext]_hook_vars
             PROVE  HookInv'
  OBVIOUS
<1>1. CASE UNCHANGED hook_vars
  <2>1. hook' = hook /\ checked' = checked /\ cells' = cells
        /\ memory_intermediate' = memory_intermediate
    BY <1>1 DEF hook_vars
  <2>2. Offsets' = Offsets
    BY <2>1 DEF Offsets
  <2> QED BY <2>1, <2>2 DEF HookInv, HooksSet
<1>2. CASE system_clock_debug
  BY <1>2, HookClock
<1>3. CASE \E h \in HookSet : system_hook(h)
  BY <1>3, HookAdded
<1> QED BY <1>1, <1>2, <1>3 DEF HookNext

\* A clock: what is saved is what the targets were.
LEMMA ClockSees ==
  ASSUME HookInv, system_clock_debug,
         NEW i \in 1 .. checked, hook[i].condition = "HC_CHANGE"
  PROVE  i \in fired' <=> Watched(hook[i], cells') # Watched(hook[i], cells)
<1> DEFINE n == hook[i].target_bytes
           a == Offsets[i - 1]
           here == SubSeq(memory_intermediate, a + 1, a + n)
           w == Watched(hook[i], cells)
<1>1. HooksSet /\ Len(hook) \in Nat /\ i \in 1 .. Len(hook) /\ i - 1 \in 0 .. Len(hook)
  BY DEF HookInv, HooksSet
<1>2. n \in Nat /\ hook[i].target \in Nat /\ hook[i].target + n <= CELLS /\ Saves(hook[i]) = n
  BY <1>1, HookFacts DEF Saves
<1>3. a \in Nat /\ a + n <= Offsets[Len(hook)] /\ Offsets[Len(hook)] \in Nat
  <2>1. OffsetsOK /\ Len(hook) \in 0 .. Len(hook)
    BY <1>1, Offset
  <2>2. Offsets[i - 1] + Saves(hook[i]) <= Offsets[Len(hook)]
    BY <1>1, <2>1 DEF OffsetsOK
  <2>3. Offsets[i - 1] \in Nat /\ Offsets[Len(hook)] \in Nat
    BY <1>1, <2>1 DEF OffsetsOK
  <2> QED BY <1>2, <2>2, <2>3
<1>4. w \in Seq(Byte) /\ Len(w) = n
  BY <1>1, <1>2, WatchedBytes DEF HooksSet
<1>5. \A j \in 1 .. n : memory_intermediate[a + j] = w[j]
  BY DEF HookInv
<1>6. memory_intermediate \in Seq(Byte) /\ Len(memory_intermediate) = Offsets[Len(hook)]
  BY DEF HookInv
<1>7. Fires(i, cells', fetching') <=> here # Watched(hook[i], cells')
  BY DEF Fires, index
<1>8. i \in fired' <=> Fires(i, cells', fetching')
  BY <1>1 DEF system_clock_debug
<1> HIDE DEF n, a, w
<1>9. /\ here \in Seq(Byte) /\ Len(here) = n
      /\ \A j \in 1 .. n : here[j] = memory_intermediate[a + j]
  <2>1. \A x \in a + 1 .. a + n : memory_intermediate[x] \in Byte
    BY <1>2, <1>3, <1>6
  <2>2. a + 1 \in Int /\ a + n \in Int
    BY <1>2, <1>3
  <2>3. /\ here \in Seq(Byte) /\ Len(here) = IF a + 1 <= a + n THEN (a + n) - (a + 1) + 1 ELSE 0
        /\ \A j \in 1 .. (a + n) - (a + 1) + 1 : here[j] = memory_intermediate[(a + 1) + j - 1]
    BY <2>1, <2>2, SubSeqProperties
  <2> HIDE DEF here
  <2>4. (a + n) - (a + 1) + 1 = n /\ (a + 1 <= a + n <=> n > 0) /\ (~(n > 0) => n = 0)
    BY <1>2, <1>3
  <2>5. \A j \in 1 .. n : (a + 1) + j - 1 = a + j
    BY <1>2, <1>3
  <2>6. Len(here) = n
    BY <2>3, <2>4
  <2>7. \A j \in 1 .. n : here[j] = memory_intermediate[a + j]
    BY <2>3, <2>4, <2>5
  <2> QED BY <2>3, <2>6, <2>7
<1> HIDE DEF here
<1>10. here = w
  BY <1>4, <1>5, <1>9, SeqEqual
<1> QED BY <1>7, <1>8, <1>10 DEF w

\* A hook on a change that has been through a clock fires in exactly the clocks
\* that change its target, for any hooks, set in any order and at any clocks.
THEOREM ChangesAreSeen == HookSpec => ChangeSeen
<1>1. HookInit => HookInv
  BY HooksStart
<1>2. HookInv /\ [HookNext]_hook_vars => HookInv'
  BY HooksStep
<1>3. HookInv /\ [HookNext]_hook_vars =>
        [checked' = Len(hook) /\ UNCHANGED hook =>
           \A i \in 1 .. checked :
             hook[i].condition = "HC_CHANGE" =>
               (i \in fired' <=> Watched(hook[i], cells') # Watched(hook[i], cells))]_hook_vars
  <2> SUFFICES ASSUME HookInv, HookNext, UNCHANGED hook
               PROVE  \A i \in 1 .. checked :
                        hook[i].condition = "HC_CHANGE" =>
                          (i \in fired' <=> Watched(hook[i], cells') # Watched(hook[i], cells))
    OBVIOUS
  <2>1. CASE system_clock_debug
    BY <2>1, ClockSees
  <2>2. CASE \E h \in HookSet : system_hook(h)
    <3>1. PICK h \in HookSet : hook' = Append(hook, h)
      BY <2>2 DEF system_hook
    <3>2. Len(Append(hook, h)) = Len(hook) + 1 /\ Len(hook) \in Nat
      BY <3>1, AppendProperties DEF HookInv, HooksSet
    <3> QED BY <3>1, <3>2
  <2> QED BY <2>1, <2>2 DEF HookNext
<1> QED BY <1>1, <1>2, <1>3, PTL DEF HookSpec, ChangeSeen
=============================================================================

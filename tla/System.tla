------------------------------- MODULE System -------------------------------
(***************************************************************************)
(* The fabric: the devices and the bus as system_clock calls them, one     *)
(* step for each slot of its order.  The CPU is seen here from the         *)
(* outside, as a client that makes one memory access after the other       *)
(* through cpu_read_memory and cpu_write_memory, without a cache; what it  *)
(* accesses is left open.  (Machine is the processor on such a memory.)    *)
(***************************************************************************)
EXTENDS Ram, MemoryBank, Terminal, FileSystem, Ticker, Bus, SystemClock

CONSTANTS
  Accesses,     \* the accesses the program makes
  Pushes,       \* those an accepted interrupt begins with
  MaxPrint,     \* bound: bytes the program sends to the terminal
  MaxAge        \* bound: clocks counted for one access

None == [op |-> "none", address |-> 0, byte |-> 0]

Access == [op : {"read"}, address : Address, byte : {0}]
            \cup [op : {"write"}, address : Address, byte : BYTE]

ASSUME ClientAssumption ==
  /\ Accesses \subseteq Access
  /\ Pushes \subseteq {a \in Access : a.op = "write"}
  /\ MaxPrint \in Nat /\ MaxAge \in Nat

VARIABLES
  access,       \* the access the CPU is at
  sent,         \* history: bytes the program has sent to the terminal
  age           \* history: system clocks since the access was begun

memory == <<ram, bank_index, bank_ram, screen, mode, path, output, files>>
client == <<access, sent, age>>
vars   == <<dev, attended_device_index, slot, memory, client>>

system_create ==
  /\ DevicesInit /\ BusInit /\ RamInit /\ BankInit /\ TerminalInit
  /\ FileSystemInit
  /\ slot = 1 /\ access = None /\ sent = <<>> /\ age = 0

-----------------------------------------------------------------------------
\* The CPU's clock.  An access is repeated at every clock until the port
\* answers; a call that fails ends the clock, a call that succeeds may be
\* followed by the next access in the same clock or by a pause.

port == dev["CPU"]

\* The mailbox after a new request: cpu_read_memory and cpu_write_memory.
Request(a, p) ==
  IF a.op = "read"
  THEN [p EXCEPT !.state = "DS_FETCH", !.processed = 0, !.address = a.address]
  ELSE [p EXCEPT !.state = "DS_STORE", !.processed = 0, !.address = a.address,
                 !.data = ByteLine(a.byte)]

Released(p) == [p EXCEPT !.state = "DS_IDLE", !.processed = 0]

ToTerminal(a) == a.op = "write" /\ a.address = MMIO_INPUT_REGISTER

\* Begin access a, with p the mailbox it finds idle.
Begin(a, p) ==
  /\ dev' = [dev EXCEPT !["CPU"] = Request(a, p)]
  /\ access' = a /\ age' = 0
  /\ ToTerminal(a) => Len(sent) < MaxPrint
  /\ sent' = IF ToTerminal(a) THEN Append(sent, a.byte) ELSE sent

Pause(p) ==
  /\ dev' = [dev EXCEPT !["CPU"] = p]
  /\ access' = None /\ age' = 0 /\ UNCHANGED sent

CpuStart ==
  /\ access = None /\ port.state = "DS_IDLE"
  /\ (\E a \in Accesses : Begin(a, port)) \/ Pause(port)

\* Not answered yet: the call returns 0.
CpuWait ==
  /\ access # None /\ port.processed = 0 /\ port.state # "DS_INTERRUPT"
  /\ age' = IF age < MaxAge + 1 THEN age + 1 ELSE age
  /\ UNCHANGED <<dev, access, sent>>

\* The reply is taken; only a read compares the address of the reply.
Answered(p) ==
  /\ access # None /\ p.processed = 1
  /\ access.op = "read" => p.address = access.address

CpuTake ==
  /\ Answered(port) /\ port.state # "DS_INTERRUPT"
  /\ \/ \E a \in Accesses : Begin(a, Released(port))
     \/ Pause(Released(port))

\* An interrupt that the CPU masks is dropped; the clock then goes on, and an
\* access that had its open-bus answer takes it, or asks again because the
\* interrupt has overwritten the address.
Dropped == [port EXCEPT !.state = "DS_IDLE"]

CpuDropInterrupt ==
  /\ port.state = "DS_INTERRUPT"
  /\ \/ access = None /\ (\E a \in Accesses : Begin(a, Dropped))
     \/ access = None /\ Pause(Dropped)
     \/ /\ Answered(Dropped)
        /\ (\E a \in Accesses : Begin(a, Released(Dropped)))
             \/ Pause(Released(Dropped))
     \/ /\ access # None /\ ~Answered(Dropped)
        /\ dev' = [dev EXCEPT !["CPU"] = Request(access, Dropped)]
        /\ UNCHANGED client

\* An interrupt that the CPU accepts: the access it was at is abandoned and
\* the first push is begun.  An answer that the abandoned access left in the
\* mailbox is taken for the answer to the push.
CpuAcceptInterrupt ==
  /\ port.state = "DS_INTERRUPT"
  /\ \/ port.processed = 0 /\ \E a \in Pushes : Begin(a, Dropped)
     \/ /\ port.processed = 1
        /\ (\E a \in Pushes : Begin(a, Released(Dropped)))
             \/ Pause(Released(Dropped))

CpuClock ==
  /\ Slot("CPU")
  /\ \/ CpuStart \/ CpuWait \/ CpuTake
     \/ CpuDropInterrupt \/ CpuAcceptInterrupt
  /\ UNCHANGED <<attended_device_index, memory>>

RamClock ==
  /\ Slot("RAM") /\ ram_clock
  /\ UNCHANGED <<attended_device_index, client, bank_index, bank_ram, screen,
                 mode, path, output, files>>

TerminalClock ==
  /\ Slot("TERMINAL") /\ terminal_clock
  /\ UNCHANGED <<attended_device_index, client, ram, bank_index, bank_ram,
                 mode, path, output, files>>

BankClock ==
  /\ Slot("MEMORY_BANK") /\ memory_bank_clock
  /\ UNCHANGED <<attended_device_index, client, ram, screen,
                 mode, path, output, files>>

FileSystemClock ==
  /\ Slot("FILESYSTEM") /\ filesystem_clock
  /\ UNCHANGED <<attended_device_index, client, ram, bank_index, bank_ram,
                 screen>>

TickerClock ==
  /\ Slot("TICKER") /\ ticker_clock
  /\ UNCHANGED <<attended_device_index, memory, client>>

BusClock ==
  /\ Slot("BUS") /\ bus_clock
  /\ UNCHANGED <<memory, client>>

system_clock ==
  \/ CpuClock \/ BusClock \/ RamClock \/ TerminalClock
  \/ FileSystemClock \/ BankClock \/ TickerClock

Spec     == system_create /\ [][system_clock]_vars
FairSpec == Spec /\ WF_vars(system_clock)
-----------------------------------------------------------------------------
(***************************************************************************)
(* Properties                                                              *)
(***************************************************************************)

\* Every variable stays in its range; the CPU is at an access exactly while
\* its mailbox holds a request or the answer to one.
TypeOK ==
  /\ DevicesTypeOK /\ BusTypeOK /\ RamTypeOK /\ BankTypeOK /\ TerminalTypeOK
  /\ FileSystemTypeOK
  /\ slot \in 1 .. Len(clock_order)
  /\ access \in Access \cup {None}
  /\ sent \in Seq(BYTE) /\ age \in 0 .. MaxAge + 1

Serving(d) == dev[d].state # "DS_IDLE"

\* A device that is busy is busy with the request that is in the CPU's
\* mailbox right now, unanswered, and it is the device that listens to that
\* address: no request is served twice, by two devices, or after the CPU has
\* moved on (bus_clock overwrites a listener's mailbox "and sees what
\* happens").
OneRequest ==
  \A d \in Slave : Serving(d) =>
    /\ dev[d].state \in {"DS_FETCH", "DS_STORE"}
    /\ port.state = dev[d].state /\ port.processed = 0
    /\ dev[d].address = port.address
    /\ dev[d].state = "DS_FETCH" => ReadListener(d, port.address)
    /\ dev[d].state = "DS_STORE" => /\ WriteListener(d, port.address)
                                    /\ dev[d].data = port.data

\* The access the program is at and the request in the mailbox agree, at
\* every moment between issue and completion; with the answer already there
\* and the mailbox idle, the access was to an address nobody listens to.
AccessMatchesRequest ==
  /\ port.state \in {"DS_FETCH", "DS_STORE"} =>
       /\ access # None /\ port.address = access.address
       /\ port.state = IF access.op = "read" THEN "DS_FETCH" ELSE "DS_STORE"
  /\ access # None /\ port.state \in {"DS_IDLE", "DS_INTERRUPT"} =>
       /\ port.processed = 1
       /\ IF access.op = "read" THEN OpenRead(access.address)
          ELSE OpenWrite(access.address)

\* An interrupt comes between two accesses only: not over a request, and not
\* over an open-bus answer that the CPU has not taken, which an accepted
\* interrupt would take for the answer to its first push (cpu_write_memory
\* compares nothing).  Only the ratio of the bus's round to the clock order
\* sees to the latter.
InterruptsBetween == port.state = "DS_INTERRUPT" => access = None

\* What device d answers to a read of address a.
Contents(d, a) ==
  CASE d = "RAM"         -> ram_read(a)
    [] d = "MEMORY_BANK" -> bank_read(a)
    [] d = "FILESYSTEM"  -> IF a = MMIO_MODE_REGISTER_ADDRESS THEN ByteLine(mode)
                            ELSE ByteLine(output)

\* A reply to a read, from the moment a device has prepared it until the CPU
\* takes it, is what the device that listens holds now: no store, bank switch
\* or other device slips in between.  (The modifier register answers with
\* leftovers and is excepted.)
ReadReply ==
  /\ \A d \in Slave :
       dev[d].state = "DS_FETCH" /\ dev[d].processed = 1
         /\ dev[d].address # MMIO_MODIFIER_REGISTER_ADDRESS
         => dev[d].data = Contents(d, dev[d].address)
  /\ port.state = "DS_FETCH" /\ port.processed = 1
       /\ port.address # MMIO_MODIFIER_REGISTER_ADDRESS
       => \E d \in Slave : /\ ReadListener(d, port.address)
                           /\ port.data = Contents(d, port.address)

\* The store of b to address a has reached RAM or the bank.
Stored(a, b) ==
  /\ WriteListener("RAM", a) => ram[a] = b
  /\ WriteListener("MEMORY_BANK", a) =>
       IF a = MMIO_REGISTER_ADDRESS THEN bank_index = b % NUM_BANKS
       ELSE bank_ram[hw_address(virtual_address(a))] = b

\* A store is acknowledged only when the byte is in memory, under the bank
\* that is selected then.
StoreReply ==
  /\ \A d \in Slave : dev[d].state = "DS_STORE" /\ dev[d].processed = 1
       => Stored(dev[d].address, dev[d].data[0])
  /\ port.state = "DS_STORE" /\ port.processed = 1
       => Stored(port.address, port.data[0])

\* An access is answered within MaxAge system clocks, whatever the ticker
\* does and wherever the bus is in its round.
AnsweredInTime == age <= MaxAge

\* A request stays in the mailbox as it was issued until it is answered: no
\* interrupt, reply to an earlier access or other device overwrites it.
RequestKept ==
  [][port.state \in {"DS_FETCH", "DS_STORE"} /\ port.processed = 0
     => /\ port'.address = port.address
        /\ port.state = "DS_STORE" => port'.data = port.data
        /\ \/ port'.state = port.state
           \/ port'.state = "DS_IDLE" /\ port'.processed = 1]_vars

\* A mode, once set, holds until a byte is written to the input register; in
\* between no store to the mode register replaces it or acts.
ModeHolds ==
  [][mode # M_BASE /\ <<mode, path, output, files>>' # <<mode, path, output, files>>
     => mode' = M_BASE /\ UNCHANGED <<output, files>>
        /\ port.address = MMIO_INPUT_REGISTER_ADDRESS]_vars

\* A file of the host is only touched by a create request on the very path the
\* program has spelled out, and none goes away (filesystem_clock).
OnlyNamedFile ==
  [][\A n \in DOMAIN files \cup DOMAIN files' :
       (n \notin DOMAIN files \/ n \notin DOMAIN files' \/ files'[n] # files[n])
         => /\ n = name /\ n # <<>> /\ n \in DOMAIN files'
            /\ port.data[0] = M_CREATE_FILE]_vars

\* As filesystem.h:18 has it, "if the path doesnt exist, create a file with the
\* path name, otherwise leave file alone": a file that exists keeps its contents.
FilesLeftAlone == \A n \in InitialFiles : Exists(n) /\ files[n] = "bytes"

-----------------------------------------------------------------------------
\* Refinement: the access counts as performed once a device has processed it.
Performed ==
  port.processed = 1 \/ \E d \in Slave : Serving(d) /\ dev[d].processed = 1

abstract_cell ==
  [p \in {<<"ram", a>> : a \in Address}
           \cup {<<"bank", c>> : c \in 0 .. BANK_CAPACITY - 1} |->
     IF p[1] = "ram" THEN ram[p[2]] ELSE bank_ram[p[2]]]

abstract_phase ==
  IF access = None THEN "idle" ELSE IF Performed THEN "performed" ELSE "requested"

\* The line the device that serves has in its mailbox.
served == CHOOSE l \in {dev[d].data : d \in {e \in Slave : Serving(e)}} : TRUE

abstract_reply ==
  IF abstract_phase # "performed" \/ access.op # "read" THEN 0
  ELSE IF port.processed = 1 THEN port.data[0] ELSE served[0]

Port == INSTANCE MemoryPort WITH
          cell <- abstract_cell, bank <- bank_index, printed <- screen,
          phase <- abstract_phase, request <- access, reply <- abstract_reply

\* The clocked devices, the bus and the mailboxes together behave as an
\* atomic memory: every access takes effect exactly once, between its request
\* and its completion, and a read brings back the byte that was there at that
\* moment.
ImplementsPort == Port!PortSpec

\* Under a fair clock every access that is begun is performed, and the program
\* then gets its answer.
PortServes ==
  /\ abstract_phase = "requested" ~> abstract_phase = "performed"
  /\ abstract_phase = "performed" ~> abstract_phase # "performed"
=============================================================================

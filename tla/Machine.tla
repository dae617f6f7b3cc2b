------------------------------ MODULE Machine ------------------------------
(***************************************************************************)
(* The processor at work: Cpu, the memory that the fabric gives it (what   *)
(* MemoryPort promises: a request is performed at some moment and answered *)
(* then or later), and the interrupts the bus delivers.  A clock of the    *)
(* processor is not interrupted by the other devices.                      *)
(*                                                                         *)
(* retired is a history variable: the registers and the memory when the    *)
(* last instruction, or the last entry into a handler, was complete.       *)
(***************************************************************************)
EXTENDS Cpu, Ram

CONSTANTS
  Images,             \* what the RAM holds when the processor starts
  MaxInterrupts       \* bound on the interrupts of a behaviour

ASSUME MachineAssumption ==
  /\ \A image \in Images : image \in [Address -> BYTE]
  /\ MaxInterrupts \in Nat

VARIABLES retired, interrupts

vars == <<dev, ram, cache, cpu, retired, interrupts>>

Snapshot == [mem |-> ram, r |-> cpu.r, pc |-> cpu.pc, sp |-> cpu.sp,
             sr |-> cpu.sr \ InternalFlags, irq |-> cpu.irq_id]

Init ==
  /\ DevicesInit /\ CacheInit /\ cpu_create
  /\ ram \in Images
  /\ retired = Snapshot /\ interrupts = 0

\* The control is back at the beginning of an instruction.
Retires == cpu.state # "FETCH_INSTRUCTION" /\ cpu'.state = "FETCH_INSTRUCTION"

CpuClock ==
  /\ cpu_clock
  /\ UNCHANGED <<ram, interrupts>>
  /\ retired' = IF Retires THEN Snapshot' ELSE retired

-----------------------------------------------------------------------------
Between(s) == ~cpu.running /\ Pending("CPU", s)

MemoryFetch ==
  /\ Between("DS_FETCH") /\ Reads("RAM", mailbox.address)
  /\ DoneWith("CPU", ram_read(mailbox.address))
  /\ UNCHANGED <<ram, cache, cpu, retired, interrupts>>

MemoryStore ==
  /\ Between("DS_STORE") /\ Writes("RAM", mailbox.address)
  /\ ram_write(mailbox.address, mailbox.data[0])
  /\ Done("CPU")
  /\ UNCHANGED <<cache, cpu, retired, interrupts>>

\* Open bus: answered, and the mailbox is idle at once.
MemoryOpen ==
  /\ \/ Between("DS_FETCH") /\ OpenRead(mailbox.address)
     \/ Between("DS_STORE") /\ OpenWrite(mailbox.address)
  /\ Post([mailbox EXCEPT !.processed = 1, !.state = "DS_IDLE"])
  /\ UNCHANGED <<ram, cache, cpu, retired, interrupts>>

\* As cpu_create has left it: a clock of the processor does not end so, a fetch
\* is under way or answered when it stops before an opcode.
Created ==
  /\ cpu.state = "FETCH_INSTRUCTION" /\ cpu.extension_index = 0
  /\ mailbox.state = "DS_IDLE" /\ mailbox.processed = 0

\* The bus comes to the ticker after the processor's first clock, delivers to
\* an idle mailbox only, and comes to the processor's slot before it comes to
\* the ticker with an open-bus answer in the mailbox (InterruptsBetween of
\* System; ImplementsMachine of Computer).
Interrupt ==
  /\ ~cpu.running /\ ~Created
  /\ mailbox.state = "DS_IDLE" /\ mailbox.processed = 0
  /\ interrupts < MaxInterrupts
  /\ Post([mailbox EXCEPT !.state = "DS_INTERRUPT", !.address = INT_CLOCK])
  /\ interrupts' = interrupts + 1
  /\ UNCHANGED <<ram, cache, cpu, retired>>

Answer == MemoryFetch \/ MemoryStore \/ MemoryOpen

Next == CpuClock \/ Answer \/ Interrupt

Spec == Init /\ [][Next]_vars

\* The run loop calls system_clock, and with it cpu_clock, again and again.
FairSpec == Spec /\ WF_vars(CpuClock)
-----------------------------------------------------------------------------
TypeOK == CpuTypeOK /\ CacheTypeOK /\ DevicesTypeOK /\ RamTypeOK

(***************************************************************************)
(* Instructions are atomic: the retired states are a behaviour of the      *)
(* instruction set, whatever the cache holds, however long the memory      *)
(* takes and wherever an interrupt comes (all of cpu_clock).               *)
(***************************************************************************)
Atomic == INSTANCE Isa WITH arch <- retired
ImplementsIsa == Atomic!IsaSpec

\* A valid line of an address in RAM holds what the RAM holds, but for a byte
\* whose store is under way (the cache in cpu_read_memory and cpu_write_memory).
Storing(a) == mailbox.state = "DS_STORE" /\ mailbox.processed = 0 /\ mailbox.address = a
CacheCoherent ==
  \A i \in DOMAIN cache :
    cache[i].valid /\ Reads("RAM", cache[i].address) =>
      \/ cache[i].data = ram[cache[i].address]
      \/ Storing(cache[i].address) /\ cache[i].data = mailbox.data[0]

\* Wherever cpu_clock would accept an interrupt, the instruction under way has
\* not changed anything a program can see, and the place to go back to is its
\* first byte: it can be abandoned and started again.
RestartIsClean ==
  ~cpu.running /\ ~Maskable /\ ~Created /\ cpu.state \notin {"HALT", "EXCEPTION"} =>
    /\ ram = retired.mem /\ cpu.r = retired.r
    /\ cpu.sr \ InternalFlags = retired.sr
    /\ cpu.previous_pc = retired.pc /\ cpu.previous_sp = retired.sp

\* A call of cpu_clock comes to an end: the gotos between the states do not
\* run in a circle, even when every byte comes from the cache.
ClockEnds == cpu.running ~> ~cpu.running
=============================================================================

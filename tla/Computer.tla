------------------------------ MODULE Computer ------------------------------
(***************************************************************************)
(* The whole computer: the processor, the bus and every device, called in  *)
(* the order of system_clock until the processor halts, as the run loop of *)
(* the front end does with a binary it has loaded into the RAM.            *)
(*                                                                         *)
(* stored and retired are history variables: the RAM as far as the         *)
(* processor has been told of its stores, and what the last instruction    *)
(* left (see Machine).                                                     *)
(***************************************************************************)
EXTENDS Cpu, Ram, MemoryBank, Terminal, FileSystem, Ticker, Bus, SystemClock

CONSTANTS
  Programs,     \* by name, what is loaded and what must come of it
  MaxTicks      \* bound on the ticks of a behaviour

\* on_ram: the program uses no device but the RAM; ends: it comes to HLT;
\* reads_output: it ends with reading the output register of the file system.
ASSUME ProgramAssumption ==
  /\ \A p \in DOMAIN Programs :
       Programs[p] \in [image : [Address -> BYTE], on_ram : BOOLEAN, ends : BOOLEAN,
                         screen : Seq(BYTE), r0 : AWord, reads_output : BOOLEAN]
  /\ MaxTicks \in Nat

VARIABLES program, ticks, stored, retired

fabric  == <<bank_index, bank_ram, screen, mode, path, output, files>>
history == <<program, ticks, stored, retired>>
vars    == <<dev, cache, cpu, ram, attended_device_index, slot, fabric, history>>

loaded == Programs[program]

\* A tick that is not waiting at the ticker has been delivered.
delivered == ticks - (IF dev["TICKER"].state = "DS_INTERRUPT" THEN 1 ELSE 0)

\* What the processor and its memory look like without the devices in between.
Abstract == INSTANCE Machine WITH
  dev <- [d \in Device |-> IF d = "CPU" THEN mailbox ELSE device_create],
  ram <- stored, interrupts <- delivered,
  Images <- {Programs[p].image : p \in DOMAIN Programs}, MaxInterrupts <- MaxTicks

Init ==
  /\ program \in DOMAIN Programs /\ ram = loaded.image
  /\ DevicesInit /\ BusInit /\ CacheInit /\ cpu_create
  /\ BankInit /\ TerminalInit /\ FileSystemInit
  /\ slot = 1 /\ ticks = 0
  /\ stored = ram /\ retired = Abstract!Snapshot

\* The slot is over when the processor's clock is; HALT and EXCEPTION end the
\* run loop.
CpuSlot ==
  /\ At("CPU") /\ cpu_clock
  /\ slot' = IF cpu'.running THEN slot ELSE next_slot
  /\ UNCHANGED <<ram, attended_device_index, fabric, program, ticks, stored>>
  /\ retired' = IF Abstract!Retires THEN Abstract!Snapshot' ELSE retired

\* The processor is told of a store when its mailbox is marked processed.
BusSlot ==
  /\ Slot("BUS") /\ bus_clock
  /\ stored' = IF mailbox'.processed = 1 THEN ram ELSE stored
  /\ UNCHANGED <<cache, cpu, ram, fabric, program, ticks, retired>>

RamSlot ==
  /\ Slot("RAM") /\ ram_clock
  /\ UNCHANGED <<cache, cpu, attended_device_index, fabric, history>>

TerminalSlot ==
  /\ Slot("TERMINAL") /\ terminal_clock
  /\ UNCHANGED <<cache, cpu, ram, attended_device_index, bank_index, bank_ram,
                 mode, path, output, files, history>>

FileSystemSlot ==
  /\ Slot("FILESYSTEM") /\ filesystem_clock
  /\ UNCHANGED <<cache, cpu, ram, attended_device_index, bank_index, bank_ram,
                 screen, history>>

BankSlot ==
  /\ Slot("MEMORY_BANK") /\ memory_bank_clock
  /\ UNCHANGED <<cache, cpu, ram, attended_device_index, screen, mode, path,
                 output, files, history>>

TickerSlot ==
  /\ Slot("TICKER") /\ ticker_clock
  /\ ticks' = IF dev' # dev THEN ticks + 1 ELSE ticks
  /\ ticks' <= MaxTicks
  /\ UNCHANGED <<cache, cpu, ram, attended_device_index, fabric, program,
                 stored, retired>>

Next ==
  \/ CpuSlot \/ BusSlot \/ RamSlot \/ TerminalSlot \/ FileSystemSlot
  \/ BankSlot \/ TickerSlot

Spec     == Init /\ [][Next]_vars
FairSpec == Spec /\ WF_vars(Next)
-----------------------------------------------------------------------------
Halted == cpu.state = "HALT"

\* No device but the RAM listens to what the processor asks for.
OnRam ==
  \A d \in Slave \ {"RAM"} :
    /\ Pending("CPU", "DS_FETCH") => ~Reads(d, mailbox.address)
    /\ Pending("CPU", "DS_STORE") => ~Writes(d, mailbox.address)

(***************************************************************************)
(* What Machine assumes of the memory and of the interrupts is what the    *)
(* devices and the bus do in the order of system_clock: a request is       *)
(* performed once, at some moment, and no interrupt comes before the       *)
(* processor has noted where to return to (previous_pc in cpu_clock).  So  *)
(* it is with every program that keeps to the RAM, as those marked so do.  *)
(***************************************************************************)
ImplementsMachine ==
  /\ loaded.on_ram => Abstract!Init
  /\ [][loaded.on_ram => OnRam /\ [Abstract!Next]_(Abstract!vars)]_vars

\* Registers of devices have effects when they are written, and a read through
\* the cache may be stale: a program that reads them without cache, or after
\* INV, ends with what it would end with if there were neither interrupts nor a
\* cache, a register that has changed since it was last read included, and every
\* byte it prints is printed once (all of cpu_clock).
Outcome ==
  Halted =>
    /\ screen = loaded.screen
    /\ cpu.r["R0"] = IF loaded.reads_output THEN output ELSE loaded.r0

\* A tick does not wait for ever although the bus comes to the ticker in only
\* five of six of its clocks and delivers to an idle mailbox only: programs
\* leave the mailbox idle often enough (bus_clock, ticker_clock).
TickDelivered ==
  dev["TICKER"].state = "DS_INTERRUPT" ~>
    dev["TICKER"].state # "DS_INTERRUPT" \/ Halted

\* Every program that ends comes to its end, interrupted or not.
Halts == <>(loaded.ends => Halted)
=============================================================================

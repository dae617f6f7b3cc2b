---------------------------- MODULE MachineProofs ---------------------------
(***************************************************************************)
(* Why an interrupt may come at any clock: until its first effect an       *)
(* instruction changes nothing a program can see, keeps the place where it *)
(* began and has MNI at 0; from its first effect on, MNI is 1 at the end   *)
(* of every clock, so that it is not interrupted. Then that every width is *)
(* kept, and that the cache keeps up with the RAM.                         *)
(*                                                                         *)
(* And the processor implements its instruction set, for every program of  *)
(* ordinary instructions that keeps to the RAM: whatever the cache holds,  *)
(* however long the memory takes and wherever interrupts come, the states  *)
(* between instructions are those of executing the instructions one after  *)
(* the other, each in one step.                                            *)
(***************************************************************************)
EXTENDS Machine, CpuProofs

\* The control states of an instruction before its first effect, but for the
\* first one.
Early == {"FETCH_ADDRESSING_MODES", "FETCH_ARGUMENT_BYTES", "COMPUTE_ADDRESS",
          "FETCH_SOURCE", "FETCH_SOURCE_HIGH", "FETCH_DESTINATION",
          "FETCH_DESTINATION_HIGH", "EXECUTE", "SLEEP"}

\* The states in which nothing happens any more.
Ended == {"HALT", "EXCEPTION"}

\* From the first effect on.
Late == CpuState \ (Early \cup Ended \cup {"FETCH_INSTRUCTION"})

\* The states that store, and where the write-back goes to memory.
StoreState == {"WRITEBACK_LOW", "WRITEBACK_HIGH", "PUSH_LOW", "PUSH_HIGH",
            "INTERRUPT_PUSH_PC_HIGH", "INTERRUPT_PUSH_PC_LOW"}

StorePending == mailbox.state = "DS_STORE" /\ mailbox.processed = 0

CpuField == {"state", "running", "r", "pc", "sp", "sr", "executed",
             "instruction", "extension_index", "mode", "raw", "raw_index",
             "previous_pc", "previous_sp", "address_reduced",
             "address_extended", "data_reduced", "data_extended", "result",
             "irq_id"}

MailboxField == {"state", "processed", "address", "data"}

\* cpu and mailbox are records: what EXCEPT does to them.
Shape ==
  /\ DOMAIN cpu = CpuField
  /\ "CPU" \in DOMAIN dev
  /\ DOMAIN mailbox = MailboxField
  /\ cpu.state \in CpuState

\* What a program can see is as it was when the last instruction was complete.
Visible ==
  /\ ram = retired.mem /\ cpu.r = retired.r
  /\ cpu.sr \ InternalFlags = retired.sr

\* The place to go back to is where the last instruction ended.
BaseKept == cpu.previous_pc = retired.pc /\ cpu.previous_sp = retired.sp

\* Between instructions and in their prefixes.
FetchInv ==
  cpu.state = "FETCH_INSTRUCTION" =>
    /\ Visible /\ cpu.sp = retired.sp
    /\ cpu.extension_index # 0 => BaseKept
    /\ cpu.extension_index = 0 =>
         /\ cpu.pc = retired.pc
         /\ ~cpu.running => Created \/ BaseKept

EarlyInv == cpu.state \in Early => Visible /\ BaseKept

LateInv == cpu.state \in Late /\ ~cpu.running => "MNI" \in cpu.sr

PrefixInv ==
  /\ cpu.extension_index \in Nat
  /\ cpu.state \notin {"FETCH_INSTRUCTION", "EXCEPTION"} => cpu.extension_index = 0

\* A store is under way only in the state that has made it.
StoreInv ==
  StorePending =>
    /\ cpu.state \in StoreState
    /\ cpu.state \in {"WRITEBACK_LOW", "WRITEBACK_HIGH"} =>
         mode_category(cpu.mode.admr) = "ADMC_IND"

RestartInv == Shape /\ FetchInv /\ EarlyInv /\ LateInv /\ PrefixInv /\ StoreInv

\* The processor's known weakness: it accepts interrupts between the bytes of
\* a prefixed instruction and keeps counting the prefixes (cpu.c:229).
NoPrefixInterrupted == [][AcceptInterrupt => cpu.extension_index = 0]_vars

-----------------------------------------------------------------------------
(***************************************************************************)
(* What a control state may do, seen from outside.                         *)
(***************************************************************************)
\* c is the processor with nothing changed that a program can see, or that
\* the restart needs.
Quiet(c) ==
  /\ DOMAIN c = CpuField
  /\ c.r = cpu.r /\ c.sr \ InternalFlags = cpu.sr \ InternalFlags
  /\ c.previous_pc = cpu.previous_pc /\ c.previous_sp = cpu.previous_sp
  /\ c.extension_index = cpu.extension_index

\* c goes on after the first effect, or with the next instruction.
Leaves(c) ==
  /\ DOMAIN c = CpuField
  /\ c.running /\ c.state \in Late \cup {"FETCH_INSTRUCTION"}
  /\ c.extension_index = cpu.extension_index

MailboxShape == "CPU" \in DOMAIN dev /\ DOMAIN mailbox = MailboxField

\* A step before the first effect.
Settles ==
  /\ cpu.state \in Early /\ cpu'.state \in Early \cup Ended
  /\ Quiet(cpu')
  /\ MailboxShape' /\ (StorePending' => StorePending)

\* The end of an instruction.
Retired ==
  /\ cpu.state \in Early \cup Late /\ cpu'.state = "FETCH_INSTRUCTION"
  /\ Leaves(cpu')
  /\ MailboxShape' /\ ~StorePending'

\* A step from the first effect on.
Commits ==
  /\ cpu.state \in Early \cup Late /\ cpu'.state \in Late
  /\ DOMAIN cpu' = CpuField
  /\ ~cpu'.running => "MNI" \in cpu'.sr
  /\ cpu'.extension_index = cpu.extension_index
  /\ MailboxShape' /\ StoreInv'

LEMMA SettlesKeeps ==
  ASSUME RestartInv, Settles, UNCHANGED <<ram, retired>>
  PROVE  RestartInv'
<1>1. Shape' /\ cpu'.state # "FETCH_INSTRUCTION"
  BY DEF RestartInv, Shape, MailboxShape, Settles, Quiet, Early, Ended, CpuState
<1>2. ~StorePending'
  BY DEF RestartInv, StoreInv, Settles, Early, StoreState
<1>3. EarlyInv'
  BY DEF RestartInv, EarlyInv, Settles, Quiet, Visible, BaseKept
<1>4. LateInv'
  BY DEF LateInv, Settles, Late
<1>5. PrefixInv'
  BY DEF RestartInv, PrefixInv, Settles, Quiet, Early
<1> QED BY <1>1, <1>2, <1>3, <1>4, <1>5 DEF RestartInv, FetchInv, StoreInv

LEMMA RetiredIsBase ==
  ASSUME RestartInv, Retired, UNCHANGED ram, retired' = Snapshot'
  PROVE  RestartInv'
<1>1. Shape'
  BY DEF RestartInv, Shape, MailboxShape, Retired, Leaves, CpuState
<1>2. FetchInv'
  BY DEF RestartInv, PrefixInv, FetchInv, Retired, Leaves, Visible, Snapshot, Early, Late, Ended
<1>3. EarlyInv' /\ LateInv' /\ StoreInv'
  BY DEF EarlyInv, LateInv, StoreInv, Retired, Early, Late
<1>4. PrefixInv'
  BY DEF RestartInv, PrefixInv, Retired, Leaves, Early, Late, Ended
<1> QED BY <1>1, <1>2, <1>3, <1>4 DEF RestartInv

LEMMA CommitsKeeps ==
  ASSUME RestartInv, Commits
  PROVE  RestartInv'
<1>1. Shape' /\ cpu'.state # "FETCH_INSTRUCTION"
  BY DEF RestartInv, Shape, MailboxShape, Commits, Late
<1>2. EarlyInv' /\ LateInv' /\ StoreInv'
  BY DEF EarlyInv, LateInv, Commits, Late
<1>3. PrefixInv'
  <2>1. cpu'.extension_index = 0
    BY DEF RestartInv, PrefixInv, Commits, Early, Late, Ended
  <2> QED BY <2>1 DEF PrefixInv
<1> QED BY <1>1, <1>2, <1>3 DEF RestartInv, FetchInv

-----------------------------------------------------------------------------
(***************************************************************************)
(* What the memory accesses and the moves of MNI do.                       *)
(***************************************************************************)
LEMMA ReadSeen ==
  ASSUME Shape
  PROVE  \A a, c, d : cpu_read_memory(a, c, d) =>
           /\ cpu' = d \/ cpu' = Stop(c)
           /\ MailboxShape' /\ (StorePending' => StorePending)
<1> SUFFICES ASSUME NEW a, NEW c, NEW d, cpu_read_memory(a, c, d)
             PROVE  /\ cpu' = d \/ cpu' = Stop(c)
                    /\ MailboxShape' /\ (StorePending' => StorePending)
  OBVIOUS
<1>1. CASE ReadHit(a, d)
  BY <1>1 DEF ReadHit, Proceed, Shape, MailboxShape, mailbox, StorePending
<1>2. CASE ReadReplied(a, d)
  BY <1>2 DEF ReadReplied, Release, Post, Shape, MailboxShape, MailboxField,
              mailbox, StorePending
<1>3. CASE ReadRequest(a, c)
  BY <1>3 DEF ReadRequest, Post, Shape, MailboxShape, MailboxField, mailbox, StorePending
<1>4. CASE Waiting(c)
  BY <1>4 DEF Waiting, Proceed, Shape, MailboxShape, mailbox, StorePending
<1> QED BY <1>1, <1>2, <1>3, <1>4 DEF cpu_read_memory

LEMMA WriteSeen ==
  ASSUME Shape
  PROVE  \A a, b, c, d : cpu_write_memory(a, b, c, d) =>
           /\ cpu' = Stop(c) \/ (cpu' = d /\ ~StorePending')
           /\ MailboxShape'
<1> SUFFICES ASSUME NEW a, NEW b, NEW c, NEW d, cpu_write_memory(a, b, c, d)
             PROVE  /\ cpu' = Stop(c) \/ (cpu' = d /\ ~StorePending')
                    /\ MailboxShape'
  OBVIOUS
<1>1. CASE WriteReplied(d)
  BY <1>1 DEF WriteReplied, Release, Post, Shape, MailboxShape, MailboxField,
              mailbox, StorePending
<1>2. CASE WriteRequest(a, b, c)
  BY <1>2 DEF WriteRequest, Post, Shape, MailboxShape, MailboxField, mailbox
<1>3. CASE Waiting(c)
  BY <1>3 DEF Waiting, Proceed, Shape, MailboxShape, mailbox
<1> QED BY <1>1, <1>2, <1>3 DEF cpu_write_memory

\* Setting MNI to 0 changes nothing a program can see.
LEMMA Restarting ==
  ASSUME Shape
  PROVE  /\ Quiet(Restartable) /\ Restartable.state = cpu.state
         /\ Restartable.running = cpu.running
<1>1. /\ DOMAIN Restartable = CpuField
      /\ \A x \in CpuField \ {"sr"} : Restartable[x] = cpu[x]
      /\ Restartable.sr = cpu.sr \ {"MNI"}
  BY DEF Restartable, Shape, CpuField
<1>2. (cpu.sr \ {"MNI"}) \ InternalFlags = cpu.sr \ InternalFlags
  BY DEF InternalFlags
<1> QED BY <1>1, <1>2 DEF Quiet, CpuField

LEMMA CommittedSeen ==
  ASSUME Shape
  PROVE  /\ DOMAIN Committed = CpuField
         /\ Committed.sr = cpu.sr \cup {"MNI"} /\ Committed.state = cpu.state
         /\ Committed.running = cpu.running /\ Committed.mode = cpu.mode
         /\ Committed.extension_index = cpu.extension_index
BY DEF Committed, Shape, CpuField

LEMMA EarlyReading ==
  ASSUME Shape, cpu.state \in Early
  PROVE  \A a, d : /\ Quiet(d) /\ d.state \in Early \cup Ended
                   /\ cpu_read_memory(a, Restartable, d)
                   => Settles
<1>1. Quiet(Stop(Restartable)) /\ Stop(Restartable).state \in Early
  BY Restarting DEF Quiet, Stop, CpuField
<1> QED BY <1>1, ReadSeen DEF Settles

LEMMA LateReading ==
  ASSUME RestartInv, cpu.state \in Late, cpu.state \notin StoreState
  PROVE  \A a, d : Leaves(d) /\ cpu_read_memory(a, Committed, d) => Commits \/ Retired
<1> SUFFICES ASSUME NEW a, NEW d, Leaves(d), cpu_read_memory(a, Committed, d)
             PROVE  Commits \/ Retired
  OBVIOUS
<1>1. MailboxShape' /\ ~StorePending' /\ (cpu' = d \/ cpu' = Stop(Committed))
  BY ReadSeen DEF RestartInv, StoreInv
<1>2. CASE cpu' = d
  BY <1>1, <1>2 DEF Leaves, Commits, Retired, StoreInv
<1>3. CASE cpu' = Stop(Committed)
  BY <1>1, <1>3, CommittedSeen DEF Stop, Commits, StoreInv, CpuField, RestartInv
<1> QED BY <1>1, <1>2, <1>3

LEMMA LateWriting ==
  ASSUME RestartInv, cpu.state \in StoreState,
         cpu.state \in {"WRITEBACK_LOW", "WRITEBACK_HIGH"} =>
            mode_category(cpu.mode.admr) = "ADMC_IND"
  PROVE  \A a, b, d : Leaves(d) /\ cpu_write_memory(a, b, Committed, d)
                      => Commits \/ Retired
<1> SUFFICES ASSUME NEW a, NEW b, NEW d, Leaves(d), cpu_write_memory(a, b, Committed, d)
             PROVE  Commits \/ Retired
  OBVIOUS
<1>1. cpu.state \in Late
  BY DEF StoreState, Late, CpuState, Early, Ended
<1>2. /\ MailboxShape'
      /\ cpu' = Stop(Committed) \/ (cpu' = d /\ ~StorePending')
  BY WriteSeen DEF RestartInv
<1>3. CASE cpu' = d /\ ~StorePending'
  BY <1>1, <1>2, <1>3 DEF Leaves, Commits, Retired, StoreInv
<1>4. CASE cpu' = Stop(Committed)
  <2>1. /\ DOMAIN cpu' = CpuField /\ cpu'.state = cpu.state /\ cpu'.mode = cpu.mode
        /\ "MNI" \in cpu'.sr /\ cpu'.extension_index = cpu.extension_index
    BY <1>4, CommittedSeen DEF Stop, CpuField, RestartInv
  <2> QED BY <1>1, <1>2, <2>1 DEF Commits, StoreInv
<1> QED BY <1>2, <1>3, <1>4

LEMMA Leaving ==
  ASSUME RestartInv, ~StorePending, cpu.state \in Early \cup Late,
         Leaves(cpu'), UNCHANGED dev
  PROVE  Commits \/ Retired
<1>1. MailboxShape' /\ ~StorePending'
  BY DEF RestartInv, Shape, MailboxShape, StorePending, mailbox
<1> QED BY <1>1 DEF Leaves, Commits, Retired, StoreInv

-----------------------------------------------------------------------------
(***************************************************************************)
(* The control states, one by one: before the first effect.                *)
(***************************************************************************)
LEMMA Addressing ==
  ASSUME Shape, FetchAddressingModes \/ FetchArgumentBytes \/ ComputeAddress
  PROVE  Settles
<1>1. CASE FetchAddressingModes
  <2> DEFINE d == [Restartable EXCEPT
                     !.mode = AddressingMode[ReadByte(cpu.pc)], !.pc = Wrap(@ + 1),
                     !.raw_index = IF BytesToLoad(AddressingMode[ReadByte(cpu.pc)]) = 0
                                   THEN @ ELSE 0,
                     !.state = IF BytesToLoad(AddressingMode[ReadByte(cpu.pc)]) = 0
                               THEN "COMPUTE_ADDRESS" ELSE "FETCH_ARGUMENT_BYTES"]
  <2>1. cpu_read_memory(cpu.pc, Restartable, d) /\ cpu.state \in Early
    BY <1>1 DEF FetchAddressingModes, In, Early
  <2>2. Quiet(d) /\ d.state \in Early
    BY Restarting DEF Quiet, CpuField, Early
  <2> QED BY <2>1, <2>2, EarlyReading
<1>2. CASE FetchArgumentBytes
  <2>1. /\ cpu_read_memory(cpu.pc, Restartable, Loaded(ReadByte(cpu.pc)))
        /\ cpu.state \in Early
    BY <1>2 DEF FetchArgumentBytes, In, Early
  <2>2. \A b : Quiet(Loaded(b)) /\ Loaded(b).state \in {"COMPUTE_ADDRESS", cpu.state}
    BY Restarting DEF Loaded, Stop, Goto, Quiet, CpuField
  <2> QED BY <2>1, <2>2, EarlyReading DEF Early
<1>3. CASE ComputeAddress
  <2>1. Quiet(cpu') /\ cpu'.state \in {"FETCH_DESTINATION", "COMPUTE_ADDRESS", "FETCH_SOURCE"}
    BY <1>3, Restarting DEF ComputeAddress, Proceed, AddressComputed, Stop, Quiet, CpuField
  <2> QED BY <1>3, <2>1 DEF ComputeAddress, In, Proceed, Settles, Early, Shape,
                            MailboxShape, StorePending, mailbox
<1> QED BY <1>1, <1>2, <1>3

LEMMA FetchingSource ==
  ASSUME Shape, FetchSourceImmediate \/ FetchSourceRegister \/ FetchSource \/ FetchSourceHigh
  PROVE  Settles
<1>1. CASE FetchSourceImmediate
  <2>1. Quiet(cpu') /\ cpu'.state \in {"FETCH_DESTINATION", "EXECUTE"}
    BY <1>1, Restarting DEF FetchSourceImmediate, Proceed, Sourced, Goto, Quiet, CpuField
  <2> QED BY <1>1, <2>1 DEF FetchSourceImmediate, In, Proceed, Settles, Early, Shape,
                            MailboxShape, StorePending, mailbox
<1>2. CASE FetchSourceRegister
  <2>1. Quiet(cpu') /\ cpu'.state \in {"FETCH_DESTINATION", "EXECUTE"}
    BY <1>2, Restarting DEF FetchSourceRegister, Proceed, Sourced, Goto, Quiet, CpuField
  <2> QED BY <1>2, <2>1 DEF FetchSourceRegister, In, Proceed, Settles, Early, Shape,
                            MailboxShape, StorePending, mailbox
<1>3. CASE FetchSource
  <2> DEFINE d == [Restartable EXCEPT !.state = "FETCH_SOURCE_HIGH",
                                      !.data_extended = ReadByte(cpu.address_extended)]
  <2>1. cpu_read_memory(cpu.address_extended, Restartable, d) /\ cpu.state \in Early
    BY <1>3 DEF FetchSource, In, Early
  <2>2. Quiet(d) /\ d.state \in Early
    BY Restarting DEF Quiet, CpuField, Early
  <2> QED BY <2>1, <2>2, EarlyReading
<1>4. CASE FetchSourceHigh
  <2> DEFINE a == Wrap(cpu.address_extended + 1)
             d == Sourced([Restartable EXCEPT !.data_extended = WordOf(@, ReadByte(a))])
  <2>1. cpu_read_memory(a, Restartable, d) /\ cpu.state \in Early
    BY <1>4 DEF FetchSourceHigh, In, Early
  <2>2. Quiet(d) /\ d.state \in Early
    BY Restarting DEF Quiet, CpuField, Sourced, Goto, Early
  <2> QED BY <2>1, <2>2, EarlyReading
<1> QED BY <1>1, <1>2, <1>3, <1>4

LEMMA FetchingDestination ==
  ASSUME Shape,
         \/ FetchDestinationRegister \/ FetchDestinationNone
         \/ FetchDestination \/ FetchDestinationHigh
  PROVE  Settles
<1>1. CASE FetchDestinationRegister
  <2>1. Quiet(cpu') /\ cpu'.state = "EXECUTE"
    BY <1>1, Restarting DEF FetchDestinationRegister, Proceed, Quiet, CpuField
  <2> QED BY <1>1, <2>1 DEF FetchDestinationRegister, In, Proceed, Settles, Early, Shape,
                            MailboxShape, StorePending, mailbox
<1>2. CASE FetchDestinationNone
  <2>1. Quiet(cpu') /\ cpu'.state = "EXCEPTION"
    BY <1>2, Restarting DEF FetchDestinationNone, Proceed, Stop, Goto, Quiet, CpuField
  <2> QED BY <1>2, <2>1 DEF FetchDestinationNone, In, Proceed, Settles, Early, Ended, Shape,
                            MailboxShape, StorePending, mailbox
<1>3. CASE FetchDestination
  <2> DEFINE d == [Restartable EXCEPT !.state = "FETCH_DESTINATION_HIGH",
                                      !.data_reduced = ReadByte(cpu.address_reduced)]
  <2>1. cpu_read_memory(cpu.address_reduced, Restartable, d) /\ cpu.state \in Early
    BY <1>3 DEF FetchDestination, In, Early
  <2>2. Quiet(d) /\ d.state \in Early
    BY Restarting DEF Quiet, CpuField, Early
  <2> QED BY <2>1, <2>2, EarlyReading
<1>4. CASE FetchDestinationHigh
  <2> DEFINE a == Wrap(cpu.address_reduced + 1)
             d == [Restartable EXCEPT !.state = "EXECUTE",
                                      !.data_reduced = WordOf(@, ReadByte(a))]
  <2>1. cpu_read_memory(a, Restartable, d) /\ cpu.state \in Early
    BY <1>4 DEF FetchDestinationHigh, In, Early
  <2>2. Quiet(d) /\ d.state \in Early
    BY Restarting DEF Quiet, CpuField, Early
  <2> QED BY <2>1, <2>2, EarlyReading
<1> QED BY <1>1, <1>2, <1>3, <1>4

\* What the processor rests in has no effect either.
LEMMA Resting ==
  ASSUME Shape, ExecuteHalt \/ ExecuteSleep \/ SleepClock
  PROVE  Settles
<1>1. CASE ExecuteHalt
  <2>1. Quiet(cpu') /\ cpu'.state = "HALT"
    BY <1>1, Restarting DEF ExecuteHalt, Proceed, Stop, Goto, Counted, Quiet, CpuField
  <2> QED BY <1>1, <2>1 DEF ExecuteHalt, Executing, In, Proceed, Settles, Early, Ended,
                            Shape, MailboxShape, StorePending, mailbox
<1>2. CASE ExecuteSleep
  <2>1. Quiet(cpu') /\ cpu'.state = "SLEEP"
    BY <1>2, Restarting DEF ExecuteSleep, Proceed, Stop, Goto, Quiet, CpuField
  <2> QED BY <1>2, <2>1 DEF ExecuteSleep, Executing, In, Proceed, Settles, Early, Shape,
                            MailboxShape, StorePending, mailbox
<1>3. CASE SleepClock
  <2>1. Quiet(cpu') /\ cpu'.state = "SLEEP"
    BY <1>3 DEF SleepClock, In, Proceed, Stop, Quiet, CpuField, Shape
  <2> QED BY <1>3, <2>1 DEF SleepClock, In, Proceed, Settles, Early, Shape,
                            MailboxShape, StorePending, mailbox
<1> QED BY <1>1, <1>2, <1>3

(***************************************************************************)
(* The control states, one by one: CS_EXECUTE.                             *)
(***************************************************************************)
LEMMA Executes ==
  ASSUME RestartInv, Execute
  PROVE  Settles \/ Commits \/ Retired
<1>a. /\ Shape /\ ~StorePending /\ cpu.running
      /\ cpu.state = "EXECUTE" /\ cpu.state \in Early \cup Late
  BY DEF RestartInv, StoreInv, StoreState, Early, Executing, In, Execute, ExecuteNop,
         ExecuteJump, ExecuteCall, ExecuteMove, ExecuteMoveByte, ExecutePush, ExecutePop,
         ExecuteCompare, ExecuteFlag, ExecuteAlu, ExecuteInt, ExecuteInvalidate,
         ExecuteFetchCache, ExecuteInfo, ExecuteHalt, ExecuteSleep
<1>1. CASE ExecuteNop
  <2>1. Leaves(cpu') /\ UNCHANGED dev
    BY <1>1, <1>a, Restarting DEF ExecuteNop, Proceed, Finish, Counted, Goto, Leaves, Quiet,
      CpuField, Late, CpuState, Early, Ended
  <2> QED BY <1>a, <2>1, Leaving
<1>2. CASE ExecuteJump
  <2>1. Leaves(cpu') /\ UNCHANGED dev
    BY <1>2, <1>a, Restarting DEF ExecuteJump, Proceed, Finish, Counted, Goto, Leaves, Quiet,
      CpuField, Late, CpuState, Early, Ended
  <2> QED BY <1>a, <2>1, Leaving
<1>3. CASE ExecuteCall
  <2>1. Leaves(cpu') /\ UNCHANGED dev
    BY <1>3, <1>a, Restarting DEF ExecuteCall, Proceed, Goto, Leaves, Quiet,
      CpuField, Late, CpuState, Early, Ended
  <2> QED BY <1>a, <2>1, Leaving
<1>4. CASE ExecuteMove
  <2>1. Leaves(cpu') /\ UNCHANGED dev
    <3>1. CASE cpu' = Finish(Restartable) /\ UNCHANGED dev
      BY <3>1, <1>a, Restarting DEF Finish, Counted, Goto, Leaves, Quiet,
        CpuField, Late, CpuState, Early, Ended
    <3>2. ASSUME NEW w, cpu' = [Restartable EXCEPT !.result = w, !.state = "WRITEBACK_LOW"],
                 UNCHANGED dev
          PROVE  Leaves(cpu') /\ UNCHANGED dev
      BY <3>2, <1>a, Restarting DEF Leaves, Quiet, CpuField, Late, CpuState, Early, Ended
    <3> QED BY <1>4, <3>1, <3>2 DEF ExecuteMove, Proceed
  <2> QED BY <1>a, <2>1, Leaving
<1>5. CASE ExecuteMoveByte
  <2>1. Leaves(cpu') /\ UNCHANGED dev
    BY <1>5, <1>a, Restarting DEF ExecuteMoveByte, Proceed, Goto, Leaves, Quiet,
      CpuField, Late, CpuState, Early, Ended
  <2> QED BY <1>a, <2>1, Leaving
<1>6. CASE ExecutePush
  <2>1. Leaves(cpu') /\ UNCHANGED dev
    BY <1>6, <1>a, Restarting DEF ExecutePush, Proceed, Goto, Leaves, Quiet,
      CpuField, Late, CpuState, Early, Ended
  <2> QED BY <1>a, <2>1, Leaving
<1>7. CASE ExecutePop
  <2>1. Leaves(cpu') /\ UNCHANGED dev
    BY <1>7, <1>a, Restarting DEF ExecutePop, Proceed, Goto, Leaves, Quiet,
      CpuField, Late, CpuState, Early, Ended
  <2> QED BY <1>a, <2>1, Leaving
<1>8. CASE ExecuteCompare
  <2>1. Leaves(cpu') /\ UNCHANGED dev
    BY <1>8, <1>a, Restarting DEF ExecuteCompare, Proceed, Finish, Counted, Goto, Leaves, Quiet,
      CpuField, Late, CpuState, Early, Ended
  <2> QED BY <1>a, <2>1, Leaving
<1>9. CASE ExecuteFlag
  <2>1. Leaves(cpu') /\ UNCHANGED dev
    BY <1>9, <1>a, Restarting DEF ExecuteFlag, Proceed, Finish, Counted, Goto, Leaves, Quiet,
      CpuField, Late, CpuState, Early, Ended
  <2> QED BY <1>a, <2>1, Leaving
<1>10. CASE ExecuteAlu
  <2>1. PICK w \in AluResults(cpu.instruction, cpu.data_reduced, cpu.data_extended,
                             "AO" \in cpu.sr) :
          Proceed([Restartable EXCEPT
            !.result = w, !.state = "WRITEBACK_LOW",
            !.sr = IF AluOverflow(cpu.instruction, cpu.data_reduced,
                                  cpu.data_extended, "AO" \in cpu.sr)
                   THEN @ \cup {"AO"} ELSE @ \ {"AO"}])
    BY <1>10 DEF ExecuteAlu
  <2>2. Leaves(cpu') /\ UNCHANGED dev
    BY <2>1, <1>a, Restarting DEF Proceed, Leaves, Quiet,
      CpuField, Late, CpuState, Early, Ended
  <2> QED BY <1>a, <2>2, Leaving
<1>11. CASE ExecuteInt
  <2>1. Leaves(cpu') /\ UNCHANGED dev
    BY <1>11, <1>a, Restarting DEF ExecuteInt, Proceed, Counted, Goto, Leaves, Quiet,
      CpuField, Late, CpuState, Early, Ended
  <2> QED BY <1>a, <2>1, Leaving
<1>12. CASE ExecuteInfo
  <2>1. Leaves(cpu') /\ UNCHANGED dev
    <3>1. PICK v : Proceed(Finish([Restartable EXCEPT !.r = v]))
      BY <1>12 DEF ExecuteInfo
    <3> QED BY <3>1, <1>a, Restarting DEF Proceed, Finish, Counted, Goto, Leaves, Quiet,
              CpuField, Late, CpuState, Early, Ended
  <2> QED BY <1>a, <2>1, Leaving
<1>13. CASE ExecuteInvalidate
  <2>1. cpu' = Finish(Restartable) /\ MailboxShape' /\ ~StorePending'
    BY <1>13, <1>a DEF ExecuteInvalidate, Shape, MailboxShape, StorePending, mailbox
  <2>2. Leaves(Finish(Restartable))
    BY <1>a, Restarting DEF Finish, Counted, Goto, Leaves, Quiet, CpuField
  <2> QED BY <1>a, <2>1, <2>2 DEF Leaves, Commits, Retired, StoreInv
<1>14. CASE ExecuteFetchCache
  <2>1. /\ cpu' = Finish(Restartable) \/ cpu' = Stop(Restartable)
        /\ MailboxShape' /\ ~StorePending'
    BY <1>14, <1>a, ReadSeen DEF ExecuteFetchCache
  <2>2. CASE cpu' = Finish(Restartable)
    <3>1. Leaves(Finish(Restartable))
      BY <1>a, Restarting DEF Finish, Counted, Goto, Leaves, Quiet, CpuField
    <3>2. Finish(Restartable).state = "FETCH_INSTRUCTION"
      BY <1>a, Restarting DEF Finish, Counted, Goto, Quiet, CpuField
    <3> QED BY <1>a, <2>1, <2>2, <3>1, <3>2 DEF Retired
  <2>3. CASE cpu' = Stop(Restartable)
    <3>1. Quiet(Stop(Restartable)) /\ Stop(Restartable).state = "EXECUTE"
      BY <1>a, Restarting DEF Stop, Quiet, CpuField
    <3> QED BY <1>a, <2>1, <2>3, <3>1 DEF Settles, Early
  <2> QED BY <2>1, <2>2, <2>3
<1> QED BY <1>a, Resting, <1>1, <1>2, <1>3, <1>4, <1>5, <1>6, <1>7, <1>8, <1>9, <1>10,
           <1>11, <1>12, <1>13, <1>14
           DEF Execute

(***************************************************************************)
(* The control states, one by one: from the first effect on.               *)
(***************************************************************************)
LEMMA WritesBack ==
  ASSUME RestartInv,
         \/ WritebackLow \/ WritebackLowRegister \/ WritebackLowNone
         \/ WritebackHigh \/ WritebackHighRegister
  PROVE  Commits \/ Retired
<1>1. CASE WritebackLow
  <2> DEFINE d == Goto(Committed, "WRITEBACK_HIGH")
  <2>1. /\ cpu_write_memory(cpu.address_reduced, Low(cpu.result), Committed, d)
        /\ cpu.state \in StoreState /\ cpu.running
        /\ cpu.state \in {"WRITEBACK_LOW", "WRITEBACK_HIGH"} =>
             mode_category(cpu.mode.admr) = "ADMC_IND"
    BY <1>1 DEF WritebackLow, In, StoreState
  <2>2. Leaves(d)
    BY <2>1, CommittedSeen DEF RestartInv, Leaves, Goto, CpuField,
      Late, CpuState, Early, Ended
  <2> QED BY <2>1, <2>2, LateWriting
<1>2. CASE WritebackLowRegister
  <2>1. ~StorePending /\ cpu.state \in Late /\ cpu.running
    BY <1>2 DEF WritebackLowRegister, In, RestartInv, StoreInv, StoreState, mode_category, Late,
      CpuState, Early, Ended
  <2>2. Leaves(cpu') /\ UNCHANGED dev
    BY <1>2, <2>1, CommittedSeen
       DEF RestartInv, WritebackLowRegister, Proceed, Assign, Leaves, Counted, Goto,
      CpuField, Late, CpuState, Early, Ended
  <2> QED BY <2>1, <2>2, Leaving
<1>3. CASE WritebackLowNone
  <2>1. ~StorePending /\ cpu.state = "WRITEBACK_LOW"
    BY <1>3 DEF WritebackLowNone, In, RestartInv, StoreInv, StoreState, mode_category
  <2>2. /\ DOMAIN cpu' = CpuField /\ cpu'.state = cpu.state /\ "MNI" \in cpu'.sr
        /\ cpu'.extension_index = cpu.extension_index /\ UNCHANGED dev
    BY <1>3, CommittedSeen DEF RestartInv, WritebackLowNone, Proceed, Stop, CpuField
  <2> QED BY <2>1, <2>2 DEF RestartInv, Shape, MailboxShape, mailbox, StorePending, Commits,
             StoreInv, Late, CpuState, Early, Ended
<1>4. CASE WritebackHigh
  <2> DEFINE d == Finish(Committed)
  <2>1. /\ cpu_write_memory(Wrap(cpu.address_reduced + 1), High(cpu.result), Committed, d)
        /\ cpu.state \in StoreState /\ cpu.running
        /\ cpu.state \in {"WRITEBACK_LOW", "WRITEBACK_HIGH"} =>
             mode_category(cpu.mode.admr) = "ADMC_IND"
    BY <1>4 DEF WritebackHigh, In, StoreState
  <2>2. Leaves(d)
    BY <2>1, CommittedSeen DEF RestartInv, Leaves, Finish, Counted, Goto, CpuField,
      Late, CpuState, Early, Ended
  <2> QED BY <2>1, <2>2, LateWriting
<1>5. CASE WritebackHighRegister
  <2>1. ~StorePending /\ cpu.state \in Late /\ cpu.running
    BY <1>5 DEF WritebackHighRegister, In, RestartInv, StoreInv, StoreState, mode_category, Late,
      CpuState, Early, Ended
  <2>2. Leaves(cpu') /\ UNCHANGED dev
    BY <1>5, <2>1, CommittedSeen
       DEF RestartInv, WritebackHighRegister, Proceed, Assign, Finish, Leaves, Counted,
           Goto,
      CpuField, Late, CpuState, Early, Ended
  <2> QED BY <2>1, <2>2, Leaving
<1> QED BY <1>1, <1>2, <1>3, <1>4, <1>5

LEMMA Pushes ==
  ASSUME RestartInv, PushHigh \/ PushLow \/ InterruptPushPcHigh \/ InterruptPushPcLow
  PROVE  Commits \/ Retired
<1>1. CASE PushHigh
  <2> DEFINE d == Goto(Pushed, "PUSH_LOW")
  <2>1. /\ cpu_write_memory(Below, High(cpu.result), Committed, d)
        /\ cpu.state \in StoreState /\ cpu.running
        /\ cpu.state \in {"WRITEBACK_LOW", "WRITEBACK_HIGH"} =>
             mode_category(cpu.mode.admr) = "ADMC_IND"
    BY <1>1 DEF PushHigh, In, StoreState
  <2>2. Leaves(d)
    BY <2>1, CommittedSeen DEF RestartInv, Pushed, Leaves, Goto, CpuField,
      Late, CpuState, Early, Ended
  <2> QED BY <2>1, <2>2, LateWriting
<1>2. CASE PushLow
  <2> DEFINE d == Finish(Pushed)
  <2>1. /\ cpu_write_memory(Below, Low(cpu.result), Committed, d)
        /\ cpu.state \in StoreState /\ cpu.running
        /\ cpu.state \in {"WRITEBACK_LOW", "WRITEBACK_HIGH"} =>
             mode_category(cpu.mode.admr) = "ADMC_IND"
    BY <1>2 DEF PushLow, In, StoreState
  <2>2. Leaves(d)
    BY <2>1, CommittedSeen DEF RestartInv, Pushed, Leaves, Finish, Counted, Goto, CpuField,
      Late, CpuState, Early, Ended
  <2> QED BY <2>1, <2>2, LateWriting
<1>3. CASE InterruptPushPcHigh
  <2> DEFINE d == Goto(Pushed, "INTERRUPT_PUSH_PC_LOW")
  <2>1. /\ cpu_write_memory(Below, High(cpu.pc), Committed, d)
        /\ cpu.state \in StoreState /\ cpu.running
        /\ cpu.state \in {"WRITEBACK_LOW", "WRITEBACK_HIGH"} =>
             mode_category(cpu.mode.admr) = "ADMC_IND"
    BY <1>3 DEF InterruptPushPcHigh, In, StoreState
  <2>2. Leaves(d)
    BY <2>1, CommittedSeen DEF RestartInv, Pushed, Leaves, Goto, CpuField,
      Late, CpuState, Early, Ended
  <2> QED BY <2>1, <2>2, LateWriting
<1>4. CASE InterruptPushPcLow
  <2> DEFINE d == Goto(Pushed, "INTERRUPT_FETCH_IRQ_VECTOR_LOW")
  <2>1. /\ cpu_write_memory(Below, Low(cpu.pc), Committed, d)
        /\ cpu.state \in StoreState /\ cpu.running
        /\ cpu.state \in {"WRITEBACK_LOW", "WRITEBACK_HIGH"} =>
             mode_category(cpu.mode.admr) = "ADMC_IND"
    BY <1>4 DEF InterruptPushPcLow, In, StoreState
  <2>2. Leaves(d)
    BY <2>1, CommittedSeen DEF RestartInv, Pushed, Leaves, Goto, CpuField,
      Late, CpuState, Early, Ended
  <2> QED BY <2>1, <2>2, LateWriting
<1> QED BY <1>1, <1>2, <1>3, <1>4

LEMMA Pops ==
  ASSUME RestartInv,
         \/ PopLow \/ PopHigh \/ PopsrLow \/ PopsrHigh
         \/ InterruptFetchIrqVectorLow \/ InterruptFetchIrqVectorHigh
  PROVE  Commits \/ Retired
<1>1. CASE PopLow
  <2> DEFINE d == [Popped EXCEPT
                     !.result = ReadByte(cpu.sp),
                     !.state = IF cpu.instruction = "POPB" THEN "WRITEBACK_LOW"
                               ELSE "POP_HIGH"]
  <2>1. /\ cpu_read_memory(cpu.sp, Committed, d) /\ cpu.running
        /\ cpu.state \in Late /\ cpu.state \notin StoreState
    BY <1>1 DEF PopLow, In, StoreState, Late, CpuState, Early, Ended
  <2>2. Leaves(d)
    BY <2>1, CommittedSeen DEF RestartInv, Popped, Leaves, CpuField,
      Late, CpuState, Early, Ended
  <2> QED BY <2>1, <2>2, LateReading
<1>2. CASE PopHigh
  <2> DEFINE w == WordOf(cpu.result, ReadByte(cpu.sp))
             d == IF cpu.instruction = "RET"
                  THEN Finish([Popped EXCEPT !.result = w, !.pc = w])
                  ELSE [Popped EXCEPT !.result = w, !.state = "WRITEBACK_LOW"]
  <2>1. /\ cpu_read_memory(cpu.sp, Committed, d) /\ cpu.running
        /\ cpu.state \in Late /\ cpu.state \notin StoreState
    BY <1>2 DEF PopHigh, In, StoreState, Late, CpuState, Early, Ended
  <2>2. Leaves(d)
    BY <2>1, CommittedSeen DEF RestartInv, Popped, Leaves, Finish, Counted, Goto, CpuField,
      Late, CpuState, Early, Ended
  <2> QED BY <2>1, <2>2, LateReading
<1>3. CASE PopsrLow
  <2> DEFINE d == [Popped EXCEPT !.sr = SrFlags(ReadByte(cpu.sp)),
                                 !.state = "POPSR_HIGH"]
  <2>1. /\ cpu_read_memory(cpu.sp, Committed, d) /\ cpu.running
        /\ cpu.state \in Late /\ cpu.state \notin StoreState
    BY <1>3 DEF PopsrLow, In, StoreState, Late, CpuState, Early, Ended
  <2>2. Leaves(d)
    BY <2>1, CommittedSeen DEF RestartInv, Popped, Leaves, CpuField,
      Late, CpuState, Early, Ended
  <2> QED BY <2>1, <2>2, LateReading
<1>4. CASE PopsrHigh
  <2> DEFINE d == [Popped EXCEPT !.sr = @ \cup SrFlags(WordOf(0, ReadByte(cpu.sp))),
                                 !.state = "FETCH_INSTRUCTION"]
  <2>1. /\ cpu_read_memory(cpu.sp, Committed, d) /\ cpu.running
        /\ cpu.state \in Late /\ cpu.state \notin StoreState
    BY <1>4 DEF PopsrHigh, In, StoreState, Late, CpuState, Early, Ended
  <2>2. Leaves(d)
    BY <2>1, CommittedSeen DEF RestartInv, Popped, Leaves, CpuField,
      Late, CpuState, Early, Ended
  <2> QED BY <2>1, <2>2, LateReading
<1>5. CASE InterruptFetchIrqVectorLow
  <2> DEFINE d == [Committed EXCEPT !.data_extended = ReadByte(Vector(cpu.irq_id)),
                                    !.state = "INTERRUPT_FETCH_IRQ_VECTOR_HIGH"]
  <2>1. /\ cpu_read_memory(Vector(cpu.irq_id), Committed, d) /\ cpu.running
        /\ cpu.state \in Late /\ cpu.state \notin StoreState
    BY <1>5 DEF InterruptFetchIrqVectorLow, In, StoreState, Late, CpuState, Early, Ended
  <2>2. Leaves(d)
    BY <2>1, CommittedSeen DEF RestartInv, Leaves, CpuField,
      Late, CpuState, Early, Ended
  <2> QED BY <2>1, <2>2, LateReading
<1>6. CASE InterruptFetchIrqVectorHigh
  <2> DEFINE a == Wrap(Vector(cpu.irq_id) + 1)
             w == WordOf(cpu.data_extended, ReadByte(a))
             d == [Committed EXCEPT !.data_extended = w, !.pc = w,
                                    !.state = "FETCH_INSTRUCTION"]
  <2>1. /\ cpu_read_memory(a, Committed, d) /\ cpu.running
        /\ cpu.state \in Late /\ cpu.state \notin StoreState
    BY <1>6 DEF InterruptFetchIrqVectorHigh, In, StoreState, Late, CpuState, Early, Ended
  <2>2. Leaves(d)
    BY <2>1, CommittedSeen DEF RestartInv, Leaves, CpuField,
      Late, CpuState, Early, Ended
  <2> QED BY <2>1, <2>2, LateReading
<1> QED BY <1>1, <1>2, <1>3, <1>4, <1>5, <1>6

-----------------------------------------------------------------------------
(***************************************************************************)
(* The beginning of a clock and of an instruction, and the devices.        *)
(***************************************************************************)
LEMMA Fetching ==
  ASSUME RestartInv, FetchInstruction, UNCHANGED <<ram, retired>>
  PROVE  RestartInv'
<1>1. /\ Shape /\ cpu.state = "FETCH_INSTRUCTION" /\ cpu.extension_index \in Nat
      /\ Visible /\ cpu.sp = retired.sp /\ ~StorePending
      /\ cpu.extension_index # 0 => BaseKept
      /\ cpu.extension_index = 0 => cpu.pc = retired.pc
  BY DEF FetchInstruction, In, RestartInv, FetchInv, PrefixInv, StoreInv, StoreState
<1> DEFINE Kept(c) == /\ DOMAIN c = CpuField
                      /\ c.r = cpu.r /\ c.sr \ InternalFlags = cpu.sr \ InternalFlags
                      /\ c.sp = cpu.sp
                      /\ c.previous_pc = retired.pc /\ c.previous_sp = retired.sp
<1>2. /\ Kept(AtBase) /\ AtBase.extension_index = cpu.extension_index
      /\ AtBase.pc = cpu.pc /\ AtBase.state = cpu.state
  <2>1. (cpu.sr \ {"MNI"}) \ InternalFlags = cpu.sr \ InternalFlags
    BY DEF InternalFlags
  <2>2. /\ DOMAIN Restartable = CpuField /\ Restartable.sr = cpu.sr \ {"MNI"}
        /\ \A x \in CpuField \ {"sr"} : Restartable[x] = cpu[x]
    BY <1>1 DEF Restartable, Shape, CpuField
  <2> QED BY <1>1, <2>1, <2>2 DEF AtBase, BaseKept, CpuField
<1>3. /\ Kept(Stop(AtBase)) /\ Stop(AtBase).extension_index = cpu.extension_index
      /\ Stop(AtBase).pc = cpu.pc /\ Stop(AtBase).state = "FETCH_INSTRUCTION"
  BY <1>1, <1>2 DEF Stop, CpuField
<1>4. ASSUME NEW b
      PROVE  /\ Kept(Opened(b))
             /\ \/ /\ Opened(b).state = "FETCH_INSTRUCTION"
                   /\ Opened(b).extension_index \in Nat \ {0}
                \/ /\ Opened(b).state = "EXCEPTION"
                   /\ Opened(b).extension_index \in Nat
                \/ /\ Opened(b).state \in {"EXECUTE", "FETCH_ADDRESSING_MODES"}
                   /\ Opened(b).extension_index = 0
  <2> DEFINE f == IF b \in NoCache THEN AtBase.sr \cup {"NC"} ELSE AtBase.sr \ {"NC"}
             c == [AtBase EXCEPT !.sr = f]
  <2>1. f \ InternalFlags = AtBase.sr \ InternalFlags
    BY DEF InternalFlags
  <2>2. Kept(c) /\ c.extension_index = cpu.extension_index /\ c.state = cpu.state
    BY <1>2, <2>1 DEF CpuField
  <2> HIDE DEF c
  <2>3. Opened(b) = LET m == Decoded(cpu.extension_index, b)
                    IN IF Opcode[1][b] = "EXT"
                       THEN Stop([c EXCEPT !.pc = Wrap(@ + 1), !.extension_index = @ + 1,
                                           !.instruction = "EXT"])
                       ELSE IF m = "ILLEGAL" THEN Stop([c EXCEPT !.state = "EXCEPTION"])
                       ELSE [c EXCEPT !.instruction = m, !.extension_index = 0,
                                      !.pc = Wrap(@ + 1),
                                      !.state = IF argument_count(m) = 0 THEN "EXECUTE"
                                                ELSE "FETCH_ADDRESSING_MODES"]
    BY DEF Opened, c
  <2> QED BY <1>1, <2>2, <2>3 DEF Stop, CpuField
<1>5. /\ MailboxShape' /\ ~StorePending'
      /\ cpu' = Stop(AtBase) \/ \E b : cpu' = Opened(b)
  BY <1>1, ReadSeen DEF FetchInstruction
<1>6. /\ Kept(cpu')
      /\ \/ /\ cpu'.state = "FETCH_INSTRUCTION" /\ cpu'.extension_index = 0
            /\ cpu'.pc = retired.pc
         \/ /\ cpu'.state = "FETCH_INSTRUCTION"
            /\ cpu'.extension_index \in Nat \ {0}
         \/ cpu'.state = "EXCEPTION" /\ cpu'.extension_index \in Nat
         \/ /\ cpu'.state \in {"EXECUTE", "FETCH_ADDRESSING_MODES"}
            /\ cpu'.extension_index = 0
  BY <1>1, <1>3, <1>4, <1>5
<1>7. Shape'
  BY <1>5, <1>6 DEF Shape, MailboxShape, CpuState
<1>8. Visible' /\ BaseKept' /\ (cpu.sp = retired.sp)'
  BY <1>1, <1>6 DEF Visible, BaseKept
<1> QED BY <1>5, <1>6, <1>7, <1>8
       DEF RestartInv, FetchInv, EarlyInv, LateInv, PrefixInv, StoreInv, Late, Early, Ended

\* A clock begins where the last one has ended.
LEMMA Beginning ==
  ASSUME RestartInv, ClockBegin \/ DropInterrupt, UNCHANGED <<ram, retired>>
  PROVE  RestartInv'
<1>1. /\ DOMAIN cpu' = CpuField /\ cpu'.running
      /\ \A x \in CpuField \ {"running"} : cpu'[x] = cpu[x]
  BY DEF ClockBegin, DropInterrupt, Proceed, RestartInv, Shape, CpuField
<1>2. MailboxShape' /\ (StorePending' => StorePending)
  BY DEF ClockBegin, DropInterrupt, Interrupted, Proceed, Post, RestartInv, Shape,
         MailboxShape, MailboxField, StorePending, mailbox
<1>3. /\ cpu'.state = cpu.state /\ cpu'.extension_index = cpu.extension_index
      /\ cpu'.r = cpu.r /\ cpu'.sr = cpu.sr /\ cpu'.pc = cpu.pc /\ cpu'.sp = cpu.sp
      /\ cpu'.previous_pc = cpu.previous_pc /\ cpu'.previous_sp = cpu.previous_sp
      /\ cpu'.mode = cpu.mode
  BY <1>1 DEF CpuField
<1>4. (Visible <=> Visible') /\ (BaseKept <=> BaseKept')
  BY <1>3 DEF Visible, BaseKept
<1>5. Shape'
  BY <1>1, <1>2, <1>3 DEF RestartInv, Shape, MailboxShape
<1>6. StoreInv'
  BY <1>2, <1>3 DEF RestartInv, StoreInv
<1>7. FetchInv' /\ EarlyInv' /\ LateInv' /\ PrefixInv'
  BY <1>1, <1>3, <1>4 DEF RestartInv, FetchInv, EarlyInv, LateInv, PrefixInv
<1> QED BY <1>5, <1>6, <1>7 DEF RestartInv

LEMMA Accepting ==
  ASSUME RestartInv, AcceptInterrupt, cpu.extension_index = 0
  PROVE  RestartInv'
<1>1. /\ DOMAIN cpu' = CpuField /\ cpu'.running
      /\ cpu'.state = "INTERRUPT_PUSH_PC_HIGH" /\ cpu'.extension_index = 0
  BY DEF AcceptInterrupt, RestartInv, Shape, CpuField
<1>2. MailboxShape' /\ ~StorePending'
  BY DEF AcceptInterrupt, Interrupted, Post, RestartInv, Shape,
         MailboxShape, MailboxField, StorePending, mailbox
<1>3. Shape'
  BY <1>1, <1>2 DEF Shape, MailboxShape, CpuState
<1> QED BY <1>1, <1>2, <1>3 DEF RestartInv, FetchInv, EarlyInv, LateInv, PrefixInv, StoreInv,
       Early, StoreState

\* The memory changes under a store only, and no interrupt hides a store.
LEMMA Answering ==
  ASSUME RestartInv, Answer \/ Interrupt
  PROVE  RestartInv'
<1>1. /\ UNCHANGED <<cpu, retired>> /\ MailboxShape'
      /\ StorePending' => StorePending
      /\ ram' = ram \/ StorePending
  BY DEF Answer, Interrupt, MemoryFetch, MemoryStore, MemoryOpen, Between, Pending,
         Done, DoneWith, Post, RestartInv, Shape, MailboxShape, MailboxField,
         StorePending, mailbox
<1>2. Shape' /\ StoreInv' /\ LateInv' /\ PrefixInv'
  BY <1>1 DEF RestartInv, Shape, MailboxShape, StoreInv, LateInv, PrefixInv
<1>3. BaseKept <=> BaseKept'
  BY <1>1 DEF BaseKept
<1> ~Created
  BY DEF Answer, Interrupt, MemoryFetch, MemoryStore, MemoryOpen, Between, Pending, Created,
         mailbox
<1>4. FetchInv' /\ EarlyInv'
  <2>1. CASE ram' = ram
    <3>1. Visible <=> Visible'
      BY <1>1, <2>1 DEF Visible
    <3> QED BY <1>1, <1>3, <3>1 DEF RestartInv, FetchInv, EarlyInv
  <2>2. CASE StorePending
    BY <1>1, <2>2 DEF RestartInv, StoreInv, StoreState, FetchInv, EarlyInv, Early
  <2> QED BY <1>1, <2>1, <2>2
<1> QED BY <1>2, <1>4 DEF RestartInv

-----------------------------------------------------------------------------
LEMMA RestartInit == Init => RestartInv
<1> SUFFICES ASSUME Init PROVE RestartInv
  OBVIOUS
<1>1. Shape /\ ~StorePending
  BY DEF Init, cpu_create, DevicesInit, device_create, Device, Shape, CpuField, CpuState,
         MailboxField, mailbox, StorePending
<1>2. cpu.state = "FETCH_INSTRUCTION" /\ cpu.extension_index = 0 /\ Created
  BY DEF Init, cpu_create, DevicesInit, device_create, Device, Created, mailbox
<1>3. FetchInv
  BY <1>2 DEF Init, Snapshot, FetchInv, Visible
<1> QED BY <1>1, <1>2, <1>3 DEF RestartInv, EarlyInv, LateInv, PrefixInv, StoreInv, Early, Late

LEMMA RestartNext ==
  ASSUME RestartInv, [Next]_vars, AcceptInterrupt => cpu.extension_index = 0
  PROVE  RestartInv'
<1>1. CASE UNCHANGED vars
  BY <1>1 DEF vars, RestartInv, Shape, FetchInv, EarlyInv, LateInv, PrefixInv, StoreInv,
         Visible, BaseKept, StorePending, Created, mailbox
<1>2. CASE Answer \/ Interrupt
  BY <1>2, Answering
<1>3. CASE CpuClock
  <2> UNCHANGED ram /\ retired' = IF Retires THEN Snapshot' ELSE retired
    BY <1>3 DEF CpuClock
  <2>1. ASSUME Settles \/ Commits \/ Retired
        PROVE  RestartInv'
    <3>1. CASE Settles
      <4>1. ~Retires
        BY <3>1 DEF Settles, Retires, Early, Ended
      <4> QED BY <3>1, <4>1, SettlesKeeps
    <3>2. CASE Retired
      <4>1. Retires
        BY <3>2 DEF Retired, Retires, Early, Late
      <4> QED BY <3>2, <4>1, RetiredIsBase
    <3> QED BY <2>1, <3>1, <3>2, CommitsKeeps
  <2>2. CASE \/ FetchAddressingModes \/ FetchArgumentBytes \/ ComputeAddress
             \/ FetchSourceImmediate \/ FetchSourceRegister \/ FetchSource
             \/ FetchSourceHigh \/ FetchDestinationRegister \/ FetchDestinationNone
             \/ FetchDestination \/ FetchDestinationHigh \/ SleepClock
    BY <2>1, <2>2, Addressing, FetchingSource, FetchingDestination, Resting DEF RestartInv
  <2>3. CASE Execute
    BY <2>1, <2>3, Executes
  <2>4. CASE \/ WritebackLow \/ WritebackLowRegister \/ WritebackLowNone
             \/ WritebackHigh \/ WritebackHighRegister
             \/ PushHigh \/ PushLow \/ PopLow \/ PopHigh \/ PopsrLow \/ PopsrHigh
             \/ InterruptPushPcHigh \/ InterruptPushPcLow
             \/ InterruptFetchIrqVectorLow \/ InterruptFetchIrqVectorHigh
    BY <2>1, <2>4, WritesBack, Pushes, Pops
  <2>5. CASE FetchInstruction
    <3>1. ~Retires
      BY <2>5 DEF FetchInstruction, In, Retires
    <3> QED BY <2>5, <3>1, Fetching
  <2>6. CASE ClockBegin \/ DropInterrupt
    <3>1. ~Retires
      BY <2>6 DEF ClockBegin, DropInterrupt, Proceed, RestartInv, Shape, CpuField, Retires
    <3> QED BY <2>6, <3>1, Beginning
  <2>7. CASE AcceptInterrupt
    BY <2>7, Accepting
  <2> QED BY <1>3, <2>2, <2>3, <2>4, <2>5, <2>6, <2>7 DEF CpuClock, cpu_clock
<1> QED BY <1>1, <1>2, <1>3 DEF Next

LEMMA RestartInvClean == RestartInv => RestartIsClean
<1> SUFFICES ASSUME RestartInv, ~cpu.running, ~Maskable, ~Created,
                    cpu.state \notin Ended
             PROVE  Visible /\ BaseKept
  BY DEF RestartIsClean, Visible, BaseKept, Ended
<1>1. cpu.state \notin Late
  BY DEF RestartInv, LateInv, Maskable
<1>2. CASE cpu.state = "FETCH_INSTRUCTION"
  BY <1>2 DEF RestartInv, FetchInv
<1>3. CASE cpu.state \in Early
  BY <1>3 DEF RestartInv, EarlyInv
<1> QED BY <1>1, <1>2, <1>3 DEF RestartInv, Shape, Late

(***************************************************************************)
(* Wherever cpu_clock accepts an interrupt, the instruction under way can  *)
(* be abandoned and started again: for every instruction set, cache and    *)
(* program, however long the memory takes, and as long as the processor's  *)
(* known weakness is not met, an interrupt between the bytes of a prefixed *)
(* instruction (cpu_clock, and the MNI of every control state).            *)
(***************************************************************************)
THEOREM InterruptsRestart == Spec /\ NoPrefixInterrupted => []RestartIsClean
<1>1. RestartInv /\ [Next]_vars /\ [AcceptInterrupt => cpu.extension_index = 0]_vars
        => RestartInv'
  <2> SUFFICES ASSUME RestartInv, [Next]_vars,
                      [AcceptInterrupt => cpu.extension_index = 0]_vars
               PROVE  RestartInv'
    OBVIOUS
  <2>1. CASE UNCHANGED vars
    BY <2>1 DEF vars, RestartInv, Shape, FetchInv, EarlyInv, LateInv, PrefixInv, StoreInv,
           Visible, BaseKept, StorePending, Created, mailbox
  <2> QED BY <2>1, RestartNext
<1> QED BY <1>1, RestartInit, RestartInvClean, PTL DEF Spec, NoPrefixInterrupted

-----------------------------------------------------------------------------
(***************************************************************************)
(* The machine.                                                            *)
(***************************************************************************)
LEMMA TypeInvInit == Init => TypeInv
<1> SUFFICES ASSUME Init
             PROVE  TypeInv
  OBVIOUS
<1>1. RamTypeOK
  BY MachineAssumption DEF Init, RamTypeOK
<1> QED BY <1>1, CreatedTyped DEF Init, TypeInv, Stores

LEMMA AnswersTyped ==
  ASSUME TypeInv, Answer \/ Interrupt
  PROVE  TypeInv'
<1>1. DevicesTypeOK /\ RamTypeOK /\ mailbox \in Mailbox
  BY Own DEF TypeInv, Stores
<1>2. mailbox.address \in Address /\ mailbox.data[0] \in BYTE
  BY <1>1, Sizes DEF Mailbox, Line
<1>3. CASE MemoryFetch
  <2>1. [mailbox EXCEPT !.processed = 1, !.data = ram_read(mailbox.address)] \in Mailbox
    BY <1>1, <1>2, ReadLines DEF Mailbox
  <2>2. Post([mailbox EXCEPT !.processed = 1, !.data = ram_read(mailbox.address)])
    BY <1>1, <1>3, Own DEF MemoryFetch, DoneWith, Post, mailbox
  <2>3. DevicesTypeOK'
    BY <1>1, <2>1, <2>2, Posting
  <2> QED BY <1>3, <2>3 DEF MemoryFetch, TypeInv, Stores, CacheTypeOK, RamTypeOK
<1>4. CASE MemoryStore
  <2>1. [mailbox EXCEPT !.processed = 1] \in Mailbox
    BY <1>1 DEF Mailbox
  <2>2. Post([mailbox EXCEPT !.processed = 1])
    BY <1>1, <1>4, Own DEF MemoryStore, Done, Post, mailbox
  <2>3. DevicesTypeOK'
    BY <1>1, <2>1, <2>2, Posting
  <2>4. RamTypeOK'
    BY <1>1, <1>2, <1>4 DEF MemoryStore, ram_write, RamTypeOK
  <2> QED BY <1>4, <2>3, <2>4 DEF MemoryStore, TypeInv, Stores, CacheTypeOK
<1>5. CASE MemoryOpen
  <2>1. [mailbox EXCEPT !.processed = 1, !.state = "DS_IDLE"] \in Mailbox
    BY <1>1 DEF Mailbox, DeviceState
  <2>2. DevicesTypeOK'
    BY <1>1, <1>5, <2>1, Posting DEF MemoryOpen
  <2> QED BY <1>5, <2>2 DEF MemoryOpen, TypeInv, Stores, CacheTypeOK, RamTypeOK
<1>6. CASE Interrupt
  <2>1. [mailbox EXCEPT !.state = "DS_INTERRUPT", !.address = INT_CLOCK] \in Mailbox
    BY <1>1, InterruptAssumption DEF Mailbox, DeviceState
  <2>2. DevicesTypeOK'
    BY <1>1, <1>6, <2>1, Posting DEF Interrupt
  <2> QED BY <1>6, <2>2 DEF Interrupt, TypeInv, Stores, CacheTypeOK, RamTypeOK
<1> QED BY <1>3, <1>4, <1>5, <1>6 DEF Answer

LEMMA TypeInvStep == TypeInv /\ [Next]_vars => TypeInv'
<1> SUFFICES ASSUME TypeInv, [Next]_vars
             PROVE  TypeInv'
  OBVIOUS
<1>1. CASE CpuClock
  <2>1. cpu_clock /\ UNCHANGED ram
    BY <1>1 DEF CpuClock
  <2> QED BY <2>1, ClocksTyped
<1>2. CASE Answer \/ Interrupt
  BY <1>2, AnswersTyped
<1>3. CASE UNCHANGED vars
  BY <1>3 DEF vars, TypeInv, Stores, DevicesTypeOK, CacheTypeOK, RamTypeOK
<1> QED BY <1>1, <1>2, <1>3 DEF Next

LEMMA Invariant == Spec => []TypeInv
<1> QED BY TypeInvInit, TypeInvStep, PTL DEF Spec

\* Registers, latches, argument bytes, cache lines, mailboxes and memory hold
\* values of their width in every reachable state, whatever the program and
\* whenever the interrupts come.  The half-words between the two bytes of an
\* operand and the flags of the mnemonic in the decoder are what an induction
\* has to know in addition (all of cpu_clock).
THEOREM WidthsAreKept == Spec => []TypeOK
<1>1. TypeInv => TypeOK
  BY DEF TypeInv, Typed, Stores, TypeOK, CpuTypeOK
<1> QED BY <1>1, Invariant, PTL

-----------------------------------------------------------------------------
(***************************************************************************)
(* The cache holds what the RAM holds.                                     *)
(***************************************************************************)
\* No byte of the line from a on is in RAM.
OffRam(a) == \A o \in 0 .. LINE - 1 : ~Reads("RAM", (a + o) % ADDRESS_SPACE)

\* What the mailbox holds: a store is made and answered at a store; a fetch
\* from RAM is answered with the line there, and one that nobody answers for
\* concerns no byte in RAM.
MailInv ==
  /\ mailbox.state = "DS_STORE" => AtStore
  /\ mailbox.state = "DS_INTERRUPT" => mailbox.processed = 0
  /\ mailbox.processed = 1 =>
       /\ mailbox.state = "DS_FETCH" => mailbox.data = ram_read(mailbox.address)
       /\ mailbox.state = "DS_IDLE" /\ ~AtStore => OffRam(mailbox.address)

\* An address has one line only, and its byte is the one to be stored.
LineInv ==
  \A i \in DOMAIN cache : cache[i].valid =>
    /\ cache[i].address % CAPACITY = i
    /\ Storing(cache[i].address) => cache[i].data = mailbox.data[0]

CacheInv == TypeInv /\ MailInv /\ LineInv /\ CacheCoherent

\* The two things that let the cache and the RAM differ: a store that goes past
\* the cache, and an open-bus read whose line wraps into the RAM.
StoresCached ==
  [][mailbox.state # "DS_STORE" /\ mailbox'.state = "DS_STORE" => Caching]_vars
OpenReadsApart ==
  [][MemoryOpen /\ mailbox.state = "DS_FETCH" => OffRam(mailbox.address)]_vars

\* The line of an address is found from the address without the wrap.
LEMMA Folding ==
  ASSUME CAPACITY > 0, NEW x \in Nat
  PROVE  (x % ADDRESS_SPACE) % CAPACITY = x % CAPACITY
<1>1. /\ CAPACITY \in Nat \ {0} /\ ADDRESS_SPACE \in Nat \ {0}
      /\ ADDRESS_SPACE % CAPACITY = 0
  BY CacheAssumption, SegmentAssumption
<1>2. PICK c \in Nat \ {0}, s \in Nat \ {0} : c = CAPACITY /\ s = ADDRESS_SPACE
  BY <1>1
<1> DEFINE k == s \div c
           q == x \div s
           r == x % s
           t == r \div c
           u == r % c
<1>3. k \in Int /\ s = k * c
  <2>1. s % c = 0
    BY <1>1, <1>2
  <2>2. s = (s \div c) * c + (s % c)
    OBVIOUS
  <2> QED BY <2>1, <2>2
<1>4. q \in Int /\ r \in Nat /\ x = q * s + r
  OBVIOUS
<1>5. t \in Int /\ u \in 0 .. c - 1 /\ r = t * c + u
  BY <1>4
<1> HIDE DEF k, q, r, t, u
<1>6. x = (q * k + t) * c + u
  BY <1>3, <1>4, <1>5
<1>7. q * k + t \in Int
  BY <1>3, <1>4, <1>5
<1>8. x % c = u
  BY <1>5, <1>6, <1>7, Division
<1> QED BY <1>2, <1>5, <1>8 DEF r, u

-----------------------------------------------------------------------------
\* With no store under way, what is valid is what the RAM holds.
LEMMA NoStore ==
  ASSUME CacheInv, mailbox.state # "DS_STORE" \/ mailbox.processed = 1,
         NEW i \in DOMAIN cache, cache[i].valid, Reads("RAM", cache[i].address)
  PROVE  cache[i].data = ram[cache[i].address]
BY DEF CacheInv, CacheCoherent, Storing

\* Nothing has changed but the processor, or the mailbox is idle or has a
\* request for a fetch.
LEMMA LinesKept ==
  ASSUME CacheInv, UNCHANGED <<ram, cache>>,
         \/ UNCHANGED dev
         \/ /\ mailbox.state # "DS_STORE" \/ mailbox.processed = 1
            /\ mailbox'.state # "DS_STORE"
  PROVE  LineInv' /\ CacheCoherent'
<1>1. CASE UNCHANGED dev
  BY <1>1 DEF CacheInv, LineInv, CacheCoherent, Storing, mailbox
<1>2. CASE /\ mailbox.state # "DS_STORE" \/ mailbox.processed = 1
           /\ mailbox'.state # "DS_STORE"
  <2>1. LineInv'
    BY <1>2 DEF CacheInv, LineInv, Storing
  <2>2. CacheCoherent'
    BY <1>2, NoStore DEF CacheCoherent
  <2> QED BY <2>1, <2>2
<1> QED BY <1>1, <1>2

\* The line that a fetch brings.
LEMMA LineCached ==
  ASSUME CacheInv, ~AtStore, NEW a \in Address, NEW d, ReadReplied(a, d), UNCHANGED ram
  PROVE  MailInv' /\ LineInv' /\ CacheCoherent'
<1>1. DevicesTypeOK /\ CacheTypeOK
  BY DEF CacheInv, TypeInv, Stores
<1>2. mailbox'.state = "DS_IDLE" /\ mailbox'.processed = 0
  BY <1>1, Released DEF ReadReplied
<1>3. MailInv'
  BY <1>2 DEF MailInv
<1>4. mailbox.processed = 1 /\ mailbox.address = a
  BY DEF ReadReplied
<1>5. CASE ~Caching
  BY <1>2, <1>3, <1>4, <1>5, LinesKept DEF ReadReplied
<1>6. CASE Caching
  <2>1. cache' = cache_write(a, mailbox.data, LINE)
    BY <1>6 DEF ReadReplied
  <2>2. \A o \in 0 .. LINE - 1 : Reads("RAM", (a + o) % ADDRESS_SPACE) =>
          mailbox.data[o] = ram[(a + o) % ADDRESS_SPACE]
    <3>1. mailbox.state \in {"DS_IDLE", "DS_FETCH"}
      BY <1>1, <1>4, Own DEF CacheInv, MailInv, Mailbox, DeviceState
    <3>2. CASE mailbox.state = "DS_FETCH"
      BY <1>4, <3>2 DEF CacheInv, MailInv, ram_read
    <3>3. CASE mailbox.state = "DS_IDLE"
      BY <1>4, <3>3 DEF CacheInv, MailInv, OffRam
    <3> QED BY <3>1, <3>2, <3>3
  <2>3. ASSUME NEW i \in 0 .. CAPACITY - 1, \E o \in 0 .. LINE - 1 : (a + o) % CAPACITY = i
        PROVE  /\ cache'[i].address % CAPACITY = i
               /\ Reads("RAM", cache'[i].address) => cache'[i].data = ram[cache'[i].address]
    <3> DEFINE o == LastOffset(i, a, LINE)
    <3>1. a \in Nat /\ LINE \in Nat /\ CAPACITY > 0
      BY Sizes, CacheAssumption DEF Address
    <3>2. o \in 0 .. LINE - 1 /\ (a + o) % CAPACITY = i
      BY <2>3, <3>1, LastOffsets
    <3>3. cache'[i] = [valid |-> TRUE, address |-> (a + o) % ADDRESS_SPACE,
                       data |-> mailbox.data[o]]
      BY <2>1, <2>3 DEF cache_write
    <3> HIDE DEF o
    <3>4. a + o \in Nat
      BY <3>1, <3>2
    <3>5. ((a + o) % ADDRESS_SPACE) % CAPACITY = i
      BY <3>1, <3>2, <3>4, Folding
    <3> QED BY <2>2, <3>2, <3>3, <3>5
  <2>4. ASSUME NEW i \in 0 .. CAPACITY - 1, ~\E o \in 0 .. LINE - 1 : (a + o) % CAPACITY = i
        PROVE  cache'[i] = cache[i]
    BY <2>1, <2>4 DEF cache_write
  <2>5. DOMAIN cache' = 0 .. CAPACITY - 1 /\ DOMAIN cache = 0 .. CAPACITY - 1
    BY <1>1, <2>1 DEF cache_write, CacheTypeOK
  <2>6. \A i \in 0 .. CAPACITY - 1 : cache'[i].valid =>
          /\ cache'[i].address % CAPACITY = i
          /\ Reads("RAM", cache'[i].address) => cache'[i].data = ram[cache'[i].address]
    <3> SUFFICES ASSUME NEW i \in 0 .. CAPACITY - 1, cache'[i].valid
                 PROVE  /\ cache'[i].address % CAPACITY = i
                        /\ Reads("RAM", cache'[i].address) =>
                             cache'[i].data = ram[cache'[i].address]
      OBVIOUS
    <3>1. CASE \E o \in 0 .. LINE - 1 : (a + o) % CAPACITY = i
      BY <2>3, <3>1
    <3>2. CASE ~\E o \in 0 .. LINE - 1 : (a + o) % CAPACITY = i
      <4>1. cache'[i] = cache[i]
        BY <2>4, <3>2
      <4> QED BY <1>4, <2>5, <4>1, NoStore DEF CacheInv, LineInv
    <3> QED BY <3>1, <3>2
  <2> QED BY <1>2, <1>3, <2>5, <2>6 DEF LineInv, CacheCoherent, Storing
<1> QED BY <1>5, <1>6

LEMMA LoadsKeep ==
  ASSUME CacheInv, UNCHANGED ram, Loads
  PROVE  MailInv' /\ LineInv' /\ CacheCoherent'
<1>1. ~AtStore /\ DevicesTypeOK /\ mailbox.state # "DS_STORE"
  BY OneAccess DEF Loads, CacheInv, TypeInv, Stores, MailInv
<1>2. PICK a \in Address : \E c, d : cpu_read_memory(a, c, d)
  BY DEF Loads
<1>3. PICK c, d : cpu_read_memory(a, c, d)
  BY <1>2
<1>4. CASE ReadReplied(a, d)
  BY <1>1, <1>4, LineCached
<1>5. CASE ReadRequest(a, c)
  <2>1. mailbox' = [mailbox EXCEPT !.state = "DS_FETCH", !.processed = 0, !.address = a]
    BY <1>1, <1>5, Posted DEF ReadRequest
  <2>2. mailbox'.state = "DS_FETCH" /\ mailbox'.processed = 0
    BY <1>1, <2>1, Own DEF Mailbox
  <2> QED BY <1>1, <1>5, <2>2, LinesKept DEF ReadRequest, MailInv
<1>6. CASE ReadHit(a, d) \/ Waiting(c)
  <2>1. UNCHANGED <<dev, cache>>
    BY <1>6 DEF ReadHit, Waiting, Proceed
  <2>2. MailInv'
    BY <1>1, <2>1 DEF CacheInv, MailInv, ram_read, mailbox
  <2> QED BY <2>1, <2>2, LinesKept
<1> QED BY <1>3, <1>4, <1>5, <1>6 DEF cpu_read_memory

LEMMA SavesKeep ==
  ASSUME CacheInv, UNCHANGED ram, Saves,
         mailbox.state # "DS_STORE" /\ mailbox'.state = "DS_STORE" => Caching
  PROVE  MailInv' /\ LineInv' /\ CacheCoherent'
<1>1. AtStore /\ DevicesTypeOK /\ CacheTypeOK /\ Typed(cpu)
  BY DEF Saves, CacheInv, TypeInv, Stores
<1>2. PICK a \in Address, b \in BYTE : \E d : cpu_write_memory(a, b, Committed, d)
  BY DEF Saves
<1>3. PICK d : cpu_write_memory(a, b, Committed, d)
  BY <1>2
<1>4. ASSUME cpu' = Stop(Committed)
      PROVE  AtStore'
  <2>1. cpu'.state = cpu.state /\ cpu'.mode = cpu.mode
    BY <1>1, <1>4 DEF Stop, Committed, Typed, CpuRecord
  <2> QED BY <1>1, <2>1 DEF AtStore
<1>5. CASE WriteReplied(d)
  <2>1. mailbox.processed = 1 /\ mailbox'.state = "DS_IDLE" /\ mailbox'.processed = 0
    BY <1>1, <1>5, Released DEF WriteReplied
  <2> QED BY <1>5, <2>1, LinesKept DEF WriteReplied, MailInv
<1>6. CASE Waiting(Committed)
  <2>1. UNCHANGED <<dev, cache>> /\ cpu' = Stop(Committed)
    BY <1>6 DEF Waiting, Proceed
  <2>2. MailInv'
    BY <1>4, <2>1 DEF CacheInv, MailInv, ram_read, mailbox
  <2> QED BY <2>1, <2>2, LinesKept
<1>7. CASE WriteRequest(a, b, Committed)
  <2>1. mailbox' = [mailbox EXCEPT !.state = "DS_STORE", !.address = a, !.data = ByteLine(b)]
    BY <1>1, <1>7, Posted DEF WriteRequest
  <2>2. /\ mailbox.state = "DS_IDLE" /\ mailbox.processed = 0
        /\ mailbox'.state = "DS_STORE" /\ mailbox'.processed = 0
        /\ mailbox'.address = a /\ mailbox'.data[0] = b
    BY <1>1, <1>7, <2>1, Own, Sizes DEF WriteRequest, Mailbox, ByteLine
  <2>3. MailInv'
    BY <1>4, <1>7, <2>2 DEF WriteRequest, MailInv
  <2>4. cache' = cache_write(a, ByteLine(b), 1)
    BY <1>7, <2>2 DEF WriteRequest
  <2>5. DOMAIN cache' = 0 .. CAPACITY - 1 /\ DOMAIN cache = 0 .. CAPACITY - 1
    BY <1>1, <2>4 DEF cache_write, CacheTypeOK
  <2>6. ASSUME NEW i \in 0 .. CAPACITY - 1, a % CAPACITY = i
        PROVE  cache'[i].address = a /\ cache'[i].data = b
    <3> DEFINE o == LastOffset(i, a, 1)
    <3>1. a \in Nat /\ a + 0 = a /\ a % ADDRESS_SPACE = a
      BY Sizes DEF Address, AWord
    <3>2. \E q \in 0 .. 1 - 1 : (a + q) % CAPACITY = i
      BY <2>6, <3>1
    <3>3. o \in 0 .. 1 - 1
      BY <3>1, <3>2, LastOffsets
    <3>4. cache'[i] = [valid |-> TRUE, address |-> (a + o) % ADDRESS_SPACE,
                       data |-> ByteLine(b)[o]]
      BY <2>4, <3>2 DEF cache_write
    <3> HIDE DEF o
    <3>5. o = 0
      BY <3>3
    <3> QED BY <3>1, <3>4, <3>5, Sizes DEF ByteLine
  <2>7. ASSUME NEW i \in 0 .. CAPACITY - 1, a % CAPACITY # i
        PROVE  cache'[i] = cache[i]
    <3>1. ~\E q \in 0 .. 1 - 1 : (a + q) % CAPACITY = i
      BY <2>7 DEF Address
    <3> QED BY <2>4, <3>1 DEF cache_write
  <2>8. \A i \in 0 .. CAPACITY - 1 : cache'[i].valid =>
          /\ cache'[i].address % CAPACITY = i
          /\ cache'[i].address = a => cache'[i].data = b
          /\ cache'[i].address # a /\ Reads("RAM", cache'[i].address) =>
               cache'[i].data = ram[cache'[i].address]
    <3> SUFFICES ASSUME NEW i \in 0 .. CAPACITY - 1, cache'[i].valid
                 PROVE  /\ cache'[i].address % CAPACITY = i
                        /\ cache'[i].address = a => cache'[i].data = b
                        /\ cache'[i].address # a /\ Reads("RAM", cache'[i].address) =>
                             cache'[i].data = ram[cache'[i].address]
      OBVIOUS
    <3>1. CASE a % CAPACITY = i
      BY <2>6, <3>1
    <3>2. CASE a % CAPACITY # i
      <4>1. cache'[i] = cache[i]
        BY <2>7, <3>2
      <4>2. cache[i].address % CAPACITY = i
        BY <2>5, <4>1 DEF CacheInv, LineInv
      <4> QED BY <2>2, <2>5, <3>2, <4>1, <4>2, NoStore
    <3> QED BY <3>1, <3>2
  <2> QED BY <1>7, <2>2, <2>3, <2>5, <2>8 DEF LineInv, CacheCoherent, Storing
<1> QED BY <1>3, <1>5, <1>6, <1>7 DEF cpu_write_memory

LEMMA ClocksKeep ==
  ASSUME CacheInv, UNCHANGED ram, cpu_clock,
         mailbox.state # "DS_STORE" /\ mailbox'.state = "DS_STORE" => Caching
  PROVE  MailInv' /\ LineInv' /\ CacheCoherent'
<1>1. TypeInv /\ DevicesTypeOK /\ CacheTypeOK /\ Typed(cpu)
  BY DEF CacheInv, TypeInv, Stores
<1>2. CASE Elsewhere
  <2>1. ~AtStore /\ UNCHANGED <<dev, cache>>
    BY <1>2 DEF Elsewhere, Proceed
  <2>2. MailInv'
    BY <2>1 DEF CacheInv, MailInv, ram_read, mailbox
  <2> QED BY <2>1, <2>2, LinesKept
<1>3. CASE ExecuteInvalidate
  <2>1. /\ ~AtStore /\ UNCHANGED dev /\ cache' = cache_invalidate
    BY <1>3 DEF ExecuteInvalidate, Executing, In, AtStore
  <2>2. MailInv'
    BY <2>1 DEF CacheInv, MailInv, ram_read, mailbox
  <2>3. \A i \in DOMAIN cache' : ~cache'[i].valid
    <3> SUFFICES ASSUME NEW i \in 0 .. CAPACITY - 1
                 PROVE  [cache[i] EXCEPT !.valid = FALSE].valid = FALSE
      BY <2>1 DEF cache_invalidate
    <3>1. cache[i] \in [valid : BOOLEAN, address : Address, data : BYTE]
      BY <1>1 DEF CacheTypeOK
    <3> QED BY <3>1
  <2> QED BY <2>2, <2>3 DEF LineInv, CacheCoherent
<1>4. CASE ClockBegin
  <2>1. UNCHANGED <<dev, cache>> /\ cpu' = [cpu EXCEPT !.running = TRUE]
    BY <1>4 DEF ClockBegin, Proceed
  <2>2. cpu'.state = cpu.state /\ cpu'.mode = cpu.mode
    BY <1>1, <2>1 DEF Typed, CpuRecord
  <2>3. MailInv'
    BY <2>1, <2>2 DEF CacheInv, MailInv, ram_read, mailbox, AtStore
  <2> QED BY <2>1, <2>3, LinesKept
<1>5. CASE AcceptInterrupt \/ DropInterrupt
  <2>1. Interrupted
    BY <1>5 DEF AcceptInterrupt, DropInterrupt
  <2>2. mailbox' = [mailbox EXCEPT !.state = "DS_IDLE"]
    BY <1>1, <2>1, Posted DEF Interrupted
  <2>3. /\ mailbox.state = "DS_INTERRUPT" /\ mailbox.processed = 0
        /\ mailbox'.state = "DS_IDLE" /\ mailbox'.processed = 0
    BY <1>1, <2>1, <2>2, Own DEF Interrupted, CacheInv, MailInv, Mailbox
  <2>4. MailInv'
    BY <2>3 DEF MailInv
  <2> QED BY <2>1, <2>3, <2>4, LinesKept DEF Interrupted
<1> QED BY <1>1, <1>2, <1>3, <1>4, <1>5, Seen, LoadsKeep, SavesKeep

LEMMA AnswersKeep ==
  ASSUME CacheInv, Answer \/ Interrupt,
         MemoryOpen /\ mailbox.state = "DS_FETCH" => OffRam(mailbox.address)
  PROVE  MailInv' /\ LineInv' /\ CacheCoherent'
<1>1. DevicesTypeOK /\ RamTypeOK /\ mailbox \in Mailbox
  BY Own DEF CacheInv, TypeInv, Stores
<1>2. CASE MemoryFetch
  <2>1. Post([mailbox EXCEPT !.processed = 1, !.data = ram_read(mailbox.address)])
    BY <1>1, <1>2, Own DEF MemoryFetch, DoneWith, Post, mailbox
  <2>2. mailbox' = [mailbox EXCEPT !.processed = 1, !.data = ram_read(mailbox.address)]
    BY <1>1, <2>1, Posted
  <2>3. /\ mailbox.state = "DS_FETCH" /\ mailbox'.state = "DS_FETCH"
        /\ mailbox'.address = mailbox.address /\ mailbox'.data = ram_read(mailbox.address)
    BY <1>1, <1>2, <2>2 DEF MemoryFetch, Between, Pending, Mailbox, mailbox
  <2>4. UNCHANGED <<ram, cache, cpu>>
    BY <1>2 DEF MemoryFetch
  <2>5. MailInv'
    BY <2>3, <2>4 DEF MailInv, ram_read
  <2> QED BY <2>3, <2>4, <2>5, LinesKept
<1>3. CASE MemoryOpen
  <2>1. mailbox' = [mailbox EXCEPT !.processed = 1, !.state = "DS_IDLE"]
    BY <1>1, <1>3, Posted DEF MemoryOpen
  <2>2. /\ mailbox'.state = "DS_IDLE" /\ mailbox'.address = mailbox.address
        /\ mailbox'.data = mailbox.data
    BY <1>1, <2>1 DEF Mailbox
  <2>3. UNCHANGED <<ram, cache, cpu>>
    BY <1>3 DEF MemoryOpen
  <2>4. CASE mailbox.state = "DS_FETCH"
    <3>1. OffRam(mailbox.address)
      BY <1>3, <2>4
    <3>2. MailInv'
      BY <2>2, <3>1 DEF MailInv, OffRam
    <3> QED BY <2>2, <2>3, <2>4, <3>2, LinesKept
  <2>5. CASE mailbox.state = "DS_STORE" /\ OpenWrite(mailbox.address)
    <3>1. AtStore'
      BY <2>3, <2>5 DEF CacheInv, MailInv, AtStore
    <3>2. MailInv'
      BY <2>2, <3>1 DEF MailInv
    <3>3. LineInv'
      BY <2>2, <2>3 DEF CacheInv, LineInv, Storing
    <3>4. ~Reads("RAM", mailbox.address)
      BY <2>5 DEF OpenWrite, Writes, Reads, Slave
    <3>5. CacheCoherent'
      BY <2>2, <2>3, <3>4 DEF CacheInv, CacheCoherent, Storing
    <3> QED BY <3>2, <3>3, <3>5
  <2> QED BY <1>3, <2>4, <2>5 DEF MemoryOpen, Between, Pending, mailbox
<1>4. CASE MemoryStore
  <2>1. Post([mailbox EXCEPT !.processed = 1])
    BY <1>1, <1>4, Own DEF MemoryStore, Done, Post, mailbox
  <2>2. mailbox' = [mailbox EXCEPT !.processed = 1]
    BY <1>1, <2>1, Posted
  <2>3. /\ mailbox.state = "DS_STORE" /\ mailbox.processed = 0
        /\ mailbox'.state = "DS_STORE" /\ mailbox'.processed = 1
    BY <1>1, <1>4, <2>2 DEF MemoryStore, Between, Pending, Mailbox, mailbox
  <2>4. UNCHANGED <<cache, cpu>> /\ ram' = [ram EXCEPT ![mailbox.address] = mailbox.data[0]]
    BY <1>4 DEF MemoryStore, ram_write
  <2>5. MailInv'
    BY <2>3, <2>4 DEF CacheInv, MailInv, AtStore
  <2>6. LineInv'
    BY <2>3, <2>4 DEF CacheInv, LineInv, Storing
  <2>7. ASSUME NEW i \in DOMAIN cache, cache[i].valid, Reads("RAM", cache[i].address)
        PROVE  cache[i].data = ram'[cache[i].address]
    <3>1. mailbox.address \in DOMAIN ram
      BY <1>1 DEF RamTypeOK, Mailbox
    <3>2. CASE cache[i].address = mailbox.address
      BY <2>3, <2>4, <2>7, <3>1, <3>2 DEF CacheInv, LineInv, Storing
    <3>3. CASE cache[i].address # mailbox.address
      <4>1. ram'[cache[i].address] = ram[cache[i].address]
        <5>1. cache[i].address \in DOMAIN ram
          BY <1>1, <2>7 DEF CacheInv, TypeInv, Stores, CacheTypeOK, RamTypeOK
        <5> QED BY <1>1, <2>4, <3>3, <5>1 DEF RamTypeOK
      <4> QED BY <2>7, <3>3, <4>1 DEF CacheInv, CacheCoherent, Storing
    <3> QED BY <3>2, <3>3
  <2>8. CacheCoherent'
    BY <2>4, <2>7 DEF CacheCoherent
  <2> QED BY <2>5, <2>6, <2>8
<1>5. CASE Interrupt
  <2>1. mailbox' = [mailbox EXCEPT !.state = "DS_INTERRUPT", !.address = INT_CLOCK]
    BY <1>1, <1>5, Posted DEF Interrupt
  <2>2. /\ mailbox.state = "DS_IDLE"
        /\ mailbox'.state = "DS_INTERRUPT" /\ mailbox'.processed = 0
    BY <1>1, <1>5, <2>1 DEF Interrupt, Mailbox
  <2>3. MailInv'
    BY <2>2 DEF MailInv
  <2> QED BY <1>5, <2>2, <2>3, LinesKept DEF Interrupt
<1> QED BY <1>2, <1>3, <1>4, <1>5 DEF Answer

LEMMA CacheInvInit == Init => CacheInv
<1> SUFFICES ASSUME Init
             PROVE  CacheInv
  OBVIOUS
<1>1. TypeInv
  BY TypeInvInit
<1>2. \A i \in DOMAIN cache : ~cache[i].valid
  BY DEF Init, CacheInit, NoLine
<1>3. mailbox.state = "DS_IDLE" /\ mailbox.processed = 0
  BY <1>1, Own DEF Init, DevicesInit, device_create, mailbox, Device
<1> QED BY <1>1, <1>2, <1>3 DEF CacheInv, MailInv, LineInv, CacheCoherent

\* Whatever the program does, whatever the cache's capacity and however long
\* the memory takes, a valid line of an address in RAM holds what the RAM
\* holds, or the byte that is on its way there, as long as no store goes past
\* the cache and no open-bus read wraps into the RAM (cpu_read_memory,
\* cpu_write_memory, cache_write).
THEOREM CacheKeepsUp == Spec /\ StoresCached /\ OpenReadsApart => []CacheCoherent
<1>1. /\ CacheInv /\ [Next]_vars
      /\ [mailbox.state # "DS_STORE" /\ mailbox'.state = "DS_STORE" => Caching]_vars
      /\ [MemoryOpen /\ mailbox.state = "DS_FETCH" => OffRam(mailbox.address)]_vars
      => CacheInv'
  <2> SUFFICES ASSUME CacheInv, [Next]_vars,
        [mailbox.state # "DS_STORE" /\ mailbox'.state = "DS_STORE" => Caching]_vars,
        [MemoryOpen /\ mailbox.state = "DS_FETCH" => OffRam(mailbox.address)]_vars
               PROVE  CacheInv'
    OBVIOUS
  <2>1. TypeInv'
    BY TypeInvStep DEF CacheInv
  <2>2. CASE UNCHANGED vars
    <3>1. MailInv'
      BY <2>2 DEF vars, CacheInv, MailInv, ram_read, mailbox, AtStore
    <3>2. LineInv' /\ CacheCoherent'
      BY <2>2, LinesKept DEF vars
    <3> QED BY <2>1, <3>1, <3>2 DEF CacheInv
  <2>3. CASE Next /\ ~UNCHANGED vars
    <3>1. MailInv' /\ LineInv' /\ CacheCoherent'
      BY <2>3, ClocksKeep, AnswersKeep DEF Next, CpuClock
    <3> QED BY <2>1, <3>1 DEF CacheInv
  <2> QED BY <2>2, <2>3
<1>2. CacheInv => CacheCoherent
  BY DEF CacheInv
<1> QED BY <1>1, <1>2, CacheInvInit, PTL DEF Spec, StoresCached, OpenReadsApart

-----------------------------------------------------------------------------
(***************************************************************************)
(* The processor implements its instruction set.                           *)
(*                                                                         *)
(* Until its first effect an instruction collects what it needs, and what  *)
(* it has collected is what the instruction set reads from the state       *)
(* before it. From its first effect on, what is still to do is fixed: the  *)
(* state the rest of the clocks lead to is an outcome of the instruction.  *)
(***************************************************************************)
-----------------------------------------------------------------------------
(***************************************************************************)
(* The instruction set, instantiated, has the operators of the processor.  *)
(***************************************************************************)
\* The words and bytes.
LEMMA TwinWords ==
  /\ Atomic!WORDS = WORDS
  /\ Atomic!SIGN = SIGN
  /\ Atomic!AWord = AWord
  /\ \A i : Atomic!Wrap(i) = Wrap(i)
  /\ \A lo, hi : Atomic!WordOf(lo, hi) = WordOf(lo, hi)
  /\ \A w : Atomic!Low(w) = Low(w)
  /\ \A w : Atomic!High(w) = High(w)
  /\ \A w : Atomic!Signed(w) = Signed(w)
  /\ \A id : Atomic!Vector(id) = Vector(id)
  /\ Atomic!InternalFlags = InternalFlags
BY DEF WORDS, Atomic!WORDS, SIGN, Atomic!SIGN, AWord, Atomic!AWord,
       Wrap, Atomic!Wrap, WordOf, Atomic!WordOf, Low, Atomic!Low,
       High, Atomic!High, Signed, Atomic!Signed, Vector, Atomic!Vector,
       InternalFlags, Atomic!InternalFlags

\* The tables.
LEMMA TwinTables ==
  /\ Atomic!FlagTable = FlagTable
  /\ Atomic!JUMPS = JUMPS
  /\ Atomic!REL_JUMPS = REL_JUMPS
  /\ Atomic!CMOVES = CMOVES
  /\ Atomic!FLAG_OPS = FLAG_OPS
  /\ Atomic!FLOAT_OPS = FLOAT_OPS
  /\ Atomic!CONVERSIONS = CONVERSIONS
  /\ Atomic!INTEGER_OPS = INTEGER_OPS
  /\ Atomic!UNARY_OPS = UNARY_OPS
BY DEF FlagTable, Atomic!FlagTable, Column, Atomic!Column, JUMPS,
       Atomic!JUMPS, REL_JUMPS, Atomic!REL_JUMPS, CMOVES,
       Atomic!CMOVES, FLAG_OPS, Atomic!FLAG_OPS, FLOAT_OPS,
       Atomic!FLOAT_OPS, CONVERSIONS, Atomic!CONVERSIONS, INTEGER_OPS,
       Atomic!INTEGER_OPS, UNARY_OPS, Atomic!UNARY_OPS

\* What an instruction reads and where.
LEMMA TwinOperands ==
  /\ Atomic!ReadArgument = ReadArgument
  /\ Atomic!WriteArgument = WriteArgument
  /\ Atomic!TwoArguments = TwoArguments
  /\ \A m : Atomic!argument_count(m) = argument_count(m)
  /\ \A m : Atomic!single_operant_writeback(m) = single_operant_writeback(m)
  /\ \A x : Atomic!mode_category(x) = mode_category(x)
  /\ \A x : Atomic!mode_bytes(x) = mode_bytes(x)
  /\ \A m, admr, admx : Atomic!argument_bytes(m, admr, admx) = argument_bytes(m, admr, admx)
  /\ \A n, b : Atomic!Decoded(n, b) = Decoded(n, b)
<1>1. /\ Atomic!ReadArgument = ReadArgument
      /\ Atomic!WriteArgument = WriteArgument
      /\ Atomic!TwoArguments = TwoArguments
  BY TwinTables DEF ReadArgument, Atomic!ReadArgument, WriteArgument,
       Atomic!WriteArgument, TwoArguments, Atomic!TwoArguments
<1>2. /\ \A x : Atomic!mode_category(x) = mode_category(x)
      /\ \A x : Atomic!mode_bytes(x) = mode_bytes(x)
      /\ \A n, b : Atomic!Decoded(n, b) = Decoded(n, b)
  BY DEF mode_category, Atomic!mode_category, mode_bytes, Atomic!mode_bytes,
         Decoded, Atomic!Decoded
<1> QED BY <1>1, <1>2
    DEF argument_count, Atomic!argument_count, single_operant_writeback,
        Atomic!single_operant_writeback, argument_bytes, Atomic!argument_bytes

\* The status register.
LEMMA TwinFlags ==
  /\ Atomic!Flag = Flag
  /\ \A m, sr : Atomic!Taken(m, sr) = Taken(m, sr)
  /\ \A m, sr : Atomic!FlagsAfter(m, sr) = FlagsAfter(m, sr)
  /\ \A w : Atomic!SrFlags(w) = SrFlags(w)
  /\ \A s : Atomic!SrValue(s) = SrValue(s)
  /\ \A a, b : Atomic!CompareFlags(a, b) = CompareFlags(a, b)
  /\ \A a : Atomic!TestFlags(a) = TestFlags(a)
BY DEF Flag, Atomic!Flag, FlagTable, Atomic!FlagTable, Taken,
       Atomic!Taken, FlagsAfter, Atomic!FlagsAfter, Bit, Atomic!Bit,
       SrFlags, Atomic!SrFlags, WORDS, Atomic!WORDS, AWord,
       Atomic!AWord, SrValue, Atomic!SrValue, SIGN, Atomic!SIGN,
       Signed, Atomic!Signed, CompareFlags, Atomic!CompareFlags,
       TestFlags, Atomic!TestFlags

\* The arithmetic.
LEMMA TwinBits ==
  \A a, b :
    /\ Atomic!Combine(Atomic!And, a, b) = Combine(And, a, b)
    /\ Atomic!Combine(Atomic!Or, a, b) = Combine(Or, a, b)
    /\ Atomic!Combine(Atomic!Xor, a, b) = Combine(Xor, a, b)
BY DEF Combine, Atomic!Combine, And, Atomic!And, Or, Atomic!Or, Xor,
       Atomic!Xor, Bit, Atomic!Bit, WORDS, Atomic!WORDS, AWord, Atomic!AWord

\* The shifts.
LEMMA TwinShift ==
  /\ \A i, lo, hi : Atomic!Clamp(i, lo, hi) = Clamp(i, lo, hi)
  /\ \A i : Atomic!SignedClamp(i) = SignedClamp(i)
  /\ \A w, n : Atomic!Right(w, n) = Right(w, n)
  /\ \A w, n : Atomic!Left(w, n) = Left(w, n)
  /\ \A a, shift : Atomic!UbsResults(a, shift) = UbsResults(a, shift)
  /\ \A a, b : Atomic!UsmResults(a, b) = UsmResults(a, b)
  /\ \A a : Atomic!CbiResult(a) = CbiResult(a)
  /\ \A a, b : Atomic!Quotient(a, b) = Quotient(a, b)
  /\ \A ao : Atomic!carry(ao) = carry(ao)
BY DEF Clamp, Atomic!Clamp, WORDS, Atomic!WORDS, SIGN, Atomic!SIGN,
       Wrap, Atomic!Wrap, SignedClamp, Atomic!SignedClamp, Right,
       Atomic!Right, Left, Atomic!Left, UbsResults, Atomic!UbsResults,
       UsmResults, Atomic!UsmResults, CbiResult, Atomic!CbiResult,
       Absolute, Atomic!Absolute, Quotient, Atomic!Quotient, carry,
       Atomic!carry

\* The results of the arithmetic.
LEMMA TwinResult ==
  /\ \A a, shift : Atomic!SbsResults(a, shift) = SbsResults(a, shift)
  /\ \A m, a, b, ao : Atomic!AluResult(m, a, b, ao) = AluResult(m, a, b, ao)
<1>1. \A a, shift : Atomic!SbsResults(a, shift) = SbsResults(a, shift)
  <2>1. Atomic!WORDS = WORDS
    BY TwinWords
  <2> QED BY <2>1, TwinBits, TwinShift DEF SbsResults, Atomic!SbsResults
<1>2. \A m, a, b, ao : Atomic!AluResult(m, a, b, ao) = AluResult(m, a, b, ao)
  BY TwinWords, TwinBits, TwinShift DEF AluResult, Atomic!AluResult
<1> QED BY <1>1, <1>2

\* The arithmetic.
LEMMA TwinAlu ==
  /\ \A m, a, b, ao : Atomic!AluResults(m, a, b, ao) = AluResults(m, a, b, ao)
  /\ \A m, a, b, ao : Atomic!AluOverflow(m, a, b, ao) = AluOverflow(m, a, b, ao)
BY TwinWords, TwinShift, TwinResult
   DEF AluResults, Atomic!AluResults, AluOverflow, Atomic!AluOverflow

-----------------------------------------------------------------------------
(***************************************************************************)
(* Words and their bytes, as far as the steps of an instruction need them. *)
(***************************************************************************)
\* The next address but one, the address after the one before, and that a word
\* has two addresses.
LEMMA Neighbours ==
  ASSUME NEW a \in AWord
  PROVE  /\ Wrap(Wrap(a + 1) + 1) = Wrap(a + 2)
         /\ Wrap(Wrap(a - 1) + 1) = a
         /\ Wrap(Wrap(a - 2) + 1) = Wrap(a - 1)
         /\ Wrap(Wrap(a - 1) - 1) = Wrap(a - 2)
         /\ Wrap(a + 1) # a
<1>1. a \in Int /\ WORDS \in Nat /\ WORDS > 1
  <2>1. BYTE_RANGE * BYTE_RANGE > 1
    BY Sizes
  <2> QED BY <2>1, Sizes DEF AWord
<1>2. /\ Wrap(Wrap(a + 1) + 1) = Wrap((a + 1) + 1)
      /\ Wrap(Wrap(a - 1) + 1) = Wrap((a - 1) + 1)
      /\ Wrap(Wrap(a - 2) + 1) = Wrap((a - 2) + 1)
      /\ Wrap(Wrap(a - 1) + (-1)) = Wrap((a - 1) + (-1))
  <2>1. a + 1 \in Int /\ a - 1 \in Int /\ a - 2 \in Int /\ 1 \in Int /\ -1 \in Int
    BY <1>1
  <2> QED BY <2>1, WrapTwice
<1>3. Wrap(a) = a
  BY WrapWord
<1>4. Wrap(a + 1) # a
  <2>1. CASE a = WORDS - 1
    BY <1>1, <2>1 DEF Wrap
  <2>2. CASE a # WORDS - 1
    <3>1. a + 1 \in AWord
      BY <1>1, <2>2 DEF AWord
    <3> QED BY <1>1, <3>1, WrapWord
  <2> QED BY <2>1, <2>2
<1>5. /\ (a + 1) + 1 = a + 2 /\ (a - 1) + 1 = a /\ (a - 2) + 1 = a - 1
      /\ (a - 1) + (-1) = a - 2 /\ Wrap(a - 1) + (-1) = Wrap(a - 1) - 1
  BY <1>1, Stepping DEF AWord
<1> QED BY <1>2, <1>3, <1>4, <1>5

\* A word is its two bytes.
LEMMA Halved == \A w \in AWord : WordOf(Low(w), High(w)) = w
BY Sizes DEF AWord, WordOf, Low, High

\* Two bytes are those of their word.
LEMMA Joined ==
  \A lo, hi \in BYTE : Low(WordOf(lo, hi)) = lo /\ High(WordOf(lo, hi)) = hi
<1> SUFFICES ASSUME NEW lo \in BYTE, NEW hi \in BYTE
             PROVE  Low(WordOf(lo, hi)) = lo /\ High(WordOf(lo, hi)) = hi
  OBVIOUS
<1>1. lo \in Nat /\ hi \in Nat /\ lo < BYTE_RANGE /\ BYTE_RANGE \in Nat \ {0}
  BY Sizes DEF BYTE
<1>2. (lo + BYTE_RANGE * hi) % BYTE_RANGE = lo
  BY <1>1
<1>3. (lo + BYTE_RANGE * hi) \div BYTE_RANGE = hi
  BY <1>1
<1> QED BY <1>2, <1>3 DEF Low, High, WordOf

-----------------------------------------------------------------------------
(***************************************************************************)
(* Which programs.                                                         *)
(***************************************************************************)
\* Every byte the program fetches, reads and stores is in RAM, but for the one
\* that FTC asks for: an access to a device has effects, and results, that the
\* instruction set does not know.
InRam ==
  /\ \A a \in Address : ReadsFrom(a) /\ cpu.state # "EXECUTE" => Reads("RAM", a)
  /\ mailbox.state = "DS_STORE" => Writes("RAM", mailbox.address)
KeepsToRam == []InRam

\* The instruction under way.
This == Atomic!Instruction(retired)

\* The instructions the processor executes: not those that lack an operand,
\* and not those whose reduced address follows a scaler, which the processor
\* looks for in the wrong place (cpu.c:480).
Ordinary(i) ==
  /\ Atomic!WellFormed(i)
  /\ i.m \in TwoArguments => ~(i.admx.kind = "SCALED8" /\ i.admr.kind = "IND16")

OrdinaryInstructions == [](cpu.state = "EXECUTE" => Ordinary(This))

-----------------------------------------------------------------------------
(***************************************************************************)
(* Until the first effect.                                                 *)
(***************************************************************************)
\* Everything a program can see.
Untouched ==
  /\ ram = retired.mem /\ cpu.r = retired.r /\ cpu.sp = retired.sp
  /\ cpu.sr \ InternalFlags = retired.sr /\ cpu.irq_id = retired.irq

\* So many prefixes have been fetched.
PrefixesRead ==
  /\ cpu.pc = Wrap(retired.pc + cpu.extension_index)
  /\ \A k \in 0 .. cpu.extension_index - 1 : Atomic!IsPrefix(retired, k)

Recognized ==
  /\ cpu.instruction = This.m
  /\ cpu.sr \cap {"NC"} = This.no_cache

ThisBytes == argument_bytes(This.m, This.admr, This.admx)
ModeKnown == cpu.mode.admr = This.admr /\ cpu.mode.admx = This.admx
BytesRead(n) == \A j \in 0 .. n - 1 : cpu.raw[j] = retired.mem[Wrap(This.extended + j)]

AddressesKnown ==
  /\ mode_category(This.admx) = "ADMC_IND" =>
       cpu.address_extended = Atomic!ExtendedAddress(retired, This)
  /\ This.m \notin ReadArgument /\ mode_category(This.admr) = "ADMC_IND" =>
       cpu.address_reduced = Atomic!ReducedAddress(retired, This)

SourceKnown ==
  This.m \in ReadArgument \cup TwoArguments =>
    cpu.data_extended = Atomic!Source(retired, This)
DestinationKnown ==
  This.m \in WriteArgument \cup TwoArguments =>
    cpu.data_reduced = Atomic!Destination(retired, This)

\* What has been collected when the control is at state st.
Collected(st) ==
  CASE st = "FETCH_ADDRESSING_MODES" ->
         /\ argument_count(This.m) # 0
         /\ AddressingMode[retired.mem[cpu.pc]] = [admr |-> This.admr, admx |-> This.admx]
         /\ Wrap(cpu.pc + 1) = This.extended
    [] st = "FETCH_ARGUMENT_BYTES" ->
         /\ argument_count(This.m) # 0 /\ ModeKnown
         /\ cpu.raw_index < ThisBytes /\ BytesRead(cpu.raw_index)
         /\ cpu.pc = Wrap(This.extended + cpu.raw_index)
    [] st = "COMPUTE_ADDRESS" ->
         argument_count(This.m) # 0 /\ ModeKnown /\ BytesRead(ThisBytes) /\ cpu.pc = This.next
    [] st = "FETCH_SOURCE" ->
         /\ ModeKnown /\ cpu.pc = This.next /\ AddressesKnown
         /\ This.m \in ReadArgument \cup TwoArguments
         /\ This.admx.kind = "IMM16" => Argument(0) = Atomic!Source(retired, This)
    [] st = "FETCH_SOURCE_HIGH" ->
         /\ ModeKnown /\ cpu.pc = This.next /\ AddressesKnown
         /\ This.m \in ReadArgument \cup TwoArguments
         /\ mode_category(This.admx) = "ADMC_IND"
         /\ cpu.data_extended = retired.mem[cpu.address_extended]
    [] st = "FETCH_DESTINATION" ->
         /\ ModeKnown /\ cpu.pc = This.next /\ AddressesKnown
         /\ This.m \in WriteArgument \cup TwoArguments /\ SourceKnown
    [] st = "FETCH_DESTINATION_HIGH" ->
         /\ ModeKnown /\ cpu.pc = This.next /\ AddressesKnown
         /\ This.m \in WriteArgument \cup TwoArguments /\ SourceKnown
         /\ mode_category(This.admr) = "ADMC_IND"
         /\ cpu.data_reduced = retired.mem[cpu.address_reduced]
    [] st = "EXECUTE" ->
         /\ argument_count(This.m) # 0 => ModeKnown /\ AddressesKnown
         /\ cpu.pc = This.next /\ SourceKnown /\ DestinationKnown
    [] OTHER -> TRUE

GatherInv ==
  /\ cpu.state = "FETCH_INSTRUCTION" => Untouched /\ PrefixesRead
  /\ cpu.state \in Early =>
       Untouched /\ Recognized /\ (Ordinary(This) => Collected(cpu.state))

-----------------------------------------------------------------------------
(***************************************************************************)
(* From the first effect on.                                               *)
(***************************************************************************)
StoreAddress ==
  CASE cpu.state = "WRITEBACK_LOW"  -> cpu.address_reduced
    [] cpu.state = "WRITEBACK_HIGH" -> Wrap(cpu.address_reduced + 1)
    [] OTHER                        -> Below

StoreByte ==
  CASE cpu.state \in {"WRITEBACK_LOW", "PUSH_LOW"}   -> Low(cpu.result)
    [] cpu.state \in {"WRITEBACK_HIGH", "PUSH_HIGH"} -> High(cpu.result)
    [] cpu.state = "INTERRUPT_PUSH_PC_HIGH"          -> High(cpu.pc)
    [] OTHER                                         -> Low(cpu.pc)

\* The memory when the store the control is at has been performed.
Ahead == IF AtStore THEN [ram EXCEPT ![StoreAddress] = StoreByte] ELSE ram

State(m, r, pc, sp, sr, irq) ==
  [mem |-> m, r |-> r, pc |-> pc, sp |-> sp, sr |-> sr, irq |-> irq]

Visibly == cpu.sr \ InternalFlags
WordIn(m, a) == WordOf(m[a], m[Wrap(a + 1)])
PutIn(m, a, w) == [[m EXCEPT ![a] = Low(w)] EXCEPT ![Wrap(a + 1)] = High(w)]

\* The stack pointer at sp and word w in the destination.
WrittenBack(m, sp, w) ==
  LET x == cpu.mode.admr.reg IN
  IF cpu.mode.admr.kind # "REG"
  THEN State(PutIn(m, cpu.address_reduced, w), cpu.r, cpu.pc, sp, Visibly, cpu.irq_id)
  ELSE IF x = "SP" THEN State(m, cpu.r, cpu.pc, w, Visibly, cpu.irq_id)
  ELSE State(m, [cpu.r EXCEPT ![x] = w], cpu.pc, sp, Visibly, cpu.irq_id)

At(m, pc, sp) == State(m, cpu.r, pc, sp, Visibly, cpu.irq_id)

\* The state in which the instruction, or the entry into the handler, will be
\* complete.
Completion ==
  CASE cpu.state = "WRITEBACK_LOW" -> WrittenBack(Ahead, cpu.sp, cpu.result)
    [] cpu.state = "WRITEBACK_HIGH" ->
         IF cpu.mode.admr.kind = "REG"
         THEN WrittenBack(Ahead, cpu.sp,
                WordOf(Low(cpu.result), High(Value(cpu, cpu.mode.admr.reg))))
         ELSE At(Ahead, cpu.pc, cpu.sp)
    [] cpu.state = "PUSH_HIGH" ->
         At([Ahead EXCEPT ![Wrap(cpu.sp - 2)] = Low(cpu.result)], cpu.pc, Wrap(cpu.sp - 2))
    [] cpu.state = "PUSH_LOW" -> At(Ahead, cpu.pc, Below)
    [] cpu.state = "POP_LOW" ->
         CASE cpu.instruction = "RET"  -> At(ram, WordIn(ram, cpu.sp), Wrap(cpu.sp + 2))
           [] cpu.instruction = "POPB" -> WrittenBack(ram, Wrap(cpu.sp + 1), ram[cpu.sp])
           [] OTHER -> WrittenBack(ram, Wrap(cpu.sp + 2), WordIn(ram, cpu.sp))
    [] cpu.state = "POP_HIGH" ->
         LET w == WordOf(cpu.result, ram[cpu.sp]) IN
         IF cpu.instruction = "RET" THEN At(ram, w, Wrap(cpu.sp + 1))
         ELSE WrittenBack(ram, Wrap(cpu.sp + 1), w)
    [] cpu.state = "POPSR_LOW" ->
         State(ram, cpu.r, cpu.pc, Wrap(cpu.sp + 2),
               SrFlags(WordIn(ram, cpu.sp)) \ InternalFlags, cpu.irq_id)
    [] cpu.state = "POPSR_HIGH" ->
         State(ram, cpu.r, cpu.pc, Wrap(cpu.sp + 1),
               (cpu.sr \cup SrFlags(WordOf(0, ram[cpu.sp]))) \ InternalFlags, cpu.irq_id)
    [] cpu.state = "INTERRUPT_PUSH_PC_HIGH" ->
         LET m == [Ahead EXCEPT ![Wrap(cpu.sp - 2)] = Low(cpu.pc)]
         IN At(m, WordIn(m, Vector(cpu.irq_id)), Wrap(cpu.sp - 2))
    [] cpu.state = "INTERRUPT_PUSH_PC_LOW" ->
         At(Ahead, WordIn(Ahead, Vector(cpu.irq_id)), Below)
    [] cpu.state = "INTERRUPT_FETCH_IRQ_VECTOR_LOW" ->
         At(ram, WordIn(ram, Vector(cpu.irq_id)), cpu.sp)
    [] cpu.state = "INTERRUPT_FETCH_IRQ_VECTOR_HIGH" ->
         At(ram, WordOf(cpu.data_extended, ram[Wrap(Vector(cpu.irq_id) + 1)]), cpu.sp)
    [] OTHER -> At(ram, cpu.pc, cpu.sp)

\* The instruction under way leads to t, or the interrupt that came.
Reaches(t) ==
  \/ t \in Atomic!Outcomes(retired)
  \/ "MI" \notin retired.sr /\ t = Atomic!Enter([retired EXCEPT !.irq = INT_CLOCK], INT_CLOCK)

\* What is written back has a destination.
Destined ==
  \/ cpu.state \in {"WRITEBACK_LOW", "WRITEBACK_HIGH"}
  \/ cpu.state \in {"POP_LOW", "POP_HIGH"} /\ cpu.instruction # "RET"
  => mode_category(cpu.mode.admr) # "ADMC_NONE"

CompleteInv == cpu.state \in Late => Reaches(Completion) /\ Destined

\* The store that is made is the one the control is at, and an answer to it
\* means that it has been performed.
StoreMade ==
  /\ AtStore =>
       /\ mailbox.state # "DS_FETCH"
       /\ mailbox.state = "DS_STORE" =>
            mailbox.address = StoreAddress /\ mailbox.data[0] = StoreByte
       /\ mailbox.processed = 1 => ram[StoreAddress] = StoreByte
  /\ mailbox.state = "DS_INTERRUPT" => mailbox.address = INT_CLOCK

RetiredOK ==
  retired \in [mem : [Address -> BYTE], r : [{"R0", "R1", "R2", "R3"} -> AWord],
               pc : AWord, sp : AWord, sr : SUBSET (Flag \ InternalFlags), irq : AWord]

StageInv == RetiredOK /\ GatherInv /\ CompleteInv /\ StoreMade
IsaInv == CacheInv /\ RestartInv /\ AccessInv /\ StageInv

-----------------------------------------------------------------------------
(***************************************************************************)
(* The instruction at the program counter.                                 *)
(***************************************************************************)
\* There is a number of prefixes.
LEMMA PrefixCount == Atomic!Prefixes(retired) \in 0 .. Len(Opcode)
<1> DEFINE Counts(n) == /\ \A k \in 0 .. n - 1 : Atomic!IsPrefix(retired, k)
                        /\ n < Len(Opcode) => ~Atomic!IsPrefix(retired, n)
           Some == \E n \in 0 .. Len(Opcode) : Counts(n)
           S == {k \in Nat : k <= Len(Opcode) =>
                   Some \/ \A j \in 0 .. k - 1 : Atomic!IsPrefix(retired, j)}
<1>1. Len(Opcode) \in Nat
  BY EncodingAssumption
<1>2. 0 \in S
  OBVIOUS
<1>3. ASSUME NEW k \in Nat, k \in S
      PROVE  k + 1 \in S
  <2> SUFFICES ASSUME k + 1 <= Len(Opcode), ~Some
               PROVE  \A j \in 0 .. (k + 1) - 1 : Atomic!IsPrefix(retired, j)
    OBVIOUS
  <2>1. \A j \in 0 .. k - 1 : Atomic!IsPrefix(retired, j)
    BY <1>1, <1>3
  <2>2. Atomic!IsPrefix(retired, k)
    BY <1>1, <2>1
  <2> QED BY <2>1, <2>2
<1> HIDE DEF S
<1>4. Len(Opcode) \in S
  BY <1>1, <1>2, <1>3, Induction
<1>5. Some
  BY <1>1, <1>4 DEF S
<1>6. Atomic!Prefixes(retired) = CHOOSE n \in 0 .. Len(Opcode) : Counts(n)
  BY DEF Atomic!Prefixes
<1> HIDE DEF Counts
<1> QED BY <1>5, <1>6

\* So many prefixes and then another opcode.
LEMMA Prefixed ==
  ASSUME NEW n \in Nat, n < Len(Opcode),
         \A k \in 0 .. n - 1 : Atomic!IsPrefix(retired, k), ~Atomic!IsPrefix(retired, n)
  PROVE  Atomic!Prefixes(retired) = n
<1>1. Len(Opcode) \in Nat
  BY EncodingAssumption
<1>2. \A m \in 0 .. Len(Opcode) :
        /\ \A k \in 0 .. m - 1 : Atomic!IsPrefix(retired, k)
        /\ m < Len(Opcode) => ~Atomic!IsPrefix(retired, m)
        => m = n
  <2> SUFFICES ASSUME NEW m \in 0 .. Len(Opcode),
                      \A k \in 0 .. m - 1 : Atomic!IsPrefix(retired, k),
                      m < Len(Opcode) => ~Atomic!IsPrefix(retired, m)
               PROVE  m = n
    OBVIOUS
  <2>1. ~(n < m)
    BY <1>1
  <2>2. ~(m < n)
    BY <1>1
  <2> QED BY <1>1, <2>1, <2>2
<1>3. n \in 0 .. Len(Opcode)
  BY <1>1
<1> QED BY <1>2, <1>3 DEF Atomic!Prefixes

\* Its opcode, with or without the base wrapping round.
OpcodeAt == retired.pc + Atomic!Prefixes(retired)

\* The memory holds bytes.
LEMMA InMemory ==
  ASSUME RetiredOK
  PROVE  \A a \in Int : retired.mem[Wrap(a)] \in BYTE
BY WrapAddress DEF RetiredOK

\* The parts of the instruction.
LEMMA ThisIs ==
  ASSUME RetiredOK
  PROVE  /\ OpcodeAt \in Nat
         /\ This.m = Decoded(Atomic!Prefixes(retired), retired.mem[Wrap(OpcodeAt)])
         /\ AddressingMode[retired.mem[Wrap(OpcodeAt + 1)]] =
              [admr |-> This.admr, admx |-> This.admx]
         /\ This.no_cache =
              IF retired.mem[Wrap(OpcodeAt)] \in NoCache THEN {"NC"} ELSE {}
         /\ This.extended = Wrap(OpcodeAt + 2)
         /\ This.reduced = Wrap(OpcodeAt + 2 + mode_bytes(This.admx))
         /\ This.next = IF argument_count(This.m) = 0 THEN Wrap(OpcodeAt + 1)
                        ELSE Wrap(OpcodeAt + 2 + ThisBytes)
         /\ This.admr \in ADMR /\ This.admx \in ADMX
<1>1. OpcodeAt \in Nat
  BY PrefixCount, EncodingAssumption DEF OpcodeAt, RetiredOK, AWord
<1> DEFINE mode == AddressingMode[retired.mem[Wrap(OpcodeAt + 1)]]
<1>2. mode \in [admr : ADMR, admx : ADMX]
  <2>1. OpcodeAt + 1 \in Int
    BY <1>1
  <2>2. retired.mem[Wrap(OpcodeAt + 1)] \in BYTE
    BY <2>1, InMemory
  <2> QED BY <2>2, EncodingAssumption
<1> HIDE DEF mode
<1>3. This = LET args == OpcodeAt + 2
                 code == retired.mem[Wrap(OpcodeAt)]
                 m    == Decoded(Atomic!Prefixes(retired), code)
             IN [m |-> m, admr |-> mode.admr, admx |-> mode.admx,
                 no_cache |-> IF code \in NoCache THEN {"NC"} ELSE {},
                 extended |-> Wrap(args),
                 reduced |-> Wrap(args + mode_bytes(mode.admx)),
                 next |-> Wrap(IF argument_count(m) = 0 THEN args - 1
                               ELSE args + argument_bytes(m, mode.admr, mode.admx))]
  BY TwinWords, TwinOperands DEF This, Atomic!Instruction, OpcodeAt, mode
<1>4. OpcodeAt + 2 - 1 = OpcodeAt + 1
  BY <1>1
<1> QED BY <1>1, <1>2, <1>3, <1>4 DEF mode, ThisBytes

\* What it costs.
LEMMA ModeBytes == \A x : mode_bytes(x) \in {0, 2, 3}
BY DEF mode_bytes

\* And where they are.
LEMMA ThisTyped ==
  ASSUME RetiredOK
  PROVE  /\ This.extended \in AWord /\ This.reduced \in AWord /\ This.next \in AWord
         /\ ThisBytes \in Nat
         /\ This.reduced = Wrap(This.extended + mode_bytes(This.admx))
         /\ argument_count(This.m) # 0 => This.next = Wrap(This.extended + ThisBytes)
<1>1. mode_bytes(This.admx) \in {0, 2, 3} /\ mode_bytes(This.admr) \in {0, 2, 3}
  BY ModeBytes
<1>2. ThisBytes \in Nat
  BY <1>1 DEF ThisBytes, argument_bytes
<1>3. OpcodeAt \in Nat
  BY ThisIs
<1>4. /\ Wrap(Wrap(OpcodeAt + 2) + mode_bytes(This.admx)) =
           Wrap(OpcodeAt + 2 + mode_bytes(This.admx))
      /\ Wrap(Wrap(OpcodeAt + 2) + ThisBytes) = Wrap(OpcodeAt + 2 + ThisBytes)
  <2>1. OpcodeAt + 2 \in Int /\ mode_bytes(This.admx) \in Int /\ ThisBytes \in Int
    BY <1>1, <1>2, <1>3
  <2> QED BY <2>1, WrapTwice
<1>5. \A j \in Int : Wrap(j) \in AWord
  BY Wrapping
<1>6. OpcodeAt + 1 \in Int /\ OpcodeAt + 2 \in Int /\ OpcodeAt + 2 + ThisBytes \in Int
      /\ OpcodeAt + 2 + mode_bytes(This.admx) \in Int
  BY <1>1, <1>2, <1>3
<1> QED BY <1>2, <1>4, <1>5, <1>6, ThisIs

-----------------------------------------------------------------------------
(***************************************************************************)
(* Waiting for the memory, and getting the byte.                           *)
(***************************************************************************)
\* The processor has the same to do as before.
WorkField == CpuField \ {"running", "sr", "executed", "previous_pc", "previous_sp"}
WorkKept ==
  /\ \A x \in WorkField : cpu'[x] = cpu[x]
  /\ cpu'.sr \ {"MNI"} = cpu.sr \ {"MNI"}

\* What is kept, field by field.
LEMMA WorkKeptIs ==
  ASSUME WorkKept
  PROVE  /\ cpu'.state = cpu.state /\ cpu'.r = cpu.r /\ cpu'.pc = cpu.pc /\ cpu'.sp = cpu.sp
         /\ cpu'.irq_id = cpu.irq_id /\ cpu'.extension_index = cpu.extension_index
         /\ cpu'.instruction = cpu.instruction /\ cpu'.mode = cpu.mode
         /\ cpu'.raw = cpu.raw /\ cpu'.raw_index = cpu.raw_index
         /\ cpu'.address_extended = cpu.address_extended
         /\ cpu'.address_reduced = cpu.address_reduced
         /\ cpu'.data_extended = cpu.data_extended /\ cpu'.data_reduced = cpu.data_reduced
         /\ cpu'.result = cpu.result
         /\ cpu'.sr \cap {"NC"} = cpu.sr \cap {"NC"}
         /\ cpu'.sr \ InternalFlags = cpu.sr \ InternalFlags
<1>1. \A x \in WorkField : cpu'[x] = cpu[x]
  BY DEF WorkKept
<1>2. cpu'.sr \ {"MNI"} = cpu.sr \ {"MNI"}
  BY DEF WorkKept
<1>3. /\ cpu'.sr \cap {"NC"} = cpu.sr \cap {"NC"}
      /\ cpu'.sr \ InternalFlags = cpu.sr \ InternalFlags
  BY <1>2 DEF InternalFlags
<1> QED BY <1>1, <1>3 DEF WorkField, CpuField

\* The state to be reached stays the same.
LEMMA Stays ==
  ASSUME WorkKept, UNCHANGED ram
  PROVE  Completion' = Completion /\ (Destined' <=> Destined)
<1>1. Completion' = Completion
  BY ZenonT(60), WorkKeptIs DEF Completion, Visibly, Ahead, AtStore, StoreAddress, StoreByte, Below,
         WrittenBack, At, Value
<1>2. Destined' <=> Destined
  BY WorkKeptIs DEF Destined
<1> QED BY <1>1, <1>2

\* So does what has been collected.
LEMMA Waits ==
  ASSUME WorkKept, UNCHANGED <<ram, retired>>
  PROVE  /\ GatherInv => GatherInv'
         /\ CompleteInv => CompleteInv'
<1>1. This' = This
  BY DEF This
<1>2. GatherInv => GatherInv'
  BY <1>1, WorkKeptIs
     DEF GatherInv, Untouched, PrefixesRead, Recognized, Collected, ModeKnown, BytesRead,
         ThisBytes, AddressesKnown, SourceKnown, DestinationKnown, Argument
<1>3. CompleteInv => CompleteInv'
  BY Stays, WorkKeptIs DEF CompleteInv, Reaches
<1> QED BY <1>2, <1>3

\* The processors that a clock ends with while it waits.
LEMMA StoppedWaits ==
  ASSUME Shape
  PROVE  cpu' \in {Stop(Restartable), Stop(Committed), Stop(AtBase)} => WorkKept
<1>1. /\ DOMAIN Restartable = CpuField /\ Restartable.sr \ {"MNI"} = cpu.sr \ {"MNI"}
      /\ \A x \in WorkField : Restartable[x] = cpu[x]
  BY DEF Restartable, Shape, CpuField, WorkField
<1>2. /\ DOMAIN Committed = CpuField /\ Committed.sr \ {"MNI"} = cpu.sr \ {"MNI"}
      /\ \A x \in WorkField : Committed[x] = cpu[x]
  BY DEF Committed, Shape, CpuField, WorkField
<1>3. /\ DOMAIN AtBase = CpuField /\ AtBase.sr \ {"MNI"} = cpu.sr \ {"MNI"}
      /\ \A x \in WorkField : AtBase[x] = cpu[x]
  BY <1>1 DEF AtBase, CpuField, WorkField
<1>4. ASSUME NEW c, DOMAIN c = CpuField, c.sr \ {"MNI"} = cpu.sr \ {"MNI"},
             \A x \in WorkField : c[x] = cpu[x], cpu' = Stop(c)
      PROVE  WorkKept
  BY <1>4 DEF Stop, WorkKept, WorkField, CpuField
<1> QED BY <1>1, <1>2, <1>3, <1>4

\* Nothing is asked and nothing answered.
MailQuiet == mailbox.state \notin {"DS_FETCH", "DS_STORE"} /\ mailbox.processed = 0

\* A byte that has come is the byte in RAM: the cache holds what the RAM holds.
LEMMA Received ==
  ASSUME CacheInv, AccessInv, NEW a \in Address, ReadsFrom(a), Reads("RAM", a),
         NEW c, NEW d, cpu_read_memory(a, c, d)
  PROVE  \/ cpu' = Stop(c)
         \/ cpu' = d /\ ReadByte(a) = ram[a]
<1>1. ~AtStore /\ DevicesTypeOK /\ CacheTypeOK /\ mailbox \in Mailbox
  BY OneAccess, Own DEF CacheInv, TypeInv, Stores
<1>2. CASE ReadHit(a, d)
  <2>1. Cached(a) /\ cpu' = d
    BY <1>2 DEF ReadHit, Proceed
  <2>2. /\ a % CAPACITY \in DOMAIN cache /\ cache[a % CAPACITY].valid
        /\ cache[a % CAPACITY].address = a
    <3>1. CAPACITY \in Nat \ {0} /\ a \in Nat
      BY <2>1, CacheAssumption DEF Cached, Hit, Address
    <3>2. a % CAPACITY \in 0 .. CAPACITY - 1
      BY <3>1
    <3> QED BY <1>1, <2>1, <3>2 DEF Cached, Hit, CacheTypeOK
  <2>3. mailbox.state # "DS_STORE"
    BY <1>1 DEF CacheInv, MailInv
  <2>4. cache[a % CAPACITY].data = ram[a]
    BY <2>2, <2>3, NoStore
  <2> QED BY <2>1, <2>4 DEF ReadByte, CachedByte
<1>3. CASE ReadReplied(a, d)
  <2>1. ~Cached(a) /\ mailbox.processed = 1 /\ mailbox.address = a /\ cpu' = d
    BY <1>3 DEF ReadReplied
  <2>2. (a + 0) % ADDRESS_SPACE = a
    BY WrapWord, Sizes DEF Wrap, AWord, Address
  <2>3. mailbox.state = "DS_FETCH"
    <3>1. mailbox.state # "DS_IDLE"
      BY <1>1, <2>1, <2>2, Sizes DEF CacheInv, MailInv, OffRam
    <3> QED BY <1>1, <2>1, <3>1 DEF CacheInv, MailInv, Mailbox, DeviceState
  <2>4. mailbox.data[0] = ram[(a + 0) % ADDRESS_SPACE]
    BY <2>1, <2>3, Sizes DEF CacheInv, MailInv, ram_read
  <2> QED BY <2>1, <2>2, <2>4 DEF ReadByte
<1>4. CASE ReadRequest(a, c) \/ Waiting(c)
  BY <1>4 DEF ReadRequest, Waiting, Proceed
<1> QED BY <1>2, <1>3, <1>4 DEF cpu_read_memory

-----------------------------------------------------------------------------
(***************************************************************************)
(* Until the first effect: what is collected is what the instruction set   *)
(* reads.                                                                  *)
(***************************************************************************)
\* The parts of the invariant.
LEMMA Known ==
  ASSUME IsaInv
  PROVE  /\ Shape /\ CacheInv /\ AccessInv /\ RestartInv /\ RetiredOK /\ GatherInv
         /\ CompleteInv /\ StoreMade /\ TypeInv /\ cpu \in CpuRecord
         /\ ram \in [Address -> BYTE]
BY DEF IsaInv, StageInv, RestartInv, CacheInv, TypeInv, Typed, Stores, RamTypeOK

\* The processor while it can be restarted.
LEMMA RestartableIs ==
  ASSUME Shape
  PROVE  /\ DOMAIN Restartable = CpuField /\ Restartable.sr = cpu.sr \ {"MNI"}
         /\ \A x \in CpuField \ {"sr"} : Restartable[x] = cpu[x]
BY DEF Restartable, Shape, CpuField

\* The processor has gone on collecting.
CollectsOn ==
  /\ cpu'.r = cpu.r /\ cpu'.sp = cpu.sp /\ cpu'.irq_id = cpu.irq_id
  /\ cpu'.instruction = cpu.instruction /\ cpu'.sr \ {"MNI"} = cpu.sr \ {"MNI"}
  /\ cpu'.state \in Early \cup Ended

\* A step before the first effect collects what it should.
LEMMA Gathers ==
  ASSUME cpu.state \in Early, GatherInv, UNCHANGED <<ram, retired>>, CollectsOn,
         Ordinary(This) /\ Collected(cpu.state) => Collected(cpu.state)'
  PROVE  GatherInv'
<1>1. This' = This
  BY DEF This
<1>2. /\ cpu'.sr \cap {"NC"} = cpu.sr \cap {"NC"}
      /\ cpu'.sr \ InternalFlags = cpu.sr \ InternalFlags
  BY DEF CollectsOn, InternalFlags
<1>3. Untouched' /\ Recognized'
  BY <1>1, <1>2 DEF GatherInv, Untouched, Recognized, CollectsOn
<1>4. cpu'.state # "FETCH_INSTRUCTION"
  BY DEF CollectsOn, Early, Ended
<1> QED BY <1>1, <1>3, <1>4 DEF GatherInv

\* The clock ends, waiting for the memory.
LEMMA GathersWaiting ==
  ASSUME IsaInv, UNCHANGED <<ram, retired>>,
         cpu' \in {Stop(Restartable), Stop(Committed), Stop(AtBase)}
  PROVE  GatherInv'
BY Known, StoppedWaits, Waits

\* The addressing modes are those of the instruction.
LEMMA GathersMode ==
  ASSUME IsaInv, InRam, FetchAddressingModes, UNCHANGED <<ram, retired>>
  PROVE  GatherInv'
<1> USE Known
<1> DEFINE mode == AddressingMode[ReadByte(cpu.pc)]
           d == [Restartable EXCEPT
                     !.mode = mode, !.pc = Wrap(@ + 1),
                     !.raw_index = IF BytesToLoad(mode) = 0
                                   THEN @ ELSE 0,
                     !.state = IF BytesToLoad(mode) = 0
                               THEN "COMPUTE_ADDRESS" ELSE "FETCH_ARGUMENT_BYTES"]
<1>1. /\ cpu.state = "FETCH_ADDRESSING_MODES" /\ cpu.state \in Early
      /\ cpu_read_memory(cpu.pc, Restartable, d) /\ cpu.pc \in Address
  BY Sizes DEF FetchAddressingModes, In, Early, CpuRecord
<1>2. \/ cpu' = Stop(Restartable)
      \/ cpu' = d /\ ReadByte(cpu.pc) = ram[cpu.pc]
  <2>1. ReadsFrom(cpu.pc) /\ Reads("RAM", cpu.pc)
    BY <1>1 DEF ReadsFrom, InRam
  <2> HIDE DEF d
  <2> QED BY <1>1, <2>1, Received
<1>3. ASSUME cpu' = d, ReadByte(cpu.pc) = ram[cpu.pc]
      PROVE  GatherInv'
  <2>1. /\ cpu'.mode = mode /\ cpu'.pc = Wrap(cpu.pc + 1)
        /\ cpu'.raw_index = IF BytesToLoad(mode) = 0 THEN cpu.raw_index ELSE 0
        /\ cpu'.state = IF BytesToLoad(mode) = 0
                        THEN "COMPUTE_ADDRESS" ELSE "FETCH_ARGUMENT_BYTES"
        /\ CollectsOn
    <3> HIDE DEF mode
    <3> QED BY <1>3, RestartableIs DEF CollectsOn, CpuField, Early
  <2>2. ASSUME Ordinary(This), Collected(cpu.state)
        PROVE  Collected(cpu.state)'
    <3>1. This' = This
      BY DEF This
    <3>2. /\ argument_count(This.m) # 0
          /\ AddressingMode[retired.mem[cpu.pc]] = [admr |-> This.admr, admx |-> This.admx]
          /\ Wrap(cpu.pc + 1) = This.extended
      BY <1>1, <2>2 DEF Collected
    <3>3. ram = retired.mem /\ cpu.instruction = This.m
      BY <1>1 DEF GatherInv, Untouched, Recognized
    <3>4. mode = [admr |-> This.admr, admx |-> This.admx]
      BY <1>3, <3>2, <3>3
    <3>5. BytesToLoad(mode) = ThisBytes
      BY <3>3, <3>4 DEF BytesToLoad, ThisBytes
    <3>6. ModeKnown'
      BY <2>1, <3>1, <3>4 DEF ModeKnown
    <3>7. /\ This.extended = Wrap(This.extended + 0)
          /\ This.next = Wrap(This.extended + ThisBytes) /\ ThisBytes \in Nat
      BY <3>2, ThisTyped, WrapWord DEF AWord
    <3>8. ThisBytes' = ThisBytes
      BY <3>1 DEF ThisBytes
    <3> HIDE DEF mode
    <3>9. CASE ThisBytes = 0
      <4>1. BytesRead(0)'
        BY DEF BytesRead
      <4> QED BY <2>1, <3>1, <3>2, <3>5, <3>6, <3>7, <3>8, <3>9, <4>1 DEF Collected
    <3>10. CASE ThisBytes # 0
      <4>1. BytesRead(0)'
        BY DEF BytesRead
      <4> QED BY <2>1, <3>1, <3>2, <3>5, <3>6, <3>7, <3>8, <3>10, <4>1 DEF Collected
    <3> QED BY <3>9, <3>10
  <2> QED BY <1>1, <2>1, <2>2, Gathers
<1> QED BY <1>2, <1>3, GathersWaiting

\* The argument bytes are loaded in their order.
LEMMA GathersBytes ==
  ASSUME IsaInv, InRam, FetchArgumentBytes, UNCHANGED <<ram, retired>>
  PROVE  GatherInv'
<1> USE Known
<1> DEFINE b == ReadByte(cpu.pc)
           d == Loaded(b)
<1>1. /\ cpu.state = "FETCH_ARGUMENT_BYTES" /\ cpu.state \in Early
      /\ cpu_read_memory(cpu.pc, Restartable, d) /\ cpu.pc \in Address
  BY Sizes DEF FetchArgumentBytes, In, Early, CpuRecord
<1>2. \/ cpu' = Stop(Restartable)
      \/ cpu' = d /\ b = ram[cpu.pc]
  <2>1. ReadsFrom(cpu.pc) /\ Reads("RAM", cpu.pc)
    BY <1>1 DEF ReadsFrom, InRam
  <2> HIDE DEF d
  <2> QED BY <1>1, <2>1, Received
<1>3. ASSUME cpu' = d, b = ram[cpu.pc]
      PROVE  GatherInv'
  <2> DEFINE index == IF cpu.raw_index > RAW THEN cpu.raw_index ELSE cpu.raw_index + 1
             last == index >= BytesToLoad(cpu.mode) /\ LastCategory # "ADMC_NONE"
  <2> HIDE DEF b
  <2>1. /\ cpu'.mode = cpu.mode /\ cpu'.pc = Wrap(cpu.pc + 1) /\ cpu'.raw_index = index
        /\ cpu'.raw = [i \in 0 .. RAW - 1 |-> IF i = cpu.raw_index THEN b ELSE cpu.raw[i]]
        /\ cpu'.state = IF last THEN "COMPUTE_ADDRESS" ELSE "FETCH_ARGUMENT_BYTES"
        /\ CollectsOn
    BY <1>1, <1>3, RestartableIs DEF Loaded, Goto, Stop, CollectsOn, CpuField, Early
  <2>2. ASSUME Ordinary(This), Collected(cpu.state)
        PROVE  Collected(cpu.state)'
    <3>1. This' = This /\ ThisBytes' = ThisBytes
      BY DEF This, ThisBytes
    <3>2. /\ argument_count(This.m) # 0 /\ ModeKnown
          /\ cpu.raw_index < ThisBytes /\ BytesRead(cpu.raw_index)
          /\ cpu.pc = Wrap(This.extended + cpu.raw_index)
      BY <1>1, <2>2 DEF Collected
    <3>3. ram = retired.mem /\ cpu.instruction = This.m
      BY <1>1 DEF GatherInv, Untouched, Recognized
    <3>4. BytesToLoad(cpu.mode) = ThisBytes
      BY <3>2, <3>3 DEF BytesToLoad, ThisBytes, ModeKnown
    <3>5. /\ ThisBytes \in Nat /\ ThisBytes <= RAW
          /\ cpu.raw_index \in 0 .. RAW - 1
      <4>1. ThisBytes \in Nat /\ ThisBytes <= RAW
        <5>1. mode_bytes(This.admr) \in {0, 2}
          BY <2>2, ThisIs DEF mode_bytes, ADMR
        <5>2. mode_bytes(This.admx) \in {0, 2, 3}
          BY ModeBytes
        <5> QED BY <5>1, <5>2 DEF ThisBytes, argument_bytes, RAW
      <4> QED BY <3>2, <4>1 DEF CpuRecord, RAW
    <3>6. index = cpu.raw_index + 1
      BY <3>5 DEF RAW
    <3>7. LastCategory # "ADMC_NONE"
      <4>1. \/ This.m \in WriteArgument /\ mode_category(This.admr) # "ADMC_NONE"
            \/ This.m \notin WriteArgument /\ mode_category(This.admx) # "ADMC_NONE"
        BY <2>2, <3>2, TwinOperands DEF Ordinary, Atomic!WellFormed, argument_count
      <4> QED BY <3>2, <3>3, <4>1 DEF LastCategory, single_operant_writeback, ModeKnown
    <3>8. \A j \in 0 .. cpu.raw_index : cpu'.raw[j] = retired.mem[Wrap(This.extended + j)]
      <4> SUFFICES ASSUME NEW j \in 0 .. cpu.raw_index
                   PROVE  cpu'.raw[j] = retired.mem[Wrap(This.extended + j)]
        OBVIOUS
      <4>1. CASE j = cpu.raw_index
        BY <1>3, <2>1, <3>2, <3>3, <3>5, <4>1
      <4>2. CASE j # cpu.raw_index
        <5>1. j \in 0 .. cpu.raw_index - 1 /\ j \in 0 .. RAW - 1
          BY <3>5, <4>2 DEF RAW
        <5>2. cpu'.raw[j] = cpu.raw[j]
          BY <2>1, <4>2, <5>1
        <5> QED BY <3>2, <5>1, <5>2 DEF BytesRead
      <4> QED BY <4>1, <4>2
    <3>9. cpu'.pc = Wrap(This.extended + index)
      <4>1. This.extended \in Int /\ This.extended + cpu.raw_index \in Int
        BY <3>5, ThisTyped DEF AWord
      <4>2. Wrap(Wrap(This.extended + cpu.raw_index) + 1) =
              Wrap((This.extended + cpu.raw_index) + 1)
        BY <4>1, WrapTwice
      <4>3. (This.extended + cpu.raw_index) + 1 = This.extended + index
        BY <3>5, <3>6, <4>1
      <4> QED BY <2>1, <3>2, <4>2, <4>3
    <3>10. ModeKnown'
      BY <2>1, <3>1, <3>2 DEF ModeKnown
    <3>11. CASE index >= ThisBytes
      <4>1. index = ThisBytes
        BY <3>2, <3>5, <3>6, <3>11
      <4>2. cpu'.state = "COMPUTE_ADDRESS"
        BY <2>1, <3>4, <3>7, <3>11
      <4>3. cpu'.pc = This.next
        BY <3>2, <3>9, <4>1, ThisTyped
      <4>4. BytesRead(ThisBytes)'
        <5>1. 0 .. ThisBytes - 1 = 0 .. cpu.raw_index
          BY <3>5, <3>6, <4>1
        <5> QED BY <3>1, <3>8, <5>1 DEF BytesRead
      <4> QED BY <3>1, <3>2, <3>10, <4>2, <4>3, <4>4 DEF Collected
    <3>12. CASE ~(index >= ThisBytes)
      <4>1. cpu'.state = "FETCH_ARGUMENT_BYTES"
        BY <2>1, <3>4, <3>12
      <4>2. cpu'.raw_index = cpu.raw_index + 1 /\ cpu'.raw_index < ThisBytes
        BY <2>1, <3>5, <3>6, <3>12
      <4>3. BytesRead(cpu.raw_index)'
        <5>1. 0 .. cpu'.raw_index - 1 = 0 .. cpu.raw_index
          BY <3>5, <4>2
        <5> QED BY <3>1, <3>8, <5>1 DEF BytesRead
      <4>4. cpu'.pc = Wrap(This.extended + cpu'.raw_index)
        BY <2>1, <3>9
      <4> QED BY <3>1, <3>2, <3>10, <4>1, <4>2, <4>3, <4>4 DEF Collected
    <3> QED BY <3>11, <3>12
  <2> QED BY <1>1, <2>1, <2>2, Gathers
<1> QED BY <1>2, <1>3, GathersWaiting

-----------------------------------------------------------------------------
(***************************************************************************)
(* The groups of instructions are apart.                                   *)
(***************************************************************************)
\* The names of the instructions that belong to a flag.
Jumps    == {"JMP", "JZ", "JFZ", "JL", "JUL", "JFL", "JDL", "JLL", "JAO", "JNZ", "JNFZ", "JNL",
             "JNUL", "JNFL", "JNDL", "JNLL", "JNAO"}
RelJumps == {"RJMP", "RJZ", "RJFZ", "RJL", "RJUL", "RJFL", "RJDL", "RJLL", "RJAO", "RJNZ", "RJNFZ",
             "RJNL", "RJNUL", "RJNFL", "RJNDL", "RJNLL", "RJNAO"}
Moves    == {"CMOVZ", "CMOVFZ", "CMOVL", "CMOVUL", "CMOVFL", "CMOVDL", "CMOVLL", "CMOVAO", "CMOVMI",
             "CMOVNZ", "CMOVNFZ", "CMOVNL", "CMOVNUL", "CMOVNFL", "CMOVNDL", "CMOVNLL",
             "CMOVNAO", "CMOVNMI"}
FlagOps  == {"CLZ", "CLFZ", "CLL", "CLUL", "CLFL", "CLDL", "CLLL", "CLAO", "CLMI", "SEZ", "SEFZ",
             "SEL", "SEUL", "SEFL", "SEDL", "SELL", "SEAO", "SEMI"}

\* The mnemonics in the columns of the table.
LEMMA FlagColumns ==
  \A q \in FlagTable :
    /\ {q[2], q[3]} \subseteq Jumps \cup {""}
    /\ {q[4], q[5]} \subseteq RelJumps \cup {""}
    /\ {q[6], q[7]} \subseteq Moves /\ {q[8], q[9]} \subseteq FlagOps
    /\ q[1] \notin InternalFlags
<1> SUFFICES ASSUME NEW q \in FlagTable
             PROVE  /\ {q[2], q[3]} \subseteq Jumps \cup {""}
                    /\ {q[4], q[5]} \subseteq RelJumps \cup {""}
                    /\ {q[6], q[7]} \subseteq Moves /\ {q[8], q[9]} \subseteq FlagOps
                    /\ q[1] \notin InternalFlags
  OBVIOUS
<1>1. CASE q = <<"Z",  "JZ",  "JNZ",  "RJZ",  "RJNZ",  "CMOVZ",  "CMOVNZ",  "CLZ",  "SEZ">>
  BY <1>1 DEF Jumps, RelJumps, Moves, FlagOps, InternalFlags
<1>2. CASE q = <<"FZ", "JFZ", "JNFZ", "RJFZ", "RJNFZ", "CMOVFZ", "CMOVNFZ", "CLFZ", "SEFZ">>
  BY <1>2 DEF Jumps, RelJumps, Moves, FlagOps, InternalFlags
<1>3. CASE q = <<"L",  "JL",  "JNL",  "RJL",  "RJNL",  "CMOVL",  "CMOVNL",  "CLL",  "SEL">>
  BY <1>3 DEF Jumps, RelJumps, Moves, FlagOps, InternalFlags
<1>4. CASE q = <<"UL", "JUL", "JNUL", "RJUL", "RJNUL", "CMOVUL", "CMOVNUL", "CLUL", "SEUL">>
  BY <1>4 DEF Jumps, RelJumps, Moves, FlagOps, InternalFlags
<1>5. CASE q = <<"FL", "JFL", "JNFL", "RJFL", "RJNFL", "CMOVFL", "CMOVNFL", "CLFL", "SEFL">>
  BY <1>5 DEF Jumps, RelJumps, Moves, FlagOps, InternalFlags
<1>6. CASE q = <<"DL", "JDL", "JNDL", "RJDL", "RJNDL", "CMOVDL", "CMOVNDL", "CLDL", "SEDL">>
  BY <1>6 DEF Jumps, RelJumps, Moves, FlagOps, InternalFlags
<1>7. CASE q = <<"LL", "JLL", "JNLL", "RJLL", "RJNLL", "CMOVLL", "CMOVNLL", "CLLL", "SELL">>
  BY <1>7 DEF Jumps, RelJumps, Moves, FlagOps, InternalFlags
<1>8. CASE q = <<"AO", "JAO", "JNAO", "RJAO", "RJNAO", "CMOVAO", "CMOVNAO", "CLAO", "SEAO">>
  BY <1>8 DEF Jumps, RelJumps, Moves, FlagOps, InternalFlags
<1>9. CASE q = <<"MI", "",    "",     "",     "",      "CMOVMI", "CMOVNMI", "CLMI", "SEMI">>
  BY <1>9 DEF Jumps, RelJumps, Moves, FlagOps, InternalFlags
<1> QED BY <1>1, <1>2, <1>3, <1>4, <1>5, <1>6, <1>7, <1>8, <1>9 DEF FlagTable

\* They have no instruction in common, and none with the others.
Single == {"NOP", "EXTNOP", "EXTNOP2", "INV", "FTC", "CMP", "TST", "HWCLOCK", "HWINSTR",
           "HWSLEEP", "HLT", "PUSH", "PUSHB", "PUSHSR", "POP", "POPB", "POPSR", "RET",
           "CALL", "RCALL", "INT", "MOV", "MOVB", "LEA", "EXT", "ILLEGAL"}
Calculations == INTEGER_OPS \cup UNARY_OPS \cup FLOAT_OPS \cup CONVERSIONS

\* The groups are taken from the columns.
LEMMA Grouped ==
  /\ JUMPS \subseteq Jumps /\ REL_JUMPS \subseteq RelJumps
  /\ CMOVES \subseteq Moves /\ FLAG_OPS \subseteq FlagOps
BY FlagColumns DEF JUMPS, REL_JUMPS, CMOVES, FLAG_OPS, Column, Jumps, RelJumps

\* No mnemonic is in two groups.
LEMMA Groups ==
  /\ (JUMPS \cup REL_JUMPS \cup CMOVES \cup FLAG_OPS) \cap (Single \cup Calculations) = {}
  /\ Calculations \cap Single = {}
  /\ JUMPS \cap (REL_JUMPS \cup CMOVES \cup FLAG_OPS) = {}
  /\ REL_JUMPS \cap (CMOVES \cup FLAG_OPS) = {}
  /\ CMOVES \cap FLAG_OPS = {}
<1>1. (Jumps \cup RelJumps \cup Moves \cup FlagOps) \cap Single = {}
  BY DEF Jumps, RelJumps, Moves, FlagOps, Single
<1>2. (Jumps \cup RelJumps \cup Moves \cup FlagOps) \cap Calculations = {}
  BY DEF Jumps, RelJumps, Moves, FlagOps, Calculations, INTEGER_OPS, UNARY_OPS, FLOAT_OPS,
         CONVERSIONS
<1>3. Calculations \cap Single = {}
  BY DEF Single, Calculations, INTEGER_OPS, UNARY_OPS, FLOAT_OPS, CONVERSIONS
<1>4. /\ Jumps \cap (RelJumps \cup Moves \cup FlagOps) = {}
      /\ RelJumps \cap (Moves \cup FlagOps) = {} /\ Moves \cap FlagOps = {}
  BY DEF Jumps, RelJumps, Moves, FlagOps
<1> QED BY <1>1, <1>2, <1>3, <1>4, Grouped

\* An instruction has one kind of operands.
LEMMA OneKind ==
  /\ ReadArgument \cap (WriteArgument \cup TwoArguments) = {}
  /\ WriteArgument \cap TwoArguments = {}
  /\ (ReadArgument \cup WriteArgument \cup TwoArguments) \cap
       (FLAG_OPS \cup {"NOP", "PUSHSR", "POPSR", "RET", "INV", "HWCLOCK", "HWINSTR", "HWSLEEP",
                       "HLT", "EXTNOP", "EXTNOP2"}) = {}
<1>1. INTEGER_OPS \cap UNARY_OPS = {} /\ FLOAT_OPS \cap CONVERSIONS = {}
      /\ INTEGER_OPS \cap CONVERSIONS = {} /\ FLOAT_OPS \cap UNARY_OPS = {}
  BY DEF INTEGER_OPS, UNARY_OPS, FLOAT_OPS, CONVERSIONS
<1> QED BY <1>1, Groups DEF ReadArgument, WriteArgument, TwoArguments, Single, Calculations

-----------------------------------------------------------------------------
(***************************************************************************)
(* The addresses and the operands.                                         *)
(***************************************************************************)
\* Two argument bytes are a word of the instruction.
LEMMA ArgumentRead ==
  ASSUME RetiredOK, NEW n \in Nat, n + 2 <= ThisBytes, BytesRead(ThisBytes)
  PROVE  Argument(n) = Atomic!Word(retired, Wrap(This.extended + n))
<1>1. This.extended \in Int /\ This.extended + n \in Int /\ ThisBytes \in Nat
  BY ThisTyped DEF AWord
<1>2. cpu.raw[n] = retired.mem[Wrap(This.extended + n)]
  <2>1. n \in 0 .. ThisBytes - 1
    BY <1>1
  <2> QED BY <2>1 DEF BytesRead
<1>3. cpu.raw[n + 1] = retired.mem[Wrap(This.extended + (n + 1))]
  <2>1. n + 1 \in 0 .. ThisBytes - 1
    BY <1>1
  <2> QED BY <2>1 DEF BytesRead
<1>4. Wrap(Wrap(This.extended + n) + 1) = Wrap(This.extended + (n + 1))
  <2>1. \A i \in Int : Wrap(Wrap(i) + 1) = Wrap(i + 1)
    BY WrapTwice
  <2>2. (This.extended + n) + 1 = This.extended + (n + 1)
    BY <1>1
  <2> QED BY <1>1, <2>1, <2>2
<1> QED BY <1>2, <1>3, <1>4, TwinWords DEF Argument, Atomic!Word

\* The first two.
LEMMA FirstArgument ==
  ASSUME RetiredOK, 2 <= ThisBytes, BytesRead(ThisBytes)
  PROVE  Argument(0) = Atomic!Word(retired, This.extended)
<1>1. Argument(0) = Atomic!Word(retired, Wrap(This.extended + 0))
  BY ArgumentRead
<1>2. Wrap(This.extended + 0) = This.extended
  BY ThisTyped, WrapWord DEF AWord
<1> QED BY <1>1, <1>2

\* The operands cost what is left of the instruction.
LEMMA OperandBytes ==
  ASSUME RetiredOK, Ordinary(This)
  PROVE  /\ This.m \in ReadArgument \cup TwoArguments => ThisBytes >= mode_bytes(This.admx)
         /\ This.m \in WriteArgument \cup TwoArguments /\ This.admr.kind = "IND16" =>
              /\ ThisBytes >= mode_bytes(This.admx) + 2
              /\ mode_bytes(This.admx) =
                   IF This.admx.kind \in {"IMM16", "IND16", "OFFSET16", "SCALED8"} THEN 2 ELSE 0
<1>1. mode_bytes(This.admx) \in {0, 2, 3} /\ mode_bytes(This.admr) \in {0, 2, 3}
  BY ModeBytes
<1>2. CASE This.m \in TwoArguments
  BY <1>1, <1>2 DEF ThisBytes, argument_bytes, mode_bytes, Ordinary
<1>3. CASE This.m \in ReadArgument \ TwoArguments
  <2>1. This.m \notin WriteArgument
    BY <1>3, OneKind
  <2> QED BY <1>1, <1>3, <2>1 DEF ThisBytes, argument_bytes, single_operant_writeback
<1>4. CASE This.m \in WriteArgument \ (TwoArguments \cup ReadArgument)
  <2>1. This.admx.kind = "NONE"
    BY <1>4, TwinOperands DEF Ordinary, Atomic!WellFormed
  <2> QED BY <1>1, <1>4, <2>1 DEF ThisBytes, argument_bytes, single_operant_writeback, mode_bytes
<1> QED BY <1>2, <1>3, <1>4

\* The index register, with the program counter behind the instruction.
LEMMA IndexRead ==
  ASSUME RetiredOK, Untouched, ModeKnown, cpu.pc = This.next, This.admx.kind # "IMM16"
  PROVE  Value(cpu, cpu.mode.admx.reg) = Atomic!Index(retired, This)
BY DEF Value, Atomic!Index, Atomic!Content, Untouched, ModeKnown

\* The addresses are those of the instruction set.
LEMMA AddressesComputed ==
  ASSUME RetiredOK, Untouched, Ordinary(This), Collected("COMPUTE_ADDRESS")
  PROVE  /\ mode_category(This.admx) = "ADMC_IND" /\ This.m \in ReadArgument \cup TwoArguments =>
              ExtendedAddress = Atomic!ExtendedAddress(retired, This)
         /\ mode_category(This.admr) = "ADMC_IND" /\ This.m \in WriteArgument \cup TwoArguments =>
              ReducedAddress = Atomic!ReducedAddress(retired, This)
         /\ This.admx.kind = "IMM16" /\ This.m \in ReadArgument \cup TwoArguments =>
              Argument(0) = Atomic!Source(retired, This)
<1>1. /\ argument_count(This.m) # 0 /\ ModeKnown /\ BytesRead(ThisBytes)
      /\ cpu.pc = This.next
  BY DEF Collected
<1>2. ASSUME mode_category(This.admx) = "ADMC_IND", This.m \in ReadArgument \cup TwoArguments
      PROVE  ExtendedAddress = Atomic!ExtendedAddress(retired, This)
  <2>0. ThisBytes >= mode_bytes(This.admx)
    BY <1>2, OperandBytes
  <2>1. This.admx.kind \in {"IND", "IND16", "OFFSET16", "SCALED8"}
    BY <1>2, ThisIs DEF mode_category, ADMX
  <2>2. Value(cpu, cpu.mode.admx.reg) = Atomic!Index(retired, This)
    BY <1>1, <2>1, IndexRead
  <2>3. CASE This.admx.kind = "IND"
    BY <1>1, <2>2, <2>3 DEF ExtendedAddress, Atomic!ExtendedAddress, ModeKnown
  <2>4. CASE This.admx.kind \in {"IND16", "OFFSET16"}
    <3>1. Argument(0) = Atomic!Word(retired, This.extended)
      BY <1>1, <2>0, <2>4, FirstArgument DEF mode_bytes
    <3> QED BY <1>1, <2>2, <2>4, <3>1, TwinWords
            DEF ExtendedAddress, Atomic!ExtendedAddress, ModeKnown
  <2>5. CASE This.admx.kind = "SCALED8"
    <3>0. ThisBytes >= 3 /\ ThisBytes \in Nat
      BY <2>0, <2>5, ThisTyped DEF mode_bytes
    <3>1. Argument(0) = Atomic!Word(retired, This.extended)
      BY <1>1, <3>0, FirstArgument
    <3>2. cpu.raw[2] = retired.mem[Wrap(This.extended + 2)]
      <4>1. 2 \in 0 .. ThisBytes - 1
        BY <3>0
      <4> QED BY <1>1, <4>1 DEF BytesRead
    <3> QED BY <1>1, <2>2, <2>5, <3>1, <3>2, TwinWords
            DEF ExtendedAddress, Atomic!ExtendedAddress, ModeKnown
  <2> QED BY <2>1, <2>3, <2>4, <2>5
<1>3. ASSUME mode_category(This.admr) = "ADMC_IND", This.m \in WriteArgument \cup TwoArguments
      PROVE  ReducedAddress = Atomic!ReducedAddress(retired, This)
  <2>1. This.admr.kind \in {"IND", "IND16"}
    BY <1>3, ThisIs DEF mode_category, ADMR
  <2>2. CASE This.admr.kind = "IND16"
    <3>1. /\ ThisBytes >= mode_bytes(This.admx) + 2
          /\ ReducedIndex = mode_bytes(This.admx) /\ mode_bytes(This.admx) \in Nat
      BY <1>1, <1>3, <2>2, OperandBytes, ModeBytes DEF ReducedIndex, ModeKnown
    <3>2. Argument(mode_bytes(This.admx)) = Atomic!Word(retired, This.reduced)
      BY <1>1, <3>1, ArgumentRead, ThisTyped
    <3> QED BY <1>1, <2>2, <3>1, <3>2 DEF ReducedAddress, Atomic!ReducedAddress, ModeKnown
  <2>3. CASE This.admr.kind = "IND"
    BY <1>1, <2>3 DEF ReducedAddress, Atomic!ReducedAddress, ModeKnown, Untouched
  <2> QED BY <2>1, <2>2, <2>3
<1>4. ASSUME This.admx.kind = "IMM16", This.m \in ReadArgument \cup TwoArguments
      PROVE  Argument(0) = Atomic!Source(retired, This)
  <2>1. 2 <= ThisBytes
    BY <1>4, OperandBytes DEF mode_bytes
  <2> QED BY <1>1, <1>4, <2>1, FirstArgument DEF Atomic!Source
<1> QED BY <1>2, <1>3, <1>4

\* The control goes on to the operands.
LEMMA GathersAddress ==
  ASSUME IsaInv, ComputeAddress, UNCHANGED <<ram, retired>>
  PROVE  GatherInv'
<1> USE Known
<1>1. cpu.state = "COMPUTE_ADDRESS" /\ cpu.state \in Early /\ cpu' = Stop(AddressComputed)
  BY DEF ComputeAddress, In, Early, Proceed
<1>2. /\ cpu'.address_extended = ExtendedAddress
      /\ cpu'.address_reduced = ReducedAddress
      /\ cpu'.state = CASE cpu.mode.admx.kind = "NONE" -> "FETCH_DESTINATION"
                        [] cpu.mode.admx.kind = "UNUSED" -> "COMPUTE_ADDRESS"
                        [] OTHER -> "FETCH_SOURCE"
      /\ cpu'.mode = cpu.mode /\ cpu'.pc = cpu.pc /\ cpu'.raw = cpu.raw
      /\ CollectsOn
  BY <1>1, RestartableIs DEF AddressComputed, Stop, CollectsOn, CpuField, Early
<1>3. ASSUME Ordinary(This), Collected(cpu.state)
      PROVE  Collected(cpu.state)'
  <2>1. This' = This
    BY DEF This
  <2>2. Collected("COMPUTE_ADDRESS") /\ Untouched
    BY <1>1, <1>3 DEF GatherInv
  <2>3. argument_count(This.m) # 0 /\ ModeKnown /\ cpu.pc = This.next
    BY <2>2 DEF Collected
  <2>4. ModeKnown' /\ Argument(0)' = Argument(0)
    BY <1>2, <2>1, <2>3 DEF ModeKnown, Argument
  <2>5. /\ This.m \in ReadArgument \cup TwoArguments => mode_category(This.admx) # "ADMC_NONE"
        /\ This.m \in WriteArgument => This.admx.kind = "NONE"
        /\ This.m \in ReadArgument \cup WriteArgument \cup TwoArguments
    BY <1>3, <2>3, TwinOperands DEF Ordinary, Atomic!WellFormed, argument_count
  <2>6. AddressesKnown'
    <3>1. mode_category(This.admx) = "ADMC_IND" => This.m \in ReadArgument \cup TwoArguments
      BY <2>5 DEF mode_category
    <3> QED BY <1>2, <1>3, <2>1, <2>2, <2>5, <3>1, AddressesComputed DEF AddressesKnown
  <2>7. CASE This.admx.kind = "NONE"
    <3>1. This.m \in WriteArgument \cup TwoArguments /\ This.m \notin ReadArgument \cup TwoArguments
      BY <2>5, <2>7 DEF mode_category
    <3>2. SourceKnown'
      BY <2>1, <3>1 DEF SourceKnown
    <3>3. cpu'.state = "FETCH_DESTINATION"
      BY <1>2, <2>3, <2>7 DEF ModeKnown
    <3> QED BY <1>2, <2>1, <2>3, <2>4, <2>6, <3>1, <3>2, <3>3 DEF Collected
  <2>8. CASE This.admx.kind # "NONE"
    <3>1. This.m \in ReadArgument \cup TwoArguments
      BY <2>5, <2>8
    <3>2. This.admx.kind # "UNUSED"
      BY <2>5, <3>1 DEF mode_category
    <3>3. cpu'.state = "FETCH_SOURCE"
      BY <1>2, <2>3, <2>8, <3>2 DEF ModeKnown
    <3>4. This.admx.kind = "IMM16" => Argument(0) = Atomic!Source(retired, This)
      BY <1>3, <2>2, <3>1, AddressesComputed
    <3> QED BY <1>2, <2>1, <2>3, <2>4, <2>6, <3>1, <3>3, <3>4 DEF Collected
  <2> QED BY <2>7, <2>8
<1> QED BY <1>1, <1>2, <1>3, Gathers

\* The source operand has been read.
LEMMA GathersSource ==
  ASSUME IsaInv, cpu.state \in {"FETCH_SOURCE", "FETCH_SOURCE_HIGH"}, UNCHANGED <<ram, retired>>,
         NEW w, cpu' = Sourced([Restartable EXCEPT !.data_extended = w]),
         Ordinary(This) /\ Collected(cpu.state) /\ Untouched /\ BaseKept =>
           w = Atomic!Source(retired, This)
  PROVE  GatherInv'
<1> USE Known
<1>1. cpu.state \in Early /\ Untouched /\ BaseKept /\ cpu.instruction = This.m
  BY DEF Early, GatherInv, Recognized, RestartInv, EarlyInv
<1>2. /\ cpu'.data_extended = w
      /\ cpu'.state = IF argument_count(cpu.instruction) = 2 THEN "FETCH_DESTINATION"
                      ELSE "EXECUTE"
      /\ cpu'.mode = cpu.mode /\ cpu'.pc = cpu.pc
      /\ cpu'.address_extended = cpu.address_extended
      /\ cpu'.address_reduced = cpu.address_reduced
      /\ CollectsOn
  BY RestartableIs DEF Sourced, Goto, CollectsOn, CpuField, Early
<1>3. ASSUME Ordinary(This), Collected(cpu.state)
      PROVE  Collected(cpu.state)'
  <2>1. This' = This
    BY DEF This
  <2>2. w = Atomic!Source(retired, This)
    BY <1>1, <1>3
  <2>3. /\ ModeKnown /\ cpu.pc = This.next /\ AddressesKnown
        /\ This.m \in ReadArgument \cup TwoArguments
    BY <1>3 DEF Collected
  <2>4. ModeKnown' /\ AddressesKnown' /\ SourceKnown'
    BY <1>2, <2>1, <2>2, <2>3 DEF ModeKnown, AddressesKnown, SourceKnown
  <2>5. CASE This.m \in TwoArguments
    BY <1>1, <1>2, <2>1, <2>3, <2>4, <2>5 DEF Collected, argument_count
  <2>6. CASE This.m \notin TwoArguments
    <3>1. This.m \notin WriteArgument \cup TwoArguments
      BY <2>3, <2>6, OneKind
    <3>2. DestinationKnown'
      BY <2>1, <3>1 DEF DestinationKnown
    <3>3. cpu'.state = "EXECUTE"
      BY <1>1, <1>2, <3>1 DEF argument_count
    <3> QED BY <1>2, <2>1, <2>3, <2>4, <3>2, <3>3 DEF Collected
  <2> QED BY <2>5, <2>6
<1> QED BY <1>1, <1>2, <1>3, Gathers

\* From the arguments or a register.
LEMMA GathersSourceHere ==
  ASSUME IsaInv, FetchSourceImmediate \/ FetchSourceRegister, UNCHANGED <<ram, retired>>
  PROVE  GatherInv'
<1> USE Known
<1>1. CASE FetchSourceImmediate
  <2>1. Ordinary(This) /\ Collected(cpu.state) => Argument(0) = Atomic!Source(retired, This)
    BY <1>1 DEF FetchSourceImmediate, In, Collected, ModeKnown
  <2> QED BY <1>1, <2>1, GathersSource DEF FetchSourceImmediate, In, Proceed
<1>2. CASE FetchSourceRegister
  <2> DEFINE w == IF cpu.mode.admx.reg = "PC" THEN cpu.previous_pc
                  ELSE Value(cpu, cpu.mode.admx.reg)
  <2>1. ASSUME Collected(cpu.state), Untouched, BaseKept
        PROVE  w = Atomic!Source(retired, This)
    <3>1. This.admx.kind = "REG" /\ cpu.mode.admx = This.admx
      BY <1>2, <2>1 DEF FetchSourceRegister, In, Collected, ModeKnown
    <3> QED BY <2>1, <3>1 DEF Value, Atomic!Source, Atomic!Content, Untouched, BaseKept
  <2>2. /\ cpu.state = "FETCH_SOURCE"
        /\ cpu' = Sourced([Restartable EXCEPT !.data_extended = w])
    BY <1>2 DEF FetchSourceRegister, In, Proceed
  <2> HIDE DEF w
  <2> QED BY <2>1, <2>2, GathersSource
<1> QED BY <1>1, <1>2

\* Its low byte, from memory.
LEMMA GathersSourceLow ==
  ASSUME IsaInv, InRam, FetchSource, UNCHANGED <<ram, retired>>
  PROVE  GatherInv'
<1> USE Known
<1> DEFINE a == cpu.address_extended
           d == [Restartable EXCEPT !.state = "FETCH_SOURCE_HIGH",
                                    !.data_extended = ReadByte(a)]
<1>1. /\ cpu.state = "FETCH_SOURCE" /\ cpu.state \in Early /\ a \in Address
      /\ mode_category(cpu.mode.admx) = "ADMC_IND" /\ cpu_read_memory(a, Restartable, d)
  BY Sizes DEF FetchSource, In, Early, CpuRecord
<1>2. \/ cpu' = Stop(Restartable)
      \/ cpu' = d /\ ReadByte(a) = ram[a]
  <2>1. ReadsFrom(a) /\ Reads("RAM", a)
    BY <1>1 DEF ReadsFrom, InRam
  <2> HIDE DEF d, a
  <2> QED BY <1>1, <2>1, Received
<1>3. ASSUME cpu' = d, ReadByte(a) = ram[a]
      PROVE  GatherInv'
  <2>1. /\ cpu'.data_extended = ram[a] /\ cpu'.state = "FETCH_SOURCE_HIGH"
        /\ cpu'.mode = cpu.mode /\ cpu'.pc = cpu.pc
        /\ cpu'.address_extended = a /\ cpu'.address_reduced = cpu.address_reduced
        /\ CollectsOn
    BY <1>3, RestartableIs DEF CollectsOn, CpuField, Early
  <2>2. ASSUME Collected(cpu.state)
        PROVE  Collected(cpu.state)'
    <3>1. This' = This
      BY DEF This
    <3>2. /\ ModeKnown /\ cpu.pc = This.next /\ AddressesKnown
          /\ This.m \in ReadArgument \cup TwoArguments
      BY <1>1, <2>2 DEF Collected
    <3>3. ModeKnown' /\ AddressesKnown'
      BY <2>1, <3>1, <3>2 DEF ModeKnown, AddressesKnown
    <3>4. mode_category(This.admx) = "ADMC_IND" /\ ram = retired.mem
      BY <1>1, <3>2 DEF ModeKnown, GatherInv, Untouched
    <3> QED BY <2>1, <3>1, <3>2, <3>3, <3>4 DEF Collected
  <2> QED BY <1>1, <2>1, <2>2, Gathers
<1> QED BY <1>2, <1>3, GathersWaiting

\* Its high byte.
LEMMA GathersSourceHigh ==
  ASSUME IsaInv, InRam, FetchSourceHigh, UNCHANGED <<ram, retired>>
  PROVE  GatherInv'
<1> USE Known
<1> DEFINE a == Wrap(cpu.address_extended + 1)
           w == WordOf(cpu.data_extended, ReadByte(a))
           d == Sourced([Restartable EXCEPT !.data_extended = w])
<1>1. /\ cpu.state = "FETCH_SOURCE_HIGH" /\ a \in Address
      /\ cpu_read_memory(a, Restartable, d)
  <2>1. Restartable.data_extended = cpu.data_extended
    BY RestartableIs DEF CpuField
  <2>2. [Restartable EXCEPT !.data_extended = WordOf(@, ReadByte(a))] =
          [Restartable EXCEPT !.data_extended = w]
    BY <2>1
  <2>3. cpu.address_extended + 1 \in Int
    BY SMTT(40) DEF CpuRecord, AWord
  <2>4. a \in Address
    BY <2>3, WrapAddress
  <2> QED BY <2>2, <2>4 DEF FetchSourceHigh, In
<1>2. \/ cpu' = Stop(Restartable)
      \/ cpu' = d /\ ReadByte(a) = ram[a]
  <2>1. ReadsFrom(a) /\ Reads("RAM", a)
    BY <1>1 DEF ReadsFrom, InRam
  <2> HIDE DEF d, a
  <2> QED BY <1>1, <2>1, Received
<1>3. ASSUME cpu' = d, ReadByte(a) = ram[a]
      PROVE  GatherInv'
  <2>1. ASSUME Collected(cpu.state), Untouched
        PROVE  w = Atomic!Source(retired, This)
    <3>1. /\ cpu.address_extended = Atomic!ExtendedAddress(retired, This)
          /\ mode_category(This.admx) = "ADMC_IND"
          /\ cpu.data_extended = retired.mem[cpu.address_extended]
          /\ ram = retired.mem
      BY <1>1, <2>1 DEF Collected, AddressesKnown, Untouched
    <3>2. This.admx.kind \notin {"IMM16", "REG"}
      BY <3>1 DEF mode_category
    <3> QED BY <1>3, <3>1, <3>2, TwinWords DEF Atomic!Source, Atomic!Word
  <2> HIDE DEF w
  <2> QED BY <1>1, <1>3, <2>1, GathersSource
<1> QED BY <1>2, <1>3, GathersWaiting

\* The destination operand has been read.
LEMMA GathersDestination ==
  ASSUME IsaInv, cpu.state \in {"FETCH_DESTINATION", "FETCH_DESTINATION_HIGH"},
         UNCHANGED <<ram, retired>>,
         NEW w, cpu' = [Restartable EXCEPT !.data_reduced = w, !.state = "EXECUTE"],
         Ordinary(This) /\ Collected(cpu.state) /\ Untouched =>
           w = Atomic!Destination(retired, This)
  PROVE  GatherInv'
<1> USE Known
<1>1. cpu.state \in Early /\ Untouched
  BY DEF Early, GatherInv
<1>2. /\ cpu'.data_reduced = w /\ cpu'.data_extended = cpu.data_extended
      /\ cpu'.state = "EXECUTE"
      /\ cpu'.mode = cpu.mode /\ cpu'.pc = cpu.pc
      /\ cpu'.address_extended = cpu.address_extended
      /\ cpu'.address_reduced = cpu.address_reduced
      /\ CollectsOn
  BY RestartableIs DEF CollectsOn, CpuField, Early
<1>3. ASSUME Ordinary(This), Collected(cpu.state)
      PROVE  Collected(cpu.state)'
  <2>1. This' = This
    BY DEF This
  <2>2. w = Atomic!Destination(retired, This)
    BY <1>1, <1>3
  <2>3. ModeKnown /\ cpu.pc = This.next /\ AddressesKnown /\ SourceKnown
    BY <1>3 DEF Collected
  <2>4. ModeKnown' /\ AddressesKnown' /\ SourceKnown' /\ DestinationKnown'
    BY <1>2, <2>1, <2>2, <2>3
       DEF ModeKnown, AddressesKnown, SourceKnown, DestinationKnown
  <2> QED BY <1>2, <2>1, <2>3, <2>4 DEF Collected
<1> QED BY <1>1, <1>2, <1>3, Gathers

\* From a register, or there is none.
LEMMA GathersDestinationHere ==
  ASSUME IsaInv, FetchDestinationRegister \/ FetchDestinationNone, UNCHANGED <<ram, retired>>
  PROVE  GatherInv'
<1> USE Known
<1>1. CASE FetchDestinationRegister
  <2> DEFINE w == Value(cpu, cpu.mode.admr.reg)
  <2>1. ASSUME Collected(cpu.state), Untouched
        PROVE  w = Atomic!Destination(retired, This)
    <3>1. /\ cpu.mode.admr = This.admr /\ This.admr.kind = "REG"
          /\ cpu.state = "FETCH_DESTINATION"
      BY <1>1, <2>1 DEF FetchDestinationRegister, In, Collected, ModeKnown
    <3>2. This.admr.reg # "PC"
      BY <3>1, ThisIs DEF ADMR
    <3> QED BY <2>1, <3>1, <3>2 DEF Value, Atomic!Destination, Atomic!Content, Untouched
  <2>2. /\ cpu.state = "FETCH_DESTINATION"
        /\ cpu' = [Restartable EXCEPT !.data_reduced = w, !.state = "EXECUTE"]
    BY <1>1 DEF FetchDestinationRegister, In, Proceed
  <2> HIDE DEF w
  <2> QED BY <2>1, <2>2, GathersDestination
<1>2. CASE FetchDestinationNone
  <2>1. cpu.state = "FETCH_DESTINATION" /\ cpu.state \in Early
    BY <1>2 DEF FetchDestinationNone, In, Early
  <2>2. cpu'.state = "EXCEPTION" /\ CollectsOn
    BY <1>2, RestartableIs DEF FetchDestinationNone, Proceed, Stop, Goto, CollectsOn, CpuField,
                               Ended
  <2>3. Collected(cpu.state)'
    BY <2>2 DEF Collected
  <2> QED BY <2>1, <2>2, <2>3, Gathers
<1> QED BY <1>1, <1>2

\* Its low byte, from memory.
LEMMA GathersDestinationLow ==
  ASSUME IsaInv, InRam, FetchDestination, UNCHANGED <<ram, retired>>
  PROVE  GatherInv'
<1> USE Known
<1> DEFINE a == cpu.address_reduced
           d == [Restartable EXCEPT !.state = "FETCH_DESTINATION_HIGH",
                                    !.data_reduced = ReadByte(a)]
<1>1. /\ cpu.state = "FETCH_DESTINATION" /\ cpu.state \in Early /\ a \in Address
      /\ mode_category(cpu.mode.admr) = "ADMC_IND" /\ cpu_read_memory(a, Restartable, d)
  BY Sizes DEF FetchDestination, In, Early, CpuRecord
<1>2. \/ cpu' = Stop(Restartable)
      \/ cpu' = d /\ ReadByte(a) = ram[a]
  <2>1. ReadsFrom(a) /\ Reads("RAM", a)
    BY <1>1 DEF ReadsFrom, InRam
  <2> HIDE DEF d, a
  <2> QED BY <1>1, <2>1, Received
<1>3. ASSUME cpu' = d, ReadByte(a) = ram[a]
      PROVE  GatherInv'
  <2>1. /\ cpu'.data_reduced = ram[a] /\ cpu'.data_extended = cpu.data_extended
        /\ cpu'.state = "FETCH_DESTINATION_HIGH"
        /\ cpu'.mode = cpu.mode /\ cpu'.pc = cpu.pc
        /\ cpu'.address_extended = cpu.address_extended /\ cpu'.address_reduced = a
        /\ CollectsOn
    BY <1>3, RestartableIs DEF CollectsOn, CpuField, Early
  <2>2. ASSUME Collected(cpu.state)
        PROVE  Collected(cpu.state)'
    <3>1. This' = This
      BY DEF This
    <3>2. /\ ModeKnown /\ cpu.pc = This.next /\ AddressesKnown /\ SourceKnown
          /\ This.m \in WriteArgument \cup TwoArguments
      BY <1>1, <2>2 DEF Collected
    <3>3. ModeKnown' /\ AddressesKnown' /\ SourceKnown'
      BY <2>1, <3>1, <3>2 DEF ModeKnown, AddressesKnown, SourceKnown
    <3>4. mode_category(This.admr) = "ADMC_IND" /\ ram = retired.mem
      BY <1>1, <3>2 DEF ModeKnown, GatherInv, Untouched
    <3> QED BY <2>1, <3>1, <3>2, <3>3, <3>4 DEF Collected
  <2> QED BY <1>1, <2>1, <2>2, Gathers
<1> QED BY <1>2, <1>3, GathersWaiting

\* Its high byte.
LEMMA GathersDestinationHigh ==
  ASSUME IsaInv, InRam, FetchDestinationHigh, UNCHANGED <<ram, retired>>
  PROVE  GatherInv'
<1> USE Known
<1> DEFINE a == Wrap(cpu.address_reduced + 1)
           w == WordOf(cpu.data_reduced, ReadByte(a))
           d == [Restartable EXCEPT !.data_reduced = w, !.state = "EXECUTE"]
<1>1. /\ cpu.state = "FETCH_DESTINATION_HIGH" /\ a \in Address
      /\ cpu_read_memory(a, Restartable, d)
  <2>1. Restartable.data_reduced = cpu.data_reduced
    BY RestartableIs DEF CpuField
  <2>2. [Restartable EXCEPT !.state = "EXECUTE", !.data_reduced = WordOf(@, ReadByte(a))] = d
    BY <2>1
  <2>3. cpu.address_reduced + 1 \in Int
    BY SMTT(40) DEF CpuRecord, AWord
  <2>4. a \in Address
    BY <2>3, WrapAddress
  <2> QED BY <2>2, <2>4 DEF FetchDestinationHigh, In
<1>2. \/ cpu' = Stop(Restartable)
      \/ cpu' = d /\ ReadByte(a) = ram[a]
  <2>1. ReadsFrom(a) /\ Reads("RAM", a)
    BY <1>1 DEF ReadsFrom, InRam
  <2> HIDE DEF d, a
  <2> QED BY <1>1, <2>1, Received
<1>3. ASSUME cpu' = d, ReadByte(a) = ram[a]
      PROVE  GatherInv'
  <2>1. ASSUME Collected(cpu.state), Untouched
        PROVE  w = Atomic!Destination(retired, This)
    <3>1. /\ mode_category(This.admr) = "ADMC_IND"
          /\ This.m \in WriteArgument \cup TwoArguments /\ AddressesKnown
          /\ cpu.data_reduced = retired.mem[cpu.address_reduced]
          /\ ram = retired.mem
      BY <1>1, <2>1 DEF Collected, Untouched
    <3>2. cpu.address_reduced = Atomic!ReducedAddress(retired, This)
      BY <3>1, OneKind DEF AddressesKnown
    <3>3. This.admr.kind # "REG"
      BY <3>1 DEF mode_category
    <3> QED BY <1>3, <3>1, <3>2, <3>3, TwinWords DEF Atomic!Destination, Atomic!Word
  <2> HIDE DEF w
  <2> QED BY <1>1, <1>3, <2>1, GathersDestination
<1> QED BY <1>2, <1>3, GathersWaiting

\* A clock begins, or a masked interrupt is dropped, or the processor sleeps.
LEMMA GathersBeginning ==
  ASSUME IsaInv, ClockBegin \/ DropInterrupt \/ SleepClock, UNCHANGED <<ram, retired>>
  PROVE  GatherInv' /\ CompleteInv'
<1>1. WorkKept
  BY Known DEF ClockBegin, DropInterrupt, SleepClock, Proceed, Stop, Shape, WorkKept,
               WorkField, CpuField
<1> QED BY <1>1, Known, Waits

\* A prefix, or the opcode.
LEMMA GathersOpcode ==
  ASSUME IsaInv, InRam, FetchInstruction, UNCHANGED <<ram, retired>>
  PROVE  GatherInv'
<1> USE Known
<1> DEFINE b == ReadByte(cpu.pc)
           n == cpu.extension_index
           d == Opened(b)
<1>1. /\ cpu.state = "FETCH_INSTRUCTION" /\ cpu_read_memory(cpu.pc, AtBase, d)
      /\ cpu.pc \in Address
  BY Sizes DEF FetchInstruction, In, CpuRecord
<1>2. \/ cpu' = Stop(AtBase)
      \/ cpu' = d /\ b = ram[cpu.pc]
  <2>1. ReadsFrom(cpu.pc) /\ Reads("RAM", cpu.pc)
    BY <1>1 DEF ReadsFrom, InRam
  <2> HIDE DEF d
  <2> QED BY <1>1, <2>1, Received
<1>3. ASSUME cpu' = d, b = ram[cpu.pc]
      PROVE  GatherInv'
  <2> DEFINE m == Decoded(n, b)
  <2>1. /\ Untouched /\ PrefixesRead /\ ram = retired.mem
        /\ cpu.pc = Wrap(retired.pc + n)
        /\ \A k \in 0 .. n - 1 : Atomic!IsPrefix(retired, k)
        /\ n \in Nat /\ retired.pc \in Nat
    BY SMTT(40), <1>1 DEF GatherInv, Untouched, PrefixesRead, CpuRecord, RetiredOK, AWord
  <2>2. b = retired.mem[Wrap(retired.pc + n)]
    BY <1>3, <2>1
  <2>3. /\ DOMAIN AtBase = CpuField
        /\ \A x \in CpuField \ {"sr", "previous_pc", "previous_sp"} : AtBase[x] = cpu[x]
        /\ AtBase.sr = cpu.sr \ {"MNI"}
    BY RestartableIs DEF AtBase, CpuField
  <2> HIDE DEF b
  <2>4. /\ cpu'.r = cpu.r /\ cpu'.sp = cpu.sp /\ cpu'.irq_id = cpu.irq_id
        /\ cpu'.sr = IF b \in NoCache THEN (cpu.sr \ {"MNI"}) \cup {"NC"}
                     ELSE (cpu.sr \ {"MNI"}) \ {"NC"}
        /\ IF Opcode[1][b] = "EXT"
           THEN /\ cpu'.pc = Wrap(cpu.pc + 1) /\ cpu'.extension_index = n + 1
                /\ cpu'.state = "FETCH_INSTRUCTION"
           ELSE IF m = "ILLEGAL" THEN cpu'.state = "EXCEPTION"
           ELSE /\ cpu'.pc = Wrap(cpu.pc + 1) /\ cpu'.instruction = m
                /\ cpu'.state = IF argument_count(m) = 0 THEN "EXECUTE"
                                ELSE "FETCH_ADDRESSING_MODES"
    <3> HIDE DEF m
    <3>1. cpu.state # "EXCEPTION"
      BY <1>1
    <3>2. CASE Opcode[1][b] = "EXT"
      BY <1>1, <1>3, <2>3, <3>2 DEF Opened, CpuField, Stop
    <3>3. CASE Opcode[1][b] # "EXT" /\ m = "ILLEGAL"
      BY <1>1, <1>3, <2>3, <3>3 DEF Opened, CpuField, Stop, m
    <3>4. CASE Opcode[1][b] # "EXT" /\ m # "ILLEGAL"
      BY <1>1, <1>3, <2>3, <3>4 DEF Opened, CpuField, m
    <3> QED BY <3>2, <3>3, <3>4
  <2>5. cpu'.sr \ InternalFlags = cpu.sr \ InternalFlags
    BY <2>4 DEF InternalFlags
  <2>6. Untouched'
    BY <2>1, <2>4, <2>5 DEF Untouched
  <2>7. Wrap(cpu.pc + 1) = Wrap(retired.pc + (n + 1))
    <3>1. Wrap(Wrap(retired.pc + n) + 1) = Wrap((retired.pc + n) + 1)
      <4>1. retired.pc + n \in Int /\ 1 \in Int
        BY <2>1
      <4> QED BY <4>1, WrapTwice
    <3>2. (retired.pc + n) + 1 = retired.pc + (n + 1)
      BY <2>1
    <3> QED BY <2>1, <3>1, <3>2
  <2>8. CASE Opcode[1][b] = "EXT"
    <3>1. cpu'.state = "FETCH_INSTRUCTION" /\ cpu'.state \notin Early
          /\ cpu'.extension_index = n + 1 /\ cpu'.pc = Wrap(retired.pc + (n + 1))
      BY <2>4, <2>7, <2>8 DEF Early
    <3>2. Atomic!IsPrefix(retired, n)
      BY <2>2, <2>8, TwinWords DEF Atomic!IsPrefix
    <3>3. \A k \in 0 .. n : Atomic!IsPrefix(retired, k)
      BY <2>1, <3>2
    <3>4. 0 .. (n + 1) - 1 = 0 .. n
      BY <2>1
    <3>5. PrefixesRead'
      BY <3>1, <3>3, <3>4 DEF PrefixesRead
    <3> QED BY <2>6, <3>1, <3>5 DEF GatherInv
  <2>9. CASE Opcode[1][b] # "EXT" /\ m = "ILLEGAL"
    BY <2>4, <2>9 DEF GatherInv, Early
  <2>10. CASE Opcode[1][b] # "EXT" /\ m # "ILLEGAL"
    <3>1. n < Len(Opcode)
      BY <2>10 DEF Decoded
    <3>2. ~Atomic!IsPrefix(retired, n)
      BY <2>2, <2>10, TwinWords DEF Atomic!IsPrefix
    <3>3. Atomic!Prefixes(retired) = n
      BY <2>1, <3>1, <3>2, Prefixed
    <3>4. OpcodeAt = retired.pc + n
      BY <3>3 DEF OpcodeAt
    <3>5. This.m = m
      BY <2>2, <3>3, <3>4, ThisIs
    <3>6. This' = This
      BY DEF This
    <3> HIDE DEF m
    <3>7. cpu'.state \in {"EXECUTE", "FETCH_ADDRESSING_MODES"} /\ cpu'.instruction = This.m
          /\ cpu'.pc = Wrap(cpu.pc + 1)
          /\ cpu'.state = IF argument_count(This.m) = 0 THEN "EXECUTE"
                                ELSE "FETCH_ADDRESSING_MODES"
      BY <2>4, <2>10, <3>5
    <3>8. cpu'.sr \cap {"NC"} = This.no_cache
      BY <2>2, <2>4, <3>4, ThisIs
    <3>9. Recognized'
      BY <3>6, <3>7, <3>8 DEF Recognized
    <3>10. cpu'.pc = Wrap(OpcodeAt + 1)
      <4>1. retired.pc + (n + 1) = OpcodeAt + 1
        BY <2>1, <3>4
      <4> QED BY <2>7, <3>7, <4>1
    <3>11. Collected(cpu.state)'
      <4>1. CASE argument_count(This.m) = 0
        <5>1. This.m \notin ReadArgument \cup WriteArgument \cup TwoArguments
          BY <4>1 DEF argument_count
        <5>2. SourceKnown' /\ DestinationKnown'
          BY <3>6, <5>1 DEF SourceKnown, DestinationKnown
        <5>3. cpu'.pc = This.next
          BY <3>10, <4>1, ThisIs
        <5> QED BY <3>6, <3>7, <4>1, <5>2, <5>3 DEF Collected
      <4>2. CASE argument_count(This.m) # 0
        <5>1. AddressingMode[retired.mem[cpu'.pc]] = [admr |-> This.admr, admx |-> This.admx]
          BY <3>10, ThisIs
        <5>2. Wrap(cpu'.pc + 1) = This.extended
          <6>1. OpcodeAt + 1 \in Int /\ (OpcodeAt + 1) + 1 = OpcodeAt + 2
            BY ThisIs
          <6>2. Wrap(Wrap(OpcodeAt + 1) + 1) = Wrap((OpcodeAt + 1) + 1)
            BY <6>1, WrapTwice
          <6> QED BY <3>10, <6>1, <6>2, ThisIs
        <5> QED BY <3>6, <3>7, <4>2, <5>1, <5>2 DEF Collected
      <4> QED BY <4>1, <4>2
    <3> QED BY <2>6, <3>7, <3>9, <3>11 DEF GatherInv
  <2> QED BY <2>8, <2>9, <2>10
<1>4. CASE cpu' = Stop(AtBase)
  BY <1>4, GathersWaiting
<1> QED BY <1>2, <1>3, <1>4

-----------------------------------------------------------------------------
(***************************************************************************)
(* Stores: the one that is made is the one the control is at.              *)
(***************************************************************************)
\* A byte is stored at an address.
LEMMA StoreTyped ==
  ASSUME TypeInv
  PROVE  StoreAddress \in Address /\ StoreByte \in BYTE
<1>1. cpu \in CpuRecord
  BY DEF TypeInv, Typed
<1>2. /\ cpu.address_reduced \in Int /\ cpu.address_reduced \in Address
      /\ cpu.address_reduced + 1 \in Int /\ cpu.sp - 1 \in Int
      /\ cpu.result \in AWord /\ cpu.pc \in AWord
  BY SMTT(40), <1>1, Sizes DEF CpuRecord, AWord
<1>3. Wrap(cpu.address_reduced + 1) \in Address /\ Below \in Address
  BY <1>2, WrapAddress DEF Below
<1> QED BY <1>2, <1>3, Bytes DEF StoreAddress, StoreByte

\* The control at a store stores that byte there.
LEMMA StoringClock ==
  ASSUME cpu_clock, AtStore, cpu.running
  PROVE  \E d : cpu_write_memory(StoreAddress, StoreByte, Committed, d)
<1>1. \/ WritebackLow \/ WritebackHigh \/ PushHigh \/ PushLow
      \/ InterruptPushPcHigh \/ InterruptPushPcLow
  <2>1. ~Execute
    BY DEF AtStore, In, Executing, Execute, ExecuteNop, ExecuteJump, ExecuteCall, ExecuteMove,
           ExecuteMoveByte, ExecutePush, ExecutePop, ExecuteCompare, ExecuteFlag, ExecuteAlu,
           ExecuteInt, ExecuteHalt, ExecuteSleep, ExecuteInvalidate, ExecuteFetchCache, ExecuteInfo
  <2>2. /\ ~ClockBegin /\ ~AcceptInterrupt /\ ~DropInterrupt
        /\ ~FetchInstruction /\ ~FetchAddressingModes /\ ~FetchArgumentBytes /\ ~ComputeAddress
    BY DEF AtStore, In, ClockBegin, AcceptInterrupt, DropInterrupt, Interrupted, FetchInstruction,
           FetchAddressingModes, FetchArgumentBytes, ComputeAddress
  <2>3. /\ ~FetchSourceImmediate /\ ~FetchSourceRegister /\ ~FetchSource /\ ~FetchSourceHigh
        /\ ~FetchDestinationRegister /\ ~FetchDestinationNone /\ ~FetchDestination
        /\ ~FetchDestinationHigh
    BY DEF AtStore, In, FetchSourceImmediate, FetchSourceRegister, FetchSource, FetchSourceHigh,
           FetchDestinationRegister, FetchDestinationNone, FetchDestination, FetchDestinationHigh
  <2>4. /\ ~WritebackLowRegister /\ ~WritebackLowNone /\ ~WritebackHighRegister
    BY DEF AtStore, In, WritebackLowRegister, WritebackLowNone, WritebackHighRegister,
           mode_category
  <2>5. /\ ~PopLow /\ ~PopHigh /\ ~PopsrLow /\ ~PopsrHigh /\ ~SleepClock
        /\ ~InterruptFetchIrqVectorLow /\ ~InterruptFetchIrqVectorHigh
    BY DEF AtStore, In, PopLow, PopHigh, PopsrLow, PopsrHigh, SleepClock,
           InterruptFetchIrqVectorLow, InterruptFetchIrqVectorHigh
  <2> QED BY <2>1, <2>2, <2>3, <2>4, <2>5 DEF cpu_clock
<1>2. CASE WritebackLow
  BY <1>2 DEF WritebackLow, In, StoreAddress, StoreByte
<1>3. CASE WritebackHigh
  BY <1>3 DEF WritebackHigh, In, StoreAddress, StoreByte
<1>4. CASE PushHigh
  BY <1>4 DEF PushHigh, In, StoreAddress, StoreByte
<1>5. CASE PushLow
  BY <1>5 DEF PushLow, In, StoreAddress, StoreByte
<1>6. CASE InterruptPushPcHigh
  BY <1>6 DEF InterruptPushPcHigh, In, StoreAddress, StoreByte
<1>7. CASE InterruptPushPcLow
  BY <1>7 DEF InterruptPushPcLow, In, StoreAddress, StoreByte
<1> QED BY <1>1, <1>2, <1>3, <1>4, <1>5, <1>6, <1>7

\* What stays to be stored while the control waits.
LEMMA StoreWaits ==
  ASSUME WorkKept
  PROVE  /\ AtStore' <=> AtStore
         /\ StoreAddress' = StoreAddress /\ StoreByte' = StoreByte
BY WorkKeptIs DEF AtStore, StoreAddress, StoreByte, Below

\* A clock makes the store the control is at.
LEMMA ClockStores ==
  ASSUME IsaInv, cpu_clock, UNCHANGED ram
  PROVE  StoreMade'
<1> USE Known
<1>1. DevicesTypeOK /\ mailbox \in Mailbox
  BY Own DEF TypeInv, Stores
<1>2. MailQuiet' /\ mailbox'.state # "DS_INTERRUPT" => StoreMade'
  BY DEF MailQuiet, StoreMade
<1>3. MailQuiet' /\ UNCHANGED dev => StoreMade'
  BY DEF MailQuiet, StoreMade, mailbox
<1>4. CASE Elsewhere \/ ExecuteInvalidate
  <2>1. ~AtStore /\ ~AtRead /\ UNCHANGED dev
    BY <1>4 DEF Elsewhere, Proceed, ExecuteInvalidate, Executing, In, AtStore, AtRead, ReadsFrom
  <2>2. MailQuiet
    BY <1>1, <2>1 DEF AccessInv, AtRead, Mailbox, MailQuiet
  <2> QED BY <1>3, <2>1, <2>2 DEF MailQuiet, mailbox
<1>5. CASE Loads
  <2>1. PICK a \in Address :
          ReadsFrom(a) /\ \E c, d : Repeats(c) /\ Opening(d) /\ cpu_read_memory(a, c, d)
    BY <1>5 DEF Loads
  <2>2. PICK c, d : Repeats(c) /\ Opening(d) /\ cpu_read_memory(a, c, d)
    BY <2>1
  <2>3. ~AtStore /\ \A b : ReadsFrom(b) => b = a
    BY <2>1, OneAccess
  <2>4. CASE ReadHit(a, d)
    <3>1. Cached(a) /\ UNCHANGED dev
      BY <2>4 DEF ReadHit, Proceed
    <3>2. MailQuiet
      BY <1>1, <2>3, <3>1 DEF AccessInv, Mailbox, MailQuiet
    <3> QED BY <1>3, <3>1, <3>2 DEF MailQuiet, mailbox
  <2>5. CASE ReadReplied(a, d)
    <3>1. mailbox'.state = "DS_IDLE" /\ mailbox'.processed = 0
      BY <1>1, <2>5, Released DEF ReadReplied
    <3> QED BY <1>2, <3>1 DEF MailQuiet
  <2>6. CASE ReadRequest(a, c)
    <3>1. /\ mailbox' = [mailbox EXCEPT !.state = "DS_FETCH", !.processed = 0, !.address = a]
          /\ cpu' = Stop(c)
      BY <1>1, <2>6, Posted DEF ReadRequest
    <3>2. mailbox'.state = "DS_FETCH"
      BY <1>1, <3>1 DEF Mailbox
    <3>3. ~AtStore'
      BY <2>2, <2>3, <3>1, StillThere
    <3> QED BY <3>2, <3>3 DEF StoreMade
  <2>7. CASE Waiting(c)
    <3>1. cpu' = Stop(c) /\ UNCHANGED dev
      BY <2>7 DEF Waiting, Proceed
    <3>2. ~AtStore'
      BY <2>2, <2>3, <3>1, StillThere
    <3> QED BY <3>1, <3>2 DEF StoreMade, mailbox
  <2> QED BY <2>2, <2>4, <2>5, <2>6, <2>7 DEF cpu_read_memory
<1>6. CASE AtStore /\ cpu.running
  <2>1. PICK d : cpu_write_memory(StoreAddress, StoreByte, Committed, d)
    BY <1>6, StoringClock
  <2>2. CASE WriteReplied(d)
    <3>1. mailbox'.state = "DS_IDLE" /\ mailbox'.processed = 0
      BY <1>1, <2>2, Released DEF WriteReplied
    <3> QED BY <1>2, <3>1 DEF MailQuiet
  <2>3. CASE WriteRequest(StoreAddress, StoreByte, Committed)
    <3>1. /\ mailbox' = [mailbox EXCEPT !.state = "DS_STORE", !.address = StoreAddress,
                                        !.data = ByteLine(StoreByte)]
          /\ mailbox.processed = 0 /\ cpu' = Stop(Committed)
      BY <1>1, <2>3, Posted DEF WriteRequest
    <3>2. mailbox'.state = "DS_STORE" /\ mailbox'.processed = 0
          /\ mailbox'.address = StoreAddress /\ mailbox'.data = ByteLine(StoreByte)
      BY <1>1, <3>1 DEF Mailbox
    <3>3. mailbox'.data[0] = StoreByte
      BY <3>2, WordAssumption DEF ByteLine
    <3>4. StoreAddress' = StoreAddress /\ StoreByte' = StoreByte
      BY <3>1, StoppedWaits, StoreWaits
    <3> QED BY <3>2, <3>3, <3>4 DEF StoreMade
  <2>4. CASE Waiting(Committed)
    <3>1. cpu' = Stop(Committed) /\ UNCHANGED dev
      BY <2>4 DEF Waiting, Proceed
    <3>2. /\ AtStore' <=> AtStore
          /\ StoreAddress' = StoreAddress /\ StoreByte' = StoreByte
      BY <3>1, StoppedWaits, StoreWaits
    <3> QED BY <3>1, <3>2 DEF StoreMade, mailbox
  <2> QED BY <2>1, <2>2, <2>3, <2>4 DEF cpu_write_memory
<1>7. CASE ClockBegin
  <2>1. WorkKept /\ UNCHANGED dev
    BY <1>7 DEF ClockBegin, Proceed, Shape, WorkKept, WorkField, CpuField
  <2> QED BY <2>1, StoreWaits DEF StoreMade, mailbox
<1>8. CASE AcceptInterrupt \/ DropInterrupt
  <2>1. mailbox' = [mailbox EXCEPT !.state = "DS_IDLE"] /\ mailbox.state = "DS_INTERRUPT"
    BY <1>1, <1>8, Posted DEF AcceptInterrupt, DropInterrupt, Interrupted
  <2>2. mailbox'.state = "DS_IDLE" /\ mailbox'.processed = 0
    BY <1>1, <2>1 DEF AccessInv, Mailbox
  <2> QED BY <1>2, <2>2 DEF MailQuiet
<1>9. Saves => AtStore /\ (cpu.running \/ ClockBegin \/ AcceptInterrupt \/ DropInterrupt)
  <2>1. Execute => cpu.running
    BY DEF In, Executing, Execute, ExecuteNop, ExecuteJump, ExecuteCall, ExecuteMove,
           ExecuteMoveByte, ExecutePush, ExecutePop, ExecuteCompare, ExecuteFlag, ExecuteAlu,
           ExecuteInt, ExecuteHalt, ExecuteSleep, ExecuteInvalidate, ExecuteFetchCache, ExecuteInfo
  <2>2. cpu.running \/ ClockBegin \/ AcceptInterrupt \/ DropInterrupt
    BY <2>1 DEF cpu_clock, In, FetchInstruction,
       FetchAddressingModes, FetchArgumentBytes, ComputeAddress, FetchSourceImmediate,
       FetchSourceRegister, FetchSource, FetchSourceHigh, FetchDestinationRegister,
       FetchDestinationNone, FetchDestination, FetchDestinationHigh, WritebackLow,
       WritebackLowRegister, WritebackLowNone, WritebackHigh, WritebackHighRegister,
       PushHigh, PushLow, PopLow, PopHigh, PopsrLow, PopsrHigh, InterruptPushPcHigh,
       InterruptPushPcLow, InterruptFetchIrqVectorLow, InterruptFetchIrqVectorHigh, SleepClock
  <2> QED BY <2>2 DEF Saves
<1> QED BY <1>4, <1>5, <1>6, <1>7, <1>8, <1>9, Seen

-----------------------------------------------------------------------------
(***************************************************************************)
(* From the first effect on: what will be complete stays the same.         *)
(***************************************************************************)
Continues == Completion' = Completion /\ (Destined => Destined')

\* The processor after the first effect.
LEMMA CommittedIs ==
  ASSUME Shape
  PROVE  /\ DOMAIN Committed = CpuField
         /\ Committed.sr \ InternalFlags = cpu.sr \ InternalFlags
         /\ \A x \in CpuField \ {"sr"} : Committed[x] = cpu[x]
<1>1. /\ DOMAIN Committed = CpuField
      /\ \A x \in CpuField \ {"sr"} : Committed[x] = cpu[x]
      /\ Committed.sr = cpu.sr \cup {"MNI"}
  BY DEF Committed, Shape, CpuField
<1> QED BY <1>1 DEF InternalFlags

\* The clock ends, waiting for the memory.
LEMMA ContinuesWaiting ==
  ASSUME IsaInv, UNCHANGED ram, cpu' = Stop(Committed)
  PROVE  Continues
BY Known, StoppedWaits, Stays DEF Continues

\* A store that is done has been performed.
LEMMA Written ==
  ASSUME IsaInv, AtStore, NEW d, cpu_write_memory(StoreAddress, StoreByte, Committed, d)
  PROVE  cpu' = Stop(Committed) \/ (cpu' = d /\ Ahead = ram)
<1>1. ASSUME WriteReplied(d)
      PROVE  cpu' = d /\ Ahead = ram
  <2>1. cpu' = d /\ mailbox.processed = 1
    BY <1>1 DEF WriteReplied
  <2>2. ram[StoreAddress] = StoreByte
    BY <2>1, Known DEF StoreMade
  <2> QED BY <2>1, <2>2, Known, StoreTyped DEF Ahead
<1> QED BY <1>1 DEF cpu_write_memory, WriteRequest, Waiting, Proceed

\* The widths of what an instruction works with.
LEMMA Fields ==
  ASSUME IsaInv
  PROVE  /\ cpu.r \in [{"R0", "R1", "R2", "R3"} -> AWord] /\ cpu.pc \in AWord /\ cpu.sp \in AWord
         /\ cpu.mode.admr \in ADMR /\ cpu.result \in AWord /\ cpu.irq_id \in AWord
         /\ cpu.address_reduced \in AWord /\ cpu.data_extended \in AWord
         /\ cpu.data_reduced \in AWord /\ cpu.address_extended \in AWord
         /\ cpu.extension_index \in Nat
BY Known DEF CpuRecord

\* The write-back begins in a memory that holds its first byte already, or not.
LEMMA WritesAhead ==
  ASSUME IsaInv, cpu.state = "WRITEBACK_LOW", Destined, NEW sp
  PROVE  WrittenBack(Ahead, sp, cpu.result) = WrittenBack(ram, sp, cpu.result)
<1>1. cpu.mode.admr.kind = "REG" => ~AtStore
  BY DEF AtStore, mode_category
<1>2. CASE cpu.mode.admr.kind = "REG"
  BY <1>1, <1>2 DEF WrittenBack, Ahead
<1>3. CASE cpu.mode.admr.kind # "REG"
  <2>1. AtStore
    BY <1>3, Fields DEF AtStore, Destined, mode_category, ADMR
  <2>2. Ahead = [ram EXCEPT ![cpu.address_reduced] = Low(cpu.result)]
    BY <2>1 DEF Ahead, StoreAddress, StoreByte
  <2>3. PutIn(Ahead, cpu.address_reduced, cpu.result) =
          PutIn(ram, cpu.address_reduced, cpu.result)
    BY <2>2, Known DEF PutIn
  <2> QED BY <1>3, <2>3 DEF WrittenBack
<1> QED BY <1>2, <1>3

\* A byte of the result goes to memory.
LEMMA ContinuesWriteback ==
  ASSUME IsaInv, UNCHANGED ram,
         WritebackLow \/ WritebackLowNone \/ WritebackHigh
  PROVE  Continues
<1> USE Known, Fields, CommittedIs
<1>1. CASE WritebackLow
  <2> DEFINE d == Goto(Committed, "WRITEBACK_HIGH")
  <2>1. /\ cpu.state = "WRITEBACK_LOW" /\ AtStore
        /\ mode_category(cpu.mode.admr) = "ADMC_IND" /\ cpu.mode.admr.kind # "REG"
        /\ StoreAddress = cpu.address_reduced /\ StoreByte = Low(cpu.result)
        /\ cpu_write_memory(StoreAddress, StoreByte, Committed, d)
    BY <1>1 DEF WritebackLow, In, AtStore, StoreAddress, StoreByte, mode_category
  <2> HIDE DEF d
  <2>2. CASE cpu' = d /\ Ahead = ram
    <3>1. /\ cpu'.state = "WRITEBACK_HIGH" /\ cpu'.mode = cpu.mode /\ cpu'.result = cpu.result
          /\ cpu'.r = cpu.r /\ cpu'.pc = cpu.pc /\ cpu'.sp = cpu.sp /\ cpu'.irq_id = cpu.irq_id
          /\ cpu'.address_reduced = cpu.address_reduced
          /\ cpu'.sr \ InternalFlags = cpu.sr \ InternalFlags
      BY <2>2 DEF d, Goto, CpuField
    <3>2. Ahead' = [ram EXCEPT ![Wrap(cpu.address_reduced + 1)] = High(cpu.result)]
      BY <2>1, <3>1 DEF Ahead, AtStore, StoreAddress, StoreByte
    <3>3. PutIn(ram, cpu.address_reduced, cpu.result) = Ahead'
      <4>1. [ram EXCEPT ![cpu.address_reduced] = Low(cpu.result)] = ram
        BY <2>1, <2>2 DEF Ahead
      <4> QED BY <3>2, <4>1 DEF PutIn
    <3>4. Completion = State(Ahead', cpu.r, cpu.pc, cpu.sp, Visibly, cpu.irq_id)
      BY <2>1, <2>2, <3>3 DEF Completion, WrittenBack
    <3>5. Completion' = State(Ahead', cpu.r, cpu.pc, cpu.sp, Visibly, cpu.irq_id)
      BY <2>1, <3>1 DEF Completion, At, Visibly
    <3> QED BY <2>1, <3>1, <3>4, <3>5 DEF Continues, Destined
  <2> QED BY <2>1, <2>2, Written, ContinuesWaiting
<1>2. CASE WritebackLowNone
  BY <1>2, ContinuesWaiting DEF WritebackLowNone, Proceed
<1>3. CASE WritebackHigh
  <2> DEFINE d == Finish(Committed)
  <2>1. /\ cpu.state = "WRITEBACK_HIGH" /\ AtStore /\ cpu.mode.admr.kind # "REG"
        /\ cpu_write_memory(StoreAddress, StoreByte, Committed, d)
    BY <1>3 DEF WritebackHigh, In, AtStore, StoreAddress, StoreByte, mode_category
  <2> HIDE DEF d
  <2>2. CASE cpu' = d /\ Ahead = ram
    <3>1. /\ cpu'.state = "FETCH_INSTRUCTION"
          /\ cpu'.r = cpu.r /\ cpu'.pc = cpu.pc /\ cpu'.sp = cpu.sp /\ cpu'.irq_id = cpu.irq_id
          /\ cpu'.sr \ InternalFlags = cpu.sr \ InternalFlags
      BY <2>2 DEF d, Finish, Counted, Goto, CpuField
    <3> QED BY <2>1, <2>2, <3>1 DEF Continues, Completion, At, Visibly, Destined
  <2> QED BY <2>1, <2>2, Written, ContinuesWaiting
<1> QED BY <1>1, <1>2, <1>3

\* A byte of the result goes to a register.
LEMMA ContinuesRegister ==
  ASSUME IsaInv, UNCHANGED ram, WritebackLowRegister \/ WritebackHighRegister
  PROVE  Continues
<1> USE Known, Fields, CommittedIs
<1> DEFINE x == cpu.mode.admr.reg
<1>1. /\ cpu.mode.admr.kind = "REG" /\ mode_category(cpu.mode.admr) = "ADMC_REG"
      /\ cpu.state \in {"WRITEBACK_LOW", "WRITEBACK_HIGH"}
  BY DEF WritebackLowRegister, WritebackHighRegister, In, mode_category
<1>2. x \in {"R0", "R1", "R2", "R3", "SP"}
  BY <1>1 DEF ADMR, Register
<1>3. ~AtStore /\ Ahead = ram
  BY <1>1 DEF AtStore, Ahead
<1> HIDE DEF x
<1>4. ASSUME NEW w, NEW s, cpu' = Goto(Counted(Assign(Committed, x, w)), s)
      PROVE  /\ cpu'.state = s /\ cpu'.mode = cpu.mode /\ cpu'.result = cpu.result
             /\ cpu'.pc = cpu.pc /\ cpu'.irq_id = cpu.irq_id
             /\ cpu'.sr \ InternalFlags = cpu.sr \ InternalFlags
             /\ cpu'.r = IF x = "SP" THEN cpu.r ELSE [cpu.r EXCEPT ![x] = w]
             /\ cpu'.sp = IF x = "SP" THEN w ELSE cpu.sp
             /\ Value(cpu', x) = w
  <2>1. CASE x = "SP"
    BY <1>4, <2>1 DEF Assign, Counted, Goto, Value, CpuField
  <2>2. CASE x # "SP"
    BY <1>2, <1>4, <2>2 DEF Assign, Counted, Goto, Value, CpuField
  <2> QED BY <2>1, <2>2
<1>5. Value(cpu, x) \in AWord
  BY <1>2 DEF Value
<1>6. CASE WritebackLowRegister
  <2> DEFINE w == WordOf(Low(Value(cpu, x)), High(cpu.result))
  <2>1. /\ cpu.state = "WRITEBACK_LOW"
        /\ cpu' = Goto(Counted(Assign(Committed, x, w)), "WRITEBACK_HIGH")
    BY <1>6 DEF WritebackLowRegister, In, Proceed, x
  <2>2. WordOf(Low(cpu.result), High(w)) = cpu.result
    <3>1. Low(Value(cpu, x)) \in BYTE /\ High(cpu.result) \in BYTE
      BY <1>5, Bytes
    <3>2. High(w) = High(cpu.result)
      BY <3>1, Joined
    <3> QED BY <3>2, Halved
  <2> HIDE DEF w
  <2>3. /\ cpu'.state = "WRITEBACK_HIGH" /\ cpu'.mode = cpu.mode /\ cpu'.result = cpu.result
        /\ cpu'.pc = cpu.pc /\ cpu'.irq_id = cpu.irq_id
        /\ cpu'.sr \ InternalFlags = cpu.sr \ InternalFlags
        /\ cpu'.r = IF x = "SP" THEN cpu.r ELSE [cpu.r EXCEPT ![x] = w]
        /\ cpu'.sp = IF x = "SP" THEN w ELSE cpu.sp
        /\ Value(cpu', x) = w
    BY <1>4, <2>1
  <2>4. ~AtStore' /\ Ahead' = ram
    BY <1>1, <2>3 DEF AtStore, Ahead
  <2>5. cpu'.mode.admr.reg = x /\ cpu.mode.admr.reg = x
    BY <2>3 DEF x
  <2>6. Completion' = WrittenBack(ram, cpu.sp, cpu.result)
    <3>1. Completion' = (WrittenBack(Ahead, cpu.sp,
                WordOf(Low(cpu.result), High(Value(cpu, cpu.mode.admr.reg)))))'
      BY <1>1, <2>3 DEF Completion
    <3>2. WordOf(Low(cpu'.result), High(Value(cpu', cpu'.mode.admr.reg))) = cpu.result
      BY <2>2, <2>3, <2>5
    <3>3. CASE x = "SP"
      BY <1>1, <2>3, <2>4, <2>5, <3>1, <3>2, <3>3 DEF WrittenBack, Visibly, State
    <3>4. CASE x # "SP"
      <4>1. [cpu'.r EXCEPT ![x] = cpu.result] = [cpu.r EXCEPT ![x] = cpu.result]
        BY <2>3, <3>4
      <4> QED BY <1>1, <2>3, <2>4, <2>5, <3>1, <3>2, <3>4, <4>1 DEF WrittenBack, Visibly, State
    <3> QED BY <3>3, <3>4
  <2>7. Completion = WrittenBack(ram, cpu.sp, cpu.result)
    BY <1>3, <2>1 DEF Completion
  <2> QED BY <2>1, <2>3, <2>6, <2>7 DEF Continues, Destined
<1>7. CASE WritebackHighRegister
  <2> DEFINE w == WordOf(Low(cpu.result), High(Value(cpu, x)))
  <2>1. /\ cpu.state = "WRITEBACK_HIGH"
        /\ cpu' = Goto(Counted(Assign(Committed, x, w)), "FETCH_INSTRUCTION")
    BY <1>7 DEF WritebackHighRegister, In, Proceed, Finish, x
  <2>2. Completion = WrittenBack(ram, cpu.sp, w)
    BY <1>1, <1>3, <2>1 DEF Completion, x
  <2> HIDE DEF w
  <2>3. /\ cpu'.state = "FETCH_INSTRUCTION"
        /\ cpu'.pc = cpu.pc /\ cpu'.irq_id = cpu.irq_id
        /\ cpu'.sr \ InternalFlags = cpu.sr \ InternalFlags
        /\ cpu'.r = IF x = "SP" THEN cpu.r ELSE [cpu.r EXCEPT ![x] = w]
        /\ cpu'.sp = IF x = "SP" THEN w ELSE cpu.sp
    BY <1>4, <2>1
  <2>4. Completion' = At(ram, cpu.pc, cpu.sp)'
    BY <2>3 DEF Completion
  <2>5. At(ram, cpu.pc, cpu.sp)' = WrittenBack(ram, cpu.sp, w)
    BY <1>1, <2>3 DEF At, WrittenBack, Visibly, State, x
  <2> QED BY <2>2, <2>3, <2>4, <2>5 DEF Continues, Destined
<1> QED BY <1>6, <1>7

\* The stack pointer steps twice.
LEMMA Stacked ==
  ASSUME IsaInv
  PROVE  /\ Wrap(Wrap(cpu.sp - 1) - 1) = Wrap(cpu.sp - 2)
         /\ Wrap(Wrap(cpu.sp + 1) + 1) = Wrap(cpu.sp + 2)
         /\ cpu.sp \in Address
BY Fields, Neighbours, Sizes

\* The processor after a push or a pop of a byte.
LEMMA PushedIs ==
  ASSUME IsaInv
  PROVE  /\ DOMAIN Pushed = CpuField /\ Pushed.sr \ InternalFlags = cpu.sr \ InternalFlags
         /\ Pushed.sp = Wrap(cpu.sp - 1)
         /\ \A x \in CpuField \ {"sr", "sp"} : Pushed[x] = cpu[x]
         /\ DOMAIN Popped = CpuField /\ Popped.sr \ InternalFlags = cpu.sr \ InternalFlags
         /\ Popped.sp = Wrap(cpu.sp + 1)
         /\ \A x \in CpuField \ {"sr", "sp"} : Popped[x] = cpu[x]
BY Known, CommittedIs DEF Pushed, Popped, Below, CpuField

\* A byte goes onto the stack.
LEMMA ContinuesPush ==
  ASSUME IsaInv, UNCHANGED ram,
         PushHigh \/ PushLow \/ InterruptPushPcHigh \/ InterruptPushPcLow
  PROVE  Continues
<1> USE Known, Fields, PushedIs, Stacked
<1>1. ASSUME NEW s, cpu' = Goto(Pushed, s)
      PROVE  /\ cpu'.state = s /\ cpu'.mode = cpu.mode /\ cpu'.result = cpu.result
             /\ cpu'.r = cpu.r /\ cpu'.pc = cpu.pc /\ cpu'.irq_id = cpu.irq_id
             /\ cpu'.sp = Wrap(cpu.sp - 1)
             /\ cpu'.sr \ InternalFlags = cpu.sr \ InternalFlags
  BY <1>1 DEF Goto, CpuField
<1>2. CASE PushHigh
  <2> DEFINE d == Goto(Pushed, "PUSH_LOW")
  <2>1. /\ cpu.state = "PUSH_HIGH" /\ AtStore
        /\ cpu_write_memory(StoreAddress, StoreByte, Committed, d)
    BY <1>2 DEF PushHigh, In, AtStore, StoreAddress, StoreByte
  <2> HIDE DEF d
  <2>2. CASE cpu' = d /\ Ahead = ram
    <3>1. /\ cpu'.state = "PUSH_LOW" /\ cpu'.mode = cpu.mode
          /\ cpu'.result = cpu.result /\ cpu'.r = cpu.r /\ cpu'.pc = cpu.pc
          /\ cpu'.irq_id = cpu.irq_id /\ cpu'.sp = Wrap(cpu.sp - 1)
          /\ cpu'.sr \ InternalFlags = cpu.sr \ InternalFlags
      BY <1>1, <2>2 DEF d
    <3>2. Ahead' = [ram EXCEPT ![Wrap(cpu.sp - 2)] = Low(cpu.result)]
      <4>1. AtStore' /\ StoreByte' = Low(cpu.result)
        BY <3>1 DEF AtStore, StoreByte
      <4>2. StoreAddress' = Wrap(cpu.sp - 2)
        BY <3>1 DEF StoreAddress, Below
      <4> QED BY <4>1, <4>2 DEF Ahead
    <3>3. Below' = Wrap(cpu.sp - 2)
      BY <3>1 DEF Below
    <3>4. Completion = State(Ahead', cpu.r, cpu.pc, Wrap(cpu.sp - 2), Visibly, cpu.irq_id)
      BY <2>1, <2>2, <3>2 DEF Completion, At
    <3>5. Completion' = State(Ahead', cpu.r, cpu.pc, Wrap(cpu.sp - 2), Visibly, cpu.irq_id)
      BY <3>1, <3>3 DEF Completion, At, Visibly
    <3> QED BY <2>1, <3>1, <3>4, <3>5 DEF Continues, Destined
  <2> QED BY <2>1, <2>2, Written, ContinuesWaiting
<1>3. CASE PushLow
  <2> DEFINE d == Finish(Pushed)
  <2>1. /\ cpu.state = "PUSH_LOW" /\ AtStore
        /\ cpu_write_memory(StoreAddress, StoreByte, Committed, d)
    BY <1>3 DEF PushLow, In, AtStore, StoreAddress, StoreByte
  <2> HIDE DEF d
  <2>2. CASE cpu' = d /\ Ahead = ram
    <3>1. /\ cpu'.state = "FETCH_INSTRUCTION"
          /\ cpu'.r = cpu.r /\ cpu'.pc = cpu.pc /\ cpu'.irq_id = cpu.irq_id
          /\ cpu'.sp = Wrap(cpu.sp - 1)
          /\ cpu'.sr \ InternalFlags = cpu.sr \ InternalFlags
      BY <2>2 DEF d, Finish, Counted, Goto, CpuField
    <3> QED BY <2>1, <2>2, <3>1
            DEF Continues, Completion, At, Visibly, Below, State, Destined
  <2> QED BY <2>1, <2>2, Written, ContinuesWaiting
<1>4. CASE InterruptPushPcHigh
  <2> DEFINE d == Goto(Pushed, "INTERRUPT_PUSH_PC_LOW")
  <2>1. /\ cpu.state = "INTERRUPT_PUSH_PC_HIGH" /\ AtStore
        /\ cpu_write_memory(StoreAddress, StoreByte, Committed, d)
    BY <1>4 DEF InterruptPushPcHigh, In, AtStore, StoreAddress, StoreByte
  <2> HIDE DEF d
  <2>2. CASE cpu' = d /\ Ahead = ram
    <3>1. /\ cpu'.state = "INTERRUPT_PUSH_PC_LOW" /\ cpu'.mode = cpu.mode
          /\ cpu'.result = cpu.result /\ cpu'.r = cpu.r /\ cpu'.pc = cpu.pc
          /\ cpu'.irq_id = cpu.irq_id /\ cpu'.sp = Wrap(cpu.sp - 1)
          /\ cpu'.sr \ InternalFlags = cpu.sr \ InternalFlags
      BY <1>1, <2>2 DEF d
    <3>2. Ahead' = [ram EXCEPT ![Wrap(cpu.sp - 2)] = Low(cpu.pc)]
      <4>1. AtStore' /\ StoreByte' = Low(cpu.pc)
        BY <3>1 DEF AtStore, StoreByte
      <4>2. StoreAddress' = Wrap(cpu.sp - 2)
        BY <3>1 DEF StoreAddress, Below
      <4> QED BY <4>1, <4>2 DEF Ahead
    <3>3. Below' = Wrap(cpu.sp - 2)
      BY <3>1 DEF Below
    <3>4. Completion = State(Ahead', cpu.r, WordIn(Ahead', Vector(cpu.irq_id)),
                             Wrap(cpu.sp - 2), Visibly, cpu.irq_id)
      BY <2>1, <2>2, <3>2 DEF Completion, At
    <3>5. Completion' = State(Ahead', cpu.r, WordIn(Ahead', Vector(cpu.irq_id)),
                              Wrap(cpu.sp - 2), Visibly, cpu.irq_id)
      BY <3>1, <3>3 DEF Completion, At, Visibly, WordIn
    <3> QED BY <2>1, <3>1, <3>4, <3>5 DEF Continues, Destined
  <2> QED BY <2>1, <2>2, Written, ContinuesWaiting
<1>5. CASE InterruptPushPcLow
  <2> DEFINE d == Goto(Pushed, "INTERRUPT_FETCH_IRQ_VECTOR_LOW")
  <2>1. /\ cpu.state = "INTERRUPT_PUSH_PC_LOW" /\ AtStore
        /\ cpu_write_memory(StoreAddress, StoreByte, Committed, d)
    BY <1>5 DEF InterruptPushPcLow, In, AtStore, StoreAddress, StoreByte
  <2> HIDE DEF d
  <2>2. CASE cpu' = d /\ Ahead = ram
    <3>1. /\ cpu'.state = "INTERRUPT_FETCH_IRQ_VECTOR_LOW" /\ cpu'.mode = cpu.mode
          /\ cpu'.result = cpu.result /\ cpu'.r = cpu.r /\ cpu'.pc = cpu.pc
          /\ cpu'.irq_id = cpu.irq_id /\ cpu'.sp = Wrap(cpu.sp - 1)
          /\ cpu'.sr \ InternalFlags = cpu.sr \ InternalFlags
      BY <1>1, <2>2 DEF d
    <3>2. Completion = State(ram, cpu.r, WordIn(ram, Vector(cpu.irq_id)),
                             Wrap(cpu.sp - 1), Visibly, cpu.irq_id)
      BY <2>1, <2>2 DEF Completion, At, Below
    <3>3. Completion' = State(ram, cpu.r, WordIn(ram, Vector(cpu.irq_id)),
                              Wrap(cpu.sp - 1), Visibly, cpu.irq_id)
      BY <3>1 DEF Completion, At, Visibly, WordIn
    <3> QED BY <2>1, <3>1, <3>2, <3>3 DEF Continues, Destined
  <2> QED BY <2>1, <2>2, Written, ContinuesWaiting
<1> QED BY <1>2, <1>3, <1>4, <1>5

\* A byte comes from the table of vectors.
LEMMA ContinuesVector ==
  ASSUME IsaInv, InRam, UNCHANGED ram,
         InterruptFetchIrqVectorLow \/ InterruptFetchIrqVectorHigh
  PROVE  Continues
<1> USE Known, Fields, CommittedIs
<1>1. Vector(cpu.irq_id) \in Address /\ Wrap(Vector(cpu.irq_id) + 1) \in Address
  BY VectorAddress, Stepping, Sizes
<1>2. CASE InterruptFetchIrqVectorLow
  <2> DEFINE a == Vector(cpu.irq_id)
             d == [Committed EXCEPT !.data_extended = ReadByte(a),
                                    !.state = "INTERRUPT_FETCH_IRQ_VECTOR_HIGH"]
  <2>1. /\ cpu.state = "INTERRUPT_FETCH_IRQ_VECTOR_LOW"
        /\ cpu_read_memory(a, Committed, d) /\ ReadsFrom(a)
    BY <1>2 DEF InterruptFetchIrqVectorLow, In, ReadsFrom
  <2> HIDE DEF d, a
  <2>2. cpu' = Stop(Committed) \/ (cpu' = d /\ ReadByte(a) = ram[a])
    <3>1. a \in Address /\ Reads("RAM", a)
      BY <1>1, <2>1 DEF a, InRam
    <3> QED BY <2>1, <3>1, Received
  <2>3. CASE cpu' = d /\ ReadByte(a) = ram[a]
    <3>1. /\ cpu'.state = "INTERRUPT_FETCH_IRQ_VECTOR_HIGH" /\ cpu'.data_extended = ram[a]
          /\ cpu'.r = cpu.r /\ cpu'.pc = cpu.pc /\ cpu'.sp = cpu.sp /\ cpu'.irq_id = cpu.irq_id
          /\ cpu'.sr \ InternalFlags = cpu.sr \ InternalFlags
      BY <2>3 DEF d, CpuField
    <3> QED BY <2>1, <3>1
            DEF Continues, Completion, At, Visibly, WordIn, State, Destined, a
  <2> QED BY <2>2, <2>3, ContinuesWaiting
<1>3. CASE InterruptFetchIrqVectorHigh
  <2> DEFINE a == Wrap(Vector(cpu.irq_id) + 1)
             w == WordOf(cpu.data_extended, ReadByte(a))
             d == [Committed EXCEPT !.data_extended = w, !.pc = w,
                                    !.state = "FETCH_INSTRUCTION"]
  <2>1. /\ cpu.state = "INTERRUPT_FETCH_IRQ_VECTOR_HIGH"
        /\ cpu_read_memory(a, Committed, d) /\ ReadsFrom(a)
    BY <1>3 DEF InterruptFetchIrqVectorHigh, In, ReadsFrom
  <2> HIDE DEF d, a
  <2>2. cpu' = Stop(Committed) \/ (cpu' = d /\ ReadByte(a) = ram[a])
    <3>1. a \in Address /\ Reads("RAM", a)
      BY <1>1, <2>1 DEF a, InRam
    <3> QED BY <2>1, <3>1, Received
  <2>3. CASE cpu' = d /\ ReadByte(a) = ram[a]
    <3>1. /\ cpu'.state = "FETCH_INSTRUCTION" /\ cpu'.pc = WordOf(cpu.data_extended, ram[a])
          /\ cpu'.r = cpu.r /\ cpu'.sp = cpu.sp /\ cpu'.irq_id = cpu.irq_id
          /\ cpu'.sr \ InternalFlags = cpu.sr \ InternalFlags
      BY <2>3 DEF d, CpuField
    <3> QED BY <2>1, <3>1 DEF Continues, Completion, At, Visibly, State, Destined, a
  <2> QED BY <2>2, <2>3, ContinuesWaiting
<1> QED BY <1>2, <1>3

-----------------------------------------------------------------------------
(***************************************************************************)
(* The status register is popped in two bytes.                             *)
(***************************************************************************)
\* A byte is half a word.
LEMMA HalfWidth ==
  \E h \in Nat \ {0} : WIDTH = h + h /\ BYTE_RANGE = 2 ^ h
<1>1. PICK h \in Nat \ {0} : WIDTH = h + h
  <2>1. WIDTH \div 2 \in Nat \ {0} /\ WIDTH = (WIDTH \div 2) + (WIDTH \div 2)
    BY WidthAssumption
  <2> QED BY <2>1
<1>2. 2 ^ h \in Nat \ {0} /\ 2 ^ h * 2 ^ h = BYTE_RANGE * BYTE_RANGE
  <2>1. h + h <= 2 * WIDTH /\ h \in 0 .. 2 * WIDTH
    BY <1>1
  <2>2. 2 ^ (h + h) = 2 ^ h * 2 ^ h
    BY <2>1, PowersAdd
  <2> QED BY <1>1, <2>1, <2>2, Powers, Sizes DEF WORDS
<1>3. \A x, y \in Nat \ {0} : x * x = y * y => x = y
  <2>1. \A x, y \in Nat \ {0} : x < y => x * x < y * y
    <3> SUFFICES ASSUME NEW x \in Nat \ {0}, NEW y \in Nat \ {0}, x < y
                 PROVE  x * x < y * y
      OBVIOUS
    <3>1. PICK z \in Nat \ {0} : y = x + z
      <4>1. y - x \in Nat \ {0} /\ y = x + (y - x)
        OBVIOUS
      <4> QED BY <4>1
    <3>2. y * y = x * x + x * z + z * x + z * z
      BY <3>1
    <3>3. x * z \in Nat /\ z * x \in Nat /\ z * z \in Nat /\ z * z > 0
      OBVIOUS
    <3> QED BY <3>2, <3>3
  <2> QED BY <2>1
<1>4. BYTE_RANGE = 2 ^ h
  BY <1>2, <1>3, Sizes
<1> QED BY <1>1, <1>4

\* The bits of a word are those of its bytes.
LEMMA BitsSplit ==
  ASSUME NEW lo \in BYTE, NEW hi \in BYTE, NEW k \in 0 .. WIDTH - 1
  PROVE  Bit(WordOf(lo, hi), k) = 1 <=> Bit(lo, k) = 1 \/ Bit(WordOf(0, hi), k) = 1
<1>1. PICK h \in Nat \ {0} : WIDTH = h + h /\ BYTE_RANGE = 2 ^ h
  BY HalfWidth
<1>2. PICK B \in Nat \ {0} : B = BYTE_RANGE
  BY Sizes
<1>3. lo \in 0 .. B - 1 /\ hi \in 0 .. B - 1
  BY <1>2 DEF BYTE
<1>4. PICK p \in Nat \ {0} : p = 2 ^ k
  BY Powers, WordFacts
<1>5. /\ Bit(WordOf(lo, hi), k) = ((lo + B * hi) \div p) % 2
      /\ Bit(lo, k) = (lo \div p) % 2
      /\ Bit(WordOf(0, hi), k) = ((B * hi) \div p) % 2
  <2>1. 0 + B * hi = B * hi
    BY <1>3
  <2> QED BY <1>2, <1>4, <2>1 DEF Bit, WordOf
<1>6. CASE k < h
  <2>1. PICK c \in Nat : B = p * (2 * c)
    <3>1. PICK g \in 0 .. 2 * WIDTH - 1 : h = k + (g + 1)
      <4>1. h - k - 1 \in 0 .. 2 * WIDTH - 1 /\ h = k + ((h - k - 1) + 1)
        BY <1>1, <1>6
      <4> QED BY <4>1
    <3>2. 2 ^ h = 2 ^ k * 2 ^ (g + 1)
      <4>1. k \in Nat /\ g + 1 \in Nat /\ k + (g + 1) <= 2 * WIDTH
        BY <1>1, <3>1, WordFacts
      <4> QED BY <3>1, <4>1, PowersAdd
    <3>3. 2 ^ (g + 1) = 2 * 2 ^ g /\ 2 ^ g \in Nat
      BY PowerAssumption, Powers, WordFacts
    <3> QED BY <1>1, <1>2, <1>4, <3>2, <3>3
  <2>2. PICK q \in Int, r \in 0 .. p - 1 : lo = q * p + r
    <3>1. lo = (lo \div p) * p + (lo % p) /\ lo \div p \in Int /\ lo % p \in 0 .. p - 1
      BY <1>3
    <3> QED BY <3>1
  <2>3. PICK e \in Int : e = c * hi
    BY <1>3
  <2>4. PICK f \in Int, x \in Int : f = 2 * e /\ x = B * hi
    BY <1>3
  <2>5. x = f * p + 0 /\ lo + x = (q + f) * p + r
    <3>1. p * (2 * c) * hi = (2 * (c * hi)) * p
      BY <1>3
    <3>2. x = f * p
      BY <2>1, <2>3, <2>4, <3>1
    <3>3. (q + f) * p = q * p + f * p /\ f * p \in Int
      OBVIOUS
    <3> QED BY <2>2, <3>2, <3>3
  <2>6. 0 \in 0 .. p - 1 /\ q + f \in Int /\ lo \in Int /\ lo + x \in Int
    BY <1>3
  <2>7. lo \div p = q
    BY <2>2, <2>6, Division
  <2>8. x \div p = f
    BY <2>5, <2>6, Division
  <2>9. (lo + x) \div p = q + f
    BY <2>5, <2>6, Division
  <2>10. f % 2 = 0 /\ (q + f) % 2 = q % 2
    BY <2>4
  <2> QED BY <1>5, <2>4, <2>7, <2>8, <2>9, <2>10
<1>7. CASE ~(k < h)
  <2>1. PICK c \in Nat \ {0} : p = B * c
    <3>1. k - h \in Nat /\ h + (k - h) = k /\ k <= 2 * WIDTH /\ k - h \in 0 .. 2 * WIDTH
      BY <1>1, <1>7
    <3>2. 2 ^ k = 2 ^ h * 2 ^ (k - h)
      BY <3>1, PowersAdd
    <3> QED BY <1>1, <1>2, <1>4, <3>1, <3>2, Powers
  <2>2. PICK q \in Int, r \in 0 .. c - 1 : hi = q * c + r
    <3>1. hi = (hi \div c) * c + (hi % c) /\ hi \div c \in Int /\ hi % c \in 0 .. c - 1
      BY <1>3
    <3> QED BY <3>1
  <2>3. B * hi = q * p + B * r
    <3>1. B * (q * c + r) = q * (B * c) + B * r
      OBVIOUS
    <3> QED BY <2>1, <2>2, <3>1
  <2>4. B * r \in Nat /\ B * r + B <= p
    <3>1. B * r + B <= B * c
      <4>1. PICK s \in Nat : c = (r + 1) + s
        <5>1. c - (r + 1) \in Nat /\ c = (r + 1) + (c - (r + 1))
          OBVIOUS
        <5> QED BY <5>1
      <4>2. B * ((r + 1) + s) = B * r + B + B * s /\ B * s \in Nat
        OBVIOUS
      <4> QED BY <4>1, <4>2
    <3> QED BY <2>1, <3>1
  <2>5. /\ lo = 0 * p + lo /\ lo \in 0 .. p - 1 /\ B * r \in 0 .. p - 1
        /\ B * r + lo \in 0 .. p - 1 /\ lo + B * hi = q * p + (B * r + lo)
        /\ lo \in Int /\ B * hi \in Int /\ lo + B * hi \in Int
    BY <1>3, <2>3, <2>4
  <2>6. lo \div p = 0
    BY <2>5, Division
  <2>7. (B * hi) \div p = q
    BY <2>3, <2>5, Division
  <2>8. (lo + B * hi) \div p = q
    BY <2>5, Division
  <2> QED BY <1>5, <2>6, <2>7, <2>8
<1> QED BY <1>6, <1>7

\* So are the flags.
LEMMA SrSplit ==
  ASSUME NEW lo \in BYTE, NEW hi \in BYTE
  PROVE  SrFlags(WordOf(lo, hi)) = SrFlags(lo) \cup SrFlags(WordOf(0, hi))
<1>1. \A j \in 1 .. WIDTH :
        Bit(WordOf(lo, hi), j - 1) = 1 <=>
          Bit(lo, j - 1) = 1 \/ Bit(WordOf(0, hi), j - 1) = 1
  <2> SUFFICES ASSUME NEW j \in 1 .. WIDTH
               PROVE  Bit(WordOf(lo, hi), j - 1) = 1 <=>
                        Bit(lo, j - 1) = 1 \/ Bit(WordOf(0, hi), j - 1) = 1
    OBVIOUS
  <2>1. j - 1 \in 0 .. WIDTH - 1
    BY WordFacts
  <2> QED BY <2>1, BitsSplit
<1> QED BY <1>1 DEF SrFlags

\* The write-back is about to begin.
LEMMA EntersWriteback ==
  ASSUME IsaInv, UNCHANGED ram, cpu'.state = "WRITEBACK_LOW", cpu'.mode = cpu.mode, Destined'
  PROVE  Completion' = (WrittenBack(ram, cpu.sp, cpu.result))'
<1> USE Known, Fields
<1>1. Completion' = (WrittenBack(Ahead, cpu.sp, cpu.result))'
  BY DEF Completion
<1>2. CASE cpu.mode.admr.kind = "REG"
  <2>1. ~AtStore'
    BY <1>2 DEF AtStore, mode_category
  <2> QED BY <1>1, <1>2, <2>1 DEF WrittenBack, Ahead
<1>3. CASE cpu.mode.admr.kind # "REG"
  <2>1. AtStore'
    BY <1>3 DEF AtStore, Destined, mode_category, ADMR
  <2>2. Ahead' = [ram EXCEPT ![cpu'.address_reduced] = Low(cpu'.result)]
    BY <2>1 DEF Ahead, StoreAddress, StoreByte
  <2>3. PutIn(Ahead', cpu'.address_reduced, cpu'.result) =
          PutIn(ram, cpu'.address_reduced, cpu'.result)
    BY <2>2 DEF PutIn
  <2> QED BY <1>1, <1>3, <2>3 DEF WrittenBack
<1> QED BY <1>2, <1>3

\* The low byte comes from the stack.
LEMMA ContinuesPopLow ==
  ASSUME IsaInv, InRam, UNCHANGED ram, PopLow
  PROVE  Destined => Continues
<1> USE Known, Fields, PushedIs, Stacked
<1>1. cpu.state = "POP_LOW" /\ ReadsFrom(cpu.sp)
  BY DEF PopLow, In, ReadsFrom
<1>2. Reads("RAM", cpu.sp)
  BY <1>1 DEF InRam
<1> DEFINE b == ReadByte(cpu.sp)
           d == [Popped EXCEPT !.result = b,
                               !.state = IF cpu.instruction = "POPB" THEN "WRITEBACK_LOW"
                                         ELSE "POP_HIGH"]
<1>3. cpu_read_memory(cpu.sp, Committed, d)
  BY DEF PopLow
<1> HIDE DEF d
<1>4. cpu' = Stop(Committed) \/ (cpu' = d /\ b = ram[cpu.sp])
  BY <1>1, <1>2, <1>3, Received
<1>5. CASE cpu' = d /\ b = ram[cpu.sp]
  <2>1. /\ cpu'.state = IF cpu.instruction = "POPB" THEN "WRITEBACK_LOW" ELSE "POP_HIGH"
        /\ cpu'.result = ram[cpu.sp] /\ cpu'.sp = Wrap(cpu.sp + 1)
        /\ cpu'.instruction = cpu.instruction /\ cpu'.mode = cpu.mode
        /\ cpu'.address_reduced = cpu.address_reduced
        /\ cpu'.r = cpu.r /\ cpu'.pc = cpu.pc /\ cpu'.irq_id = cpu.irq_id
        /\ cpu'.sr \ InternalFlags = cpu.sr \ InternalFlags
    BY <1>5 DEF d, CpuField
  <2>2. Destined => Destined'
    BY <1>1, <2>1 DEF Destined
  <2>3. CASE cpu.instruction = "POPB"
    <3>1. cpu'.state = "WRITEBACK_LOW"
      BY <2>1, <2>3
    <3>2. Completion = WrittenBack(ram, Wrap(cpu.sp + 1), ram[cpu.sp])
      BY <1>1, <2>3 DEF Completion
    <3>3. WrittenBack(ram, cpu.sp, cpu.result)' = WrittenBack(ram, Wrap(cpu.sp + 1), ram[cpu.sp])
      BY <2>1 DEF WrittenBack, Visibly
    <3>4. Destined' => Completion' = (WrittenBack(ram, cpu.sp, cpu.result))'
      BY <2>1, <3>1, EntersWriteback
    <3> QED BY <2>2, <3>2, <3>3, <3>4 DEF Continues
  <2>4. CASE cpu.instruction = "RET"
    <3>1. cpu'.state = "POP_HIGH" /\ cpu'.instruction = "RET"
      BY <2>1, <2>4
    <3>2. Completion = At(ram, WordIn(ram, cpu.sp), Wrap(cpu.sp + 2))
      BY <1>1, <2>4 DEF Completion
    <3>3. Completion' = (At(ram, WordOf(cpu.result, ram[cpu.sp]), Wrap(cpu.sp + 1)))'
      BY <3>1 DEF Completion
    <3>4. WordOf(cpu'.result, ram[cpu'.sp]) = WordIn(ram, cpu.sp)
      BY <2>1 DEF WordIn
    <3> QED BY <2>1, <2>2, <3>2, <3>3, <3>4 DEF Continues, At, Visibly
  <2>5. CASE cpu.instruction \notin {"POPB", "RET"}
    <3>1. cpu'.state = "POP_HIGH" /\ cpu'.instruction # "RET"
      BY <2>1, <2>5
    <3>2. Completion = WrittenBack(ram, Wrap(cpu.sp + 2), WordIn(ram, cpu.sp))
      BY <1>1, <2>5 DEF Completion
    <3>3. Completion' = (WrittenBack(ram, Wrap(cpu.sp + 1), WordOf(cpu.result, ram[cpu.sp])))'
      BY <3>1 DEF Completion
    <3>4. WordOf(cpu'.result, ram[cpu'.sp]) = WordIn(ram, cpu.sp)
      BY <2>1 DEF WordIn
    <3> QED BY <2>1, <2>2, <3>2, <3>3, <3>4 DEF Continues, WrittenBack, Visibly
  <2> QED BY <2>3, <2>4, <2>5
<1> QED BY <1>4, <1>5, ContinuesWaiting

\* The high byte.
LEMMA ContinuesPopHigh ==
  ASSUME IsaInv, InRam, UNCHANGED ram, PopHigh
  PROVE  Destined => Continues
<1> USE Known, Fields, PushedIs, Stacked
<1>1. cpu.state = "POP_HIGH" /\ ReadsFrom(cpu.sp)
  BY DEF PopHigh, In, ReadsFrom
<1>2. Reads("RAM", cpu.sp)
  BY <1>1 DEF InRam
<1> DEFINE w == WordOf(cpu.result, ReadByte(cpu.sp))
           d == IF cpu.instruction = "RET" THEN Finish([Popped EXCEPT !.result = w, !.pc = w])
                ELSE [Popped EXCEPT !.result = w, !.state = "WRITEBACK_LOW"]
<1>3. cpu_read_memory(cpu.sp, Committed, d)
  BY DEF PopHigh
<1> HIDE DEF d
<1>4. cpu' = Stop(Committed) \/ (cpu' = d /\ w = WordOf(cpu.result, ram[cpu.sp]))
  <2>1. cpu' = Stop(Committed) \/ (cpu' = d /\ ReadByte(cpu.sp) = ram[cpu.sp])
    BY <1>1, <1>2, <1>3, Received
  <2> QED BY <2>1
<1>5. CASE cpu' = d /\ w = WordOf(cpu.result, ram[cpu.sp])
  <2> HIDE DEF w
  <2>1. CASE cpu.instruction = "RET"
    <3>1. /\ cpu'.state = "FETCH_INSTRUCTION" /\ cpu'.pc = w /\ cpu'.sp = Wrap(cpu.sp + 1)
          /\ cpu'.r = cpu.r /\ cpu'.irq_id = cpu.irq_id
          /\ cpu'.sr \ InternalFlags = cpu.sr \ InternalFlags
      BY <1>5, <2>1 DEF d, Finish, Counted, Goto, CpuField
    <3>2. Completion = At(ram, w, Wrap(cpu.sp + 1))
      BY <1>1, <1>5, <2>1 DEF Completion
    <3>3. Completion' = (At(ram, cpu.pc, cpu.sp))'
      BY <3>1 DEF Completion
    <3> QED BY <3>1, <3>2, <3>3 DEF Continues, At, Visibly, Destined
  <2>2. CASE cpu.instruction # "RET"
    <3>1. /\ cpu'.state = "WRITEBACK_LOW" /\ cpu'.pc = cpu.pc /\ cpu'.sp = Wrap(cpu.sp + 1)
          /\ cpu'.r = cpu.r /\ cpu'.irq_id = cpu.irq_id /\ cpu'.result = w
          /\ cpu'.mode = cpu.mode /\ cpu'.address_reduced = cpu.address_reduced
          /\ cpu'.sr \ InternalFlags = cpu.sr \ InternalFlags
      BY <1>5, <2>2 DEF d, CpuField
    <3>2. Completion = WrittenBack(ram, Wrap(cpu.sp + 1), w)
      BY <1>1, <1>5, <2>2 DEF Completion
    <3>3. Destined => Destined'
      BY <1>1, <2>2, <3>1 DEF Destined
    <3>4. WrittenBack(ram, cpu.sp, cpu.result)' = WrittenBack(ram, Wrap(cpu.sp + 1), w)
      BY <3>1 DEF WrittenBack, Visibly
    <3>5. Destined' => Completion' = (WrittenBack(ram, cpu.sp, cpu.result))'
      BY <3>1, EntersWriteback
    <3> QED BY <3>2, <3>3, <3>4, <3>5 DEF Continues
  <2> QED BY <2>1, <2>2
<1> QED BY <1>4, <1>5, ContinuesWaiting

\* The status register comes from the stack.
LEMMA ContinuesPopsr ==
  ASSUME IsaInv, InRam, UNCHANGED ram, PopsrLow \/ PopsrHigh
  PROVE  Continues
<1> USE Known, Fields, PushedIs, Stacked
<1>1. cpu.state \in {"POPSR_LOW", "POPSR_HIGH"} /\ ReadsFrom(cpu.sp)
  BY DEF PopsrLow, PopsrHigh, In, ReadsFrom
<1>2. Reads("RAM", cpu.sp)
  BY <1>1 DEF InRam
<1> DEFINE b == ReadByte(cpu.sp)
<1>3. CASE PopsrLow
  <2> DEFINE d == [Popped EXCEPT !.sr = SrFlags(b), !.state = "POPSR_HIGH"]
  <2>1. cpu.state = "POPSR_LOW" /\ cpu_read_memory(cpu.sp, Committed, d)
    BY <1>3 DEF PopsrLow, In
  <2> HIDE DEF d
  <2>2. cpu' = Stop(Committed) \/ (cpu' = d /\ b = ram[cpu.sp])
    BY <1>1, <1>2, <2>1, Received
  <2>3. CASE cpu' = d /\ b = ram[cpu.sp]
    <3>1. /\ cpu'.state = "POPSR_HIGH" /\ cpu'.sp = Wrap(cpu.sp + 1) /\ cpu'.pc = cpu.pc
          /\ cpu'.r = cpu.r /\ cpu'.irq_id = cpu.irq_id /\ cpu'.sr = SrFlags(ram[cpu.sp])
      BY <2>3 DEF d, CpuField
    <3>2. ram[cpu.sp] \in BYTE /\ ram[Wrap(cpu.sp + 1)] \in BYTE
      BY Stepping, Sizes
    <3>3. SrFlags(WordIn(ram, cpu.sp)) =
            cpu'.sr \cup SrFlags(WordOf(0, ram[Wrap(cpu.sp + 1)]))
      BY <3>1, <3>2, SrSplit DEF WordIn
    <3>4. Completion = State(ram, cpu.r, cpu.pc, Wrap(cpu.sp + 2),
            (cpu'.sr \cup SrFlags(WordOf(0, ram[Wrap(cpu.sp + 1)]))) \ InternalFlags, cpu.irq_id)
      BY <2>1, <3>3 DEF Completion
    <3>5. Completion' = State(ram', cpu'.r, cpu'.pc, Wrap(cpu'.sp + 1),
            (cpu'.sr \cup SrFlags(WordOf(0, ram[cpu'.sp]))) \ InternalFlags, cpu'.irq_id)
      BY <3>1 DEF Completion
    <3> QED BY <2>1, <3>1, <3>4, <3>5 DEF Continues, Destined
  <2> QED BY <2>2, <2>3, ContinuesWaiting
<1>4. CASE PopsrHigh
  <2> DEFINE d == [Popped EXCEPT !.sr = @ \cup SrFlags(WordOf(0, b)),
                                 !.state = "FETCH_INSTRUCTION"]
  <2>1. cpu.state = "POPSR_HIGH" /\ cpu_read_memory(cpu.sp, Committed, d)
    BY <1>4 DEF PopsrHigh, In
  <2> HIDE DEF d
  <2>2. cpu' = Stop(Committed) \/ (cpu' = d /\ b = ram[cpu.sp])
    BY <1>1, <1>2, <2>1, Received
  <2>3. CASE cpu' = d /\ b = ram[cpu.sp]
    <3>1. /\ cpu'.state = "FETCH_INSTRUCTION" /\ cpu'.sp = Wrap(cpu.sp + 1) /\ cpu'.pc = cpu.pc
          /\ cpu'.r = cpu.r /\ cpu'.irq_id = cpu.irq_id
          /\ cpu'.sr = Popped.sr \cup SrFlags(WordOf(0, ram[cpu.sp]))
      BY <2>3 DEF d, CpuField
    <3>2. cpu'.sr \ InternalFlags =
            (cpu.sr \cup SrFlags(WordOf(0, ram[cpu.sp]))) \ InternalFlags
      BY <3>1
    <3>3. Completion = State(ram, cpu.r, cpu.pc, Wrap(cpu.sp + 1),
                             cpu'.sr \ InternalFlags, cpu.irq_id)
      BY <2>1, <3>2 DEF Completion
    <3>4. Completion' = State(ram', cpu'.r, cpu'.pc, cpu'.sp, cpu'.sr \ InternalFlags, cpu'.irq_id)
      BY <3>1 DEF Completion, At, Visibly
    <3> QED BY <2>1, <3>1, <3>3, <3>4 DEF Continues, Destined
  <2> QED BY <2>2, <2>3, ContinuesWaiting
<1> QED BY <1>3, <1>4

-----------------------------------------------------------------------------
(***************************************************************************)
(* Executing: the instruction's outcome is fixed, and perhaps reached.     *)
(***************************************************************************)
\* The flags of the instructions are not the internal ones.
LEMMA FlagNames == \A row \in FlagTable : row[1] \notin InternalFlags
BY FlagColumns

\* The internal flags decide nothing and are not set by instructions.
LEMMA FlagsApart ==
  ASSUME NEW m, NEW sr
  PROVE  /\ Taken(m, sr) <=> Taken(m, sr \ InternalFlags)
         /\ FlagsAfter(m, sr) \ InternalFlags = FlagsAfter(m, sr \ InternalFlags)
<1>1. Taken(m, sr) <=> Taken(m, sr \ InternalFlags)
  BY FlagNames DEF Taken
<1>2. FlagsAfter(m, sr) \ InternalFlags = FlagsAfter(m, sr \ InternalFlags)
  BY FlagNames DEF FlagsAfter
<1> QED BY <1>1, <1>2

\* One arm for every instruction.
LEMMA SimpleArms ==
  ASSUME NEW s, NEW i, NEW n
  PROVE  /\ i.m \in {"NOP", "EXTNOP", "EXTNOP2", "INV", "FTC"} => Atomic!Simple(s, i, n) = {n}
         /\ i.m \in JUMPS => Atomic!Simple(s, i, n) =
              {IF Taken(i.m, s.sr) THEN [n EXCEPT !.pc = Atomic!Source(s, i)] ELSE n}
         /\ i.m \in REL_JUMPS => Atomic!Simple(s, i, n) =
              {IF Taken(i.m, s.sr) THEN [n EXCEPT !.pc = Wrap(@ + Atomic!Source(s, i))] ELSE n}
         /\ i.m \in FLAG_OPS => Atomic!Simple(s, i, n) = {[n EXCEPT !.sr = FlagsAfter(i.m, @)]}
<1>1. /\ Atomic!JUMPS = JUMPS /\ Atomic!REL_JUMPS = REL_JUMPS /\ Atomic!FLAG_OPS = FLAG_OPS
      /\ \A j : Atomic!Wrap(j) = Wrap(j)
      /\ \A m, sr : Atomic!Taken(m, sr) = Taken(m, sr)
      /\ \A m, sr : Atomic!FlagsAfter(m, sr) = FlagsAfter(m, sr)
  BY TwinTables, TwinWords, TwinFlags
<1>2. i.m \in {"NOP", "EXTNOP", "EXTNOP2", "INV", "FTC"} => Atomic!Simple(s, i, n) = {n}
  <2>1. i.m \in {"NOP", "EXTNOP", "EXTNOP2", "INV", "FTC"} =>
          i.m \notin JUMPS \cup REL_JUMPS \cup FLAG_OPS
    BY Groups DEF Single
  <2> QED BY <1>1, <2>1 DEF Atomic!Simple
<1>3. i.m \in JUMPS \cup REL_JUMPS \cup FLAG_OPS =>
        i.m \notin {"NOP", "EXTNOP", "EXTNOP2", "INV", "FTC", "CMP", "TST", "HWCLOCK", "HWINSTR"}
  BY Groups DEF Single
<1>4. CASE i.m \in JUMPS
  <2>1. i.m \notin REL_JUMPS /\ i.m \notin FLAG_OPS
    BY <1>4, Groups
  <2> QED BY <1>1, <1>2, <1>3, <1>4, <2>1 DEF Atomic!Simple
<1>5. CASE i.m \in REL_JUMPS
  <2>1. i.m \notin JUMPS /\ i.m \notin FLAG_OPS
    BY <1>5, Groups
  <2> QED BY <1>1, <1>2, <1>3, <1>5, <2>1 DEF Atomic!Simple
<1>6. CASE i.m \in FLAG_OPS
  <2>1. i.m \notin JUMPS /\ i.m \notin REL_JUMPS
    BY <1>6, Groups
  <2> QED BY <1>1, <1>2, <1>3, <1>6, <2>1 DEF Atomic!Simple
<1> QED BY <1>2, <1>4, <1>5, <1>6

\* Comparisons and information.
LEMMA SimpleArms2 ==
  ASSUME NEW s, NEW i, NEW n
  PROVE  /\ i.m = "CMP" => Atomic!Simple(s, i, n) =
              {[n EXCEPT !.sr = (@ \ {"Z", "FZ", "L", "UL", "FL", "DL", "LL"})
                 \cup (CompareFlags(Atomic!Destination(s, i), Atomic!Source(s, i)) \cap Flag)]}
         /\ i.m = "TST" => Atomic!Simple(s, i, n) =
              {[n EXCEPT !.sr = (@ \ {"Z", "FZ", "L"})
                 \cup (TestFlags(Atomic!Source(s, i)) \cap Flag)]}
         /\ i.m \in {"HWCLOCK", "HWINSTR"} => Atomic!Simple(s, i, n) =
              {[n EXCEPT !.r = [x \in DOMAIN @ |-> IF x = "R0" THEN w ELSE 0]] : w \in AWord}
<1>1. /\ Atomic!JUMPS = JUMPS /\ Atomic!REL_JUMPS = REL_JUMPS /\ Atomic!FLAG_OPS = FLAG_OPS
      /\ Atomic!AWord = AWord /\ Atomic!Flag = Flag
      /\ \A a, b : Atomic!CompareFlags(a, b) = CompareFlags(a, b)
      /\ \A a : Atomic!TestFlags(a) = TestFlags(a)
  BY TwinTables, TwinWords, TwinFlags
<1>2. i.m \in {"CMP", "TST", "HWCLOCK", "HWINSTR"} => i.m \notin JUMPS \cup REL_JUMPS \cup FLAG_OPS
  BY Groups DEF Single
<1> QED BY <1>1, <1>2 DEF Atomic!Simple

\* Everything has been collected.
Ready == IsaInv /\ cpu.state = "EXECUTE" /\ Ordinary(This)
After == [retired EXCEPT !.pc = This.next]

\* What has been collected.
LEMMA ReadyIs ==
  ASSUME Ready
  PROVE  /\ Untouched /\ cpu.instruction = This.m /\ cpu.sr \cap {"NC"} = This.no_cache
         /\ cpu.pc = This.next /\ SourceKnown /\ DestinationKnown
         /\ argument_count(This.m) # 0 => ModeKnown /\ AddressesKnown
<1>1. /\ GatherInv /\ cpu.state = "EXECUTE" /\ cpu.state \in Early /\ Ordinary(This)
  BY Known DEF Ready, Early
<1>2. Untouched /\ Recognized /\ Collected("EXECUTE")
  BY <1>1 DEF GatherInv
<1>3. Collected("EXECUTE") => /\ argument_count(This.m) # 0 => ModeKnown /\ AddressesKnown
                              /\ cpu.pc = This.next /\ SourceKnown /\ DestinationKnown
  BY DEF Collected
<1> QED BY <1>2, <1>3 DEF Recognized

\* The state before the instruction, and after its fetch.
LEMMA RetiredHere ==
  ASSUME Ready
  PROVE  /\ retired = State(ram, cpu.r, retired.pc, cpu.sp, Visibly, cpu.irq_id)
         /\ After = At(ram, cpu.pc, cpu.sp)
<1>1. RetiredOK /\ Untouched /\ cpu.pc = This.next
  BY Known, ReadyIs DEF Ready
<1>2. retired = State(ram, cpu.r, retired.pc, cpu.sp, Visibly, cpu.irq_id)
  BY <1>1 DEF RetiredOK, Untouched, State, Visibly
<1>3. After = At(ram, cpu.pc, cpu.sp)
  BY <1>1, <1>2 DEF After, At, State
<1> QED BY <1>2, <1>3

\* The outcomes of an instruction that the processor executes.
LEMMA OutcomesAre ==
  ASSUME Ready
  PROVE  /\ Atomic!Simple(retired, This, After) \subseteq Atomic!Outcomes(retired)
         /\ Atomic!Stacking(retired, This, After) \subseteq Atomic!Outcomes(retired)
         /\ Atomic!Moving(retired, This, After) \subseteq Atomic!Outcomes(retired)
         /\ Atomic!Calculating(retired, This, After) \subseteq Atomic!Outcomes(retired)
<1>1. Atomic!WellFormed(This)
  BY DEF Ready, Ordinary
<1> QED BY <1>1 DEF Atomic!Outcomes, This, After

\* The instruction is complete.
LEMMA Complete ==
  ASSUME cpu'.state = "FETCH_INSTRUCTION"
  PROVE  /\ Completion' = State(ram', cpu'.r, cpu'.pc, cpu'.sp, cpu'.sr \ InternalFlags,
                               cpu'.irq_id)
         /\ Destined'
BY DEF Completion, At, Visibly, Destined

\* The processor before the first effect, field by field.
LEMMA ReadyFields ==
  ASSUME Ready
  PROVE  /\ DOMAIN Restartable = CpuField
         /\ \A x \in CpuField \ {"sr"} : Restartable[x] = cpu[x]
         /\ Restartable.sr = cpu.sr \ {"MNI"}
         /\ Restartable.sr \ InternalFlags = cpu.sr \ InternalFlags
<1>1. Restartable.sr = cpu.sr \ {"MNI"}
  BY Known, RestartableIs DEF Ready
<1>2. Restartable.sr \ InternalFlags = cpu.sr \ InternalFlags
  BY <1>1 DEF InternalFlags
<1> QED BY <1>1, <1>2, Known, RestartableIs DEF Ready

\* The instructions that do nothing a program can see.
LEMMA ExecutesNop ==
  ASSUME Ready, UNCHANGED ram, cpu' = Finish(Restartable),
         cpu.instruction \in {"NOP", "EXTNOP", "EXTNOP2", "INV", "FTC"}
  PROVE  Completion' \in Atomic!Outcomes(retired) /\ Destined'
<1>1. /\ cpu'.state = "FETCH_INSTRUCTION" /\ cpu'.r = cpu.r /\ cpu'.pc = cpu.pc
      /\ cpu'.sp = cpu.sp /\ cpu'.irq_id = cpu.irq_id
      /\ cpu'.sr \ InternalFlags = cpu.sr \ InternalFlags
  BY ReadyFields DEF Finish, Counted, Goto, CpuField
<1>2. Completion' = After
  BY <1>1, Complete, RetiredHere DEF At, Visibly
<1>3. Completion' \in Atomic!Simple(retired, This, After)
  BY <1>2, ReadyIs, SimpleArms
<1> QED BY <1>1, <1>3, Complete, OutcomesAre

\* The jumps.
LEMMA ExecutesJump ==
  ASSUME Ready, UNCHANGED ram, ExecuteJump
  PROVE  Completion' \in Atomic!Outcomes(retired) /\ Destined'
<1> DEFINE pc == IF Taken(cpu.instruction, cpu.sr) THEN Target ELSE cpu.pc
<1>1. /\ cpu'.state = "FETCH_INSTRUCTION" /\ cpu'.r = cpu.r /\ cpu'.pc = pc
      /\ cpu'.sp = cpu.sp /\ cpu'.irq_id = cpu.irq_id
      /\ cpu'.sr \ InternalFlags = cpu.sr \ InternalFlags
  BY ReadyFields DEF ExecuteJump, Proceed, Finish, Counted, Goto, CpuField
<1>2. Completion' = [After EXCEPT !.pc = pc]
  BY <1>1, Complete, RetiredHere DEF At, Visibly, State
<1>3. /\ This.m \in JUMPS \cup REL_JUMPS /\ This.m = cpu.instruction
      /\ cpu.data_extended = Atomic!Source(retired, This)
      /\ (Taken(cpu.instruction, cpu.sr) <=> Taken(This.m, retired.sr))
  <2>1. This.m \in JUMPS \cup REL_JUMPS /\ This.m = cpu.instruction /\ SourceKnown /\ Untouched
    BY ReadyIs DEF ExecuteJump, Executing
  <2>2. Taken(cpu.instruction, cpu.sr) <=> Taken(This.m, retired.sr)
    BY <2>1, FlagsApart DEF Untouched
  <2> QED BY <2>1, <2>2 DEF SourceKnown, ReadArgument
<1>4. After = [After EXCEPT !.pc = cpu.pc] /\ After.pc = cpu.pc
  BY RetiredHere DEF At, State
<1>5. CASE This.m \in JUMPS
  <2>1. This.m \notin REL_JUMPS /\ This.m # "RCALL"
    BY <1>5, Groups DEF Single
  <2>2. Target = Atomic!Source(retired, This)
    BY <1>3, <2>1 DEF Target
  <2>3. Completion' \in Atomic!Simple(retired, This, After)
    BY <1>2, <1>3, <1>4, <1>5, <2>2, SimpleArms
  <2> QED BY <1>1, <2>3, Complete, OutcomesAre
<1>6. CASE This.m \in REL_JUMPS
  <2>1. Target = Wrap(After.pc + Atomic!Source(retired, This))
    BY <1>3, <1>4, <1>6 DEF Target
  <2>2. Completion' \in Atomic!Simple(retired, This, After)
    BY <1>2, <1>3, <1>4, <1>6, <2>1, SimpleArms
  <2> QED BY <1>1, <2>2, Complete, OutcomesAre
<1> QED BY <1>3, <1>5, <1>6

\* The flag instructions, CMP and TST.
LEMMA ExecutesFlag ==
  ASSUME Ready, UNCHANGED ram, ExecuteFlag \/ ExecuteCompare
  PROVE  Completion' \in Atomic!Outcomes(retired) /\ Destined'
<1> DEFINE sr == IF cpu.instruction = "CMP"
                 THEN (Restartable.sr \ {"Z", "FZ", "L", "UL", "FL", "DL", "LL"})
                        \cup (CompareFlags(cpu.data_reduced, cpu.data_extended) \cap Flag)
                 ELSE IF cpu.instruction = "TST"
                 THEN (Restartable.sr \ {"Z", "FZ", "L"})
                        \cup (TestFlags(cpu.data_extended) \cap Flag)
                 ELSE FlagsAfter(cpu.instruction, Restartable.sr)
<1>1. /\ cpu'.state = "FETCH_INSTRUCTION" /\ cpu'.r = cpu.r /\ cpu'.pc = cpu.pc
      /\ cpu'.sp = cpu.sp /\ cpu'.irq_id = cpu.irq_id /\ cpu'.sr = sr
  <2>1. cpu' = Finish([Restartable EXCEPT !.sr = sr])
    <3>1. ExecuteFlag => cpu.instruction \notin {"CMP", "TST"}
      BY Groups DEF ExecuteFlag, Executing, Single
    <3> QED BY <3>1, ReadyFields DEF ExecuteFlag, ExecuteCompare, Executing, Proceed, CpuField
  <2> HIDE DEF sr
  <2> QED BY <2>1, ReadyFields DEF Finish, Counted, Goto, CpuField
<1>2. Completion' = [After EXCEPT !.sr = sr \ InternalFlags] /\ After.sr = cpu.sr \ InternalFlags
  BY <1>1, Complete, RetiredHere DEF At, Visibly, State
<1>3. This.m = cpu.instruction /\ Restartable.sr \ InternalFlags = cpu.sr \ InternalFlags
  BY ReadyIs, ReadyFields
<1>4. CASE ExecuteFlag
  <2>1. This.m \in FLAG_OPS
    BY <1>3, <1>4 DEF ExecuteFlag, Executing
  <2>2. This.m \notin {"CMP", "TST"}
    BY <2>1, Groups DEF Single
  <2>3. sr \ InternalFlags = FlagsAfter(This.m, After.sr)
    <3>1. sr \ InternalFlags = FlagsAfter(This.m, Restartable.sr \ InternalFlags)
      BY <1>3, <2>2, FlagsApart
    <3> QED BY <1>2, <1>3, <3>1
  <2> HIDE DEF sr
  <2>4. Completion' = [After EXCEPT !.sr = FlagsAfter(This.m, @)]
    BY <1>2, <2>3
  <2>5. Atomic!Simple(retired, This, After) = {[After EXCEPT !.sr = FlagsAfter(This.m, @)]}
    BY <2>1, SimpleArms
  <2> QED BY <1>1, <2>4, <2>5, Complete, OutcomesAre
<1>5. CASE ExecuteCompare /\ cpu.instruction = "CMP"
  <2>1. /\ cpu.data_extended = Atomic!Source(retired, This)
        /\ cpu.data_reduced = Atomic!Destination(retired, This)
    BY <1>3, <1>5, ReadyIs DEF SourceKnown, DestinationKnown, TwoArguments
  <2> DEFINE gone == {"Z", "FZ", "L", "UL", "FL", "DL", "LL"}
             set  == CompareFlags(cpu.data_reduced, cpu.data_extended) \cap Flag
  <2>2. gone \cap InternalFlags = {} /\ set \subseteq gone
    BY DEF InternalFlags, CompareFlags
  <2>3. sr = (Restartable.sr \ gone) \cup set
    BY <1>5
  <2> HIDE DEF gone, set, sr
  <2>4. sr \ InternalFlags = (After.sr \ gone) \cup set
    BY <1>2, <1>3, <2>2, <2>3
  <2>5. Completion' \in Atomic!Simple(retired, This, After)
    BY <1>2, <1>3, <1>5, <2>1, <2>4, SimpleArms2 DEF gone, set
  <2> QED BY <1>1, <2>5, Complete, OutcomesAre
<1>6. CASE ExecuteCompare /\ cpu.instruction = "TST"
  <2>1. cpu.data_extended = Atomic!Source(retired, This)
    BY <1>3, <1>6, ReadyIs DEF SourceKnown, ReadArgument
  <2> DEFINE gone == {"Z", "FZ", "L"}
             set  == TestFlags(cpu.data_extended) \cap Flag
  <2>2. gone \cap InternalFlags = {} /\ set \subseteq gone
    BY DEF InternalFlags, TestFlags
  <2>3. sr = (Restartable.sr \ gone) \cup set
    BY <1>6
  <2> HIDE DEF gone, set, sr
  <2>4. sr \ InternalFlags = (After.sr \ gone) \cup set
    BY <1>2, <1>3, <2>2, <2>3
  <2>5. Completion' \in Atomic!Simple(retired, This, After)
    BY <1>2, <1>3, <1>6, <2>1, <2>4, SimpleArms2 DEF gone, set
  <2> QED BY <1>1, <2>5, Complete, OutcomesAre
<1> QED BY <1>4, <1>5, <1>6 DEF ExecuteCompare, Executing

\* HWCLOCK and HWINSTR.
LEMMA ExecutesInfo ==
  ASSUME Ready, UNCHANGED ram, ExecuteInfo
  PROVE  Completion' \in Atomic!Outcomes(retired) /\ Destined'
<1>1. PICK w \in IF cpu.instruction = "HWINSTR" THEN {cpu.executed} ELSE AWord :
        cpu' = Finish([Restartable EXCEPT !.r = [x \in DOMAIN @ |-> IF x = "R0" THEN w ELSE 0]])
  BY DEF ExecuteInfo, Proceed
<1>2. w \in AWord
  <2>1. cpu.executed \in 0 .. COUNT_RANGE - 1
    BY Known DEF Ready, CpuRecord
  <2> QED BY <2>1, CountAssumption, Sizes DEF AWord
<1>3. /\ cpu'.state = "FETCH_INSTRUCTION" /\ cpu'.pc = cpu.pc
      /\ cpu'.r = [x \in DOMAIN cpu.r |-> IF x = "R0" THEN w ELSE 0]
      /\ cpu'.sp = cpu.sp /\ cpu'.irq_id = cpu.irq_id
      /\ cpu'.sr \ InternalFlags = cpu.sr \ InternalFlags
  BY <1>1, ReadyFields DEF Finish, Counted, Goto, CpuField
<1>4. /\ Completion' = [After EXCEPT !.r = [x \in DOMAIN cpu.r |-> IF x = "R0" THEN w ELSE 0]]
      /\ After.r = cpu.r
  BY <1>3, Complete, RetiredHere DEF At, Visibly, State
<1>5. Completion' \in Atomic!Simple(retired, This, After)
  BY <1>2, <1>4, ReadyIs, SimpleArms2 DEF ExecuteInfo, Executing
<1> QED BY <1>3, <1>5, Complete, OutcomesAre

\* What the instruction set does to a state.
LEMMA TwinState ==
  ASSUME NEW m, NEW r, NEW pc, NEW sp, NEW sr, NEW irq
  PROVE  /\ \A a : Atomic!Word(State(m, r, pc, sp, sr, irq), a) = WordIn(m, a)
         /\ \A a, w : Atomic!PutWord(State(m, r, pc, sp, sr, irq), a, w) =
                        State(PutIn(m, a, w), r, pc, sp, sr, irq)
         /\ \A a, b : Atomic!PutByte(State(m, r, pc, sp, sr, irq), a, b) =
                        State([m EXCEPT ![a] = b], r, pc, sp, sr, irq)
         /\ \A w : Atomic!Push(State(m, r, pc, sp, sr, irq), w) =
                     State(PutIn(m, Wrap(sp - 2), w), r, pc, Wrap(sp - 2), sr, irq)
         /\ \A n : Atomic!Pop(State(m, r, pc, sp, sr, irq), n) =
                     State(m, r, pc, Wrap(sp + n), sr, irq)
<1> DEFINE s == State(m, r, pc, sp, sr, irq)
<1>1. /\ \A a : Atomic!Wrap(a) = Wrap(a) /\ Atomic!Low(a) = Low(a) /\ Atomic!High(a) = High(a)
      /\ \A lo, hi : Atomic!WordOf(lo, hi) = WordOf(lo, hi)
  BY TwinWords
<1>2. /\ s.mem = m /\ s.sp = sp
      /\ \A x : [s EXCEPT !.mem = x] = State(x, r, pc, sp, sr, irq)
      /\ \A x : [s EXCEPT !.sp = x] = State(m, r, pc, x, sr, irq)
  BY DEF State
<1>3. \A a : Atomic!Word(s, a) = WordIn(m, a)
  BY <1>1, <1>2 DEF Atomic!Word, WordIn
<1>4. \A x, a, b : Atomic!PutByte(State(x, r, pc, sp, sr, irq), a, b) =
                     State([x EXCEPT ![a] = b], r, pc, sp, sr, irq)
  BY DEF Atomic!PutByte, State
<1>5. \A a, w : Atomic!PutWord(s, a, w) = State(PutIn(m, a, w), r, pc, sp, sr, irq)
  <2> SUFFICES ASSUME NEW a, NEW w
               PROVE  Atomic!PutWord(s, a, w) = State(PutIn(m, a, w), r, pc, sp, sr, irq)
    OBVIOUS
  <2>1. Atomic!PutWord(s, a, w) =
          Atomic!PutByte(Atomic!PutByte(s, a, Low(w)), Wrap(a + 1), High(w))
    BY <1>1 DEF Atomic!PutWord
  <2>2. Atomic!PutByte(s, a, Low(w)) = State([m EXCEPT ![a] = Low(w)], r, pc, sp, sr, irq)
    BY <1>4
  <2>3. Atomic!PutByte(State([m EXCEPT ![a] = Low(w)], r, pc, sp, sr, irq), Wrap(a + 1), High(w)) =
          State(PutIn(m, a, w), r, pc, sp, sr, irq)
    BY <1>4 DEF PutIn
  <2> QED BY <2>1, <2>2, <2>3
<1>6. \A x, y : [State(x, r, pc, sp, sr, irq) EXCEPT !.sp = y] = State(x, r, pc, y, sr, irq)
  BY DEF State
<1>7. \A w : Atomic!Push(s, w) = State(PutIn(m, Wrap(sp - 2), w), r, pc, Wrap(sp - 2), sr, irq)
  BY <1>1, <1>2, <1>5, <1>6 DEF Atomic!Push
<1>8. \A n : Atomic!Pop(s, n) = State(m, r, pc, Wrap(sp + n), sr, irq)
  BY <1>1, <1>2 DEF Atomic!Pop
<1> QED BY <1>3, <1>4, <1>5, <1>7, <1>8

\* A word is stored by its two bytes, in any order.
LEMMA PutBoth ==
  \A m : \A sp, w \in AWord :
    [[m EXCEPT ![Wrap(sp - 1)] = High(w)] EXCEPT ![Wrap(sp - 2)] = Low(w)] =
      PutIn(m, Wrap(sp - 2), w)
<1> SUFFICES ASSUME NEW m, NEW sp \in AWord, NEW w \in AWord
             PROVE  [[m EXCEPT ![Wrap(sp - 1)] = High(w)] EXCEPT ![Wrap(sp - 2)] = Low(w)] =
                      PutIn(m, Wrap(sp - 2), w)
  OBVIOUS
<1>1. sp - 2 \in Int
  BY DEF AWord
<1>2. Wrap(sp - 2) \in AWord
  BY <1>1, Wrapping
<1>3. Wrap(Wrap(sp - 2) + 1) = Wrap(sp - 1) /\ Wrap(sp - 1) # Wrap(sp - 2)
  BY <1>2, Neighbours
<1> QED BY <1>3 DEF PutIn

\* A push of a word begins, or of a byte, or the entry into a handler.
LEMMA EntersPush ==
  ASSUME IsaInv, UNCHANGED ram, cpu'.state = "PUSH_HIGH", cpu'.sp \in AWord, cpu'.result \in AWord
  PROVE  Completion' = State(PutIn(ram, Wrap(cpu'.sp - 2), cpu'.result), cpu'.r, cpu'.pc,
                             Wrap(cpu'.sp - 2), cpu'.sr \ InternalFlags, cpu'.irq_id)
<1>1. AtStore' /\ StoreAddress' = Wrap(cpu'.sp - 1) /\ StoreByte' = High(cpu'.result)
  BY DEF AtStore, StoreAddress, StoreByte, Below
<1>2. Ahead' = [ram EXCEPT ![Wrap(cpu'.sp - 1)] = High(cpu'.result)]
  BY <1>1 DEF Ahead
<1>3. [Ahead' EXCEPT ![Wrap(cpu'.sp - 2)] = Low(cpu'.result)] =
        PutIn(ram, Wrap(cpu'.sp - 2), cpu'.result)
  <2>1. PICK sp \in AWord, w \in AWord : sp = cpu'.sp /\ w = cpu'.result
    OBVIOUS
  <2>2. [[ram EXCEPT ![Wrap(sp - 1)] = High(w)] EXCEPT ![Wrap(sp - 2)] = Low(w)] =
          PutIn(ram, Wrap(sp - 2), w)
    BY PutBoth
  <2> QED BY <1>2, <2>1, <2>2
<1>4. Completion' = (At([Ahead EXCEPT ![Wrap(cpu.sp - 2)] = Low(cpu.result)], cpu.pc,
                        Wrap(cpu.sp - 2)))'
  BY DEF Completion
<1> QED BY <1>3, <1>4 DEF At, Visibly

\* A push of a byte.
LEMMA EntersPushByte ==
  ASSUME UNCHANGED ram, cpu'.state = "PUSH_LOW"
  PROVE  Completion' = State([ram EXCEPT ![Wrap(cpu'.sp - 1)] = Low(cpu'.result)], cpu'.r, cpu'.pc,
                             Wrap(cpu'.sp - 1), cpu'.sr \ InternalFlags, cpu'.irq_id)
<1>1. AtStore' /\ StoreAddress' = Wrap(cpu'.sp - 1) /\ StoreByte' = Low(cpu'.result)
      /\ Below' = Wrap(cpu'.sp - 1)
  BY DEF AtStore, StoreAddress, StoreByte, Below
<1>2. Ahead' = [ram EXCEPT ![Wrap(cpu'.sp - 1)] = Low(cpu'.result)]
  BY <1>1 DEF Ahead
<1>3. Completion' = (At(Ahead, cpu.pc, Below))'
  BY DEF Completion
<1> QED BY <1>1, <1>2, <1>3 DEF At, Visibly

\* The entry into a handler.
LEMMA EntersHandler ==
  ASSUME IsaInv, UNCHANGED ram, cpu'.state = "INTERRUPT_PUSH_PC_HIGH",
         cpu'.sp \in AWord, cpu'.pc \in AWord
  PROVE  Completion' = Atomic!Enter(State(ram, cpu'.r, cpu'.pc, cpu'.sp, cpu'.sr \ InternalFlags,
                                          cpu'.irq_id), cpu'.irq_id)
<1> DEFINE m == PutIn(ram, Wrap(cpu'.sp - 2), cpu'.pc)
           t == State(m, cpu'.r, cpu'.pc, Wrap(cpu'.sp - 2), cpu'.sr \ InternalFlags, cpu'.irq_id)
           s == State(ram, cpu'.r, cpu'.pc, cpu'.sp, cpu'.sr \ InternalFlags, cpu'.irq_id)
<1>1. AtStore' /\ StoreAddress' = Wrap(cpu'.sp - 1) /\ StoreByte' = High(cpu'.pc)
  BY DEF AtStore, StoreAddress, StoreByte, Below
<1>2. Ahead' = [ram EXCEPT ![Wrap(cpu'.sp - 1)] = High(cpu'.pc)]
  BY <1>1 DEF Ahead
<1>3. [Ahead' EXCEPT ![Wrap(cpu'.sp - 2)] = Low(cpu'.pc)] = m
  <2>1. PICK sp \in AWord, w \in AWord : sp = cpu'.sp /\ w = cpu'.pc
    OBVIOUS
  <2>2. [[ram EXCEPT ![Wrap(sp - 1)] = High(w)] EXCEPT ![Wrap(sp - 2)] = Low(w)] =
          PutIn(ram, Wrap(sp - 2), w)
    BY PutBoth
  <2> QED BY <1>2, <2>1, <2>2
<1>4. Completion' = (At([Ahead EXCEPT ![Wrap(cpu.sp - 2)] = Low(cpu.pc)],
                        WordIn([Ahead EXCEPT ![Wrap(cpu.sp - 2)] = Low(cpu.pc)],
                               Vector(cpu.irq_id)), Wrap(cpu.sp - 2)))'
  BY DEF Completion
<1>5. Completion' = State(m, cpu'.r, WordIn(m, Vector(cpu'.irq_id)), Wrap(cpu'.sp - 2),
                          cpu'.sr \ InternalFlags, cpu'.irq_id)
  <2> HIDE DEF m
  <2> QED BY <1>3, <1>4 DEF At, Visibly, WordIn
<1>6. s.pc = cpu'.pc /\ Atomic!Push(s, cpu'.pc) = t
  <2>1. Atomic!Push(s, cpu'.pc) = t
    BY TwinState
  <2> QED BY <2>1 DEF State
<1>7. Atomic!Word(t, Vector(cpu'.irq_id)) = WordIn(m, Vector(cpu'.irq_id))
  <2> HIDE DEF m
  <2> QED BY TwinState
<1>8. Atomic!Enter(s, cpu'.irq_id) = [t EXCEPT !.pc = WordIn(m, Vector(cpu'.irq_id))]
  <2> HIDE DEF t, s, m
  <2> QED BY <1>6, <1>7, TwinWords DEF Atomic!Enter
<1>9. [t EXCEPT !.pc = WordIn(m, Vector(cpu'.irq_id))] = Completion'
  <2> HIDE DEF m
  <2> QED BY <1>5 DEF State
<1> QED BY <1>8, <1>9

\* The write-back puts the word where the instruction set stores it.
LEMMA StoresThere ==
  ASSUME Ready, This.m \in WriteArgument \cup TwoArguments, NEW sp, NEW w
  PROVE  /\ Atomic!Store(State(ram, cpu.r, cpu.pc, sp, Visibly, cpu.irq_id), This,
                         Atomic!ReducedAddress(retired, This), w) = WrittenBack(ram, sp, w)
         /\ mode_category(cpu.mode.admr) # "ADMC_NONE"
<1> DEFINE s == State(ram, cpu.r, cpu.pc, sp, Visibly, cpu.irq_id)
<1>1. /\ This.m \notin ReadArgument /\ argument_count(This.m) # 0 /\ cpu.mode.admr = This.admr
      /\ AddressesKnown /\ mode_category(This.admr) # "ADMC_NONE" /\ This.admr \in ADMR
  <2>1. This.m \notin ReadArgument /\ argument_count(This.m) # 0
    BY OneKind DEF argument_count
  <2>2. mode_category(This.admr) # "ADMC_NONE"
    BY TwinOperands DEF Ready, Ordinary, Atomic!WellFormed
  <2>3. cpu.mode.admr \in ADMR
    BY Fields DEF Ready
  <2> QED BY <2>1, <2>2, <2>3, ReadyIs DEF ModeKnown
<1>2. CASE This.admr.kind = "REG"
  <2>1. Atomic!Store(s, This, Atomic!ReducedAddress(retired, This), w) =
          Atomic!SetRegister(s, This.admr.reg, w)
    BY <1>2 DEF Atomic!Store
  <2>2. Atomic!SetRegister(s, This.admr.reg, w) = WrittenBack(ram, sp, w)
    BY <1>1, <1>2 DEF Atomic!SetRegister, WrittenBack, State
  <2> QED BY <1>1, <2>1, <2>2
<1>3. CASE This.admr.kind # "REG"
  <2>1. mode_category(This.admr) = "ADMC_IND"
    BY <1>1, <1>3 DEF mode_category, ADMR
  <2>2. cpu.address_reduced = Atomic!ReducedAddress(retired, This)
    BY <1>1, <2>1 DEF AddressesKnown
  <2>3. Atomic!Store(s, This, Atomic!ReducedAddress(retired, This), w) =
          Atomic!PutWord(s, cpu.address_reduced, w)
    BY <1>3, <2>2 DEF Atomic!Store
  <2> QED BY <1>1, <1>3, <2>3, TwinState DEF WrittenBack
<1> QED BY <1>2, <1>3

\* What the instruction set says of pushes.
LEMMA StackingPush ==
  ASSUME NEW s, NEW i, NEW n
  PROVE  /\ i.m = "PUSH" => Atomic!Stacking(s, i, n) = {Atomic!Push(n, Atomic!Source(s, i))}
         /\ i.m = "PUSHB" => Atomic!Stacking(s, i, n) =
              {[Atomic!PutByte(n, Wrap(s.sp - 1), Low(Atomic!Source(s, i))) EXCEPT
                  !.sp = Wrap(s.sp - 1)]}
         /\ i.m = "PUSHSR" => Atomic!Stacking(s, i, n) =
              {Atomic!Push(n, SrValue(s.sr \cup i.no_cache))}
BY TwinWords, TwinFlags DEF Atomic!Stacking

\* Of pops.
LEMMA StackingPop ==
  ASSUME NEW s, NEW i, NEW n
  PROVE  /\ i.m = "POP" => Atomic!Stacking(s, i, n) =
              {Atomic!Store(Atomic!Pop(n, 2), i, Atomic!ReducedAddress(s, i),
                            Atomic!Word(s, s.sp))}
         /\ i.m = "POPB" => Atomic!Stacking(s, i, n) =
              {Atomic!Store(Atomic!Pop(n, 1), i, Atomic!ReducedAddress(s, i), s.mem[s.sp])}
         /\ i.m = "POPSR" => Atomic!Stacking(s, i, n) =
              {[Atomic!Pop(n, 2) EXCEPT !.sr = SrFlags(Atomic!Word(s, s.sp)) \ InternalFlags]}
         /\ i.m = "RET" => Atomic!Stacking(s, i, n) =
              {[Atomic!Pop(n, 2) EXCEPT !.pc = Atomic!Word(s, s.sp)]}
BY TwinWords, TwinFlags DEF Atomic!Stacking

\* Of calls.
LEMMA StackingCall ==
  ASSUME NEW s, NEW i, NEW n
  PROVE  /\ i.m = "CALL" => Atomic!Stacking(s, i, n) =
              {[Atomic!Push(n, i.next) EXCEPT !.pc = Atomic!Source(s, i)]}
         /\ i.m = "RCALL" => Atomic!Stacking(s, i, n) =
              {[Atomic!Push(n, i.next) EXCEPT !.pc = Wrap(i.next + Atomic!Source(s, i))]}
         /\ i.m = "INT" => Atomic!Stacking(s, i, n) = {Atomic!Enter(n, s.irq)}
BY TwinWords DEF Atomic!Stacking

\* The fields a state keeps before the first effect.
Kept ==
  /\ cpu'.r = cpu.r /\ cpu'.sp = cpu.sp /\ cpu'.irq_id = cpu.irq_id
  /\ cpu'.mode = cpu.mode /\ cpu'.instruction = cpu.instruction

\* CALL and RCALL.
LEMMA ExecutesCall ==
  ASSUME Ready, UNCHANGED ram, ExecuteCall
  PROVE  Completion' \in Atomic!Outcomes(retired) /\ Destined'
<1>1. /\ cpu'.state = "PUSH_HIGH" /\ cpu'.result = cpu.pc /\ cpu'.pc = Target /\ Kept
      /\ cpu'.sr \ InternalFlags = Visibly
  BY ReadyFields DEF ExecuteCall, Proceed, Kept, CpuField, Visibly
<1>2. cpu.sp \in AWord /\ cpu.pc \in AWord
  BY Fields DEF Ready
<1>3. Completion' = State(PutIn(ram, Wrap(cpu.sp - 2), cpu.pc), cpu.r, Target, Wrap(cpu.sp - 2),
                          Visibly, cpu.irq_id)
  BY <1>1, <1>2, EntersPush DEF Kept, Ready
<1>4. Atomic!Push(After, This.next) =
        State(PutIn(ram, Wrap(cpu.sp - 2), cpu.pc), cpu.r, cpu.pc, Wrap(cpu.sp - 2),
              Visibly, cpu.irq_id)
  BY RetiredHere, ReadyIs, TwinState DEF At
<1>5. Completion' = [Atomic!Push(After, This.next) EXCEPT !.pc = Target]
  BY <1>3, <1>4 DEF State
<1>6. /\ This.m = cpu.instruction /\ cpu.instruction \in {"CALL", "RCALL"}
      /\ cpu.data_extended = Atomic!Source(retired, This) /\ cpu.pc = This.next
  BY ReadyIs DEF ExecuteCall, Executing, SourceKnown, ReadArgument
<1>7. Completion' \in Atomic!Stacking(retired, This, After)
  <2>1. CASE This.m = "CALL"
    <3>1. This.m \notin REL_JUMPS \cup {"RCALL"}
      BY <2>1, Groups DEF Single
    <3>2. Target = Atomic!Source(retired, This)
      BY <1>6, <3>1 DEF Target
    <3>3. Atomic!Stacking(retired, This, After) =
            {[Atomic!Push(After, This.next) EXCEPT !.pc = Atomic!Source(retired, This)]}
      BY <2>1, StackingCall
    <3> QED BY <1>5, <3>2, <3>3
  <2>2. CASE This.m = "RCALL"
    <3>1. Target = Wrap(This.next + Atomic!Source(retired, This))
      BY <1>6, <2>2 DEF Target
    <3>2. Atomic!Stacking(retired, This, After) =
            {[Atomic!Push(After, This.next) EXCEPT
                !.pc = Wrap(This.next + Atomic!Source(retired, This))]}
      BY <2>2, StackingCall
    <3> QED BY <1>5, <3>1, <3>2
  <2> QED BY <1>6, <2>1, <2>2
<1>8. Destined'
  BY <1>1 DEF Destined
<1> QED BY <1>7, <1>8, OutcomesAre

\* PUSH, PUSHB and PUSHSR.
LEMMA ExecutesPush ==
  ASSUME Ready, UNCHANGED ram, ExecutePush
  PROVE  Completion' \in Atomic!Outcomes(retired) /\ Destined'
<1> DEFINE w == IF cpu.instruction = "PUSHSR" THEN SrValue(Restartable.sr)
                ELSE cpu.data_extended
<1>1. /\ cpu'.state = IF cpu.instruction = "PUSHB" THEN "PUSH_LOW" ELSE "PUSH_HIGH"
      /\ cpu'.result = w /\ cpu'.pc = cpu.pc /\ Kept
      /\ cpu'.sr \ InternalFlags = Visibly
  BY ReadyFields DEF ExecutePush, Proceed, Kept, CpuField, Visibly
<1>2. /\ This.m = cpu.instruction /\ cpu.instruction \in {"PUSH", "PUSHB", "PUSHSR"}
      /\ cpu.instruction # "PUSHSR" => cpu.data_extended = Atomic!Source(retired, This)
      /\ Untouched
  BY ReadyIs DEF ExecutePush, Executing, SourceKnown, ReadArgument
<1>3. /\ cpu.sp \in AWord /\ cpu.pc \in AWord /\ cpu.data_extended \in AWord
      /\ Restartable.sr \in SUBSET Flag
  <2>1. cpu.sr \in SUBSET Flag
    BY Known DEF Ready, CpuRecord
  <2> QED BY <2>1, Fields, ReadyFields DEF Ready
<1>4. w \in AWord
  BY <1>3, Flags
<1>5. retired.sp = cpu.sp /\ Destined'
  BY <1>1, <1>2 DEF Destined, Untouched
<1>6. CASE This.m = "PUSHB"
  <2>1. Completion' = State([ram EXCEPT ![Wrap(cpu.sp - 1)] = Low(cpu.data_extended)], cpu.r,
                            cpu.pc, Wrap(cpu.sp - 1), Visibly, cpu.irq_id)
    BY <1>1, <1>2, <1>6, EntersPushByte DEF Kept
  <2>2. Atomic!PutByte(After, Wrap(cpu.sp - 1), Low(cpu.data_extended)) =
          State([ram EXCEPT ![Wrap(cpu.sp - 1)] = Low(cpu.data_extended)], cpu.r,
                cpu.pc, cpu.sp, Visibly, cpu.irq_id)
    BY RetiredHere, TwinState DEF At
  <2>3. Completion' = [Atomic!PutByte(After, Wrap(cpu.sp - 1), Low(cpu.data_extended)) EXCEPT
                         !.sp = Wrap(cpu.sp - 1)]
    BY <2>1, <2>2 DEF State
  <2>4. Completion' \in Atomic!Stacking(retired, This, After)
    <3>1. cpu.data_extended = Atomic!Source(retired, This)
      BY <1>2, <1>6
    <3>2. Atomic!Stacking(retired, This, After) =
            {[Atomic!PutByte(After, Wrap(retired.sp - 1), Low(Atomic!Source(retired, This))) EXCEPT
                !.sp = Wrap(retired.sp - 1)]}
      BY <1>6, StackingPush
    <3> QED BY <1>5, <2>3, <3>1, <3>2
  <2> QED BY <1>5, <2>4, OutcomesAre
<1>7. CASE This.m # "PUSHB"
  <2>1. cpu'.state = "PUSH_HIGH"
    BY <1>1, <1>2, <1>7
  <2> HIDE DEF w
  <2>2. Completion' = State(PutIn(ram, Wrap(cpu.sp - 2), w), cpu.r, cpu.pc, Wrap(cpu.sp - 2),
                            Visibly, cpu.irq_id)
    BY <1>1, <1>3, <1>4, <2>1, EntersPush DEF Kept, Ready
  <2>3. Completion' = Atomic!Push(After, w)
    BY <2>2, RetiredHere, TwinState DEF At
  <2>4. CASE This.m = "PUSH"
    <3>1. w = Atomic!Source(retired, This)
      BY <1>2, <2>4 DEF w
    <3>2. Completion' \in Atomic!Stacking(retired, This, After)
      <4>1. Atomic!Stacking(retired, This, After) =
              {Atomic!Push(After, Atomic!Source(retired, This))}
        BY <2>4, StackingPush
      <4> QED BY <2>3, <3>1, <4>1
    <3> QED BY <1>5, <3>2, OutcomesAre
  <2>5. CASE This.m = "PUSHSR"
    <3>1. Restartable.sr = retired.sr \cup This.no_cache
      <4>1. /\ Restartable.sr = cpu.sr \ {"MNI"} /\ retired.sr = cpu.sr \ {"NC", "MNI"}
            /\ This.no_cache = cpu.sr \cap {"NC"}
        BY <1>2, ReadyFields, ReadyIs DEF Untouched, InternalFlags
      <4> QED BY <4>1
    <3>2. w = SrValue(retired.sr \cup This.no_cache)
      BY <1>2, <2>5, <3>1 DEF w
    <3>3. Completion' \in Atomic!Stacking(retired, This, After)
      <4>1. Atomic!Stacking(retired, This, After) =
              {Atomic!Push(After, SrValue(retired.sr \cup This.no_cache))}
        BY <2>5, StackingPush
      <4> QED BY <2>3, <3>2, <4>1
    <3> QED BY <1>5, <3>3, OutcomesAre
  <2> QED BY <1>2, <1>7, <2>4, <2>5
<1> QED BY <1>6, <1>7

\* POP, POPB, POPSR and RET.
LEMMA ExecutesPop ==
  ASSUME Ready, UNCHANGED ram, ExecutePop
  PROVE  Completion' \in Atomic!Outcomes(retired) /\ Destined'
<1>1. /\ cpu'.state = IF cpu.instruction = "POPSR" THEN "POPSR_LOW" ELSE "POP_LOW"
      /\ cpu'.address_reduced = IF cpu.instruction \in {"POPSR", "RET"} THEN cpu.sp
                                ELSE cpu.address_reduced
      /\ cpu'.pc = cpu.pc /\ Kept /\ cpu'.sr \ InternalFlags = Visibly
  BY ReadyFields DEF ExecutePop, Proceed, Kept, CpuField, Visibly
<1>2. /\ This.m = cpu.instruction /\ cpu.instruction \in {"POP", "POPB", "POPSR", "RET"}
      /\ ram = retired.mem /\ retired.sp = cpu.sp
  BY ReadyIs DEF ExecutePop, Executing, Untouched
<1>3. /\ Atomic!Word(retired, retired.sp) = WordIn(ram, cpu.sp)
      /\ retired.mem[retired.sp] = ram[cpu.sp]
      /\ \A n : Atomic!Pop(After, n) =
                  State(ram, cpu.r, cpu.pc, Wrap(cpu.sp + n), Visibly, cpu.irq_id)
  BY <1>2, RetiredHere, TwinState DEF At
<1>4. CASE This.m = "POPSR"
  <2>1. Completion' = State(ram, cpu.r, cpu.pc, Wrap(cpu.sp + 2),
                            SrFlags(WordIn(ram, cpu.sp)) \ InternalFlags, cpu.irq_id)
    <3>1. cpu'.state = "POPSR_LOW"
      BY <1>1, <1>2, <1>4
    <3>2. Completion' = (State(ram, cpu.r, cpu.pc, Wrap(cpu.sp + 2),
                               SrFlags(WordIn(ram, cpu.sp)) \ InternalFlags, cpu.irq_id))'
      BY <3>1 DEF Completion
    <3> QED BY <1>1, <3>2 DEF Kept, WordIn
  <2>2. Completion' = [Atomic!Pop(After, 2) EXCEPT
                         !.sr = SrFlags(WordIn(ram, cpu.sp)) \ InternalFlags]
    BY <1>3, <2>1 DEF State
  <2>3. Completion' \in Atomic!Stacking(retired, This, After)
    <3>1. Atomic!Stacking(retired, This, After) =
            {[Atomic!Pop(After, 2) EXCEPT
                !.sr = SrFlags(Atomic!Word(retired, retired.sp)) \ InternalFlags]}
      BY <1>4, StackingPop
    <3> QED BY <1>3, <2>2, <3>1
  <2>4. Destined'
    BY <1>1, <1>2, <1>4 DEF Destined
  <2> QED BY <2>3, <2>4, OutcomesAre
<1>5. CASE This.m = "RET"
  <2>1. Completion' = State(ram, cpu.r, WordIn(ram, cpu.sp), Wrap(cpu.sp + 2), Visibly, cpu.irq_id)
    <3>1. cpu'.state = "POP_LOW" /\ cpu'.instruction = "RET"
      BY <1>1, <1>2, <1>5 DEF Kept
    <3>2. Completion' = (At(ram, WordIn(ram, cpu.sp), Wrap(cpu.sp + 2)))'
      BY <3>1 DEF Completion
    <3> QED BY <1>1, <3>2 DEF Kept, WordIn, At, Visibly
  <2>2. Completion' = [Atomic!Pop(After, 2) EXCEPT !.pc = WordIn(ram, cpu.sp)]
    BY <1>3, <2>1 DEF State
  <2>3. Completion' \in Atomic!Stacking(retired, This, After)
    <3>1. Atomic!Stacking(retired, This, After) =
            {[Atomic!Pop(After, 2) EXCEPT !.pc = Atomic!Word(retired, retired.sp)]}
      BY <1>5, StackingPop
    <3> QED BY <1>3, <2>2, <3>1
  <2>4. Destined'
    BY <1>1, <1>2, <1>5 DEF Destined, Kept
  <2> QED BY <2>3, <2>4, OutcomesAre
<1>6. CASE This.m \in {"POP", "POPB"}
  <2>1. /\ cpu'.state = "POP_LOW" /\ cpu'.address_reduced = cpu.address_reduced
        /\ cpu'.instruction = This.m
    BY <1>1, <1>2, <1>6 DEF Kept
  <2>2. /\ (WrittenBack(ram, Wrap(cpu.sp + 2), WordIn(ram, cpu.sp)))' =
              WrittenBack(ram, Wrap(cpu.sp + 2), WordIn(ram, cpu.sp))
        /\ (WrittenBack(ram, Wrap(cpu.sp + 1), ram[cpu.sp]))' =
              WrittenBack(ram, Wrap(cpu.sp + 1), ram[cpu.sp])
    BY <1>1, <2>1 DEF Kept, WrittenBack, WordIn, Visibly
  <2>3. This.m \in WriteArgument
    BY <1>6 DEF WriteArgument
  <2>4. /\ Atomic!Store(Atomic!Pop(After, 2), This, Atomic!ReducedAddress(retired, This),
                        WordIn(ram, cpu.sp)) =
              WrittenBack(ram, Wrap(cpu.sp + 2), WordIn(ram, cpu.sp))
        /\ Atomic!Store(Atomic!Pop(After, 1), This, Atomic!ReducedAddress(retired, This),
                        ram[cpu.sp]) =
              WrittenBack(ram, Wrap(cpu.sp + 1), ram[cpu.sp])
        /\ mode_category(cpu.mode.admr) # "ADMC_NONE"
    BY <1>3, <2>3, StoresThere
  <2>5. Destined'
    BY <1>1, <2>4 DEF Destined, Kept
  <2>6. CASE This.m = "POP"
    <3>1. Completion' = (WrittenBack(ram, Wrap(cpu.sp + 2), WordIn(ram, cpu.sp)))'
      BY <2>1, <2>6 DEF Completion
    <3>2. Atomic!Stacking(retired, This, After) =
            {Atomic!Store(Atomic!Pop(After, 2), This, Atomic!ReducedAddress(retired, This),
                          Atomic!Word(retired, retired.sp))}
      BY <2>6, StackingPop
    <3> QED BY <1>3, <2>2, <2>4, <2>5, <3>1, <3>2, OutcomesAre
  <2>7. CASE This.m = "POPB"
    <3>1. Completion' = (WrittenBack(ram, Wrap(cpu.sp + 1), ram[cpu.sp]))'
      BY <2>1, <2>7 DEF Completion
    <3>2. Atomic!Stacking(retired, This, After) =
            {Atomic!Store(Atomic!Pop(After, 1), This, Atomic!ReducedAddress(retired, This),
                          retired.mem[retired.sp])}
      BY <2>7, StackingPop
    <3> QED BY <1>3, <2>2, <2>4, <2>5, <3>1, <3>2, OutcomesAre
  <2> QED BY <1>6, <2>6, <2>7
<1> QED BY <1>2, <1>4, <1>5, <1>6

\* What the instruction set says of moves.
LEMMA MovingArms ==
  ASSUME NEW s, NEW i, NEW n
  PROVE  /\ i.m = "MOV" => Atomic!Moving(s, i, n) =
              {Atomic!Store(n, i, Atomic!ReducedAddress(s, i), Atomic!Source(s, i))}
         /\ i.m = "MOVB" => Atomic!Moving(s, i, n) =
              {Atomic!StoreByte(n, i, Atomic!ReducedAddress(s, i), Low(Atomic!Source(s, i)))}
         /\ i.m = "LEA" => Atomic!Moving(s, i, n) =
              {Atomic!Store(n, i, Atomic!ReducedAddress(s, i), Atomic!ExtendedAddress(s, i))}
         /\ i.m \in CMOVES => Atomic!Moving(s, i, n) =
              {IF Taken(i.m, s.sr)
               THEN Atomic!Store(n, i, Atomic!ReducedAddress(s, i), Atomic!Source(s, i)) ELSE n}
<1>1. /\ Atomic!CMOVES = CMOVES /\ \A j : Atomic!Low(j) = Low(j)
      /\ \A m, sr : Atomic!Taken(m, sr) = Taken(m, sr)
  BY TwinWords, TwinTables, TwinFlags
<1>2. i.m \in CMOVES => i.m \notin {"MOV", "MOVB", "LEA"}
  BY Groups DEF Single
<1> QED BY <1>1, <1>2 DEF Atomic!Moving

\* The word that is to be written back.
LEMMA WritesBackWord ==
  ASSUME Ready, UNCHANGED ram, This.m \in WriteArgument \cup TwoArguments,
         cpu'.state = "WRITEBACK_LOW", Kept, cpu'.pc = cpu.pc,
         cpu'.address_reduced = cpu.address_reduced
  PROVE  /\ Destined'
         /\ Completion' = [Atomic!Store(After, This, Atomic!ReducedAddress(retired, This),
                                        cpu'.result) EXCEPT !.sr = cpu'.sr \ InternalFlags]
         /\ Atomic!Store(After, This, Atomic!ReducedAddress(retired, This), cpu'.result).sr =
              Visibly
<1>1. /\ Atomic!Store(After, This, Atomic!ReducedAddress(retired, This), cpu'.result) =
           WrittenBack(ram, cpu.sp, cpu'.result)
      /\ mode_category(cpu.mode.admr) # "ADMC_NONE"
  <2>1. \A w : Atomic!Store(State(ram, cpu.r, cpu.pc, cpu.sp, Visibly, cpu.irq_id), This,
                            Atomic!ReducedAddress(retired, This), w) = WrittenBack(ram, cpu.sp, w)
    BY StoresThere
  <2> QED BY <2>1, RetiredHere, StoresThere DEF At
<1>2. Destined'
  BY <1>1 DEF Destined, Kept
<1>3. Completion' = (WrittenBack(ram, cpu.sp, cpu.result))'
  BY <1>2, EntersWriteback DEF Ready, Kept
<1>4. (WrittenBack(ram, cpu.sp, cpu.result))' =
        [WrittenBack(ram, cpu.sp, cpu'.result) EXCEPT !.sr = cpu'.sr \ InternalFlags]
  <2>1. \A m, r, pc, sp, sr, irq, x :
          [State(m, r, pc, sp, sr, irq) EXCEPT !.sr = x] = State(m, r, pc, sp, x, irq)
    BY DEF State
  <2>2. /\ ram' = ram /\ cpu'.r = cpu.r /\ cpu'.sp = cpu.sp /\ cpu'.irq_id = cpu.irq_id
        /\ cpu'.mode = cpu.mode /\ cpu'.pc = cpu.pc
        /\ cpu'.address_reduced = cpu.address_reduced
    BY DEF Kept
  <2> DEFINE k == cpu.mode.admr.kind
             x == cpu.mode.admr.reg
             w == cpu'.result
             f == cpu'.sr \ InternalFlags
  <2>3. WrittenBack(ram, cpu.sp, w) =
          IF k # "REG"
          THEN State(PutIn(ram, cpu.address_reduced, w), cpu.r, cpu.pc, cpu.sp, Visibly, cpu.irq_id)
          ELSE IF x = "SP" THEN State(ram, cpu.r, cpu.pc, w, Visibly, cpu.irq_id)
          ELSE State(ram, [cpu.r EXCEPT ![x] = w], cpu.pc, cpu.sp, Visibly, cpu.irq_id)
    BY DEF WrittenBack
  <2>4. (WrittenBack(ram, cpu.sp, cpu.result))' =
          IF k # "REG"
          THEN State(PutIn(ram, cpu.address_reduced, w), cpu.r, cpu.pc, cpu.sp, f, cpu.irq_id)
          ELSE IF x = "SP" THEN State(ram, cpu.r, cpu.pc, w, f, cpu.irq_id)
          ELSE State(ram, [cpu.r EXCEPT ![x] = w], cpu.pc, cpu.sp, f, cpu.irq_id)
    BY <2>2 DEF WrittenBack, Visibly
  <2>5. (WrittenBack(ram, cpu.sp, cpu.result))' = [WrittenBack(ram, cpu.sp, w) EXCEPT !.sr = f]
    <3> HIDE DEF k, x, w, f
    <3> QED BY <2>1, <2>3, <2>4
  <2> QED BY <2>5
<1>5. WrittenBack(ram, cpu.sp, cpu'.result).sr = Visibly
  BY DEF WrittenBack, State
<1> QED BY <1>1, <1>2, <1>3, <1>4, <1>5

\* MOV, LEA and the conditional moves.
LEMMA ExecutesMove ==
  ASSUME Ready, UNCHANGED ram, ExecuteMove
  PROVE  Completion' \in Atomic!Outcomes(retired) /\ Destined'
<1>1. /\ This.m = cpu.instruction /\ cpu.instruction \in {"MOV", "LEA"} \cup CMOVES
      /\ This.m \in TwoArguments /\ cpu.data_extended = Atomic!Source(retired, This)
      /\ Taken(cpu.instruction, cpu.sr) <=> Taken(This.m, retired.sr)
  <2>1. /\ This.m = cpu.instruction /\ cpu.instruction \in {"MOV", "LEA"} \cup CMOVES
        /\ SourceKnown /\ Untouched
    BY ReadyIs DEF ExecuteMove, Executing
  <2>2. This.m \in TwoArguments
    BY <2>1 DEF TwoArguments
  <2> QED BY <2>1, <2>2, FlagsApart DEF SourceKnown, Untouched
<1>2. CASE cpu.instruction \in CMOVES /\ ~Taken(cpu.instruction, cpu.sr)
  <2>1. cpu' = Finish(Restartable)
    BY <1>2 DEF ExecuteMove, Proceed
  <2>2. /\ cpu'.state = "FETCH_INSTRUCTION" /\ cpu'.r = cpu.r /\ cpu'.pc = cpu.pc
        /\ cpu'.sp = cpu.sp /\ cpu'.irq_id = cpu.irq_id
        /\ cpu'.sr \ InternalFlags = cpu.sr \ InternalFlags
    BY <2>1, ReadyFields DEF Finish, Counted, Goto, CpuField
  <2>3. Completion' = After
    BY <2>2, Complete, RetiredHere DEF At, Visibly
  <2>4. Atomic!Moving(retired, This, After) = {After}
    <3>1. This.m \in CMOVES /\ ~Taken(This.m, retired.sr)
      BY <1>1, <1>2
    <3> QED BY <3>1, MovingArms
  <2> QED BY <2>2, <2>3, <2>4, Complete, OutcomesAre
<1>3. CASE ~(cpu.instruction \in CMOVES /\ ~Taken(cpu.instruction, cpu.sr))
  <2> DEFINE w == IF cpu.instruction = "LEA" THEN cpu.address_extended ELSE cpu.data_extended
  <2>1. /\ cpu'.state = "WRITEBACK_LOW" /\ Kept /\ cpu'.pc = cpu.pc /\ cpu'.result = w
        /\ cpu'.address_reduced = cpu.address_reduced /\ cpu'.sr \ InternalFlags = Visibly
    BY <1>3, ReadyFields DEF ExecuteMove, Proceed, Kept, CpuField, Visibly
  <2> HIDE DEF w
  <2>2. /\ Destined'
        /\ Completion' = Atomic!Store(After, This, Atomic!ReducedAddress(retired, This), w)
    <3> DEFINE t == Atomic!Store(After, This, Atomic!ReducedAddress(retired, This), w)
    <3>1. Destined' /\ Completion' = [t EXCEPT !.sr = Visibly] /\ t.sr = Visibly
      BY <1>1, <2>1, WritesBackWord
    <3>2. t = WrittenBack(ram, cpu.sp, w)
      BY <1>1, StoresThere, RetiredHere DEF At
    <3>3. [t EXCEPT !.sr = Visibly] = t
      <4>1. \A m, r, pc, sp, sr, irq :
              [State(m, r, pc, sp, sr, irq) EXCEPT !.sr = sr] = State(m, r, pc, sp, sr, irq)
        BY DEF State
      <4> QED BY <3>2, <4>1 DEF WrittenBack
    <3> QED BY <3>1, <3>3
  <2>3. CASE This.m = "LEA"
    <3>1. mode_category(This.admx) = "ADMC_IND"
      BY <2>3, TwinOperands DEF Ready, Ordinary, Atomic!WellFormed
    <3>2. argument_count(This.m) # 0
      BY <1>1 DEF argument_count
    <3>3. w = Atomic!ExtendedAddress(retired, This)
      BY <1>1, <2>3, <3>1, <3>2, ReadyIs DEF AddressesKnown, w
    <3>4. Atomic!Moving(retired, This, After) =
            {Atomic!Store(After, This, Atomic!ReducedAddress(retired, This),
                          Atomic!ExtendedAddress(retired, This))}
      BY <2>3, MovingArms
    <3> QED BY <2>2, <3>3, <3>4, OutcomesAre
  <2>4. CASE This.m # "LEA"
    <3>1. w = Atomic!Source(retired, This)
      BY <1>1, <2>4 DEF w
    <3>2. Atomic!Moving(retired, This, After) =
            {Atomic!Store(After, This, Atomic!ReducedAddress(retired, This),
                          Atomic!Source(retired, This))}
      <4>1. This.m = "MOV" \/ (This.m \in CMOVES /\ Taken(This.m, retired.sr))
        BY <1>1, <1>3, <2>4
      <4> QED BY <4>1, MovingArms
    <3> QED BY <2>2, <3>1, <3>2, OutcomesAre
  <2> QED BY <2>3, <2>4
<1> QED BY <1>2, <1>3

\* MOVB.
LEMMA ExecutesMoveByte ==
  ASSUME Ready, UNCHANGED ram, ExecuteMoveByte
  PROVE  Completion' \in Atomic!Outcomes(retired) /\ Destined'
<1> DEFINE b == Low(cpu.data_extended)
           x == cpu.mode.admr.reg
<1>1. /\ cpu'.state = "WRITEBACK_HIGH" /\ Kept /\ cpu'.pc = cpu.pc /\ cpu'.result = WordOf(b, b)
      /\ cpu'.address_reduced = Wrap(cpu.address_reduced - 1)
      /\ cpu'.sr \ InternalFlags = Visibly
  BY ReadyFields DEF ExecuteMoveByte, Proceed, Kept, CpuField, Visibly
<1>2. /\ This.m = "MOVB" /\ This.m \in TwoArguments
      /\ cpu.data_extended = Atomic!Source(retired, This)
      /\ argument_count(This.m) # 0 /\ This.m \notin ReadArgument
      /\ cpu.mode.admr = This.admr /\ AddressesKnown
  <2>1. This.m = "MOVB" /\ This.m \in TwoArguments
    BY ReadyIs DEF ExecuteMoveByte, Executing, TwoArguments
  <2> QED BY <2>1, ReadyIs, OneKind DEF SourceKnown, ModeKnown, argument_count
<1>3. Low(WordOf(b, b)) = b /\ High(WordOf(b, b)) = b
  <2>1. b \in BYTE
    BY Fields, Bytes DEF Ready
  <2> QED BY <2>1, Joined
<1>4. mode_category(cpu.mode.admr) # "ADMC_NONE" /\ cpu.mode.admr \in ADMR
  BY <1>2, StoresThere, Fields DEF Ready
<1>5. Destined'
  BY <1>1, <1>4 DEF Destined, Kept
<1> HIDE DEF b
<1>6. After = State(ram, cpu.r, cpu.pc, cpu.sp, Visibly, cpu.irq_id)
  BY RetiredHere DEF At
<1>7. CASE cpu.mode.admr.kind = "REG"
  <2> DEFINE w == WordOf(b, High(Value(cpu, x)))
  <2>1. cpu'.mode.admr.kind = "REG" /\ cpu'.mode.admr.reg = x /\ x # "PC"
    BY <1>1, <1>4, <1>7 DEF Kept, ADMR
  <2>2. Ahead' = ram
    <3>1. ~AtStore'
      BY <1>1, <2>1 DEF AtStore, mode_category
    <3> QED BY <3>1 DEF Ahead
  <2>3. Value(cpu', x) = Value(cpu, x)
    BY <1>1, <2>1 DEF Kept, Value
  <2>4. Completion' = (WrittenBack(Ahead, cpu.sp,
                         WordOf(Low(cpu.result), High(Value(cpu, cpu.mode.admr.reg)))))'
    BY <1>1, <2>1 DEF Completion
  <2>5. Completion' = IF x = "SP" THEN State(ram, cpu.r, cpu.pc, w, Visibly, cpu.irq_id)
                      ELSE State(ram, [cpu.r EXCEPT ![x] = w], cpu.pc, cpu.sp, Visibly, cpu.irq_id)
    BY <1>1, <1>3, <2>1, <2>2, <2>3, <2>4 DEF WrittenBack, Kept, Visibly
  <2>6. Atomic!Content(After, This.admr.reg) = Value(cpu, x)
    BY <1>2, <1>6, <2>1 DEF Atomic!Content, Value, State
  <2>7. Atomic!StoreByte(After, This, Atomic!ReducedAddress(retired, This), b) =
          Atomic!SetRegister(After, This.admr.reg, w)
    BY <1>2, <1>7, <2>6, TwinWords DEF Atomic!StoreByte
  <2>8. Atomic!SetRegister(After, This.admr.reg, w) = Completion'
    <3> HIDE DEF w
    <3> QED BY <1>2, <1>6, <2>5 DEF Atomic!SetRegister, State
  <2> QED BY <1>2, <1>5, <2>7, <2>8, MovingArms, OutcomesAre DEF b
<1>8. CASE cpu.mode.admr.kind # "REG"
  <2>1. mode_category(cpu.mode.admr) = "ADMC_IND"
    BY <1>4, <1>8 DEF mode_category, ADMR
  <2>2. cpu.address_reduced = Atomic!ReducedAddress(retired, This)
    BY <1>2, <2>1 DEF AddressesKnown
  <2>3. Wrap(cpu'.address_reduced + 1) = cpu.address_reduced
    <3>1. cpu.address_reduced \in AWord
      BY Fields DEF Ready
    <3> QED BY <1>1, <3>1, Neighbours
  <2>4. AtStore' /\ StoreAddress' = cpu.address_reduced /\ StoreByte' = b
    BY <1>1, <1>3, <2>1, <2>3 DEF AtStore, StoreAddress, StoreByte, Kept
  <2>5. Ahead' = [ram EXCEPT ![cpu.address_reduced] = b]
    BY <2>4 DEF Ahead
  <2>6. Completion' = (At(Ahead, cpu.pc, cpu.sp))'
    BY <1>1, <1>8 DEF Completion, Kept
  <2>7. Completion' = State([ram EXCEPT ![cpu.address_reduced] = b], cpu.r, cpu.pc, cpu.sp,
                            Visibly, cpu.irq_id)
    BY <1>1, <2>5, <2>6 DEF At, Visibly, Kept
  <2>8. Atomic!StoreByte(After, This, Atomic!ReducedAddress(retired, This), b) = Completion'
    <3>1. Atomic!StoreByte(After, This, Atomic!ReducedAddress(retired, This), b) =
            Atomic!PutByte(After, cpu.address_reduced, b)
      BY <1>2, <1>8, <2>2 DEF Atomic!StoreByte
    <3> QED BY <1>6, <2>7, <3>1, TwinState
  <2> QED BY <1>2, <1>5, <2>8, MovingArms, OutcomesAre DEF b
<1> QED BY <1>7, <1>8

\* An operation with one operand does not see another.
LEMMA OneOperand ==
  ASSUME NEW m \in UNARY_OPS \cup CONVERSIONS, NEW a \in AWord, NEW b \in AWord, NEW ao
  PROVE  /\ AluResults(m, a, b, ao) = AluResults(m, a, 0, ao)
         /\ AluOverflow(m, a, b, ao) = AluOverflow(m, a, 0, ao)
<1>1. CASE m \in UNARY_OPS
  BY <1>1 DEF UNARY_OPS, AluResults, AluResult, AluOverflow
<1>2. CASE m \in CONVERSIONS
  <2>1. FloatResult(m, a, b) = FloatResult(m, a, 0)
    BY <1>2, ConversionAssumption
  <2> QED BY <1>2, <2>1 DEF CONVERSIONS, AluResults, AluResult, AluOverflow
<1> QED BY <1>1, <1>2

\* The arithmetic.
LEMMA ExecutesAlu ==
  ASSUME Ready, UNCHANGED ram, ExecuteAlu
  PROVE  Completion' \in Atomic!Outcomes(retired) /\ Destined'
<1> DEFINE m == cpu.instruction
           a == cpu.data_reduced
           ao == "AO" \in cpu.sr
           over == AluOverflow(m, a, cpu.data_extended, ao)
<1>1. PICK w \in AluResults(m, a, cpu.data_extended, ao) :
        cpu' = [Restartable EXCEPT !.result = w, !.state = "WRITEBACK_LOW",
                                   !.sr = IF over THEN @ \cup {"AO"} ELSE @ \ {"AO"}]
  BY DEF ExecuteAlu, Proceed
<1> HIDE DEF over
<1>2. /\ cpu'.state = "WRITEBACK_LOW" /\ Kept /\ cpu'.pc = cpu.pc /\ cpu'.result = w
      /\ cpu'.address_reduced = cpu.address_reduced
      /\ cpu'.sr = IF over THEN Restartable.sr \cup {"AO"} ELSE Restartable.sr \ {"AO"}
  BY <1>1, ReadyFields DEF Kept, CpuField
<1>3. /\ cpu'.sr \ InternalFlags = IF over THEN Visibly \cup {"AO"} ELSE Visibly \ {"AO"}
      /\ ao <=> "AO" \in retired.sr
  <2>1. /\ Restartable.sr \ InternalFlags = cpu.sr \ InternalFlags
        /\ retired.sr = cpu.sr \ InternalFlags
    BY ReadyFields, ReadyIs DEF Untouched
  <2> QED BY <1>2, <2>1 DEF Visibly, InternalFlags
<1>4. /\ This.m = m /\ m \in Calculations /\ m \in WriteArgument \cup TwoArguments
      /\ a = Atomic!Destination(retired, This)
      /\ m \in TwoArguments => cpu.data_extended = Atomic!Source(retired, This)
      /\ m \notin TwoArguments => m \in UNARY_OPS \cup CONVERSIONS
  <2>1. This.m = m /\ m \in Calculations /\ SourceKnown /\ DestinationKnown
    BY ReadyIs DEF ExecuteAlu, Executing, Calculations
  <2>2. /\ m \in WriteArgument \cup TwoArguments
        /\ m \notin TwoArguments => m \in UNARY_OPS \cup CONVERSIONS
    BY <2>1 DEF Calculations, WriteArgument, TwoArguments
  <2> QED BY <2>1, <2>2 DEF SourceKnown, DestinationKnown
<1> DEFINE b == IF m \in TwoArguments THEN Atomic!Source(retired, This) ELSE 0
<1>5. w \in AluResults(m, a, b, ao) /\ over = AluOverflow(m, a, b, ao)
  <2>1. CASE m \in TwoArguments
    BY <1>1, <1>4, <2>1 DEF over
  <2>2. CASE m \notin TwoArguments
    <3>1. a \in AWord /\ cpu.data_extended \in AWord
      BY Fields DEF Ready
    <3>2. /\ AluResults(m, a, cpu.data_extended, ao) = AluResults(m, a, 0, ao)
          /\ AluOverflow(m, a, cpu.data_extended, ao) = AluOverflow(m, a, 0, ao)
      BY <1>4, <2>2, <3>1, OneOperand
    <3> QED BY <1>1, <2>2, <3>2 DEF over
  <2> QED BY <2>1, <2>2
<1> HIDE DEF a, b, ao
<1>6. Atomic!Calculating(retired, This, After) =
        {[Atomic!Store(After, This, Atomic!ReducedAddress(retired, This), v) EXCEPT
            !.sr = IF AluOverflow(m, a, b, ao) THEN @ \cup {"AO"} ELSE @ \ {"AO"}] :
           v \in AluResults(m, a, b, ao)}
  <2>1. /\ Atomic!INTEGER_OPS = INTEGER_OPS /\ Atomic!UNARY_OPS = UNARY_OPS
        /\ Atomic!FLOAT_OPS = FLOAT_OPS /\ Atomic!CONVERSIONS = CONVERSIONS
        /\ Atomic!TwoArguments = TwoArguments
        /\ \A p, q, r, s : Atomic!AluResults(p, q, r, s) = AluResults(p, q, r, s)
        /\ \A p, q, r, s : Atomic!AluOverflow(p, q, r, s) = AluOverflow(p, q, r, s)
    BY TwinTables, TwinOperands, TwinAlu
  <2>2. ao = ("AO" \in retired.sr)
    BY <1>3 DEF ao
  <2>3. This.m \in INTEGER_OPS \cup UNARY_OPS \cup FLOAT_OPS \cup CONVERSIONS
    BY <1>4 DEF Calculations
  <2> QED BY <1>4, <2>1, <2>2, <2>3 DEF Atomic!Calculating, b
<1> DEFINE t == Atomic!Store(After, This, Atomic!ReducedAddress(retired, This), w)
<1>7. Destined' /\ Completion' = [t EXCEPT !.sr = cpu'.sr \ InternalFlags] /\ t.sr = Visibly
  BY <1>2, <1>4, WritesBackWord
<1>8. Completion' = [t EXCEPT !.sr = IF AluOverflow(m, a, b, ao) THEN @ \cup {"AO"}
                                     ELSE @ \ {"AO"}]
  <2> HIDE DEF t
  <2> QED BY <1>3, <1>5, <1>7
<1> QED BY <1>5, <1>6, <1>7, <1>8, OutcomesAre

\* INT.
LEMMA ExecutesInt ==
  ASSUME Ready, UNCHANGED ram, ExecuteInt
  PROVE  Completion' \in Atomic!Outcomes(retired) /\ Destined'
<1>1. /\ cpu'.state = "INTERRUPT_PUSH_PC_HIGH" /\ cpu'.r = cpu.r /\ cpu'.pc = cpu.pc
      /\ cpu'.sp = cpu.sp /\ cpu'.irq_id = cpu.irq_id /\ cpu'.sr \ InternalFlags = Visibly
  BY ReadyFields DEF ExecuteInt, Proceed, Goto, Counted, CpuField, Visibly
<1>2. cpu.sp \in AWord /\ cpu.pc \in AWord
  BY Fields DEF Ready
<1>3. Completion' = Atomic!Enter(After, cpu.irq_id)
  BY <1>1, <1>2, EntersHandler, RetiredHere DEF Ready, At
<1>4. This.m = "INT" /\ retired.irq = cpu.irq_id
  BY ReadyIs DEF ExecuteInt, Executing, Untouched
<1>5. Atomic!Stacking(retired, This, After) = {Atomic!Enter(After, retired.irq)}
  BY <1>4, StackingCall
<1>6. Destined'
  BY <1>1 DEF Destined
<1> QED BY <1>3, <1>4, <1>5, <1>6, OutcomesAre

-----------------------------------------------------------------------------
(***************************************************************************)
(* Every step.                                                             *)
(***************************************************************************)
Implements == StageInv' /\ [Atomic!IsaNext]_retired

\* The processor goes on collecting, or has ended.
LEMMA Collecting ==
  ASSUME IsaInv, cpu_clock, UNCHANGED <<ram, retired>>, GatherInv',
         cpu'.state \notin Late
  PROVE  Implements
<1>1. RetiredOK' /\ CompleteInv'
  BY Known DEF RetiredOK, CompleteInv
<1>2. StoreMade'
  BY ClockStores
<1> QED BY <1>1, <1>2 DEF Implements, StageInv

\* It is complete, or it has had an effect.
LEMMA Completing ==
  ASSUME IsaInv, cpu_clock, UNCHANGED ram, retired' = IF Retires THEN Snapshot' ELSE retired,
         Commits \/ Retired, TypeInv', Reaches(Completion'), Destined'
  PROVE  Implements
<1>1. StoreMade'
  BY ClockStores
<1>2. CASE Commits
  <2>1. /\ cpu'.state \in Late /\ retired' = retired
        /\ cpu'.state # "FETCH_INSTRUCTION" /\ cpu'.state \notin Early
    BY <1>2 DEF Commits, Retires, Late
  <2>2. RetiredOK' /\ GatherInv'
    BY <2>1, Known DEF RetiredOK, GatherInv
  <2>3. CompleteInv'
    BY <2>1 DEF CompleteInv, Reaches
  <2> QED BY <1>1, <2>1, <2>2, <2>3 DEF Implements, StageInv
<1>3. CASE Retired
  <2>1. /\ cpu'.state = "FETCH_INSTRUCTION" /\ cpu.state # "FETCH_INSTRUCTION"
        /\ cpu.state # "EXCEPTION" /\ cpu'.extension_index = cpu.extension_index
        /\ cpu'.state \notin Late /\ cpu'.state \notin Early
    BY <1>3 DEF Retired, Leaves, Late, Early, Ended
  <2>2. cpu'.extension_index = 0
    BY <2>1, Known DEF RestartInv, PrefixInv
  <2>3. retired' = Snapshot'
    BY <2>1 DEF Retires
  <2>4. Completion' = Snapshot'
    BY <2>1, Complete DEF Snapshot, State
  <2>5. RetiredOK'
    <3>1. cpu' \in CpuRecord' /\ ram' \in [Address -> BYTE]
      BY DEF TypeInv, Typed, Stores, RamTypeOK
    <3> QED BY SMTT(40), <2>3, <3>1 DEF Snapshot, RetiredOK, CpuRecord, AWord
  <2>6. GatherInv'
    <3>1. Untouched'
      BY <2>3 DEF Untouched, Snapshot
    <3>2. cpu'.pc = Wrap(cpu'.pc + 0)
      BY <2>3, <2>5, WrapWord DEF RetiredOK, Snapshot, AWord
    <3>3. PrefixesRead'
      BY <2>2, <2>3, <3>2 DEF PrefixesRead, Snapshot
    <3> QED BY <2>1, <3>1, <3>3 DEF GatherInv
  <2>7. Atomic!IsaNext
    BY <2>3, <2>4 DEF Reaches, Atomic!IsaNext, Atomic!Perform, Atomic!Irq
  <2> QED BY <1>1, <2>1, <2>5, <2>6, <2>7 DEF Implements, StageInv, CompleteInv
<1> QED BY <1>2, <1>3

\* An effect is followed by the others.
LEMMA Continuing ==
  ASSUME IsaInv, cpu_clock, UNCHANGED ram, retired' = IF Retires THEN Snapshot' ELSE retired,
         Commits \/ Retired, TypeInv', cpu.state \in Late, Destined => Continues
  PROVE  Implements
<1>1. Reaches(Completion) /\ Destined
  BY Known DEF CompleteInv
<1> QED BY <1>1, Completing DEF Continues

\* FTC.
LEMMA ExecutesFetchCache ==
  ASSUME Ready, UNCHANGED ram, ExecuteFetchCache, cpu' # Stop(Restartable)
  PROVE  Completion' \in Atomic!Outcomes(retired) /\ Destined'
<1>1. cpu.instruction = "FTC" /\ cpu' = Finish(Restartable)
  <2>1. Shape
    BY Known DEF Ready
  <2> QED BY <2>1, ReadSeen DEF ExecuteFetchCache, Executing
<1> QED BY <1>1, ExecutesNop

\* The instructions that end or wait.
LEMMA GathersResting ==
  ASSUME IsaInv, ExecuteHalt \/ ExecuteSleep, UNCHANGED <<ram, retired>>
  PROVE  GatherInv' /\ cpu'.state \notin Late
<1>1. cpu.state \in Early /\ cpu'.state \in {"HALT", "SLEEP"}
      /\ cpu'.r = cpu.r /\ cpu'.sp = cpu.sp /\ cpu'.irq_id = cpu.irq_id
      /\ cpu'.instruction = cpu.instruction /\ cpu'.sr \ {"MNI"} = cpu.sr \ {"MNI"}
  BY ZenonT(60), Known, RestartableIs
     DEF ExecuteHalt, ExecuteSleep, Executing, In, Early, Proceed, Stop, Goto, Counted, CpuField
<1>2. CollectsOn /\ cpu'.state \notin Late
  BY <1>1 DEF CollectsOn, Early, Ended, Late
<1>3. Collected(cpu.state)'
  BY <1>1 DEF Collected
<1> QED BY <1>1, <1>2, <1>3, Known, Gathers

\* The state after CS_EXECUTE.
LEMMA ExecutesTo ==
  ASSUME Ready, Execute, ~(ExecuteHalt \/ ExecuteSleep \/ cpu' = Stop(Restartable))
  PROVE  cpu'.state \notin Early \cup Ended
<1>1. CASE \/ ExecuteNop \/ ExecuteJump \/ ExecuteCompare \/ ExecuteFlag \/ ExecuteInvalidate
           \/ ExecuteInfo \/ ExecuteInt
  <2>1. cpu'.state \in {"FETCH_INSTRUCTION", "INTERRUPT_PUSH_PC_HIGH"}
    <3>1. \A sr : LET c == [Restartable EXCEPT !.sr = sr]
                 IN Finish(c).state = "FETCH_INSTRUCTION"
      BY ReadyFields DEF Finish, Counted, Goto, CpuField
    <3> QED BY ZenonT(60), <1>1, <3>1, ReadyFields
            DEF ExecuteNop, ExecuteJump, ExecuteCompare, ExecuteFlag, ExecuteInvalidate,
                ExecuteInfo, ExecuteInt, Proceed, Finish, Counted, Goto, CpuField
  <2> QED BY <2>1 DEF Early, Ended
<1>2. CASE ExecuteFetchCache
  <2>1. cpu' = Finish(Restartable)
    <3>1. Shape
      BY Known DEF Ready
    <3> QED BY <1>2, <3>1, ReadSeen DEF ExecuteFetchCache
  <2> QED BY <2>1, ReadyFields DEF Finish, Counted, Goto, CpuField, Early, Ended
<1>3. CASE ExecuteMove
  BY ZenonT(60), <1>3, ReadyFields DEF ExecuteMove, Proceed, Finish, Counted, Goto, CpuField, Early, Ended
<1>4. CASE ExecuteCall \/ ExecuteMoveByte \/ ExecutePush \/ ExecutePop
  BY ZenonT(60), <1>4, ReadyFields DEF ExecuteCall, ExecuteMoveByte, ExecutePush, ExecutePop, Proceed,
                           CpuField, Early, Ended
<1>5. CASE ExecuteAlu
  BY <1>5, ReadyFields DEF ExecuteAlu, Proceed, CpuField, Early, Ended
<1> QED BY <1>1, <1>2, <1>3, <1>4, <1>5 DEF Execute

\* What an instruction does first.
LEMMA ExecutesOn ==
  ASSUME IsaInv, Ordinary(This), UNCHANGED ram, Execute,
         retired' = IF Retires THEN Snapshot' ELSE retired, TypeInv'
  PROVE  Implements
<1>1. cpu.state = "EXECUTE" /\ Ready /\ cpu_clock
  BY DEF Execute, Ready, cpu_clock, Executing, In, ExecuteNop, ExecuteJump, ExecuteCall,
         ExecuteMove, ExecuteMoveByte, ExecutePush, ExecutePop, ExecuteCompare, ExecuteFlag,
         ExecuteAlu, ExecuteInt, ExecuteHalt, ExecuteSleep, ExecuteInvalidate,
         ExecuteFetchCache, ExecuteInfo
<1>2. CASE ExecuteHalt \/ ExecuteSleep \/ cpu' = Stop(Restartable)
  <2>1. cpu'.state # "FETCH_INSTRUCTION" /\ cpu'.state \notin Late
    <3>1. CASE cpu' = Stop(Restartable)
      BY <1>1, <3>1, ReadyFields DEF Stop, CpuField, Late, Early
    <3>2. CASE ExecuteHalt \/ ExecuteSleep
      BY <1>1, <3>2, ReadyFields DEF ExecuteHalt, ExecuteSleep, Proceed, Stop, Goto, Counted,
                                     CpuField, Late, Early, Ended
    <3> QED BY <1>2, <3>1, <3>2
  <2>2. retired' = retired
    BY <2>1 DEF Retires
  <2>3. GatherInv'
    BY <1>2, <2>2, GathersResting, GathersWaiting
  <2> QED BY <1>1, <2>1, <2>2, <2>3, Collecting
<1>3. CASE ~(ExecuteHalt \/ ExecuteSleep \/ cpu' = Stop(Restartable))
  <2>1. Completion' \in Atomic!Outcomes(retired) /\ Destined'
    <3>1. ASSUME ExecuteNop \/ ExecuteInvalidate
          PROVE  Completion' \in Atomic!Outcomes(retired) /\ Destined'
      BY <1>1, <3>1, ExecutesNop DEF ExecuteNop, ExecuteInvalidate, Executing, Proceed
    <3> QED BY <1>1, <1>3, <3>1, ExecutesJump, ExecutesCall, ExecutesMove, ExecutesMoveByte,
               ExecutesPush, ExecutesPop, ExecutesFlag, ExecutesAlu, ExecutesInt, ExecutesInfo,
               ExecutesFetchCache DEF Execute
  <2>2. Commits \/ Retired
    <3>1. Settles \/ Commits \/ Retired
      BY Known, Executes
    <3>2. ~Settles
      BY <1>1, <1>3, ExecutesTo DEF Settles
    <3> QED BY <3>1, <3>2
  <2> QED BY <1>1, <2>1, <2>2, Completing DEF Reaches
<1> QED BY <1>2, <1>3

\* An interrupt is entered as if the instruction under way had not begun.
LEMMA AcceptingImplements ==
  ASSUME IsaInv, AcceptInterrupt, UNCHANGED ram,
         retired' = IF Retires THEN Snapshot' ELSE retired
  PROVE  Implements
<1> USE Known
<1>1. /\ ~cpu.running /\ ~Maskable /\ cpu.state \notin {"HALT", "EXCEPTION"}
      /\ mailbox.state = "DS_INTERRUPT" /\ cpu_clock
  BY DEF AcceptInterrupt, Interrupted, cpu_clock
<1>2. /\ ram = retired.mem /\ cpu.r = retired.r /\ cpu.sr \ InternalFlags = retired.sr
      /\ cpu.previous_pc = retired.pc /\ cpu.previous_sp = retired.sp
  BY <1>1, RestartInvClean DEF RestartIsClean, Created
<1>3. mailbox.address = INT_CLOCK
  BY <1>1 DEF StoreMade
<1>4. /\ cpu'.state = "INTERRUPT_PUSH_PC_HIGH" /\ cpu'.r = retired.r /\ cpu'.pc = retired.pc
      /\ cpu'.sp = retired.sp /\ cpu'.irq_id = INT_CLOCK
      /\ cpu'.sr \ InternalFlags = retired.sr
  BY <1>2, <1>3 DEF AcceptInterrupt, Shape, CpuField
<1>5. retired' = retired
  BY <1>4 DEF Retires
<1>6. Completion' =
        Atomic!Enter(State(ram, retired.r, retired.pc, retired.sp, retired.sr, INT_CLOCK),
                     INT_CLOCK)
  <2>1. cpu'.sp \in AWord /\ cpu'.pc \in AWord
    BY <1>4 DEF RetiredOK
  <2> QED BY <1>4, <2>1, EntersHandler
<1>7. State(ram, retired.r, retired.pc, retired.sp, retired.sr, INT_CLOCK) =
        [retired EXCEPT !.irq = INT_CLOCK]
  BY <1>2 DEF State, RetiredOK
<1>8. "MI" \notin retired.sr
  BY <1>1, <1>2 DEF Maskable
<1>9. CompleteInv'
  <2>1. Destined'
    BY <1>4 DEF Destined
  <2> QED BY <1>5, <1>6, <1>7, <1>8, <2>1 DEF CompleteInv, Reaches
<1>10. RetiredOK' /\ GatherInv'
  BY <1>4, <1>5 DEF RetiredOK, GatherInv, Early
<1>11. StoreMade'
  BY <1>1, ClockStores
<1> QED BY <1>5, <1>9, <1>10, <1>11 DEF Implements, StageInv

\* The steps before the first effect.
LEMMA GatheringImplements ==
  ASSUME IsaInv, InRam, UNCHANGED ram, retired' = IF Retires THEN Snapshot' ELSE retired,
         \/ FetchInstruction \/ FetchAddressingModes \/ FetchArgumentBytes \/ ComputeAddress
         \/ FetchSourceImmediate \/ FetchSourceRegister \/ FetchSource \/ FetchSourceHigh
         \/ FetchDestinationRegister \/ FetchDestinationNone
         \/ FetchDestination \/ FetchDestinationHigh
  PROVE  Implements
<1>1. cpu_clock
  BY DEF cpu_clock
<1>2. CASE FetchInstruction
  <2>1. cpu.state = "FETCH_INSTRUCTION"
    BY <1>2 DEF FetchInstruction, In
  <2>2. retired' = retired
    BY <2>1 DEF Retires
  <2>3. cpu'.state \notin Late
    <3>1. cpu' = Opened(ReadByte(cpu.pc)) \/ cpu' = Stop(AtBase)
      BY <1>2, Known, ReadSeen DEF FetchInstruction
    <3>2. DOMAIN AtBase = CpuField /\ AtBase.state = "FETCH_INSTRUCTION"
      BY <2>1, Known, RestartableIs DEF AtBase, CpuField
    <3>3. cpu'.state \in {"FETCH_INSTRUCTION", "EXCEPTION", "EXECUTE", "FETCH_ADDRESSING_MODES"}
      BY <3>1, <3>2 DEF Opened, Stop, CpuField
    <3> QED BY <3>3 DEF Late, Early, Ended
  <2> QED BY <1>1, <1>2, <2>2, <2>3, GathersOpcode, Collecting
<1>3. CASE ~FetchInstruction
  <2>1. Settles
    BY <1>3, Known, Addressing, FetchingSource, FetchingDestination
  <2>2. cpu'.state \notin Late /\ cpu'.state # "FETCH_INSTRUCTION"
    BY <2>1 DEF Settles, Late, Early, Ended
  <2>3. retired' = retired
    BY <2>2 DEF Retires
  <2>4. GatherInv'
    BY <1>3, <2>3, GathersMode, GathersBytes, GathersAddress, GathersSourceHere, GathersSourceLow,
       GathersSourceHigh, GathersDestinationHere, GathersDestinationLow, GathersDestinationHigh
  <2> QED BY <1>1, <2>2, <2>3, <2>4, Collecting
<1> QED BY <1>2, <1>3

\* The steps from the first effect on.
LEMMA LateImplements ==
  ASSUME IsaInv, InRam, UNCHANGED ram, retired' = IF Retires THEN Snapshot' ELSE retired, TypeInv',
         \/ WritebackLow \/ WritebackLowRegister \/ WritebackLowNone
         \/ WritebackHigh \/ WritebackHighRegister
         \/ PushHigh \/ PushLow \/ PopLow \/ PopHigh \/ PopsrLow \/ PopsrHigh
         \/ InterruptPushPcHigh \/ InterruptPushPcLow
         \/ InterruptFetchIrqVectorLow \/ InterruptFetchIrqVectorHigh
  PROVE  Implements
<1>1. cpu_clock
  BY DEF cpu_clock
<1>2. cpu.state \in Late
  BY Known DEF Shape, Late, Early, Ended, In, WritebackLow, WritebackLowRegister, WritebackLowNone,
               WritebackHigh, WritebackHighRegister, PushHigh, PushLow, PopLow, PopHigh, PopsrLow,
               PopsrHigh, InterruptPushPcHigh, InterruptPushPcLow, InterruptFetchIrqVectorLow,
               InterruptFetchIrqVectorHigh
<1>3. Commits \/ Retired
  BY Known, WritesBack, Pushes, Pops
<1>4. Destined => Continues
  BY ContinuesWriteback, ContinuesRegister, ContinuesPush, ContinuesPopLow, ContinuesPopHigh,
     ContinuesPopsr, ContinuesVector
<1> QED BY <1>1, <1>2, <1>3, <1>4, Continuing

\* A clock.
LEMMA ClocksImplement ==
  ASSUME IsaInv, InRam, CpuClock, TypeInv', cpu.state = "EXECUTE" => Ordinary(This)
  PROVE  Implements
<1>1. /\ cpu_clock /\ UNCHANGED ram /\ retired' = IF Retires THEN Snapshot' ELSE retired
  BY DEF CpuClock
<1>2. CASE ClockBegin \/ DropInterrupt \/ SleepClock
  <2>1. cpu'.state = cpu.state
    BY <1>2, Known DEF ClockBegin, DropInterrupt, SleepClock, Proceed, Stop, Shape, CpuField
  <2>2. retired' = retired
    BY <1>1, <2>1 DEF Retires
  <2>3. GatherInv' /\ CompleteInv' /\ RetiredOK' /\ StoreMade'
    BY <1>1, <1>2, <2>2, Known, GathersBeginning, ClockStores DEF RetiredOK
  <2> QED BY <2>2, <2>3 DEF Implements, StageInv
<1>3. CASE Execute
  <2>1. cpu.state = "EXECUTE"
    BY <1>3 DEF Execute, Executing, In, ExecuteNop, ExecuteJump, ExecuteCall,
         ExecuteMove, ExecuteMoveByte, ExecutePush, ExecutePop, ExecuteCompare, ExecuteFlag,
         ExecuteAlu, ExecuteInt, ExecuteHalt, ExecuteSleep, ExecuteInvalidate,
         ExecuteFetchCache, ExecuteInfo
  <2> QED BY <1>1, <1>3, <2>1, ExecutesOn
<1> QED BY <1>1, <1>2, <1>3, AcceptingImplements, GatheringImplements, LateImplements DEF cpu_clock

\* Nothing an instruction works with has changed.
LEMMA Unmoved ==
  ASSUME IsaInv, UNCHANGED <<ram, cpu, retired>>
  PROVE  RetiredOK' /\ GatherInv' /\ CompleteInv'
<1>1. WorkKept
  BY DEF WorkKept
<1> QED BY <1>1, Known, Waits DEF RetiredOK

\* The store the control is at leads where it would lead without it.
LEMMA StoresImplement ==
  ASSUME IsaInv, MemoryStore
  PROVE  Implements
<1> USE Known
<1>1. /\ mailbox.state = "DS_STORE" /\ mailbox.processed = 0
      /\ mailbox' = [mailbox EXCEPT !.processed = 1]
      /\ ram' = [ram EXCEPT ![mailbox.address] = mailbox.data[0]]
      /\ UNCHANGED <<cpu, retired>>
  BY Own DEF MemoryStore, Between, Pending, Done, ram_write, mailbox, TypeInv, Stores
<1>2. AtStore /\ mailbox.address = StoreAddress /\ mailbox.data[0] = StoreByte
  BY <1>1 DEF CacheInv, MailInv, StoreMade
<1>3. /\ AtStore' /\ StoreAddress' = StoreAddress /\ StoreByte' = StoreByte
      /\ StoreAddress \in Address
  BY <1>1, <1>2, StoreTyped DEF AtStore, StoreAddress, StoreByte, Below
<1>4. ram' = Ahead /\ Ahead' = Ahead /\ ram'[StoreAddress] = StoreByte
  BY <1>1, <1>2, <1>3 DEF Ahead
<1>5. StoreMade'
  <2>1. /\ mailbox'.state = "DS_STORE" /\ mailbox'.address = mailbox.address
        /\ mailbox'.data = mailbox.data
    BY <1>1, Own DEF Mailbox, TypeInv, Stores
  <2> QED BY <1>2, <1>3, <1>4, <2>1 DEF StoreMade
<1>6. cpu.state \in StoreState /\ cpu.state \in Late
  BY <1>2 DEF AtStore, StoreState, Late, Early, Ended, CpuState
<1>7. Completion' = Completion
  BY <1>1, <1>4, <1>6 DEF Completion, StoreState, WrittenBack, At, Visibly, Below
<1>8. CompleteInv' /\ RetiredOK' /\ GatherInv'
  BY <1>1, <1>6, <1>7 DEF CompleteInv, Destined, Reaches, RetiredOK, GatherInv, Late
<1> QED BY <1>1, <1>5, <1>8 DEF Implements, StageInv

\* The memory and the interrupts.
LEMMA AnswersImplement ==
  ASSUME IsaInv, InRam, Answer \/ Interrupt
  PROVE  Implements
<1> USE Known
<1>1. DevicesTypeOK /\ mailbox \in Mailbox
  BY Own DEF TypeInv, Stores
<1>2. CASE MemoryFetch
  <2>1. /\ mailbox.state = "DS_FETCH" /\ UNCHANGED <<ram, cpu, retired>>
        /\ mailbox'.state = mailbox.state
    BY <1>1, <1>2, Own DEF MemoryFetch, Between, Pending, DoneWith, mailbox, Mailbox
  <2>2. ~AtStore'
    BY <2>1 DEF StoreMade, AtStore
  <2> QED BY <2>1, <2>2, Unmoved DEF StoreMade, StageInv, Implements
<1>3. CASE MemoryOpen
  <2>1. ~(mailbox.state = "DS_STORE" /\ OpenWrite(mailbox.address))
    BY DEF InRam, OpenWrite, Slave
  <2>2. mailbox.state = "DS_FETCH" /\ UNCHANGED <<ram, cpu, retired>>
    BY <1>3, <2>1 DEF MemoryOpen, Between, Pending, mailbox
  <2>3. mailbox'.state = "DS_IDLE"
    BY <1>1, <1>3, Posted DEF MemoryOpen, Mailbox
  <2>4. ~AtStore'
    BY <2>2 DEF StoreMade, AtStore
  <2> QED BY <2>2, <2>3, <2>4, Unmoved DEF StoreMade, StageInv, Implements
<1>4. CASE Interrupt
  <2>1. /\ mailbox' = [mailbox EXCEPT !.state = "DS_INTERRUPT", !.address = INT_CLOCK]
        /\ mailbox.processed = 0 /\ UNCHANGED <<ram, cpu, retired>>
    BY <1>1, <1>4, Posted DEF Interrupt
  <2>2. mailbox'.state = "DS_INTERRUPT" /\ mailbox'.address = INT_CLOCK /\ mailbox'.processed = 0
    BY <1>1, <2>1 DEF Mailbox
  <2> QED BY <2>1, <2>2, Unmoved DEF StoreMade, StageInv, Implements
<1> QED BY <1>2, <1>3, <1>4, StoresImplement DEF Answer

\* The one access at a time.
LEMMA AccessNext ==
  ASSUME TypeInv, AccessInv, [Next]_vars
  PROVE  AccessInv'
<1>1. DevicesTypeOK /\ mailbox \in Mailbox
  BY Own DEF TypeInv, Stores
<1>2. CASE UNCHANGED vars
  BY <1>2 DEF vars, AccessInv, mailbox, AtStore, ReadsFrom, Cached, Caching, Hit
<1>3. CASE CpuClock
  BY <1>3, ClocksAsk DEF CpuClock
<1>4. ASSUME UNCHANGED <<cpu, cache>>
      PROVE  /\ AtStore' <=> AtStore
             /\ \A a : (ReadsFrom(a) /\ ~Cached(a))' <=> (ReadsFrom(a) /\ ~Cached(a))
  BY <1>4 DEF AtStore, ReadsFrom, Cached, Caching, Hit
<1>5. CASE MemoryFetch \/ MemoryStore
  <2>1. /\ mailbox.state \in {"DS_FETCH", "DS_STORE"} /\ mailbox'.state = mailbox.state
        /\ mailbox'.address = mailbox.address /\ UNCHANGED <<cpu, cache>>
    BY <1>1, <1>5, Own DEF MemoryFetch, MemoryStore, Between, Pending, Done, DoneWith, mailbox,
                           Mailbox
  <2> QED BY <1>4, <2>1 DEF AccessInv
<1>6. CASE MemoryOpen
  <2>1. /\ mailbox.state \in {"DS_FETCH", "DS_STORE"} /\ UNCHANGED <<cpu, cache>>
        /\ mailbox' = [mailbox EXCEPT !.processed = 1, !.state = "DS_IDLE"]
    BY <1>1, <1>6, Posted DEF MemoryOpen, Between, Pending, mailbox
  <2>2. mailbox'.state = "DS_IDLE" /\ mailbox'.address = mailbox.address
    BY <1>1, <2>1 DEF Mailbox
  <2> QED BY <1>4, <2>1, <2>2 DEF AccessInv
<1>7. CASE Interrupt
  <2>1. /\ mailbox.processed = 0
        /\ mailbox' = [mailbox EXCEPT !.state = "DS_INTERRUPT", !.address = INT_CLOCK]
    BY <1>1, <1>7, Posted DEF Interrupt
  <2>2. mailbox'.state = "DS_INTERRUPT" /\ mailbox'.processed = 0
    BY <1>1, <2>1 DEF Mailbox
  <2> QED BY <2>2 DEF AccessInv
<1> QED BY <1>2, <1>3, <1>5, <1>6, <1>7 DEF Next, Answer

\* It begins where the instruction set begins.
LEMMA IsaStart == Init => IsaInv /\ Atomic!IsaInit
<1> SUFFICES ASSUME Init
             PROVE  IsaInv /\ Atomic!IsaInit
  OBVIOUS
<1>1. CacheInv /\ RestartInv /\ TypeInv
  BY CacheInvInit, RestartInit, TypeInvInit
<1>2. mailbox.state = "DS_IDLE" /\ mailbox.processed = 0
  BY Own DEF Init, DevicesInit, device_create, mailbox, Device
<1>3. /\ cpu.state = "FETCH_INSTRUCTION" /\ cpu.extension_index = 0
      /\ cpu.r = [x \in {"R0", "R1", "R2", "R3"} |-> 0] /\ cpu.pc = 0
      /\ cpu.sp = SEGMENT_STACK + 1 /\ cpu.sr = {} /\ cpu.irq_id = 0
      /\ retired = Snapshot /\ ram \in Images
  BY DEF Init, cpu_create
<1>4. AccessInv
  BY <1>2 DEF AccessInv
<1>5. RetiredOK
  <2>1. cpu \in CpuRecord /\ ram \in [Address -> BYTE]
    BY <1>1 DEF TypeInv, Typed, Stores, RamTypeOK
  <2> QED BY <1>3, <2>1 DEF Snapshot, RetiredOK, CpuRecord
<1>6. GatherInv
  <2>1. Untouched
    BY <1>3 DEF Untouched, Snapshot
  <2>2. cpu.pc = Wrap(cpu.pc + 0) /\ retired.pc = cpu.pc
    BY <1>3, <1>5, WrapWord DEF RetiredOK, Snapshot, AWord
  <2>3. PrefixesRead
    BY <1>3, <2>2 DEF PrefixesRead
  <2> QED BY <1>3, <2>1, <2>3 DEF GatherInv, Early
<1>7. StoreMade /\ CompleteInv
  BY <1>2, <1>3 DEF StoreMade, CompleteInv, AtStore, Late
<1>8. Atomic!IsaInit
  BY <1>3 DEF Snapshot, Atomic!IsaInit
<1> QED BY <1>1, <1>4, <1>5, <1>6, <1>7, <1>8 DEF IsaInv, StageInv

\* The hypotheses as they are at one step.
LEMMA IsaStep ==
  ASSUME IsaInv, [Next]_vars, InRam, cpu.state = "EXECUTE" => Ordinary(This),
         [mailbox.state # "DS_STORE" /\ mailbox'.state = "DS_STORE" => Caching]_vars,
         [MemoryOpen /\ mailbox.state = "DS_FETCH" => OffRam(mailbox.address)]_vars,
         [AcceptInterrupt => cpu.extension_index = 0]_vars
  PROVE  IsaInv' /\ [Atomic!IsaNext]_retired
<1> USE Known
<1>1. TypeInv' /\ AccessInv'
  BY TypeInvStep, AccessNext
<1>2. CASE UNCHANGED vars
  <2>1. CacheInv'
    <3>1. MailInv'
      BY <1>2 DEF vars, CacheInv, MailInv, ram_read, mailbox, AtStore
    <3>2. LineInv' /\ CacheCoherent'
      BY <1>2, LinesKept DEF vars
    <3> QED BY <1>1, <3>1, <3>2 DEF CacheInv
  <2>2. RestartInv'
    BY <1>2 DEF vars, RestartInv, Shape, FetchInv, EarlyInv, LateInv, PrefixInv, StoreInv,
           Visible, BaseKept, StorePending, Created, mailbox
  <2>3. StageInv'
    <3>1. RetiredOK' /\ GatherInv' /\ CompleteInv'
      BY <1>2, Unmoved DEF vars
    <3>2. StoreMade'
      BY <1>2 DEF vars, StoreMade, mailbox, AtStore, StoreAddress, StoreByte, Below
    <3> QED BY <3>1, <3>2 DEF StageInv
  <2> QED BY <1>1, <1>2, <2>1, <2>2, <2>3 DEF vars, IsaInv
<1>3. CASE Next /\ ~UNCHANGED vars
  <2>1. CacheInv'
    BY <1>1, <1>3, ClocksKeep, AnswersKeep DEF Next, CpuClock, CacheInv
  <2>2. RestartInv'
    BY <1>3, RestartNext
  <2>3. Implements
    BY <1>1, <1>3, ClocksImplement, AnswersImplement DEF Next
  <2> QED BY <1>1, <2>1, <2>2, <2>3 DEF IsaInv, Implements
<1> QED BY <1>2, <1>3

\* The processor implements its instruction set.  Whatever the memory holds at
\* the start, the capacity of the cache and the results of the arithmetic are,
\* however long the memory takes and wherever interrupts come, the states
\* between instructions are those of executing the instructions one after the
\* other, each in one step, with interrupts between them (cpu_clock).  This is
\* so of the programs that store through the cache (StoresCached), read no open
\* bus next to the RAM (OpenReadsApart), are not interrupted behind an EXT
\* prefix (NoPrefixInterrupted), keep to the RAM and execute ordinary
\* instructions.
THEOREM ProcessorImplementsIsa ==
  /\ Spec /\ StoresCached /\ OpenReadsApart /\ NoPrefixInterrupted
  /\ KeepsToRam /\ OrdinaryInstructions
  => ImplementsIsa
<1>1. /\ IsaInv /\ [Next]_vars /\ InRam /\ (cpu.state = "EXECUTE" => Ordinary(This))
      /\ [mailbox.state # "DS_STORE" /\ mailbox'.state = "DS_STORE" => Caching]_vars
      /\ [MemoryOpen /\ mailbox.state = "DS_FETCH" => OffRam(mailbox.address)]_vars
      /\ [AcceptInterrupt => cpu.extension_index = 0]_vars
      => IsaInv' /\ [Atomic!IsaNext]_retired
  BY IsaStep
<1>2. Init => IsaInv /\ Atomic!IsaInit
  BY IsaStart
<1> QED BY <1>1, <1>2, PTL DEF Spec, StoresCached, OpenReadsApart, NoPrefixInterrupted,
                               KeepsToRam, OrdinaryInstructions, ImplementsIsa, Atomic!IsaSpec
=============================================================================

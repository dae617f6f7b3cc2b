-------------------------------- MODULE Cpu --------------------------------
(***************************************************************************)
(* The processor.  cpu_clock checks for an interrupt and then runs the     *)
(* control states, one after the other by goto, until one of them ends the *)
(* clock; a memory access that is not answered yet ends it and is repeated *)
(* at the next clock.  One action is one control state; running says that  *)
(* the clock is under way, and between clocks the other devices act.       *)
(*                                                                         *)
(* In CS_HALT and CS_EXCEPTION the run loop stops, so they have no action. *)
(***************************************************************************)
EXTENDS Devices, Cache, Encoding

\* bound: the instruction counter, of which HWINSTR reads a word, counts
\* modulo this
CONSTANT COUNT_RANGE

ASSUME CountAssumption == COUNT_RANGE \in 3 .. WORDS

\* The functions of the number formats return words.
ASSUME FloatAssumption ==
  \A m \in FLOAT_OPS \cup CONVERSIONS : \A a, b \in AWord : FloatResult(m, a, b) \in AWord

\* A conversion has one operand.
ASSUME ConversionAssumption ==
  \A m \in CONVERSIONS : \A a, b \in AWord : FloatResult(m, a, b) = FloatResult(m, a, 0)

VARIABLE cpu

CpuState == {"FETCH_INSTRUCTION", "FETCH_ADDRESSING_MODES",
              "FETCH_ARGUMENT_BYTES", "COMPUTE_ADDRESS", "FETCH_SOURCE",
              "FETCH_SOURCE_HIGH", "FETCH_DESTINATION",
              "FETCH_DESTINATION_HIGH", "EXECUTE", "WRITEBACK_LOW",
              "WRITEBACK_HIGH", "PUSH_LOW", "PUSH_HIGH", "POP_LOW", "POP_HIGH",
              "POPSR_LOW", "POPSR_HIGH", "INTERRUPT_PUSH_PC_HIGH",
              "INTERRUPT_PUSH_PC_LOW", "INTERRUPT_FETCH_IRQ_VECTOR_LOW",
              "INTERRUPT_FETCH_IRQ_VECTOR_HIGH", "HALT", "SLEEP", "EXCEPTION"}

RAW == 5               \* argument_data_raw: "the max amount of memory"

\* argument_data_raw_index is not counted beyond RAW + 1.
CpuRecord ==
  [state : CpuState, running : BOOLEAN,
   r : [{"R0", "R1", "R2", "R3"} -> AWord], pc : AWord, sp : AWord,
   sr : SUBSET Flag, executed : 0 .. COUNT_RANGE - 1,
   instruction : Mnemonic \cup {"ILLEGAL"}, extension_index : Nat,
   mode : [admr : ADMR, admx : ADMX],
   raw : [0 .. RAW - 1 -> BYTE], raw_index : 0 .. RAW + 1,
   previous_pc : AWord, previous_sp : AWord,
   address_reduced : AWord, address_extended : AWord,
   data_reduced : AWord, data_extended : AWord,
   result : AWord, irq_id : AWord]

CpuTypeOK == cpu \in CpuRecord

cpu_create ==
  cpu = [state |-> "FETCH_INSTRUCTION", running |-> FALSE,
         r |-> [x \in {"R0", "R1", "R2", "R3"} |-> 0],
         pc |-> 0, sp |-> SEGMENT_STACK + 1, sr |-> {}, executed |-> 0,
         instruction |-> "NOP", extension_index |-> 0,
         mode |-> [admr |-> [kind |-> "NONE", reg |-> "R0"],
                   admx |-> [kind |-> "NONE", reg |-> "R0"]],
         raw |-> [i \in 0 .. RAW - 1 |-> 0], raw_index |-> 0,
         previous_pc |-> 0, previous_sp |-> 0,
         address_reduced |-> 0, address_extended |-> 0,
         data_reduced |-> 0, data_extended |-> 0, result |-> 0, irq_id |-> 0]

Value(c, x)  == CASE x = "SP" -> c.sp [] x = "PC" -> c.pc [] OTHER -> c.r[x]
Assign(c, x, w) == IF x = "SP" THEN [c EXCEPT !.sp = w] ELSE [c EXCEPT !.r[x] = w]

\* Moves of the control: c is the processor after the state's assignments.
In(s)      == cpu.running /\ cpu.state = s
Goto(c, s) == [c EXCEPT !.state = s]
Stop(c)    == [c EXCEPT !.running = FALSE]
Counted(c) == [c EXCEPT !.executed = (@ + 1) % COUNT_RANGE]
Finish(c)  == Goto(Counted(c), "FETCH_INSTRUCTION")

\* MNI is 0 while an instruction can still be restarted and 1 from its first
\* effect on: every state sets it.
Restartable == [cpu EXCEPT !.sr = @ \ {"MNI"}]
Committed   == [cpu EXCEPT !.sr = @ \cup {"MNI"}]

Proceed(c) == cpu' = c /\ UNCHANGED <<dev, cache>>
-----------------------------------------------------------------------------
(***************************************************************************)
(* Memory accesses.  Both calls take the processor as it is when the call  *)
(* fails, c, and as it goes on when the call succeeds, d.                  *)
(***************************************************************************)
mailbox == dev["CPU"]
Post(m) == dev' = [dev EXCEPT !["CPU"] = m]
Release == Post([mailbox EXCEPT !.state = "DS_IDLE", !.processed = 0])
Caching == "NC" \notin cpu.sr
\* Faulty: looks into the cache for an access without cache.
Cached_Always(a) == Hit(a)

Cached(a) == Caching /\ Hit(a)

\* The byte a successful read returns.
ReadByte(a) == IF Cached(a) THEN CachedByte(a) ELSE mailbox.data[0]

ReadHit(a, d) == Cached(a) /\ Proceed(d)

\* The whole line of the reply goes to the cache.
ReadReplied(a, d) ==
  /\ ~Cached(a) /\ mailbox.processed = 1 /\ mailbox.address = a
  /\ Release /\ cpu' = d
  /\ cache' = IF Caching THEN cache_write(a, mailbox.data, LINE) ELSE cache

\* A request is made when the mailbox is idle, or has the answer to another.
ReadRequest(a, c) ==
  /\ ~Cached(a)
  /\ IF mailbox.processed = 1 THEN mailbox.address # a ELSE mailbox.state = "DS_IDLE"
  /\ Post([mailbox EXCEPT !.state = "DS_FETCH", !.processed = 0, !.address = a])
  /\ cpu' = Stop(c) /\ UNCHANGED cache

Waiting(c) ==
  /\ mailbox.processed = 0 /\ mailbox.state # "DS_IDLE"
  /\ Proceed(Stop(c))

cpu_read_memory(a, c, d) ==
  \/ ReadHit(a, d) \/ ReadReplied(a, d) \/ ReadRequest(a, c)
  \/ ~Cached(a) /\ Waiting(c)

\* A write does not compare the address of the answer.
WriteReplied(d) ==
  mailbox.processed = 1 /\ Release /\ cpu' = d /\ UNCHANGED cache

\* Faulty: the cache is not written.
WriteRequest_Uncached(a, b, c) ==
  /\ mailbox.processed = 0 /\ mailbox.state = "DS_IDLE"
  /\ Post([mailbox EXCEPT !.state = "DS_STORE", !.address = a, !.data = ByteLine(b)])
  /\ cpu' = Stop(c) /\ UNCHANGED cache

\* The byte goes to the cache at once and to the bus.
WriteRequest(a, b, c) ==
  /\ mailbox.processed = 0 /\ mailbox.state = "DS_IDLE"
  /\ Post([mailbox EXCEPT !.state = "DS_STORE", !.address = a, !.data = ByteLine(b)])
  /\ cache' = IF Caching THEN cache_write(a, ByteLine(b), 1) ELSE cache
  /\ cpu' = Stop(c)

cpu_write_memory(a, b, c, d) ==
  WriteReplied(d) \/ WriteRequest(a, b, c) \/ Waiting(c)
-----------------------------------------------------------------------------
(***************************************************************************)
(* The beginning of a clock.                                               *)
(***************************************************************************)
ClockBegin ==
  /\ ~cpu.running /\ cpu.state \notin {"HALT", "EXCEPTION"}
  /\ mailbox.state # "DS_INTERRUPT"
  /\ Proceed([cpu EXCEPT !.running = TRUE])

Maskable == "MI" \in cpu.sr \/ "MNI" \in cpu.sr

Interrupted ==
  /\ ~cpu.running /\ cpu.state \notin {"HALT", "EXCEPTION"}
  /\ mailbox.state = "DS_INTERRUPT"
  /\ Post([mailbox EXCEPT !.state = "DS_IDLE"])
  /\ UNCHANGED cache

\* Faulty: the program counter is not set back.
AcceptInterrupt_KeepPc ==
  /\ Interrupted /\ ~Maskable
  /\ cpu' = [cpu EXCEPT !.running = TRUE, !.state = "INTERRUPT_PUSH_PC_HIGH",
                        !.sp = cpu.previous_sp, !.irq_id = mailbox.address]

\* The instruction under way is abandoned and will be restarted.
AcceptInterrupt ==
  /\ Interrupted /\ ~Maskable
  /\ cpu' = [cpu EXCEPT !.running = TRUE, !.state = "INTERRUPT_PUSH_PC_HIGH",
                        !.pc = cpu.previous_pc, !.sp = cpu.previous_sp,
                        !.irq_id = mailbox.address]

\* A masked interrupt is lost.
DropInterrupt ==
  /\ Interrupted /\ Maskable
  /\ cpu' = [cpu EXCEPT !.running = TRUE]
-----------------------------------------------------------------------------
(***************************************************************************)
(* Fetching and decoding.                                                  *)
(***************************************************************************)
\* previous_pc and previous_sp stay at the base of the instruction while its
\* prefixes are fetched.
AtBase ==
  IF cpu.extension_index = 0
  THEN [Restartable EXCEPT !.previous_pc = cpu.pc, !.previous_sp = cpu.sp]
  ELSE Restartable

\* The processor when byte b has been fetched as (part of) an opcode.
Opened(b) ==
  LET c == [AtBase EXCEPT !.sr = IF b \in NoCache THEN @ \cup {"NC"} ELSE @ \ {"NC"}]
      m == Decoded(cpu.extension_index, b)
  IN IF Opcode[1][b] = "EXT"
     THEN Stop([c EXCEPT !.pc = Wrap(@ + 1), !.extension_index = @ + 1,
                         !.instruction = "EXT"])
     ELSE IF m = "ILLEGAL" THEN Stop([c EXCEPT !.state = "EXCEPTION"])
     ELSE [c EXCEPT !.instruction = m, !.extension_index = 0,
                    !.pc = Wrap(@ + 1),
                    !.state = IF argument_count(m) = 0 THEN "EXECUTE"
                              ELSE "FETCH_ADDRESSING_MODES"]

FetchInstruction ==
  /\ In("FETCH_INSTRUCTION")
  /\ cpu_read_memory(cpu.pc, AtBase, Opened(ReadByte(cpu.pc)))

BytesToLoad(mode) == argument_bytes(cpu.instruction, mode.admr, mode.admx)

\* The CS_EXCEPTION set for a missing operand does not last: the state is set
\* again before the clock ends.
FetchAddressingModes ==
  /\ In("FETCH_ADDRESSING_MODES")
  /\ LET mode == AddressingMode[ReadByte(cpu.pc)]
     IN cpu_read_memory(cpu.pc, Restartable,
          [Restartable EXCEPT
             !.mode = mode, !.pc = Wrap(@ + 1), 
             !.raw_index = IF BytesToLoad(mode) = 0 THEN @ ELSE 0,
             !.state = IF BytesToLoad(mode) = 0 THEN "COMPUTE_ADDRESS"
                       ELSE "FETCH_ARGUMENT_BYTES"])

\* The category asked when all bytes are there.
LastCategory ==
  IF single_operant_writeback(cpu.instruction) THEN mode_category(cpu.mode.admr)
  ELSE mode_category(cpu.mode.admx)

\* One byte per clock.  (A byte past the end of raw goes to no state of the
\* model; ArgumentsFit is about that.)
Loaded(b) ==
  LET c == [Restartable EXCEPT
              !.raw = [i \in 0 .. RAW - 1 |-> IF i = cpu.raw_index THEN b ELSE @[i]],
              !.raw_index = IF @ > RAW THEN @ ELSE @ + 1,
              !.pc = Wrap(@ + 1)]
  IN IF c.raw_index >= BytesToLoad(cpu.mode) /\ LastCategory # "ADMC_NONE"
     THEN Goto(c, "COMPUTE_ADDRESS") ELSE Stop(c)

FetchArgumentBytes ==
  /\ In("FETCH_ARGUMENT_BYTES")
  /\ cpu_read_memory(cpu.pc, Restartable, Loaded(ReadByte(cpu.pc)))

\* Faulty: the low byte is sign-extended, as argument_data_raw is of int8_t.
Argument_Signed(i) ==
  WordOf(cpu.raw[i] - (IF 2 * cpu.raw[i] >= BYTE_RANGE THEN BYTE_RANGE ELSE 0),
         cpu.raw[i + 1])

Argument(i) == WordOf(cpu.raw[i], cpu.raw[i + 1])

ExtendedAddress ==
  LET m == cpu.mode.admx IN
  CASE m.kind = "IND"      -> Value(cpu, m.reg)
    [] m.kind = "IND16"    -> Argument(0)
    [] m.kind = "OFFSET16" -> Wrap(Argument(0) + Value(cpu, m.reg))
    [] m.kind = "SCALED8"  -> Wrap(Argument(0) + cpu.raw[2] * Value(cpu, m.reg))
    [] OTHER               -> cpu.address_extended

\* Where the code looks for the reduced operand's bytes: it does not step over
\* the scaler.
ReducedIndex ==
  IF cpu.mode.admx.kind \in {"IMM16", "IND16", "OFFSET16", "SCALED8"} THEN 2 ELSE 0

ReducedAddress ==
  CASE cpu.mode.admr.kind = "IND16" -> Argument(ReducedIndex)
    [] cpu.mode.admr.kind = "IND"   -> cpu.r["R0"]
    [] OTHER                        -> cpu.address_reduced

AddressComputed ==
  [Restartable EXCEPT
     !.address_extended = ExtendedAddress,
     !.address_reduced = ReducedAddress,
     !.state = CASE cpu.mode.admx.kind = "NONE" -> "FETCH_DESTINATION"
                 [] cpu.mode.admx.kind = "UNUSED" -> "COMPUTE_ADDRESS"
                 [] OTHER -> "FETCH_SOURCE"]

\* Faulty: goes on in the same clock.
ComputeAddress_GoesOn == In("COMPUTE_ADDRESS") /\ Proceed(AddressComputed)

ComputeAddress == In("COMPUTE_ADDRESS") /\ Proceed(Stop(AddressComputed))
-----------------------------------------------------------------------------
(***************************************************************************)
(* Fetching the operands.                                                  *)
(***************************************************************************)
Sourced(c) ==
  Goto(c, IF argument_count(cpu.instruction) = 2 THEN "FETCH_DESTINATION"
          ELSE "EXECUTE")

FetchSourceImmediate ==
  /\ In("FETCH_SOURCE") /\ cpu.mode.admx.kind = "IMM16"
  /\ Proceed(Sourced([Restartable EXCEPT !.data_extended = Argument(0)]))

\* The program counter reads as the address of the instruction.
FetchSourceRegister ==
  /\ In("FETCH_SOURCE") /\ cpu.mode.admx.kind = "REG"
  /\ Proceed(Sourced([Restartable EXCEPT !.data_extended =
       IF cpu.mode.admx.reg = "PC" THEN cpu.previous_pc
       ELSE Value(cpu, cpu.mode.admx.reg)]))

FetchSource ==
  /\ In("FETCH_SOURCE") /\ mode_category(cpu.mode.admx) = "ADMC_IND"
  /\ cpu_read_memory(cpu.address_extended, Restartable,
       [Restartable EXCEPT !.state = "FETCH_SOURCE_HIGH",
                           !.data_extended = ReadByte(cpu.address_extended)])

FetchSourceHigh ==
  /\ In("FETCH_SOURCE_HIGH")
  /\ LET a == Wrap(cpu.address_extended + 1)
     IN cpu_read_memory(a, Restartable,
          Sourced([Restartable EXCEPT !.data_extended = WordOf(@, ReadByte(a))]))

FetchDestinationRegister ==
  /\ In("FETCH_DESTINATION") /\ cpu.mode.admr.kind = "REG"
  /\ Proceed([Restartable EXCEPT !.data_reduced = Value(cpu, cpu.mode.admr.reg),
                                 !.state = "EXECUTE"])

FetchDestinationNone ==
  /\ In("FETCH_DESTINATION") /\ cpu.mode.admr.kind = "NONE"
  /\ Proceed(Stop(Goto(Restartable, "EXCEPTION")))

FetchDestination ==
  /\ In("FETCH_DESTINATION") /\ mode_category(cpu.mode.admr) = "ADMC_IND"
  /\ cpu_read_memory(cpu.address_reduced, Restartable,
       [Restartable EXCEPT !.state = "FETCH_DESTINATION_HIGH",
                           !.data_reduced = ReadByte(cpu.address_reduced)])

FetchDestinationHigh ==
  /\ In("FETCH_DESTINATION_HIGH")
  /\ LET a == Wrap(cpu.address_reduced + 1)
     IN cpu_read_memory(a, Restartable,
          [Restartable EXCEPT !.state = "EXECUTE",
                              !.data_reduced = WordOf(@, ReadByte(a))])
-----------------------------------------------------------------------------
(***************************************************************************)
(* CS_EXECUTE, by groups of instructions.                                  *)
(***************************************************************************)
Executing(M) == In("EXECUTE") /\ cpu.instruction \in M

ExecuteNop ==
  /\ Executing({"NOP", "EXTNOP", "EXTNOP2"})
  /\ Proceed(Finish(Restartable))

\* The target of an absolute or relative jump or call.
Target ==
  IF cpu.instruction \in REL_JUMPS \cup {"RCALL"}
  THEN Wrap(cpu.pc + cpu.data_extended) ELSE cpu.data_extended

ExecuteJump ==
  /\ Executing(JUMPS \cup REL_JUMPS)
  /\ Proceed(Finish([Restartable EXCEPT
       !.pc = IF Taken(cpu.instruction, cpu.sr) THEN Target ELSE @]))

ExecuteCall ==
  /\ Executing({"CALL", "RCALL"})
  /\ Proceed([Restartable EXCEPT !.result = cpu.pc, !.pc = Target,
                                 !.state = "PUSH_HIGH"])

\* What a move, an address or a taken conditional move writes back.
ExecuteMove ==
  /\ Executing({"MOV", "LEA"} \cup CMOVES)
  /\ IF cpu.instruction \in CMOVES /\ ~Taken(cpu.instruction, cpu.sr)
     THEN Proceed(Finish(Restartable))
     ELSE Proceed([Restartable EXCEPT
            !.result = IF cpu.instruction = "LEA" THEN cpu.address_extended
                       ELSE cpu.data_extended,
            !.state = "WRITEBACK_LOW"])

\* The byte is doubled and only the second write-back is done, one address
\* below, so that register and memory destinations behave the same.
ExecuteMoveByte ==
  /\ Executing({"MOVB"})
  /\ Proceed([Restartable EXCEPT
       !.result = WordOf(Low(cpu.data_extended), Low(cpu.data_extended)),
       !.address_reduced = Wrap(@ - 1), !.state = "WRITEBACK_HIGH"])

ExecutePush ==
  /\ Executing({"PUSH", "PUSHB", "PUSHSR"})
  /\ Proceed([Restartable EXCEPT
       !.result = IF cpu.instruction = "PUSHSR" THEN SrValue(Restartable.sr)
                  ELSE cpu.data_extended,
       !.state = IF cpu.instruction = "PUSHB" THEN "PUSH_LOW" ELSE "PUSH_HIGH"])

ExecutePop ==
  /\ Executing({"POP", "POPB", "POPSR", "RET"})
  /\ Proceed([Restartable EXCEPT
       !.address_reduced = IF cpu.instruction \in {"POPSR", "RET"} THEN cpu.sp ELSE @,
       !.state = IF cpu.instruction = "POPSR" THEN "POPSR_LOW" ELSE "POP_LOW"])

ExecuteCompare ==
  /\ Executing({"CMP", "TST"})
  /\ Proceed(Finish([Restartable EXCEPT !.sr =
       IF cpu.instruction = "CMP"
       THEN (@ \ {"Z", "FZ", "L", "UL", "FL", "DL", "LL"})
              \cup (CompareFlags(cpu.data_reduced, cpu.data_extended) \cap Flag)
       ELSE (@ \ {"Z", "FZ", "L"}) \cup (TestFlags(cpu.data_extended) \cap Flag)]))

ExecuteFlag ==
  /\ Executing(FLAG_OPS)
  /\ Proceed(Finish([Restartable EXCEPT !.sr = FlagsAfter(cpu.instruction, @)]))

ExecuteAlu ==
  /\ Executing(INTEGER_OPS \cup UNARY_OPS \cup FLOAT_OPS \cup CONVERSIONS)
  /\ \E w \in AluResults(cpu.instruction, cpu.data_reduced, cpu.data_extended,
                         "AO" \in cpu.sr) :
       Proceed([Restartable EXCEPT
         !.result = w, !.state = "WRITEBACK_LOW",
         !.sr = IF AluOverflow(cpu.instruction, cpu.data_reduced,
                               cpu.data_extended, "AO" \in cpu.sr)
                THEN @ \cup {"AO"} ELSE @ \ {"AO"}])

\* The operand of INT is not used: the vector is that of the last interrupt.
ExecuteInt ==
  /\ Executing({"INT"})
  /\ Proceed(Goto(Counted(Restartable), "INTERRUPT_PUSH_PC_HIGH"))

ExecuteHalt ==
  /\ Executing({"HLT"})
  /\ Proceed(Stop(Goto(Counted(Restartable), "HALT")))

ExecuteSleep ==
  /\ Executing({"HWSLEEP"})
  /\ Proceed(Stop(Goto(Restartable, "SLEEP")))

ExecuteInvalidate ==
  /\ Executing({"INV"})
  /\ cache' = cache_invalidate /\ cpu' = Finish(Restartable) /\ UNCHANGED dev

ExecuteFetchCache ==
  /\ Executing({"FTC"})
  /\ cpu_read_memory(cpu.data_extended, Restartable, Finish(Restartable))

\* The higher parts are masked without being shifted down, so they are 0; the
\* clock counter is taken for any value.
ExecuteInfo ==
  /\ Executing({"HWCLOCK", "HWINSTR"})
  /\ \E w \in IF cpu.instruction = "HWINSTR" THEN {cpu.executed} ELSE AWord :
       Proceed(Finish([Restartable EXCEPT
         !.r = [x \in DOMAIN @ |-> IF x = "R0" THEN w ELSE 0]]))
-----------------------------------------------------------------------------
(***************************************************************************)
(* Writing back, the stack and interrupts.                                 *)
(***************************************************************************)
\* Faulty: the restart is still allowed.
WritebackLow_Restartable ==
  /\ In("WRITEBACK_LOW") /\ mode_category(cpu.mode.admr) = "ADMC_IND"
  /\ cpu_write_memory(cpu.address_reduced, Low(cpu.result), Restartable,
                      Goto(Restartable, "WRITEBACK_HIGH"))

WritebackLow ==
  /\ In("WRITEBACK_LOW") /\ mode_category(cpu.mode.admr) = "ADMC_IND"
  /\ cpu_write_memory(cpu.address_reduced, Low(cpu.result), Committed,
                      Goto(Committed, "WRITEBACK_HIGH"))

\* The register path counts the instruction here and again below, and writes
\* the high byte first.
WritebackLowRegister ==
  /\ In("WRITEBACK_LOW") /\ cpu.mode.admr.kind = "REG"
  /\ LET x == cpu.mode.admr.reg
     IN Proceed(Goto(Counted(Assign(Committed, x,
                       WordOf(Low(Value(cpu, x)), High(cpu.result)))),
                     "WRITEBACK_HIGH"))

\* No destination: the state is never left.
WritebackLowNone ==
  /\ In("WRITEBACK_LOW") /\ cpu.mode.admr.kind = "NONE"
  /\ Proceed(Stop(Committed))

WritebackHigh ==
  /\ In("WRITEBACK_HIGH") /\ mode_category(cpu.mode.admr) = "ADMC_IND"
  /\ cpu_write_memory(Wrap(cpu.address_reduced + 1), High(cpu.result), Committed,
                      Finish(Committed))

WritebackHighRegister ==
  /\ In("WRITEBACK_HIGH") /\ cpu.mode.admr.kind = "REG"
  /\ LET x == cpu.mode.admr.reg
     IN Proceed(Finish(Assign(Committed, x,
                         WordOf(Low(cpu.result), High(Value(cpu, x))))))

Below  == Wrap(cpu.sp - 1)
Pushed == [Committed EXCEPT !.sp = Below]

PushHigh ==
  /\ In("PUSH_HIGH")
  /\ cpu_write_memory(Below, High(cpu.result), Committed, Goto(Pushed, "PUSH_LOW"))

PushLow ==
  /\ In("PUSH_LOW")
  /\ cpu_write_memory(Below, Low(cpu.result), Committed, Finish(Pushed))

Popped == [Committed EXCEPT !.sp = Wrap(@ + 1)]

PopLow ==
  /\ In("POP_LOW")
  /\ cpu_read_memory(cpu.sp, Committed,
       [Popped EXCEPT !.result = ReadByte(cpu.sp),
                      !.state = IF cpu.instruction = "POPB" THEN "WRITEBACK_LOW"
                                ELSE "POP_HIGH"])

PopHigh ==
  /\ In("POP_HIGH")
  /\ LET w == WordOf(cpu.result, ReadByte(cpu.sp))
     IN cpu_read_memory(cpu.sp, Committed,
          IF cpu.instruction = "RET"
          THEN Finish([Popped EXCEPT !.result = w, !.pc = w])
          ELSE [Popped EXCEPT !.result = w, !.state = "WRITEBACK_LOW"])

\* The low byte replaces the whole register, the high byte is added to it.
PopsrLow ==
  /\ In("POPSR_LOW")
  /\ cpu_read_memory(cpu.sp, Committed,
       [Popped EXCEPT !.sr = SrFlags(ReadByte(cpu.sp)), !.state = "POPSR_HIGH"])

\* The instruction is not counted.
PopsrHigh ==
  /\ In("POPSR_HIGH")
  /\ cpu_read_memory(cpu.sp, Committed,
       [Popped EXCEPT !.sr = @ \cup SrFlags(WordOf(0, ReadByte(cpu.sp))),
                      !.state = "FETCH_INSTRUCTION"])

InterruptPushPcHigh ==
  /\ In("INTERRUPT_PUSH_PC_HIGH")
  /\ cpu_write_memory(Below, High(cpu.pc), Committed,
                      Goto(Pushed, "INTERRUPT_PUSH_PC_LOW"))

InterruptPushPcLow ==
  /\ In("INTERRUPT_PUSH_PC_LOW")
  /\ cpu_write_memory(Below, Low(cpu.pc), Committed,
                      Goto(Pushed, "INTERRUPT_FETCH_IRQ_VECTOR_LOW"))

InterruptFetchIrqVectorLow ==
  /\ In("INTERRUPT_FETCH_IRQ_VECTOR_LOW")
  /\ cpu_read_memory(Vector(cpu.irq_id), Committed,
       [Committed EXCEPT !.data_extended = ReadByte(Vector(cpu.irq_id)),
                         !.state = "INTERRUPT_FETCH_IRQ_VECTOR_HIGH"])

InterruptFetchIrqVectorHigh ==
  /\ In("INTERRUPT_FETCH_IRQ_VECTOR_HIGH")
  /\ LET a == Wrap(Vector(cpu.irq_id) + 1)
         w == WordOf(cpu.data_extended, ReadByte(a))
     IN cpu_read_memory(a, Committed,
          [Committed EXCEPT !.data_extended = w, !.pc = w,
                            !.state = "FETCH_INSTRUCTION"])

SleepClock == In("SLEEP") /\ Proceed(Stop(cpu))
-----------------------------------------------------------------------------
Execute ==
  \/ ExecuteNop \/ ExecuteJump \/ ExecuteCall \/ ExecuteMove \/ ExecuteMoveByte
  \/ ExecutePush \/ ExecutePop \/ ExecuteCompare \/ ExecuteFlag \/ ExecuteAlu
  \/ ExecuteInt \/ ExecuteHalt \/ ExecuteSleep \/ ExecuteInvalidate
  \/ ExecuteFetchCache \/ ExecuteInfo

cpu_clock ==
  \/ ClockBegin \/ AcceptInterrupt \/ DropInterrupt
  \/ FetchInstruction \/ FetchAddressingModes \/ FetchArgumentBytes
  \/ ComputeAddress \/ FetchSourceImmediate \/ FetchSourceRegister
  \/ FetchSource \/ FetchSourceHigh \/ FetchDestinationRegister
  \/ FetchDestinationNone \/ FetchDestination \/ FetchDestinationHigh
  \/ Execute
  \/ WritebackLow \/ WritebackLowRegister \/ WritebackLowNone
  \/ WritebackHigh \/ WritebackHighRegister
  \/ PushHigh \/ PushLow \/ PopLow \/ PopHigh \/ PopsrLow \/ PopsrHigh
  \/ InterruptPushPcHigh \/ InterruptPushPcLow
  \/ InterruptFetchIrqVectorLow \/ InterruptFetchIrqVectorHigh \/ SleepClock
=============================================================================

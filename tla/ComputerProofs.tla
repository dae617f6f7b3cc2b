--------------------------- MODULE ComputerProofs ---------------------------
(***************************************************************************)
(* The computer implements the abstract machine, for every program that    *)
(* keeps to the RAM, every memory map and however often the ticker fires:  *)
(* the processor's steps are the abstract processor's, and each slot of    *)
(* the bus and of the devices is one step of its memory, an interrupt, or  *)
(* none of it.                                                             *)
(***************************************************************************)
EXTENDS Computer, CpuProofs, BusProofs

-----------------------------------------------------------------------------
(* The abstract processor computes what the processor computes: the        *)
(* operators of Machine, instantiated, are those of Cpu.                   *)

\* The words and bytes.
LEMMA SameWords ==
  /\ Abstract!WORDS = WORDS
  /\ Abstract!SIGN = SIGN
  /\ Abstract!AWord = AWord
  /\ \A i : Abstract!Wrap(i) = Wrap(i)
  /\ \A lo, hi : Abstract!WordOf(lo, hi) = WordOf(lo, hi)
  /\ \A w : Abstract!Low(w) = Low(w)
  /\ \A w : Abstract!High(w) = High(w)
  /\ \A w : Abstract!Signed(w) = Signed(w)
  /\ \A id : Abstract!Vector(id) = Vector(id)
  /\ \A b : Abstract!ByteLine(b) = ByteLine(b)
  BY DEF WORDS, Abstract!WORDS, SIGN, Abstract!SIGN, AWord, Abstract!AWord,
         Wrap, Abstract!Wrap, WordOf, Abstract!WordOf, Low, Abstract!Low,
         High, Abstract!High, Signed, Abstract!Signed, Vector,
         Abstract!Vector, ByteLine, Abstract!ByteLine

\* The tables.
LEMMA SameTables ==
  /\ Abstract!JUMPS = JUMPS
  /\ Abstract!REL_JUMPS = REL_JUMPS
  /\ Abstract!CMOVES = CMOVES
  /\ Abstract!FLAG_OPS = FLAG_OPS
  /\ Abstract!FLOAT_OPS = FLOAT_OPS
  /\ Abstract!CONVERSIONS = CONVERSIONS
  /\ Abstract!INTEGER_OPS = INTEGER_OPS
  /\ Abstract!UNARY_OPS = UNARY_OPS
  BY DEF FlagTable, Abstract!FlagTable, Column, Abstract!Column, JUMPS,
         Abstract!JUMPS, REL_JUMPS, Abstract!REL_JUMPS, CMOVES,
         Abstract!CMOVES, FLAG_OPS, Abstract!FLAG_OPS, FLOAT_OPS,
         Abstract!FLOAT_OPS, CONVERSIONS, Abstract!CONVERSIONS, INTEGER_OPS,
         Abstract!INTEGER_OPS, UNARY_OPS, Abstract!UNARY_OPS

\* What an instruction reads and where.
LEMMA SameOperands ==
  /\ \A m : Abstract!argument_count(m) = argument_count(m)
  /\ \A m : Abstract!single_operant_writeback(m) = single_operant_writeback(m)
  /\ \A x : Abstract!mode_category(x) = mode_category(x)
  /\ \A m, admr, admx : Abstract!argument_bytes(m, admr, admx) = argument_bytes(m, admr, admx)
  /\ \A n, b : Abstract!Decoded(n, b) = Decoded(n, b)
  BY DEF FlagTable, Abstract!FlagTable, Column, Abstract!Column, JUMPS,
         Abstract!JUMPS, REL_JUMPS, Abstract!REL_JUMPS, CMOVES,
         Abstract!CMOVES, FLOAT_OPS, Abstract!FLOAT_OPS, CONVERSIONS,
         Abstract!CONVERSIONS, INTEGER_OPS, Abstract!INTEGER_OPS, UNARY_OPS,
         Abstract!UNARY_OPS, ReadArgument, Abstract!ReadArgument,
         WriteArgument, Abstract!WriteArgument, TwoArguments,
         Abstract!TwoArguments, argument_count, Abstract!argument_count,
         single_operant_writeback, Abstract!single_operant_writeback,
         mode_category, Abstract!mode_category, mode_bytes,
         Abstract!mode_bytes, argument_bytes, Abstract!argument_bytes,
         Decoded, Abstract!Decoded

\* The status register.
LEMMA SameFlags ==
  /\ Abstract!Flag = Flag
  /\ \A m, sr : Abstract!Taken(m, sr) = Taken(m, sr)
  /\ \A m, sr : Abstract!FlagsAfter(m, sr) = FlagsAfter(m, sr)
  /\ \A w : Abstract!SrFlags(w) = SrFlags(w)
  /\ \A s : Abstract!SrValue(s) = SrValue(s)
  /\ \A a, b : Abstract!CompareFlags(a, b) = CompareFlags(a, b)
  /\ \A a : Abstract!TestFlags(a) = TestFlags(a)
  BY DEF Flag, Abstract!Flag, FlagTable, Abstract!FlagTable, Taken,
         Abstract!Taken, FlagsAfter, Abstract!FlagsAfter, Bit, Abstract!Bit,
         SrFlags, Abstract!SrFlags, WORDS, Abstract!WORDS, AWord,
         Abstract!AWord, SrValue, Abstract!SrValue, SIGN, Abstract!SIGN,
         Signed, Abstract!Signed, CompareFlags, Abstract!CompareFlags,
         TestFlags, Abstract!TestFlags

\* The cache is the same variable.
LEMMA SameCache ==
  /\ \A a : Abstract!Hit(a) = Hit(a)
  /\ \A a : Abstract!CachedByte(a) = CachedByte(a)
  /\ \A a, l, n : Abstract!cache_write(a, l, n) = cache_write(a, l, n)
  /\ Abstract!cache_invalidate = cache_invalidate
  BY DEF Hit, Abstract!Hit, CachedByte, Abstract!CachedByte, LastOffset,
         Abstract!LastOffset, cache_write, Abstract!cache_write,
         cache_invalidate, Abstract!cache_invalidate

\* The bitwise instructions.
LEMMA SameBits ==
  \A a, b :
    /\ Abstract!Combine(Abstract!And, a, b) = Combine(And, a, b)
    /\ Abstract!Combine(Abstract!Or, a, b) = Combine(Or, a, b)
    /\ Abstract!Combine(Abstract!Xor, a, b) = Combine(Xor, a, b)
  BY DEF Combine, Abstract!Combine, And, Abstract!And, Or, Abstract!Or, Xor,
         Abstract!Xor, Bit, Abstract!Bit, WORDS, Abstract!WORDS, AWord,
         Abstract!AWord

\* Shifts, bit scans, quotients and the carry.
LEMMA SameShift ==
  /\ \A i, lo, hi : Abstract!Clamp(i, lo, hi) = Clamp(i, lo, hi)
  /\ \A i : Abstract!SignedClamp(i) = SignedClamp(i)
  /\ \A w, n : Abstract!Right(w, n) = Right(w, n)
  /\ \A w, n : Abstract!Left(w, n) = Left(w, n)
  /\ \A a, shift : Abstract!UbsResults(a, shift) = UbsResults(a, shift)
  /\ \A a, b : Abstract!UsmResults(a, b) = UsmResults(a, b)
  /\ \A a : Abstract!CbiResult(a) = CbiResult(a)
  /\ \A a, b : Abstract!Quotient(a, b) = Quotient(a, b)
  /\ \A ao : Abstract!carry(ao) = carry(ao)
  BY DEF Clamp, Abstract!Clamp, WORDS, Abstract!WORDS, SIGN, Abstract!SIGN,
         Wrap, Abstract!Wrap, SignedClamp, Abstract!SignedClamp, Right,
         Abstract!Right, Left, Abstract!Left, UbsResults, Abstract!UbsResults,
         UsmResults, Abstract!UsmResults, CbiResult, Abstract!CbiResult,
         Absolute, Abstract!Absolute, Quotient, Abstract!Quotient, carry,
         Abstract!carry

\* What CS_EXECUTE computes.
LEMMA SameResult ==
  /\ \A a, shift : Abstract!SbsResults(a, shift) = SbsResults(a, shift)
  /\ \A m, a, b, ao : Abstract!AluResult(m, a, b, ao) = AluResult(m, a, b, ao)
  BY SameWords, SameBits, SameShift
     DEF SbsResults, Abstract!SbsResults, AluResult, Abstract!AluResult

LEMMA SameAlu ==
  /\ \A m, a, b, ao : Abstract!AluResults(m, a, b, ao) = AluResults(m, a, b, ao)
  /\ \A m, a, b, ao : Abstract!AluOverflow(m, a, b, ao) = AluOverflow(m, a, b, ao)
  BY SameWords, SameShift, SameResult
     DEF AluResults, Abstract!AluResults, AluOverflow, Abstract!AluOverflow

\* The mailbox of the processor is all that the abstract devices have.
LEMMA SameMailbox ==
  /\ Abstract!mailbox = mailbox /\ Abstract!mailbox' = mailbox'
  BY DEF mailbox, Abstract!mailbox, Device

\* The control, its registers and its look into the cache.
LEMMA SameMoves ==
  /\ \A c, x : Abstract!Value(c, x) = Value(c, x)
  /\ \A c, x, w : Abstract!Assign(c, x, w) = Assign(c, x, w)
  /\ \A s : Abstract!In(s) = In(s)
  /\ \A c, s : Abstract!Goto(c, s) = Goto(c, s)
  /\ \A c : Abstract!Stop(c) = Stop(c)
  /\ \A c : Abstract!Counted(c) = Counted(c)
  /\ \A c : Abstract!Finish(c) = Finish(c)
  /\ \A M : Abstract!Executing(M) = Executing(M)
  /\ Abstract!Restartable = Restartable
  /\ Abstract!Committed = Committed
  /\ Abstract!AtBase = AtBase
  /\ Abstract!Caching = Caching
  /\ \A a : Abstract!Cached(a) = Cached(a)
  /\ \A a : Abstract!ReadByte(a) = ReadByte(a)
  /\ Abstract!Maskable = Maskable
  BY SameWords, SameOperands, SameCache, SameMailbox
     DEF Value, Abstract!Value, Assign, Abstract!Assign, In, Abstract!In,
         Goto, Abstract!Goto, Stop, Abstract!Stop, Counted, Abstract!Counted,
         Finish, Abstract!Finish, Executing, Abstract!Executing, Restartable,
         Abstract!Restartable, Committed, Abstract!Committed, AtBase,
         Abstract!AtBase, Caching, Abstract!Caching, Cached, Abstract!Cached,
         ReadByte, Abstract!ReadByte, Maskable, Abstract!Maskable

\* An opcode byte is decoded alike.
LEMMA SameOpened == \A b : Abstract!Opened(b) = Opened(b)
<1> SUFFICES ASSUME NEW b
             PROVE  Abstract!Opened(b) = Opened(b)
  OBVIOUS
<1> DEFINE c == [AtBase EXCEPT !.sr = IF b \in NoCache THEN @ \cup {"NC"} ELSE @ \ {"NC"}]
           m == Decoded(cpu.extension_index, b)
           o == IF Opcode[1][b] = "EXT"
                THEN Stop([c EXCEPT !.pc = Wrap(@ + 1), !.extension_index = @ + 1,
                                    !.instruction = "EXT"])
                ELSE IF m = "ILLEGAL" THEN Stop([c EXCEPT !.state = "EXCEPTION"])
                ELSE [c EXCEPT !.instruction = m, !.extension_index = 0,
                               !.pc = Wrap(@ + 1),
                               !.state = IF argument_count(m) = 0 THEN "EXECUTE"
                                         ELSE "FETCH_ADDRESSING_MODES"]
<1>1. Opened(b) = o
  BY DEF Opened
<1>2. /\ [Abstract!AtBase EXCEPT !.sr = IF b \in NoCache THEN @ \cup {"NC"} ELSE @ \ {"NC"}] = c
      /\ Abstract!Decoded(cpu.extension_index, b) = m
  BY SameMoves, SameOperands
<1> HIDE DEF c, m
<1>3. Abstract!Opened(b) = o
  BY <1>2, SameWords, SameOperands DEF Stop, Abstract!Stop, Abstract!Opened
<1> QED BY <1>1, <1>3

\* Argument bytes and effective addresses.
LEMMA SameAddresses ==
  /\ \A x : Abstract!BytesToLoad(x) = BytesToLoad(x)
  /\ Abstract!LastCategory = LastCategory
  /\ \A b : Abstract!Loaded(b) = Loaded(b)
  /\ \A i : Abstract!Argument(i) = Argument(i)
  /\ Abstract!ExtendedAddress = ExtendedAddress
  /\ Abstract!ReducedIndex = ReducedIndex
  /\ Abstract!ReducedAddress = ReducedAddress
  /\ Abstract!AddressComputed = AddressComputed
  BY SameWords, SameOperands, SameMoves
     DEF BytesToLoad, Abstract!BytesToLoad, LastCategory,
         Abstract!LastCategory, RAW, Abstract!RAW, Loaded, Abstract!Loaded,
         Argument, Abstract!Argument, ExtendedAddress,
         Abstract!ExtendedAddress, ReducedIndex, Abstract!ReducedIndex,
         ReducedAddress, Abstract!ReducedAddress, AddressComputed,
         Abstract!AddressComputed

\* What the later states go on with.
LEMMA SameStates ==
  /\ \A c : Abstract!Sourced(c) = Sourced(c)
  /\ Abstract!Target = Target
  /\ Abstract!Below = Below
  /\ Abstract!Pushed = Pushed
  /\ Abstract!Popped = Popped
  BY SameWords, SameTables, SameOperands, SameMoves
     DEF Sourced, Abstract!Sourced, Target, Abstract!Target, Below,
         Abstract!Below, Pushed, Abstract!Pushed, Popped, Abstract!Popped

\* A request and a store as the abstract mailbox shows them, and the two calls.
Asked(a, c) ==
  /\ ~Cached(a)
  /\ IF mailbox.processed = 1 THEN mailbox.address # a ELSE mailbox.state = "DS_IDLE"
  /\ mailbox' = [mailbox EXCEPT !.state = "DS_FETCH", !.processed = 0, !.address = a]
  /\ cpu' = Stop(c) /\ UNCHANGED cache

Put(a, b, c) ==
  /\ mailbox.processed = 0 /\ mailbox.state = "DS_IDLE"
  /\ mailbox' = [mailbox EXCEPT !.state = "DS_STORE", !.address = a, !.data = ByteLine(b)]
  /\ cache' = IF Caching THEN cache_write(a, ByteLine(b), 1) ELSE cache
  /\ cpu' = Stop(c)

SeenRead(a, c, d) ==
  \/ Abstract!ReadHit(a, d)
  \/ Abstract!ReadReplied(a, d)
  \/ Asked(a, c)
  \/ ~Cached(a) /\ Abstract!Waiting(c)

SeenWrite(a, b, c, d) ==
  \/ Abstract!WriteReplied(d)
  \/ Put(a, b, c)
  \/ Abstract!Waiting(c)

\* To write the mailbox is to write the abstract devices.
LEMMA SamePosts ==
  \A m : mailbox' = m =>
    [d \in Device |-> IF d = "CPU" THEN mailbox' ELSE device_create] =
    [[d \in Device |-> IF d = "CPU" THEN mailbox ELSE device_create] EXCEPT !["CPU"] = m]
  BY DEF Device

LEMMA SameProceeds == \A c : Proceed(c) => Abstract!Proceed(c)
  BY DEF Proceed, Abstract!Proceed, mailbox

LEMMA SameRelease ==
  ASSUME DevicesTypeOK
  PROVE  Release => Abstract!Release
<1> SUFFICES ASSUME Release PROVE Abstract!Release
  OBVIOUS
<1>1. mailbox' = [mailbox EXCEPT !.state = "DS_IDLE", !.processed = 0]
  BY Posted DEF Release
<1> QED BY <1>1, SamePosts, SameMailbox DEF Abstract!Release, Abstract!Post

\* The accesses, with their requests spelt out.
LEMMA SameReads ==
  ASSUME DevicesTypeOK
  PROVE  \A a, c, d : cpu_read_memory(a, c, d) => SeenRead(a, c, d)
<1> SUFFICES ASSUME NEW a, NEW c, NEW d, cpu_read_memory(a, c, d)
             PROVE  SeenRead(a, c, d)
  OBVIOUS
<1>1. ReadHit(a, d) => Abstract!ReadHit(a, d)
  BY SameProceeds, SameMoves DEF ReadHit, Abstract!ReadHit
<1>2. ReadReplied(a, d) => Abstract!ReadReplied(a, d)
  BY SameRelease, SameMoves, SameMailbox, SameCache
     DEF ReadReplied, Abstract!ReadReplied
<1>3. ReadRequest(a, c) => Asked(a, c)
  BY Posted DEF ReadRequest, Asked
<1>4. Waiting(c) => Abstract!Waiting(c)
  BY SameProceeds, SameMoves, SameMailbox DEF Waiting, Abstract!Waiting
<1> QED BY <1>1, <1>2, <1>3, <1>4 DEF cpu_read_memory, SeenRead

LEMMA SameWrites ==
  ASSUME DevicesTypeOK
  PROVE  \A a, b, c, d : cpu_write_memory(a, b, c, d) => SeenWrite(a, b, c, d)
<1> SUFFICES ASSUME NEW a, NEW b, NEW c, NEW d, cpu_write_memory(a, b, c, d)
             PROVE  SeenWrite(a, b, c, d)
  OBVIOUS
<1>1. WriteReplied(d) => Abstract!WriteReplied(d)
  BY SameRelease, SameMailbox DEF WriteReplied, Abstract!WriteReplied
<1>2. WriteRequest(a, b, c) => Put(a, b, c)
  BY Posted DEF WriteRequest, Put
<1>3. Waiting(c) => Abstract!Waiting(c)
  BY SameProceeds, SameMoves, SameMailbox DEF Waiting, Abstract!Waiting
<1> QED BY <1>1, <1>2, <1>3 DEF cpu_write_memory, SeenWrite

\* A step of the processor is the same step of the abstract one: one line for
\* each action.
LEMMA SameClock ==
  ASSUME DevicesTypeOK, cpu_clock
  PROVE  Abstract!cpu_clock
<1>1. ClockBegin => Abstract!ClockBegin
  BY SameProceeds, SameMailbox, SameMoves, SameWords, SameStates
     DEF ClockBegin, Abstract!ClockBegin
<1>2. AcceptInterrupt => Abstract!AcceptInterrupt
  BY SamePosts, SameMailbox, Posted, SameMoves, SameWords, SameStates
     DEF Interrupted, Abstract!Interrupted, Abstract!Post, AcceptInterrupt,
         Abstract!AcceptInterrupt
<1>3. DropInterrupt => Abstract!DropInterrupt
  BY SamePosts, SameMailbox, Posted, SameMoves, SameWords, SameStates
     DEF Interrupted, Abstract!Interrupted, Abstract!Post, DropInterrupt,
         Abstract!DropInterrupt
<1>4. FetchInstruction => Abstract!FetchInstruction
  BY SameReads, SamePosts, SameMailbox, SameMoves, SameWords, SameStates,
     SameOpened
     DEF SeenRead, Asked, Abstract!cpu_read_memory, Abstract!ReadRequest,
         Abstract!Post, FetchInstruction, Abstract!FetchInstruction
<1>5. FetchAddressingModes => Abstract!FetchAddressingModes
  BY SameReads, SamePosts, SameMailbox, SameMoves, SameWords, SameStates,
     SameAddresses, SameTables, SameOperands
     DEF SeenRead, Asked, Abstract!cpu_read_memory, Abstract!ReadRequest,
         Abstract!Post, FetchAddressingModes, Abstract!FetchAddressingModes
<1>6. FetchArgumentBytes => Abstract!FetchArgumentBytes
  BY SameReads, SamePosts, SameMailbox, SameMoves, SameWords, SameStates,
     SameAddresses, SameTables, SameOperands
     DEF SeenRead, Asked, Abstract!cpu_read_memory, Abstract!ReadRequest,
         Abstract!Post, FetchArgumentBytes, Abstract!FetchArgumentBytes
<1>7. ComputeAddress => Abstract!ComputeAddress
  BY SameProceeds, SameMailbox, SameMoves, SameWords, SameStates,
     SameAddresses, SameTables, SameOperands
     DEF ComputeAddress, Abstract!ComputeAddress
<1>8. FetchSourceImmediate => Abstract!FetchSourceImmediate
  BY SameProceeds, SameMailbox, SameMoves, SameWords, SameStates,
     SameOperands, SameAddresses
     DEF FetchSourceImmediate, Abstract!FetchSourceImmediate
<1>9. FetchSourceRegister => Abstract!FetchSourceRegister
  BY SameProceeds, SameMailbox, SameMoves, SameWords, SameStates
     DEF FetchSourceRegister, Abstract!FetchSourceRegister
<1>10. FetchSource => Abstract!FetchSource
  BY SameReads, SamePosts, SameMailbox, SameMoves, SameWords, SameStates,
     SameOperands, SameAddresses
     DEF SeenRead, Asked, Abstract!cpu_read_memory, Abstract!ReadRequest,
         Abstract!Post, FetchSource, Abstract!FetchSource
<1>11. FetchSourceHigh => Abstract!FetchSourceHigh
  BY SameReads, SamePosts, SameMailbox, SameMoves, SameWords, SameStates
     DEF SeenRead, Asked, Abstract!cpu_read_memory, Abstract!ReadRequest,
         Abstract!Post, FetchSourceHigh, Abstract!FetchSourceHigh
<1>12. FetchDestinationRegister => Abstract!FetchDestinationRegister
  BY SameProceeds, SameMailbox, SameMoves, SameWords, SameStates
     DEF FetchDestinationRegister, Abstract!FetchDestinationRegister
<1>13. FetchDestinationNone => Abstract!FetchDestinationNone
  BY SameProceeds, SameMailbox, SameMoves, SameWords, SameStates
     DEF FetchDestinationNone, Abstract!FetchDestinationNone
<1>14. FetchDestination => Abstract!FetchDestination
  BY SameReads, SamePosts, SameMailbox, SameMoves, SameWords, SameStates,
     SameOperands, SameAddresses
     DEF SeenRead, Asked, Abstract!cpu_read_memory, Abstract!ReadRequest,
         Abstract!Post, FetchDestination, Abstract!FetchDestination
<1>15. FetchDestinationHigh => Abstract!FetchDestinationHigh
  BY SameReads, SamePosts, SameMailbox, SameMoves, SameWords, SameStates
     DEF SeenRead, Asked, Abstract!cpu_read_memory, Abstract!ReadRequest,
         Abstract!Post, FetchDestinationHigh, Abstract!FetchDestinationHigh
<1>16. WritebackLow => Abstract!WritebackLow
  BY SameWrites, SamePosts, SameMailbox, SameCache, SameMoves, SameWords,
     SameStates, SameOperands, SameAddresses
     DEF SeenWrite, Put, Abstract!cpu_write_memory, Abstract!WriteRequest,
         Abstract!Post, WritebackLow, Abstract!WritebackLow
<1>17. WritebackLowRegister => Abstract!WritebackLowRegister
  BY SameProceeds, SameMailbox, SameMoves, SameWords, SameStates
     DEF WritebackLowRegister, Abstract!WritebackLowRegister
<1>18. WritebackLowNone => Abstract!WritebackLowNone
  BY SameProceeds, SameMailbox, SameMoves, SameWords, SameStates
     DEF WritebackLowNone, Abstract!WritebackLowNone
<1>19. WritebackHigh => Abstract!WritebackHigh
  BY SameWrites, SamePosts, SameMailbox, SameCache, SameMoves, SameWords,
     SameStates, SameOperands, SameAddresses
     DEF SeenWrite, Put, Abstract!cpu_write_memory, Abstract!WriteRequest,
         Abstract!Post, WritebackHigh, Abstract!WritebackHigh
<1>20. WritebackHighRegister => Abstract!WritebackHighRegister
  BY SameProceeds, SameMailbox, SameMoves, SameWords, SameStates
     DEF WritebackHighRegister, Abstract!WritebackHighRegister
<1>21. PushHigh => Abstract!PushHigh
  BY SameWrites, SamePosts, SameMailbox, SameCache, SameMoves, SameWords,
     SameStates
     DEF SeenWrite, Put, Abstract!cpu_write_memory, Abstract!WriteRequest,
         Abstract!Post, PushHigh, Abstract!PushHigh
<1>22. PushLow => Abstract!PushLow
  BY SameWrites, SamePosts, SameMailbox, SameCache, SameMoves, SameWords,
     SameStates
     DEF SeenWrite, Put, Abstract!cpu_write_memory, Abstract!WriteRequest,
         Abstract!Post, PushLow, Abstract!PushLow
<1>23. PopLow => Abstract!PopLow
  BY SameReads, SamePosts, SameMailbox, SameMoves, SameWords, SameStates
     DEF SeenRead, Asked, Abstract!cpu_read_memory, Abstract!ReadRequest,
         Abstract!Post, PopLow, Abstract!PopLow
<1>24. PopHigh => Abstract!PopHigh
  BY SameReads, SamePosts, SameMailbox, SameMoves, SameWords, SameStates
     DEF SeenRead, Asked, Abstract!cpu_read_memory, Abstract!ReadRequest,
         Abstract!Post, PopHigh, Abstract!PopHigh
<1>25. PopsrLow => Abstract!PopsrLow
  BY SameReads, SamePosts, SameMailbox, SameMoves, SameWords, SameStates,
     SameFlags
     DEF SeenRead, Asked, Abstract!cpu_read_memory, Abstract!ReadRequest,
         Abstract!Post, PopsrLow, Abstract!PopsrLow
<1>26. PopsrHigh => Abstract!PopsrHigh
  BY SameReads, SamePosts, SameMailbox, SameMoves, SameWords, SameStates,
     SameFlags
     DEF SeenRead, Asked, Abstract!cpu_read_memory, Abstract!ReadRequest,
         Abstract!Post, PopsrHigh, Abstract!PopsrHigh
<1>27. InterruptPushPcHigh => Abstract!InterruptPushPcHigh
  BY SameWrites, SamePosts, SameMailbox, SameCache, SameMoves, SameWords,
     SameStates
     DEF SeenWrite, Put, Abstract!cpu_write_memory, Abstract!WriteRequest,
         Abstract!Post, InterruptPushPcHigh, Abstract!InterruptPushPcHigh
<1>28. InterruptPushPcLow => Abstract!InterruptPushPcLow
  BY SameWrites, SamePosts, SameMailbox, SameCache, SameMoves, SameWords,
     SameStates
     DEF SeenWrite, Put, Abstract!cpu_write_memory, Abstract!WriteRequest,
         Abstract!Post, InterruptPushPcLow, Abstract!InterruptPushPcLow
<1>29. InterruptFetchIrqVectorLow => Abstract!InterruptFetchIrqVectorLow
  BY SameReads, SamePosts, SameMailbox, SameMoves, SameWords, SameStates
     DEF SeenRead, Asked, Abstract!cpu_read_memory, Abstract!ReadRequest,
         Abstract!Post, InterruptFetchIrqVectorLow,
         Abstract!InterruptFetchIrqVectorLow
<1>30. InterruptFetchIrqVectorHigh => Abstract!InterruptFetchIrqVectorHigh
  BY SameReads, SamePosts, SameMailbox, SameMoves, SameWords, SameStates
     DEF SeenRead, Asked, Abstract!cpu_read_memory, Abstract!ReadRequest,
         Abstract!Post, InterruptFetchIrqVectorHigh,
         Abstract!InterruptFetchIrqVectorHigh
<1>31. SleepClock => Abstract!SleepClock
  BY SameProceeds, SameMailbox, SameMoves, SameWords, SameStates
     DEF SleepClock, Abstract!SleepClock
<1>32. Execute => Abstract!Execute
  <2>1. ExecuteNop => Abstract!ExecuteNop
    BY SameProceeds, SameMailbox, SameMoves, SameWords, SameStates,
       SameTables, SameFlags
       DEF ExecuteNop, Abstract!ExecuteNop
  <2>2. ExecuteJump => Abstract!ExecuteJump
    BY SameProceeds, SameMailbox, SameMoves, SameWords, SameStates,
       SameTables, SameFlags
       DEF ExecuteJump, Abstract!ExecuteJump
  <2>3. ExecuteCall => Abstract!ExecuteCall
    BY SameProceeds, SameMailbox, SameMoves, SameWords, SameStates,
       SameTables, SameFlags
       DEF ExecuteCall, Abstract!ExecuteCall
  <2>4. ExecuteMove => Abstract!ExecuteMove
    BY SameProceeds, SameMailbox, SameMoves, SameWords, SameStates,
       SameTables, SameFlags
       DEF ExecuteMove, Abstract!ExecuteMove
  <2>5. ExecuteMoveByte => Abstract!ExecuteMoveByte
    BY SameProceeds, SameMailbox, SameMoves, SameWords, SameStates,
       SameTables, SameFlags
       DEF ExecuteMoveByte, Abstract!ExecuteMoveByte
  <2>6. ExecutePush => Abstract!ExecutePush
    BY SameProceeds, SameMailbox, SameMoves, SameWords, SameStates,
       SameTables, SameFlags
       DEF ExecutePush, Abstract!ExecutePush
  <2>7. ExecutePop => Abstract!ExecutePop
    BY SameProceeds, SameMailbox, SameMoves, SameWords, SameStates,
       SameTables, SameFlags
       DEF ExecutePop, Abstract!ExecutePop
  <2>8. ExecuteCompare => Abstract!ExecuteCompare
    BY SameProceeds, SameMailbox, SameMoves, SameWords, SameStates,
       SameTables, SameFlags
       DEF ExecuteCompare, Abstract!ExecuteCompare
  <2>9. ExecuteFlag => Abstract!ExecuteFlag
    BY SameProceeds, SameMailbox, SameMoves, SameWords, SameStates,
       SameTables, SameFlags
       DEF ExecuteFlag, Abstract!ExecuteFlag
  <2>10. ExecuteAlu => Abstract!ExecuteAlu
    BY SameProceeds, SameMailbox, SameMoves, SameWords, SameStates,
       SameTables, SameFlags, SameAlu
       DEF ExecuteAlu, Abstract!ExecuteAlu
  <2>11. ExecuteInt => Abstract!ExecuteInt
    BY SameProceeds, SameMailbox, SameMoves, SameWords, SameStates,
       SameTables, SameFlags
       DEF ExecuteInt, Abstract!ExecuteInt
  <2>12. ExecuteHalt => Abstract!ExecuteHalt
    BY SameProceeds, SameMailbox, SameMoves, SameWords, SameStates,
       SameTables, SameFlags
       DEF ExecuteHalt, Abstract!ExecuteHalt
  <2>13. ExecuteSleep => Abstract!ExecuteSleep
    BY SameProceeds, SameMailbox, SameMoves, SameWords, SameStates,
       SameTables, SameFlags
       DEF ExecuteSleep, Abstract!ExecuteSleep
  <2>14. ExecuteInvalidate => Abstract!ExecuteInvalidate
    BY SameCache, SameMoves, SameWords, SameStates, SameTables, SameFlags
       DEF mailbox, ExecuteInvalidate, Abstract!ExecuteInvalidate
  <2>15. ExecuteFetchCache => Abstract!ExecuteFetchCache
    BY SameReads, SamePosts, SameMailbox, SameMoves, SameWords, SameStates,
       SameTables, SameFlags
       DEF SeenRead, Asked, Abstract!cpu_read_memory, Abstract!ReadRequest,
           Abstract!Post, ExecuteFetchCache, Abstract!ExecuteFetchCache
  <2>16. ExecuteInfo => Abstract!ExecuteInfo
    BY SameProceeds, SameMailbox, SameMoves, SameWords, SameStates,
       SameTables, SameFlags
       DEF ExecuteInfo, Abstract!ExecuteInfo
  <2> QED BY <2>1, <2>2, <2>3, <2>4, <2>5, <2>6, <2>7, <2>8, <2>9, <2>10, <2>11,
       <2>12, <2>13, <2>14, <2>15, <2>16
       DEF Execute, Abstract!Execute
<1> QED BY <1>1, <1>2, <1>3, <1>4, <1>5, <1>6, <1>7, <1>8, <1>9, <1>10, <1>11,
     <1>12, <1>13, <1>14, <1>15, <1>16, <1>17, <1>18, <1>19, <1>20, <1>21,
     <1>22, <1>23, <1>24, <1>25, <1>26, <1>27, <1>28, <1>29, <1>30, <1>31,
     <1>32
     DEF cpu_clock, Abstract!cpu_clock

-----------------------------------------------------------------------------
(* What holds between the steps while the program keeps to the RAM.        *)

\* Only the RAM serves, and it serves what the processor's mailbox asks for.
ServiceInv ==
  /\ \A d \in Slave : d # "RAM" => dev[d].state = "DS_IDLE"
  /\ dev["RAM"].state # "DS_INTERRUPT"
  /\ dev["RAM"].state # "DS_IDLE" =>
       /\ mailbox.processed = 0 /\ mailbox.state = dev["RAM"].state
       /\ mailbox.address = dev["RAM"].address
  /\ dev["RAM"].state = "DS_FETCH" => Reads("RAM", mailbox.address)
  /\ dev["RAM"].state = "DS_STORE" =>
       Writes("RAM", mailbox.address) /\ dev["RAM"].data = mailbox.data

\* The RAM is ahead of what the processor has been told by the store that the
\* RAM has performed and the bus has not acknowledged.
Served(s) == dev["RAM"].state = s /\ dev["RAM"].processed = 1
MemoryInv ==
  /\ stored \in [Address -> BYTE]
  /\ ram = IF Served("DS_STORE")
           THEN [stored EXCEPT ![mailbox.address] = mailbox.data[0]] ELSE stored
  /\ Served("DS_FETCH") => dev["RAM"].data = ram_read(mailbox.address)

TickInv ==
  /\ ticks \in 0 .. MaxTicks
  /\ dev["TICKER"].state \in {"DS_IDLE", "DS_INTERRUPT"}
  /\ dev["TICKER"].state = "DS_INTERRUPT" =>
       ticks > 0 /\ dev["TICKER"].address = INT_CLOCK /\ dev["TICKER"].data = ByteLine(0)

\* Outside its slot the processor waits, and has had a clock; once the open bus
\* has answered, the processor's slot comes before the bus does to the ticker.
SlotInv ==
  /\ slot \in 1 .. Len(clock_order) /\ BusTypeOK
  /\ slot # 1 => ~cpu.running /\ ~Abstract!Created
  /\ mailbox.state = "DS_IDLE" /\ mailbox.processed = 1 =>
       attended_device_index <= 1 + TurnsBefore[slot]

ComputerInv == TypeInv /\ AccessInv /\ ServiceInv /\ MemoryInv /\ TickInv /\ SlotInv

\* The abstract machine has the same memory map, and its mailbox is answered
\* when this one is.
LEMMA SameMap ==
  \A d, a : /\ Abstract!Reads(d, a) <=> Reads(d, a)
            /\ Abstract!Writes(d, a) <=> Writes(d, a)
            /\ Abstract!OpenRead(a) <=> OpenRead(a)
            /\ Abstract!OpenWrite(a) <=> OpenWrite(a)
  BY DEF OpenRead, Abstract!OpenRead, OpenWrite, Abstract!OpenWrite, Reads,
         Abstract!Reads, Writes, Abstract!Writes, Slave, Abstract!Slave,
         SEGMENT_CODE, Abstract!SEGMENT_CODE, MMIO_INPUT_REGISTER,
         Abstract!MMIO_INPUT_REGISTER, MMIO_REGISTER_ADDRESS,
         Abstract!MMIO_REGISTER_ADDRESS, MMIO_MODE_REGISTER_ADDRESS,
         Abstract!MMIO_MODE_REGISTER_ADDRESS, MMIO_MODIFIER_REGISTER_ADDRESS,
         Abstract!MMIO_MODIFIER_REGISTER_ADDRESS, MMIO_INPUT_REGISTER_ADDRESS,
         Abstract!MMIO_INPUT_REGISTER_ADDRESS, MMIO_OUTPUT_REGISTER_ADDRESS,
         Abstract!MMIO_OUTPUT_REGISTER_ADDRESS

LEMMA SameAnswers ==
  /\ \A l : mailbox' = [mailbox EXCEPT !.processed = 1, !.data = l] =>
       [d \in Device |-> IF d = "CPU" THEN mailbox' ELSE device_create] =
       [[d \in Device |-> IF d = "CPU" THEN mailbox ELSE device_create]
          EXCEPT !["CPU"].processed = 1, !["CPU"].data = l]
  /\ mailbox' = [mailbox EXCEPT !.processed = 1] =>
       [d \in Device |-> IF d = "CPU" THEN mailbox' ELSE device_create] =
       [[d \in Device |-> IF d = "CPU" THEN mailbox ELSE device_create]
          EXCEPT !["CPU"].processed = 1]
  BY DEF Device

LEMMA SamePending ==
  \A s : Abstract!Between(s) <=> ~cpu.running /\ mailbox.processed = 0 /\ mailbox.state = s
  BY DEF Abstract!Between, Abstract!Pending, Device

LEMMA Mailboxes ==
  ASSUME DevicesTypeOK
  PROVE  /\ mailbox \in Mailbox /\ dev["RAM"] \in Mailbox /\ dev["TICKER"] \in Mailbox
         /\ "CPU" \in Device /\ "RAM" \in Device /\ "TICKER" \in Device
         /\ "RAM" \in Slave /\ Slave \subseteq Device
         /\ "CPU" \notin Slave /\ "TICKER" \notin Slave
  BY DEF DevicesTypeOK, Device, Slave, mailbox

\* What the processor waits for depends on it and on its mailbox alone.
LEMMA AccessStays ==
  ASSUME AccessInv, UNCHANGED <<cpu, cache>>,
         mailbox'.address = mailbox.address,
         mailbox'.state = "DS_INTERRUPT" => mailbox'.processed = 0,
         mailbox'.state \in {"DS_FETCH", "DS_STORE"} \/ mailbox'.processed = 1 =>
           mailbox.state \in {"DS_FETCH", "DS_STORE"} \/ mailbox.processed = 1
  PROVE  AccessInv'
  BY DEF AccessInv, AtStore, ReadsFrom, Cached, Caching, Hit

\* A step that the abstract machine does not see.
LEMMA Unseen ==
  ASSUME mailbox' = mailbox, UNCHANGED <<cpu, cache, stored, retired>>,
         delivered' = delivered
  PROVE  UNCHANGED Abstract!vars
  BY DEF Abstract!vars

LEMMA StartInv ==
  ASSUME Init
  PROVE  ComputerInv
<1>1. loaded.image \in [Address -> BYTE]
  BY ProgramAssumption DEF Init, loaded
<1>2. TypeInv
  BY <1>1, CreatedTyped DEF Init, TypeInv, Stores, RamTypeOK
<1>3. /\ mailbox.state = "DS_IDLE" /\ mailbox.processed = 0
      /\ \A d \in Slave : dev[d].state = "DS_IDLE"
      /\ dev["TICKER"].state = "DS_IDLE" /\ dev["RAM"].state = "DS_IDLE"
  BY DEF Init, DevicesInit, device_create, mailbox, Device, Slave
<1>4. AccessInv /\ ServiceInv /\ MemoryInv /\ TickInv
  BY <1>1, <1>3, ProgramAssumption
     DEF Init, AccessInv, ServiceInv, MemoryInv, TickInv, Served
<1>5. SlotInv
  BY <1>3, Orders DEF Init, SlotInv, BusInit, BusTypeOK
<1> QED BY <1>2, <1>4, <1>5 DEF ComputerInv

LEMMA StartSeen ==
  ASSUME Init
  PROVE  Abstract!Init
<1>1. [d \in Device |-> IF d = "CPU" THEN mailbox ELSE device_create]
        = [d \in Device |-> Abstract!device_create]
  BY DEF Init, DevicesInit, mailbox, device_create, Abstract!device_create, Device,
         ByteLine, Abstract!ByteLine
<1>2. Abstract!DevicesInit
  BY <1>1 DEF Abstract!DevicesInit, Device, Abstract!Device, Slave, Abstract!Slave
<1>3. Abstract!CacheInit
  BY DEF Init, CacheInit, Abstract!CacheInit, NoLine, Abstract!NoLine
<1>4. Abstract!cpu_create
  BY DEF Init, cpu_create, Abstract!cpu_create, RAW, Abstract!RAW
<1>5. stored \in {Programs[p].image : p \in DOMAIN Programs}
  BY DEF Init, loaded
<1>6. delivered = 0
  <2>1. ticks = 0 /\ dev["TICKER"].state # "DS_INTERRUPT"
    BY DEF Init, DevicesInit, device_create, Device
  <2>2. delivered = ticks - 0
    BY <2>1 DEF delivered
  <2> QED BY <2>1, <2>2
<1> QED BY <1>2, <1>3, <1>4, <1>5, <1>6 DEF Init, Abstract!Init

-----------------------------------------------------------------------------
(* The processor's slot.                                                   *)

LEMMA CpuSlotSeen ==
  ASSUME ComputerInv, CpuSlot
  PROVE  ComputerInv' /\ Abstract!CpuClock
<1>1. /\ At("CPU") /\ cpu_clock
      /\ slot' = IF cpu'.running THEN slot ELSE next_slot
      /\ UNCHANGED <<ram, attended_device_index, fabric, program, ticks, stored>>
      /\ retired' = IF Abstract!Retires THEN Abstract!Snapshot' ELSE retired
  BY DEF CpuSlot
<1>2. TypeInv /\ AccessInv /\ ServiceInv /\ MemoryInv /\ TickInv /\ SlotInv /\ DevicesTypeOK
  BY DEF ComputerInv, TypeInv, Stores
<1>3. TypeInv'
  BY <1>1, <1>2, ClocksTyped
<1>4. AccessInv' /\ (~cpu'.running => ClockEnded')
  BY <1>1, <1>2, ClocksAsk
<1>5. /\ \A d \in Device : d # "CPU" => dev'[d] = dev[d]
      /\ mailbox.processed = 0 /\ mailbox.state \in {"DS_FETCH", "DS_STORE"} => UNCHANGED dev
  BY <1>1, <1>2, ClocksPost
<1>6. /\ dev'["TICKER"] = dev["TICKER"] /\ \A d \in Slave : dev'[d] = dev[d]
      /\ dev["RAM"].state # "DS_IDLE" => mailbox' = mailbox
  <2>1. dev["RAM"].state # "DS_IDLE" => UNCHANGED dev
    BY <1>2, <1>5, Mailboxes DEF ServiceInv, Mailbox, DeviceState
  <2> QED BY <1>2, <1>5, <2>1, Mailboxes DEF mailbox
<1>7. ServiceInv'
  BY <1>2, <1>6, Mailboxes DEF ServiceInv
<1>8. MemoryInv'
  BY <1>1, <1>2, <1>6, Mailboxes DEF MemoryInv, Served, ram_read
<1>9. TickInv'
  BY <1>1, <1>2, <1>6 DEF TickInv
<1>10. SlotInv'
  <2>1. slot = 1 /\ slot' \in 1 .. Len(clock_order) /\ BusTypeOK'
    BY <1>1, <1>2, Turning, Orders DEF SlotInv, next_slot, BusTypeOK
  <2>2. CASE cpu'.running
    <3>1. slot' = 1
      BY <1>1, <2>1, <2>2
    <3>2. attended_device_index' <= 1 + TurnsBefore[1]
      BY <1>1, <1>2, <2>1, Turning, Attending DEF SlotInv, Rounds
    <3> QED BY <2>1, <3>1, <3>2 DEF SlotInv
  <2>3. CASE ~cpu'.running
    <3>1. mailbox'.processed = 0 /\ ~Abstract!Created'
      BY <1>4, <2>3, SameMailbox DEF ClockEnded, Abstract!Created
    <3> QED BY <2>1, <2>3, <3>1 DEF SlotInv
  <2> QED BY <2>2, <2>3
<1>11. delivered' = delivered
  BY <1>1, <1>6 DEF delivered
<1>12. Abstract!CpuClock
  BY <1>1, <1>2, <1>11, SameClock DEF Abstract!CpuClock
<1> QED BY <1>3, <1>4, <1>7, <1>8, <1>9, <1>10, <1>12 DEF ComputerInv

-----------------------------------------------------------------------------
(* The slots of the bus.                                                   *)

LEMMA BusSlotMoves ==
  ASSUME ComputerInv, BusSlot
  PROVE  /\ slot # 1 /\ ~cpu.running /\ ~Abstract!Created /\ DevicesTypeOK
         /\ TypeInv' /\ bus_clock /\ UNCHANGED <<cache, cpu, ram, ticks, retired>>
         /\ stored' = IF mailbox'.processed = 1 THEN ram ELSE stored
         /\ slot' \in 1 .. Len(clock_order) /\ BusTypeOK'
         /\ mailbox.state = "DS_IDLE" /\ mailbox.processed = 1 =>
              /\ attended # "TICKER"
              /\ attended_device_index' <= 1 + TurnsBefore[slot']
         /\ attended = "CPU" => attended_device_index' <= 1 + TurnsBefore[slot']
<1>1. /\ At("BUS") /\ slot' = next_slot /\ bus_clock
      /\ UNCHANGED <<cache, cpu, ram, ticks, retired>>
      /\ stored' = IF mailbox'.processed = 1 THEN ram ELSE stored
  BY DEF BusSlot, Slot
<1>2. SlotInv /\ TypeInv /\ DevicesTypeOK
  BY DEF ComputerInv, TypeInv, Stores
<1>3. slot # 1 /\ ~cpu.running /\ ~Abstract!Created
  BY <1>1, <1>2, Turning DEF SlotInv, At
<1>4. DevicesTypeOK' /\ BusTypeOK'
  BY <1>1, <1>2, BusClockType DEF SlotInv
<1>5. TypeInv'
  BY <1>1, <1>2, <1>4 DEF TypeInv, Stores, CacheTypeOK, RamTypeOK, Typed, HalfOK, InstructionOK
<1>6. slot' \in 1 .. Len(clock_order)
  BY <1>1, <1>2, Orders DEF SlotInv, next_slot
<1>7. attended_device_index' = next_attended
  BY <1>1 DEF bus_clock
<1>8. /\ TurnsBefore[slot] \in 0 .. Turns /\ TurnsBefore[slot] < Turns /\ Turns \in {4, 5}
      /\ TurnsBefore[slot'] = TurnsBefore[slot] + 1
  BY <1>1, <1>2, Turning DEF SlotInv
<1>9. /\ attended_device_index \in 1 .. Rounds /\ Rounds = Turns + 1
      /\ next_attended = IF attended_device_index = Rounds THEN 1
                         ELSE attended_device_index + 1
      /\ attended = "CPU" <=> attended_device_index = 1
      /\ attended = "TICKER" => attended_device_index = Rounds
  BY <1>2, Attending DEF SlotInv, Rounds
<1>10. mailbox.state = "DS_IDLE" /\ mailbox.processed = 1 =>
         attended_device_index <= 1 + TurnsBefore[slot]
  BY <1>2 DEF SlotInv
<1>11. attended = "CPU" => attended_device_index' <= 1 + TurnsBefore[slot']
  BY <1>7, <1>8, <1>9
<1>12. mailbox.state = "DS_IDLE" /\ mailbox.processed = 1 =>
         attended # "TICKER" /\ attended_device_index' <= 1 + TurnsBefore[slot']
  BY <1>7, <1>8, <1>9, <1>10
<1> QED BY <1>1, <1>2, <1>3, <1>4, <1>5, <1>6, <1>11, <1>12

\* A clock of the bus that leaves the mailbox of the processor alone.
LEMMA BusUnseen ==
  ASSUME ComputerInv, BusSlot, mailbox' = mailbox, dev'["TICKER"] = dev["TICKER"],
         mailbox.processed = 1 => dev["RAM"].state = "DS_IDLE",
         ServiceInv', Served("DS_STORE")' <=> Served("DS_STORE"),
         Served("DS_FETCH")' => Served("DS_FETCH") /\ dev'["RAM"] = dev["RAM"]
  PROVE  ComputerInv' /\ UNCHANGED Abstract!vars
<1>1. /\ UNCHANGED <<cache, cpu, ram, ticks, retired>> /\ TypeInv'
      /\ stored' = IF mailbox'.processed = 1 THEN ram ELSE stored
      /\ AccessInv /\ MemoryInv /\ TickInv /\ SlotInv
  BY BusSlotMoves DEF ComputerInv
<1>2. stored' = stored
  BY <1>1 DEF MemoryInv, Served
<1>3. MemoryInv'
  BY ZenonT(60), <1>1, <1>2 DEF MemoryInv, ram_read
<1>4. AccessInv'
  <2>1. mailbox'.state = "DS_INTERRUPT" => mailbox'.processed = 0
    BY <1>1 DEF AccessInv
  <2> QED BY <1>1, <2>1, AccessStays
<1>5. TickInv' /\ delivered' = delivered
  BY <1>1 DEF TickInv, delivered
<1>6. SlotInv'
  BY <1>1, BusSlotMoves, SameMailbox DEF SlotInv, Abstract!Created
<1> QED BY <1>1, <1>2, <1>3, <1>4, <1>5, <1>6, Unseen DEF ComputerInv

LEMMA ForwardSeen ==
  ASSUME ComputerInv, OnRam, BusSlot, NEW d \in Slave,
         BusForwardFetch(d) \/ BusForwardStore(d)
  PROVE  ComputerInv' /\ UNCHANGED Abstract!vars
<1>1. ServiceInv /\ DevicesTypeOK
  BY DEF ComputerInv, TypeInv, Stores
<1>2. mailbox.processed = 0 /\ mailbox.state \in {"DS_FETCH", "DS_STORE"}
  BY DEF BusForwardFetch, BusForwardStore, Requesting, Pending, mailbox
<1>3. d = "RAM" /\ dev["RAM"].state = "DS_IDLE"
  BY DEF BusForwardFetch, BusForwardStore, ReadListener, WriteListener, OnRam,
         Requesting, Pending, mailbox
<1>4. /\ mailbox' = mailbox /\ dev'["TICKER"] = dev["TICKER"]
      /\ \A e \in Slave : e # "RAM" => dev'[e] = dev[e]
      /\ dev'["RAM"].processed = 0 /\ dev'["RAM"].address = mailbox.address
      /\ dev'["RAM"].state = mailbox.state
      /\ mailbox.state = "DS_FETCH" => Reads("RAM", mailbox.address)
      /\ mailbox.state = "DS_STORE" =>
           Writes("RAM", mailbox.address) /\ dev'["RAM"].data = mailbox.data
  <2>1. CASE BusForwardFetch(d)
    BY <1>1, <1>3, <2>1, Mailboxes
       DEF BusForwardFetch, ReadListener, Requesting, Pending, mailbox, Mailbox, DevicesTypeOK
  <2>2. CASE BusForwardStore(d)
    BY <1>1, <1>3, <2>2, Mailboxes
       DEF BusForwardStore, WriteListener, Requesting, Pending, mailbox, Mailbox, DevicesTypeOK
  <2> QED BY <2>1, <2>2
<1>5. ServiceInv'
  BY <1>1, <1>2, <1>4 DEF ServiceInv
<1>6. /\ Served("DS_STORE")' <=> Served("DS_STORE")
      /\ ~Served("DS_FETCH")'
  BY <1>3, <1>4 DEF Served
<1> QED BY <1>2, <1>4, <1>5, <1>6, BusUnseen

LEMMA IdleSeen ==
  ASSUME ComputerInv, BusSlot, UNCHANGED dev
  PROVE  ComputerInv' /\ UNCHANGED Abstract!vars
<1>1. ServiceInv /\ mailbox' = mailbox
  BY DEF ComputerInv, mailbox
<1>2. mailbox.processed = 1 => dev["RAM"].state = "DS_IDLE"
  BY <1>1 DEF ServiceInv
<1>3. ServiceInv' /\ (Served("DS_STORE")' <=> Served("DS_STORE"))
  BY <1>1 DEF ServiceInv, Served
<1> QED BY <1>1, <1>2, <1>3, BusUnseen DEF Served

\* What the bus hands back is the memory's answer.
LEMMA ReplySeen ==
  ASSUME ComputerInv, BusSlot, NEW d \in Slave, BusReplyFetch(d) \/ BusReplyStore(d)
  PROVE  ComputerInv' /\ Abstract!Answer
<1>1. /\ AccessInv /\ ServiceInv /\ MemoryInv /\ TickInv /\ SlotInv /\ DevicesTypeOK
      /\ mailbox \in Mailbox /\ dev["RAM"] \in Mailbox
  BY Mailboxes DEF ComputerInv, TypeInv, Stores
<1>2. d = "RAM" /\ dev["RAM"].processed = 1
  BY <1>1 DEF BusReplyFetch, BusReplyStore, ServiceInv
<1>3. /\ dev["RAM"].state = mailbox.state /\ mailbox.processed = 0
      /\ mailbox.state \in {"DS_FETCH", "DS_STORE"}
      /\ BusReplyFetch(d) => mailbox.state = "DS_FETCH"
      /\ BusReplyStore(d) => mailbox.state = "DS_STORE"
  BY <1>1, <1>2 DEF BusReplyFetch, BusReplyStore, ServiceInv
<1>4. /\ dev'["TICKER"] = dev["TICKER"] /\ \A e \in Slave : dev'[e].state = "DS_IDLE"
      /\ BusReplyFetch(d) =>
           mailbox' = [mailbox EXCEPT !.data = dev["RAM"].data, !.processed = 1]
      /\ BusReplyStore(d) => mailbox' = [mailbox EXCEPT !.processed = 1]
  <2>1. \A e \in Slave : e # "RAM" => dev[e].state = "DS_IDLE"
    BY <1>1 DEF ServiceInv
  <2>2. CASE BusReplyFetch(d)
    BY <1>1, <1>2, <1>3, <2>1, <2>2, Mailboxes DEF BusReplyFetch, mailbox, DevicesTypeOK, Mailbox
  <2>3. CASE BusReplyStore(d)
    BY <1>1, <1>2, <1>3, <2>1, <2>3, Mailboxes DEF BusReplyStore, mailbox, DevicesTypeOK, Mailbox
  <2> QED BY <1>3, <2>2, <2>3
<1>5. /\ mailbox'.state = mailbox.state /\ mailbox'.address = mailbox.address
      /\ mailbox'.processed = 1
  BY <1>1, <1>3, <1>4 DEF Mailbox
<1>6. /\ UNCHANGED <<cache, cpu, ram, ticks, retired>> /\ stored' = ram /\ TypeInv'
      /\ ~cpu.running
  BY <1>5, BusSlotMoves
<1>7. ServiceInv'
  BY <1>4, Mailboxes, <1>1 DEF ServiceInv
<1>8. MemoryInv'
  BY <1>4, <1>6, <1>1, Mailboxes DEF MemoryInv, Served, ComputerInv, TypeInv, Stores, RamTypeOK
<1>9. AccessInv'
  BY <1>1, <1>3, <1>5, <1>6, AccessStays
<1>10. TickInv' /\ delivered' = delivered
  BY <1>1, <1>4, <1>6 DEF TickInv, delivered
<1>11. SlotInv'
  BY <1>1, <1>3, <1>5, <1>6, BusSlotMoves, SameMailbox DEF SlotInv, Abstract!Created
<1>12. Abstract!Answer
  <2>1. CASE BusReplyFetch(d)
    <3>1. /\ mailbox.state = "DS_FETCH" /\ Reads("RAM", mailbox.address)
          /\ dev["RAM"].data = ram_read(mailbox.address) /\ ram = stored
      BY <1>1, <1>2, <1>3, <2>1 DEF ServiceInv, MemoryInv, Served
    <3>2. mailbox' = [mailbox EXCEPT !.processed = 1, !.data = ram_read(mailbox.address)]
      BY <1>4, <2>1, <3>1
    <3>3. Abstract!ram_read(mailbox.address) = ram_read(mailbox.address)
      BY <3>1 DEF Abstract!ram_read, ram_read
    <3>4. Abstract!Between("DS_FETCH") /\ Abstract!Reads("RAM", mailbox.address)
      BY <1>3, <1>6, <3>1, SamePending, SameMap
    <3>5. Abstract!DoneWith("CPU", Abstract!ram_read(Abstract!mailbox.address))
      BY <3>2, <3>3, SameAnswers, SameMailbox DEF Abstract!DoneWith
    <3> QED BY <1>6, <1>10, <3>1, <3>4, <3>5, SameMailbox
            DEF Abstract!Answer, Abstract!MemoryFetch
  <2>2. CASE BusReplyStore(d)
    <3>1. /\ mailbox.state = "DS_STORE" /\ Writes("RAM", mailbox.address)
          /\ stored' = [stored EXCEPT ![mailbox.address] = mailbox.data[0]]
      BY <1>1, <1>2, <1>3, <1>6, <2>2 DEF ServiceInv, MemoryInv, Served
    <3>2. Abstract!Between("DS_STORE") /\ Abstract!Writes("RAM", mailbox.address)
      BY <1>3, <1>6, <3>1, SamePending, SameMap
    <3>3. Abstract!Done("CPU")
      BY <1>4, <2>2, SameAnswers DEF Abstract!Done
    <3> QED BY <1>6, <1>10, <3>1, <3>2, <3>3, SameMailbox
            DEF Abstract!Answer, Abstract!MemoryStore, Abstract!ram_write
  <2> QED BY <2>1, <2>2
<1> QED BY <1>6, <1>7, <1>8, <1>9, <1>10, <1>11, <1>12 DEF ComputerInv

LEMMA OpenSeen ==
  ASSUME ComputerInv, BusSlot, BusOpen
  PROVE  ComputerInv' /\ Abstract!Answer
<1>1. /\ AccessInv /\ ServiceInv /\ MemoryInv /\ TickInv /\ SlotInv /\ DevicesTypeOK
      /\ mailbox \in Mailbox
  BY Mailboxes DEF ComputerInv, TypeInv, Stores
<1>2. /\ attended = "CPU" /\ mailbox.processed = 0 
      /\ \/ mailbox.state = "DS_FETCH" /\ OpenRead(mailbox.address)
         \/ mailbox.state = "DS_STORE" /\ OpenWrite(mailbox.address)
  BY DEF BusOpen, Requesting, Pending, mailbox
<1>3. dev["RAM"].state = "DS_IDLE"
  BY <1>1, <1>2, Mailboxes DEF ServiceInv, OpenRead, OpenWrite, Mailbox, DeviceState
<1>4. /\ mailbox' = [mailbox EXCEPT !.processed = 1, !.state = "DS_IDLE"]
      /\ \A d \in Device : d # "CPU" => dev'[d] = dev[d]
  BY <1>1, Mailboxes DEF BusOpen, mailbox, DevicesTypeOK
<1>5. /\ mailbox'.state = "DS_IDLE" /\ mailbox'.processed = 1
      /\ mailbox'.address = mailbox.address
  BY <1>1, <1>4 DEF Mailbox
<1>6. /\ UNCHANGED <<cache, cpu, ram, ticks, retired>> /\ stored' = ram /\ TypeInv'
      /\ ~cpu.running
  BY <1>5, BusSlotMoves
<1>7. dev'["TICKER"] = dev["TICKER"] /\ \A d \in Slave : dev'[d] = dev[d]
  BY <1>1, <1>4, Mailboxes
<1>8. ServiceInv' /\ ram = stored /\ MemoryInv'
  BY <1>1, <1>3, <1>6, <1>7, Mailboxes DEF ServiceInv, MemoryInv, Served
<1>9. AccessInv'
  BY <1>1, <1>2, <1>5, <1>6, AccessStays
<1>10. TickInv' /\ delivered' = delivered
  BY <1>1, <1>6, <1>7 DEF TickInv, delivered
<1>11. SlotInv'
  BY <1>1, <1>2, <1>5, <1>6, BusSlotMoves, SameMailbox DEF SlotInv, Abstract!Created
<1>12. Abstract!Answer
  <2>1. \/ Abstract!Between("DS_FETCH") /\ Abstract!OpenRead(mailbox.address)
        \/ Abstract!Between("DS_STORE") /\ Abstract!OpenWrite(mailbox.address)
    BY <1>2, <1>6, SamePending, SameMap
  <2> QED BY <1>4, <1>6, <1>8, <1>10, <2>1, SamePosts, SameMailbox
          DEF Abstract!Answer, Abstract!MemoryOpen, Abstract!Post
<1> QED BY <1>6, <1>8, <1>9, <1>10, <1>11, <1>12 DEF ComputerInv

\* The bus comes to the ticker between the processor's accesses.
LEMMA InterruptSeen ==
  ASSUME ComputerInv, BusSlot, BusInterrupt
  PROVE  ComputerInv' /\ Abstract!Interrupt
<1>1. /\ AccessInv /\ ServiceInv /\ MemoryInv /\ TickInv /\ SlotInv /\ DevicesTypeOK
      /\ mailbox \in Mailbox
  BY Mailboxes DEF ComputerInv, TypeInv, Stores
<1>2. /\ mailbox.state = "DS_IDLE" /\ dev["TICKER"].state = "DS_INTERRUPT"
      /\ dev["TICKER"].address = INT_CLOCK /\ ticks \in 0 .. MaxTicks /\ ticks > 0
  BY <1>1 DEF BusInterrupt, TickInv, mailbox
<1>3. mailbox.processed = 0
  BY <1>1, <1>2, BusSlotMoves DEF BusInterrupt, Mailbox
<1>4. dev["RAM"].state = "DS_IDLE"
  BY <1>1, <1>2 DEF ServiceInv
<1>5. /\ mailbox' = [mailbox EXCEPT !.state = "DS_INTERRUPT", !.address = INT_CLOCK]
      /\ dev'["TICKER"].state = "DS_IDLE" /\ \A d \in Slave : dev'[d] = dev[d]
  BY <1>1, <1>2, Mailboxes DEF BusInterrupt, mailbox, DevicesTypeOK, Mailbox
<1>6. mailbox'.state = "DS_INTERRUPT" /\ mailbox'.processed = 0
  BY <1>1, <1>3, <1>5 DEF Mailbox
<1>7. /\ UNCHANGED <<cache, cpu, ram, ticks, retired>> /\ stored' = stored /\ TypeInv'
      /\ ~cpu.running /\ ~Abstract!Created
  BY <1>6, BusSlotMoves
<1>8. ServiceInv' /\ MemoryInv'
  BY <1>1, <1>4, <1>5, <1>7, Mailboxes DEF ServiceInv, MemoryInv, Served
<1>9. AccessInv'
  BY <1>6 DEF AccessInv
<1>10. TickInv'
  BY <1>1, <1>5, <1>7 DEF TickInv
<1>11. SlotInv'
  BY <1>1, <1>6, <1>7, BusSlotMoves, SameMailbox DEF SlotInv, Abstract!Created
<1>12. delivered' = delivered + 1 /\ delivered < MaxTicks
  <2>1. delivered = ticks - 1
    BY <1>2 DEF delivered
  <2>2. delivered' = ticks - 0
    BY <1>5, <1>7 DEF delivered
  <2> QED BY <1>2, <2>1, <2>2, ProgramAssumption
<1>13. Abstract!Interrupt
  BY <1>2, <1>3, <1>5, <1>7, <1>12, SamePosts, SameMailbox DEF Abstract!Interrupt, Abstract!Post
<1> QED BY <1>7, <1>8, <1>9, <1>10, <1>11, <1>13 DEF ComputerInv

LEMMA BusSlotSeen ==
  ASSUME ComputerInv, OnRam, BusSlot
  PROVE  /\ ComputerInv'
         /\ Abstract!Answer \/ Abstract!Interrupt \/ UNCHANGED Abstract!vars
<1>1. bus_clock
  BY DEF BusSlot
<1>2. CASE \E d \in Slave : BusForwardFetch(d) \/ BusForwardStore(d)
  BY <1>2, ForwardSeen
<1>3. CASE \E d \in Slave : BusReplyFetch(d) \/ BusReplyStore(d)
  BY <1>3, ReplySeen
<1>4. CASE (\E d \in Slave : BusListenerBusy(d)) \/ BusNothing
  <2>1. UNCHANGED dev
    BY <1>4 DEF BusListenerBusy, BusNothing
  <2> QED BY <2>1, IdleSeen
<1>5. CASE BusOpen
  BY <1>5, OpenSeen
<1>6. CASE BusInterrupt
  BY <1>6, InterruptSeen
<1> QED BY <1>1, <1>2, <1>3, <1>4, <1>5, <1>6 DEF bus_clock

-----------------------------------------------------------------------------
(* The slots of the other devices, which the abstract machine does not see. *)

\* A device's slot moves the clock on and leaves the bus where it is.
LEMMA SlotMoves ==
  ASSUME ComputerInv, NEW s, s # "CPU", s # "BUS", Slot(s),
         UNCHANGED <<cpu, attended_device_index>>, mailbox' = mailbox
  PROVE  SlotInv'
<1>1. SlotInv /\ At(s) /\ slot' = next_slot
  BY DEF ComputerInv, Slot
<1>2. slot # 1 /\ ~cpu.running /\ ~Abstract!Created
  BY <1>1, Turning DEF SlotInv, At
<1>3. slot' \in 1 .. Len(clock_order) /\ TurnsBefore[slot'] = TurnsBefore[slot]
  BY <1>1, Turning, Orders DEF SlotInv, At, next_slot
<1> QED BY <1>1, <1>2, <1>3, SameMailbox DEF SlotInv, BusTypeOK, Abstract!Created

LEMMA RamSlotSeen ==
  ASSUME ComputerInv, RamSlot
  PROVE  ComputerInv' /\ UNCHANGED Abstract!vars
<1>1. /\ TypeInv /\ AccessInv /\ ServiceInv /\ MemoryInv /\ TickInv /\ SlotInv
      /\ DevicesTypeOK /\ RamTypeOK
      /\ mailbox \in Mailbox /\ dev["RAM"] \in Mailbox
  BY Mailboxes DEF ComputerInv, TypeInv, Stores
<1>2. /\ Slot("RAM") /\ ram_clock
      /\ UNCHANGED <<cache, cpu, attended_device_index, ticks, stored, retired>>
  BY DEF RamSlot, history
<1>3. TypeInv'
  BY <1>1, <1>2, RamClockType
     DEF TypeInv, Stores, CacheTypeOK, Typed, HalfOK, InstructionOK
<1>4. /\ \A d \in Device : d # "RAM" => dev'[d] = dev[d]
      /\ dev'["RAM"].state = dev["RAM"].state
      /\ dev'["RAM"].address = dev["RAM"].address
      /\ dev["RAM"].state # "DS_FETCH" => dev'["RAM"].data = dev["RAM"].data
  BY <1>1, <1>2, Mailboxes
     DEF ram_clock, RamFetch, RamStore, RamWait, Done, DoneWith, Pending, DevicesTypeOK, Mailbox
<1>5. mailbox' = mailbox /\ dev'["TICKER"] = dev["TICKER"]
      /\ \A d \in Slave : d # "RAM" => dev'[d] = dev[d]
  BY <1>1, <1>4, Mailboxes DEF mailbox
<1>6. ServiceInv'
  BY <1>1, <1>4, <1>5 DEF ServiceInv
<1>7. MemoryInv'
  <2>1. CASE RamFetch
    <3>1. /\ dev["RAM"].state = "DS_FETCH" /\ ram' = ram /\ dev["RAM"].address = mailbox.address
          /\ dev'["RAM"].data = ram_read(mailbox.address)
      BY <1>1, <2>1, Mailboxes DEF RamFetch, Pending, DoneWith, DevicesTypeOK, ServiceInv
    <3> QED BY <1>1, <1>2, <1>4, <1>5, <3>1 DEF MemoryInv, Served, ram_read
  <2>2. CASE RamStore
    <3>1. dev["RAM"].state = "DS_STORE" /\ dev["RAM"].processed = 0
      BY <2>2 DEF RamStore, Pending
    <3>2. mailbox.address = dev["RAM"].address /\ dev["RAM"].data = mailbox.data
      BY <1>1, <3>1 DEF ServiceInv
    <3>3. ram' = [ram EXCEPT ![mailbox.address] = mailbox.data[0]]
      BY <2>2, <3>2 DEF RamStore, ram_write
    <3>4. dev'["RAM"].processed = 1
      BY <1>1, <2>2, Mailboxes DEF RamStore, Done, DevicesTypeOK, Mailbox
    <3> QED BY <1>1, <1>2, <1>4, <1>5, <3>1, <3>3, <3>4 DEF MemoryInv, Served
  <2>3. CASE RamWait
    <3>1. UNCHANGED <<dev, ram>>
      BY <2>3 DEF RamWait
    <3> QED BY <1>1, <1>2, <1>5, <3>1 DEF MemoryInv, Served, ram_read
  <2> QED BY <1>2, <2>1, <2>2, <2>3 DEF ram_clock
<1>8. AccessInv'
  <2>1. mailbox'.state = "DS_INTERRUPT" => mailbox'.processed = 0
    BY <1>1, <1>5 DEF AccessInv
  <2> QED BY <1>1, <1>2, <1>5, <2>1, AccessStays
<1>9. TickInv' /\ delivered' = delivered
  BY <1>1, <1>2, <1>5 DEF TickInv, delivered
<1>10. SlotInv'
  BY <1>2, <1>5, SlotMoves
<1> QED BY <1>2, <1>3, <1>5, <1>6, <1>7, <1>8, <1>9, <1>10, Unseen DEF ComputerInv

\* Nobody asks these devices.
LEMMA OtherSlotSeen ==
  ASSUME ComputerInv, TerminalSlot \/ FileSystemSlot \/ BankSlot
  PROVE  ComputerInv' /\ UNCHANGED Abstract!vars
<1>1. /\ TypeInv /\ AccessInv /\ ServiceInv /\ MemoryInv /\ TickInv /\ SlotInv
  BY DEF ComputerInv
<1>2. /\ dev["TERMINAL"].state = "DS_IDLE" /\ dev["FILESYSTEM"].state = "DS_IDLE"
      /\ dev["MEMORY_BANK"].state = "DS_IDLE"
  BY <1>1 DEF ServiceInv, Slave
<1>3. UNCHANGED dev
  BY <1>2
     DEF TerminalSlot, terminal_clock, TerminalPrint, TerminalWait,
         FileSystemSlot, filesystem_clock, FsStoreMode, FsStoreInput, FsFetchMode,
         FsFetchOutput, FsModifier, FsWait,
         BankSlot, memory_bank_clock, BankFetch, BankSelect, BankStore, BankWait, Pending
<1>4. /\ \E s : s # "CPU" /\ s # "BUS" /\ Slot(s)
      /\ UNCHANGED <<cache, cpu, ram, attended_device_index, ticks, stored, retired>>
  BY DEF TerminalSlot, FileSystemSlot, BankSlot, history
<1>5. mailbox' = mailbox /\ delivered' = delivered
  BY <1>3, <1>4 DEF mailbox, delivered
<1>6. TypeInv' /\ AccessInv' /\ ServiceInv' /\ MemoryInv' /\ TickInv'
  <2>1. TypeInv'
    BY <1>1, <1>3, <1>4
       DEF TypeInv, Stores, CacheTypeOK, RamTypeOK, DevicesTypeOK, Typed, HalfOK, InstructionOK
  <2>2. AccessInv'
    BY <1>1, <1>4, <1>5 DEF AccessInv, AtStore, ReadsFrom, Cached, Caching, Hit
  <2>3. ServiceInv' /\ TickInv'
    BY <1>1, <1>3, <1>4, <1>5 DEF ServiceInv, TickInv
  <2>4. MemoryInv'
    BY <1>1, <1>3, <1>4, <1>5 DEF MemoryInv, Served, ram_read
  <2> QED BY <2>1, <2>2, <2>3, <2>4
<1>7. SlotInv'
  BY <1>4, <1>5, SlotMoves
<1> QED BY <1>4, <1>5, <1>6, <1>7, Unseen DEF ComputerInv

\* A tick counts as delivered when the bus has delivered it.
LEMMA TickerSlotSeen ==
  ASSUME ComputerInv, TickerSlot
  PROVE  ComputerInv' /\ UNCHANGED Abstract!vars
<1>1. /\ TypeInv /\ AccessInv /\ ServiceInv /\ MemoryInv /\ TickInv /\ SlotInv
      /\ DevicesTypeOK
  BY DEF ComputerInv, TypeInv, Stores
<1>2. /\ Slot("TICKER") /\ ticker_clock
      /\ ticks' = IF dev' # dev THEN ticks + 1 ELSE ticks
      /\ ticks' <= MaxTicks
      /\ UNCHANGED <<cache, cpu, ram, attended_device_index, stored, retired>>
  BY DEF TickerSlot
<1>3. DevicesTypeOK' /\ TypeInv'
  BY <1>1, <1>2, TickerClockType
     DEF TypeInv, Stores, CacheTypeOK, RamTypeOK, Typed, HalfOK, InstructionOK
<1>4. \A d \in Device : d # "TICKER" => dev'[d] = dev[d]
  BY <1>1, <1>2 DEF ticker_clock, TickerFire, TickerWait, DevicesTypeOK
<1>5. mailbox' = mailbox /\ \A d \in Slave : dev'[d] = dev[d]
  BY <1>1, <1>4, Mailboxes DEF mailbox, Slave, Device
<1>6. ServiceInv' /\ MemoryInv'
  BY <1>1, <1>2, <1>5, Mailboxes DEF ServiceInv, MemoryInv, Served, ram_read
<1>7. AccessInv'
  BY <1>1, <1>2, <1>5 DEF AccessInv, AtStore, ReadsFrom, Cached, Caching, Hit
<1>8. SlotInv'
  BY <1>2, <1>5, SlotMoves
<1>9. TickInv' /\ delivered' = delivered
  <2>1. dev["TICKER"] \in Mailbox /\ ticks \in Nat
    BY <1>1, Mailboxes DEF TickInv
  <2>2. CASE dev' = dev
    BY <1>1, <1>2, <2>2 DEF TickInv, delivered
  <2>3. CASE dev' # dev
    <3>1. TickerFire
      BY <1>2, <2>3 DEF ticker_clock, TickerWait
    <3>2. dev'["TICKER"] = [dev["TICKER"] EXCEPT !.state = "DS_INTERRUPT",
                              !.address = INT_CLOCK, !.data = ByteLine(0)]
      BY <1>1, <3>1, Mailboxes DEF TickerFire, DevicesTypeOK
    <3>3. /\ dev'["TICKER"].state = "DS_INTERRUPT"
          /\ dev'["TICKER"].address = INT_CLOCK /\ dev'["TICKER"].data = ByteLine(0)
      BY <2>1, <3>2 DEF Mailbox
    <3>4. dev["TICKER"].state # "DS_INTERRUPT"
      <4>1. SUFFICES ASSUME dev["TICKER"].state = "DS_INTERRUPT" PROVE dev' = dev
        BY <2>3
      <4>2. dev["TICKER"].address = INT_CLOCK /\ dev["TICKER"].data = ByteLine(0)
        BY <1>1, <4>1 DEF TickInv
      <4>3. dev'["TICKER"] = dev["TICKER"]
        BY ZenonT(60), <2>1, <3>2, <4>1, <4>2 DEF Mailbox
      <4> QED BY <1>1, <1>3, <1>4, <4>3 DEF DevicesTypeOK
    <3>5. ticks' = ticks + 1
      BY <1>2, <2>3
    <3>6. delivered = ticks - 0 /\ delivered' = (ticks + 1) - 1
      BY <3>3, <3>4, <3>5 DEF delivered
    <3>7. delivered' = delivered
      BY <2>1, <3>6
    <3> QED BY <1>1, <1>2, <2>1, <3>3, <3>5, <3>7, ProgramAssumption DEF TickInv
  <2> QED BY <2>2, <2>3
<1> QED BY <1>2, <1>3, <1>5, <1>6, <1>7, <1>8, <1>9, Unseen DEF ComputerInv

-----------------------------------------------------------------------------
(* The computer implements the machine.                                    *)

LEMMA StepSeen ==
  ASSUME ComputerInv, OnRam, [Next]_vars
  PROVE  ComputerInv' /\ [Abstract!Next]_(Abstract!vars)
<1>1. CASE CpuSlot
  BY <1>1, CpuSlotSeen DEF Abstract!Next
<1>2. CASE BusSlot
  BY <1>2, BusSlotSeen DEF Abstract!Next
<1>3. CASE RamSlot
  BY <1>3, RamSlotSeen
<1>4. CASE TerminalSlot \/ FileSystemSlot \/ BankSlot
  BY <1>4, OtherSlotSeen
<1>5. CASE TickerSlot
  BY <1>5, TickerSlotSeen
<1>6. CASE UNCHANGED vars
  <2>1. /\ UNCHANGED <<dev, cache, cpu, ram, attended_device_index, slot, ticks,
                       stored, retired>>
        /\ mailbox' = mailbox
    BY <1>6 DEF vars, history, mailbox
  <2>2. delivered' = delivered
    BY <2>1 DEF delivered
  <2>3. TypeInv' /\ AccessInv'
    BY <2>1
       DEF ComputerInv, TypeInv, Stores, CacheTypeOK, RamTypeOK, DevicesTypeOK, Typed,
           HalfOK, InstructionOK, AccessInv, AtStore, ReadsFrom, Cached, Caching, Hit
  <2>4. ServiceInv' /\ MemoryInv' /\ TickInv' /\ SlotInv'
    BY <2>1, SameMailbox
       DEF ComputerInv, ServiceInv, MemoryInv, Served, ram_read, TickInv, SlotInv, BusTypeOK,
           Abstract!Created
  <2> QED BY <2>1, <2>2, <2>3, <2>4, Unseen DEF ComputerInv
<1> QED BY <1>1, <1>2, <1>3, <1>4, <1>5, <1>6 DEF Next

\* Whatever the program, the tables, the caches and the ticker: if the program
\* keeps to the RAM, then the computer is a processor on an atomic memory, with
\* interrupts that come between its accesses, and what is proved and checked of
\* Machine is true of the computer.
THEOREM ComputerImplementsMachine ==
  Spec /\ [](loaded.on_ram => OnRam) => ImplementsMachine
<1> DEFINE Inv    == loaded.on_ram => ComputerInv
           Keeps  == loaded.on_ram => OnRam
           Start  == loaded.on_ram => Abstract!Init
<1>1. Init => Inv /\ Start
  BY StartInv, StartSeen
<1>2. [Next]_vars => loaded' = loaded
  BY DEF Next, vars, history, CpuSlot, BusSlot, RamSlot, TerminalSlot, FileSystemSlot,
         BankSlot, TickerSlot, loaded
<1>3. Inv /\ Keeps /\ [Next]_vars => Inv'
  BY <1>2, StepSeen
<1>4. Inv /\ Keeps /\ [Next]_vars =>
        [loaded.on_ram => OnRam /\ [Abstract!Next]_(Abstract!vars)]_vars
  BY StepSeen
<1> QED BY <1>1, <1>3, <1>4, PTL DEF Spec, ImplementsMachine
=============================================================================

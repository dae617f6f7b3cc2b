------------------------------ MODULE CpuProofs ------------------------------
(***************************************************************************)
(* What a clock of the processor does, for all programs, tables and sizes: *)
(* everything stays within its width (ClocksTyped), each control state is  *)
(* at one memory access or at none (Seen), what the mailbox asks for is    *)
(* what the control waits for (ClocksAsk), and a clock writes no mailbox   *)
(* but the processor's, and not that while it asks (ClocksPost).           *)
(***************************************************************************)
EXTENDS Cpu, Ram, AluProofs

\* Half a word is there between the two bytes of an operand.
HalfOK(c) ==
  /\ c.state \in {"FETCH_SOURCE_HIGH", "INTERRUPT_FETCH_IRQ_VECTOR_HIGH"} =>
       c.data_extended \in BYTE
  /\ c.state = "FETCH_DESTINATION_HIGH" => c.data_reduced \in BYTE
  /\ c.state = "POP_HIGH" => c.result \in BYTE

\* The mnemonics of the tables set no flag that the register has not got.
InstructionOK(c) == FlagsAfter(c.instruction, {}) \subseteq Flag

Typed(c) == c \in CpuRecord /\ HalfOK(c) /\ InstructionOK(c)

Stores == DevicesTypeOK /\ CacheTypeOK /\ RamTypeOK

TypeInv == Typed(cpu) /\ Stores

-----------------------------------------------------------------------------
LEMMA Sizes ==
  /\ Address = AWord /\ BYTE_RANGE \in Nat /\ BYTE_RANGE > 1 /\ WORDS = BYTE_RANGE * BYTE_RANGE
  /\ BYTE \subseteq AWord /\ 0 \in AWord /\ 0 \in BYTE /\ 0 \in 0 .. LINE - 1
  /\ LINE \in Nat \ {0} /\ ADDRESS_SPACE = WORDS
<1>1. BYTE_RANGE \in Nat /\ BYTE_RANGE > 1 /\ WORDS = BYTE_RANGE * BYTE_RANGE /\ ADDRESS_SPACE = WORDS
  BY WordAssumption, EncodingAssumption
<1>2. BYTE_RANGE <= WORDS
  BY <1>1
<1> QED BY <1>1, <1>2, WordAssumption DEF Address, AWord, BYTE

LEMMA Bytes ==
  /\ \A w \in AWord : Low(w) \in BYTE /\ High(w) \in BYTE
  /\ \A lo, hi \in BYTE : WordOf(lo, hi) \in AWord
<1>1. ASSUME NEW w \in AWord
      PROVE  Low(w) \in BYTE /\ High(w) \in BYTE
  <2>1. w \in Nat /\ w < BYTE_RANGE * BYTE_RANGE
    BY Sizes DEF AWord
  <2>2. w % BYTE_RANGE \in 0 .. BYTE_RANGE - 1
    BY <2>1, Sizes
  <2>3. w \div BYTE_RANGE \in Nat /\ w \div BYTE_RANGE < BYTE_RANGE
    BY <2>1, Sizes
  <2>4. w \div BYTE_RANGE \in 0 .. BYTE_RANGE - 1
    BY <2>3, Sizes
  <2> QED BY <2>2, <2>4 DEF Low, High, BYTE
<1>2. ASSUME NEW lo \in BYTE, NEW hi \in BYTE
      PROVE  WordOf(lo, hi) \in AWord
  <2>1. lo \in Nat /\ lo < BYTE_RANGE /\ hi \in Nat /\ hi <= BYTE_RANGE - 1
    BY Sizes DEF BYTE
  <2>2. BYTE_RANGE * hi \in Nat /\ BYTE_RANGE * hi <= BYTE_RANGE * BYTE_RANGE - BYTE_RANGE
    BY <2>1, Sizes
  <2> QED BY <2>1, <2>2, Sizes DEF WordOf, AWord
<1> QED BY <1>1, <1>2

LEMMA WrapAddress == \A i \in Int : Wrap(i) \in Address
BY Wrapping, Sizes

LEMMA VectorAddress == \A w \in AWord : Vector(w) \in Address
<1> SUFFICES ASSUME NEW w \in AWord
             PROVE  Vector(w) \in Address
  OBVIOUS
<1>1. SEGMENT_IRQ_TABLE \in Int
  BY EncodingAssumption DEF Address
<1>2. w \in Int
  BY DEF AWord
<1>3. SEGMENT_IRQ_TABLE + 2 * w \in Int
  BY <1>1, <1>2
<1> QED BY <1>3, WrapAddress DEF Vector

LEMMA Stepping == \A w \in AWord : Wrap(w + 1) \in AWord /\ Wrap(w - 1) \in AWord
<1> SUFFICES ASSUME NEW w \in AWord
             PROVE  Wrap(w + 1) \in AWord /\ Wrap(w - 1) \in AWord
  OBVIOUS
<1>1. w + 1 \in Int /\ w - 1 \in Int
  BY DEF AWord
<1> QED BY <1>1, Wrapping

LEMMA Flags ==
  /\ {"NC", "MNI", "AO"} \subseteq Flag
  /\ \A w : SrFlags(w) \in SUBSET Flag
  /\ \A s \in SUBSET Flag : SrValue(s) \in AWord
<1>1. {"NC", "MNI", "AO"} \subseteq Flag
  BY FlagAssumption DEF InternalFlags
<1>2. \A w : SrFlags(w) \in SUBSET Flag
  BY DEF SrFlags, Flag
<1>3. ASSUME NEW s \in SUBSET Flag
      PROVE  SrValue(s) \in AWord
  <2> DEFINE S == {j \in 0 .. WIDTH - 1 : SR_LAYOUT[j + 1] \in s}
  <2>1. S \in SUBSET Nat
    BY WordFacts
  <2>2. PICK w \in AWord : \A i \in 0 .. WIDTH - 1 : Bit(w, i) = 1 <=> i \in S
    <3> HIDE DEF S
    <3> QED BY <2>1, SomeWord
  <2>3. \A i \in 1 .. WIDTH : Bit(w, i - 1) = 1 <=> SR_LAYOUT[i] \in s
    <3> SUFFICES ASSUME NEW i \in 1 .. WIDTH
                 PROVE  Bit(w, i - 1) = 1 <=> SR_LAYOUT[i] \in s
      OBVIOUS
    <3>1. i - 1 \in 0 .. WIDTH - 1 /\ (i - 1) + 1 = i
      BY WordFacts
    <3> QED BY <2>2, <3>1
  <2>4. SrFlags(w) = s
    BY <2>3 DEF SrFlags, Flag
  <2> QED BY <2>4 DEF SrValue
<1> QED BY <1>1, <1>2, <1>3

\* The bytes of the last offset are the ones that stay.
LEMMA LastOffsets ==
  ASSUME NEW i, NEW a \in Nat, NEW n \in Nat,
         \E o \in 0 .. n - 1 : (a + o) % CAPACITY = i
  PROVE  /\ LastOffset(i, a, n) \in 0 .. n - 1
         /\ (a + LastOffset(i, a, n)) % CAPACITY = i
<1> DEFINE Is(o) == (a + o) % CAPACITY = i
           Last(o) == Is(o) /\ \A q \in o + 1 .. n - 1 : ~Is(q)
           S == {k \in Nat : \A o \in 0 .. n - 1 : Is(o) /\ n - 1 - o <= k =>
                   \E l \in 0 .. n - 1 : Last(l)}
<1> HIDE DEF Is
<1>1. 0 \in S
  <2> SUFFICES ASSUME NEW o \in 0 .. n - 1, Is(o), n - 1 - o <= 0
               PROVE  Last(o)
    OBVIOUS
  <2>1. o + 1 .. n - 1 = {}
    OBVIOUS
  <2> QED BY <2>1
<1>2. ASSUME NEW k \in Nat, k \in S
      PROVE  k + 1 \in S
  <2> SUFFICES ASSUME NEW o \in 0 .. n - 1, Is(o), n - 1 - o <= k + 1
               PROVE  \E l \in 0 .. n - 1 : Last(l)
    OBVIOUS
  <2>1. CASE \E q \in o + 1 .. n - 1 : Is(q)
    <3>1. PICK q \in o + 1 .. n - 1 : Is(q)
      BY <2>1
    <3>2. q \in 0 .. n - 1 /\ n - 1 - q <= k
      OBVIOUS
    <3> QED BY <1>2, <3>1, <3>2
  <2>2. CASE ~\E q \in o + 1 .. n - 1 : Is(q)
    BY <2>2
  <2> QED BY <2>1, <2>2
<1>3. Nat \subseteq S
  <2> HIDE DEF S
  <2> QED BY <1>1, <1>2, Induction
<1>4. \E l \in 0 .. n - 1 : Last(l)
  <2>1. PICK o \in 0 .. n - 1 : Is(o)
    BY DEF Is
  <2>2. n - 1 - o \in Nat /\ n - 1 - o <= n - 1 - o
    OBVIOUS
  <2>3. n - 1 - o \in S
    BY <1>3, <2>2
  <2> QED BY <2>1, <2>2, <2>3
<1>5. LastOffset(i, a, n) = CHOOSE o \in 0 .. n - 1 : Last(o)
  BY DEF LastOffset, Is
<1>6. LastOffset(i, a, n) \in 0 .. n - 1 /\ Last(LastOffset(i, a, n))
  <2> HIDE DEF Last
  <2> QED BY <1>4, <1>5
<1> QED BY <1>6 DEF Is

-----------------------------------------------------------------------------
(***************************************************************************)
(* The mailbox and the cache.                                              *)
(***************************************************************************)
LEMMA ByteLines == \A b \in BYTE : ByteLine(b) \in Line
BY Sizes DEF ByteLine, Line

LEMMA Own ==
  ASSUME DevicesTypeOK
  PROVE  mailbox \in Mailbox /\ dev \in [Device -> Mailbox] /\ "CPU" \in Device
BY DEF DevicesTypeOK, mailbox, Device

LEMMA Posting ==
  ASSUME DevicesTypeOK, NEW m \in Mailbox, Post(m)
  PROVE  DevicesTypeOK'
BY Own DEF DevicesTypeOK, Post

LEMMA Releasing ==
  ASSUME DevicesTypeOK, Release
  PROVE  DevicesTypeOK'
<1>1. [mailbox EXCEPT !.state = "DS_IDLE", !.processed = 0] \in Mailbox
  BY Own DEF Mailbox, DeviceState
<1> QED BY <1>1, Posting DEF Release

LEMMA CacheWritten ==
  ASSUME CacheTypeOK, NEW a \in Address, NEW l \in Line, NEW n \in 0 .. LINE
  PROVE  cache_write(a, l, n) \in
           [0 .. CAPACITY - 1 -> [valid : BOOLEAN, address : Address, data : BYTE]]
<1> DEFINE Entry == [valid : BOOLEAN, address : Address, data : BYTE]
           Here(i) == LET o == LastOffset(i, a, n)
                      IN [valid |-> TRUE, address |-> (a + o) % ADDRESS_SPACE, data |-> l[o]]
<1>1. a \in Nat /\ n \in Nat /\ n <= LINE
  BY Sizes DEF Address
<1>2. ASSUME NEW i \in 0 .. CAPACITY - 1, \E o \in 0 .. n - 1 : (a + o) % CAPACITY = i
      PROVE  Here(i) \in Entry
  <2> DEFINE o == LastOffset(i, a, n)
  <2>1. o \in 0 .. n - 1
    BY <1>1, <1>2, LastOffsets
  <2> HIDE DEF o
  <2>2. l[o] \in BYTE
    BY <1>1, <2>1, Sizes DEF Line
  <2>3. (a + o) % ADDRESS_SPACE \in Address
    <3>1. Wrap(a + o) \in Address
      BY <1>1, <2>1, WrapAddress
    <3> QED BY <3>1, Sizes DEF Wrap
  <2> QED BY <2>2, <2>3 DEF o
<1>3. \A i \in 0 .. CAPACITY - 1 : cache[i] \in Entry
  BY DEF CacheTypeOK
<1> HIDE DEF Entry
<1>4. \A i \in 0 .. CAPACITY - 1 :
        (IF \E o \in 0 .. n - 1 : (a + o) % CAPACITY = i THEN Here(i) ELSE cache[i]) \in Entry
  <2> HIDE DEF Here
  <2> QED BY <1>2, <1>3
<1>5. cache_write(a, l, n) =
        [i \in 0 .. CAPACITY - 1 |->
           IF \E o \in 0 .. n - 1 : (a + o) % CAPACITY = i THEN Here(i) ELSE cache[i]]
  BY DEF cache_write
<1> HIDE DEF Here
<1> QED BY <1>4, <1>5 DEF Entry

LEMMA ReadBytes ==
  ASSUME Stores, NEW a \in Address
  PROVE  ReadByte(a) \in BYTE
<1>1. ASSUME Cached(a)
      PROVE  CachedByte(a) \in BYTE
  <2>1. CAPACITY \in Nat \ {0}
    BY <1>1, CacheAssumption DEF Cached, Hit
  <2>2. a % CAPACITY \in 0 .. CAPACITY - 1
    BY <2>1 DEF Address
  <2> QED BY <2>2 DEF Stores, CacheTypeOK, CachedByte
<1>2. mailbox.data[0] \in BYTE
  BY Own, Sizes DEF Stores, Mailbox, Line
<1> QED BY <1>1, <1>2 DEF ReadByte

\* A read keeps the types if the processor before and after it has them.
LEMMA Reading ==
  ASSUME Stores, NEW a \in Address, NEW c, NEW d, Typed(c), Typed(d),
         cpu_read_memory(a, c, d), UNCHANGED ram
  PROVE  TypeInv'
<1>1. Typed(Stop(c))
  BY DEF Typed, Stop, CpuRecord, HalfOK, InstructionOK
<1>2. CASE ReadHit(a, d)
  BY <1>2 DEF ReadHit, Proceed, TypeInv, Stores, DevicesTypeOK, CacheTypeOK, RamTypeOK
<1>3. CASE ReadReplied(a, d)
  <2>1. DevicesTypeOK'
    BY <1>3, Releasing DEF ReadReplied, Stores
  <2>2. CacheTypeOK'
    <3>1. cache_write(a, mailbox.data, LINE) \in
            [0 .. CAPACITY - 1 -> [valid : BOOLEAN, address : Address, data : BYTE]]
      <4>1. mailbox.data \in Line /\ LINE \in 0 .. LINE
        BY Own, Sizes DEF Stores, Mailbox
      <4> QED BY <4>1, CacheWritten DEF Stores
    <3> QED BY <1>3, <3>1 DEF ReadReplied, Stores, CacheTypeOK
  <2> QED BY <1>3, <2>1, <2>2 DEF ReadReplied, TypeInv, Stores, RamTypeOK
<1>4. CASE ReadRequest(a, c)
  <2>1. [mailbox EXCEPT !.state = "DS_FETCH", !.processed = 0, !.address = a] \in Mailbox
    BY Own DEF Stores, Mailbox, DeviceState
  <2>2. DevicesTypeOK'
    BY <1>4, <2>1, Posting DEF ReadRequest, Stores
  <2> QED BY <1>1, <1>4, <2>2 DEF ReadRequest, TypeInv, Stores, CacheTypeOK, RamTypeOK
<1>5. CASE Waiting(c)
  BY <1>1, <1>5 DEF Waiting, Proceed, TypeInv, Stores, DevicesTypeOK, CacheTypeOK, RamTypeOK
<1> QED BY <1>2, <1>3, <1>4, <1>5 DEF cpu_read_memory

\* So does a write.
LEMMA Writing ==
  ASSUME Stores, NEW a \in Address, NEW b \in BYTE, NEW c, NEW d, Typed(c), Typed(d),
         cpu_write_memory(a, b, c, d), UNCHANGED ram
  PROVE  TypeInv'
<1>1. Typed(Stop(c))
  BY DEF Typed, Stop, CpuRecord, HalfOK, InstructionOK
<1>2. CASE WriteReplied(d)
  <2>1. DevicesTypeOK'
    BY <1>2, Releasing DEF WriteReplied, Stores
  <2> QED BY <1>2, <2>1 DEF WriteReplied, TypeInv, Stores, CacheTypeOK, RamTypeOK
<1>3. CASE WriteRequest(a, b, c)
  <2>1. [mailbox EXCEPT !.state = "DS_STORE", !.address = a, !.data = ByteLine(b)] \in Mailbox
    BY Own, ByteLines DEF Stores, Mailbox, DeviceState
  <2>2. DevicesTypeOK'
    BY <1>3, <2>1, Posting DEF WriteRequest, Stores
  <2>3. CacheTypeOK'
    <3>1. cache_write(a, ByteLine(b), 1) \in
            [0 .. CAPACITY - 1 -> [valid : BOOLEAN, address : Address, data : BYTE]]
      BY ByteLines, Sizes, CacheWritten DEF Stores
    <3> QED BY <1>3, <3>1 DEF WriteRequest, Stores, CacheTypeOK
  <2> QED BY <1>1, <1>3, <2>2, <2>3 DEF WriteRequest, TypeInv, Stores, RamTypeOK
<1>4. CASE Waiting(c)
  BY <1>1, <1>4 DEF Waiting, Proceed, TypeInv, Stores, DevicesTypeOK, CacheTypeOK, RamTypeOK
<1> QED BY <1>2, <1>3, <1>4 DEF cpu_write_memory

LEMMA Proceeding ==
  ASSUME Stores, NEW c, Typed(c), Proceed(c), UNCHANGED ram
  PROVE  TypeInv'
BY DEF Proceed, TypeInv, Stores, DevicesTypeOK, CacheTypeOK, RamTypeOK

-----------------------------------------------------------------------------
(***************************************************************************)
(* The control states.                                                     *)
(***************************************************************************)
Halves == {"FETCH_SOURCE_HIGH", "INTERRUPT_FETCH_IRQ_VECTOR_HIGH",
           "FETCH_DESTINATION_HIGH", "POP_HIGH"}

LEMMA Settled ==
  ASSUME NEW c, Typed(c), NEW d \in CpuRecord, d.instruction = c.instruction,
         d.state \notin Halves
  PROVE  Typed(d)
BY DEF Typed, HalfOK, InstructionOK, Halves

LEMMA Going ==
  ASSUME NEW c, Typed(c)
  PROVE  /\ \A s \in CpuState \ Halves : Typed(Goto(c, s))
         /\ Typed(Counted(c)) /\ Typed(Finish(c)) /\ Typed(Stop(c))
<1>1. ASSUME NEW d, Typed(d), NEW s \in CpuState \ Halves
      PROVE  Typed(Goto(d, s))
  BY <1>1 DEF Typed, Goto, CpuRecord, HalfOK, InstructionOK, Halves
<1>2. Typed(Counted(c))
  <2>1. (c.executed + 1) % COUNT_RANGE \in 0 .. COUNT_RANGE - 1
    BY CountAssumption, WordFacts DEF Typed, CpuRecord
  <2> QED BY <2>1 DEF Typed, Counted, CpuRecord, HalfOK, InstructionOK
<1>3. Typed(Finish(c))
  BY <1>1, <1>2 DEF Finish, CpuState, Halves
<1>4. Typed(Stop(c))
  BY DEF Typed, Stop, CpuRecord, HalfOK, InstructionOK
<1> QED BY <1>1, <1>2, <1>3, <1>4

LEMMA Masks ==
  ASSUME Typed(cpu)
  PROVE  Typed(Restartable) /\ Typed(Committed) /\ Typed(AtBase)
<1>1. Typed(Restartable)
  BY DEF Typed, Restartable, CpuRecord, HalfOK, InstructionOK
<1>2. Typed(Committed)
  BY Flags DEF Typed, Committed, CpuRecord, HalfOK, InstructionOK
<1>3. Typed([Restartable EXCEPT !.previous_pc = cpu.pc, !.previous_sp = cpu.sp])
  BY ZenonT(60), <1>1 DEF Typed, CpuRecord, HalfOK, InstructionOK
<1> QED BY <1>1, <1>2, <1>3 DEF AtBase

LEMMA Values ==
  ASSUME Typed(cpu), NEW x \in Register
  PROVE  Value(cpu, x) \in AWord
BY DEF Typed, CpuRecord, Value, Register

LEMMA Arguments ==
  ASSUME Typed(cpu), NEW i \in 0 .. RAW - 2
  PROVE  Argument(i) \in AWord
<1>1. cpu.raw[i] \in BYTE /\ cpu.raw[i + 1] \in BYTE
  BY DEF Typed, CpuRecord, RAW
<1> QED BY <1>1, Bytes DEF Argument

LEMMA Assigned ==
  ASSUME NEW c, Typed(c), NEW x \in Register \ {"PC"}, NEW w \in AWord
  PROVE  Typed(Assign(c, x, w))
BY DEF Typed, Assign, CpuRecord, HalfOK, InstructionOK, Register

\* The register that a byte names.
LEMMA ModeRegisters ==
  ASSUME Typed(cpu)
  PROVE  /\ cpu.mode.admx.reg \in Register
         /\ cpu.mode.admr.reg \in Register \ {"PC"}
BY DEF Typed, CpuRecord, ADMX, ADMR, Register

LEMMA ClockBegins ==
  ASSUME TypeInv, UNCHANGED ram, ClockBegin \/ AcceptInterrupt \/ DropInterrupt \/ SleepClock
  PROVE  TypeInv'
<1>1. CASE ClockBegin
  <2>1. Typed([cpu EXCEPT !.running = TRUE])
    BY DEF TypeInv, Typed, CpuRecord, HalfOK, InstructionOK
  <2> QED BY <1>1, <2>1, Proceeding DEF ClockBegin, TypeInv
<1>2. CASE Interrupted /\ (AcceptInterrupt \/ DropInterrupt)
  <2>1. [mailbox EXCEPT !.state = "DS_IDLE"] \in Mailbox
    BY Own DEF TypeInv, Stores, Mailbox, DeviceState
  <2>2. DevicesTypeOK'
    BY <1>2, <2>1, Posting DEF Interrupted, TypeInv, Stores
  <2>3. mailbox.address \in AWord
    BY Own, Sizes DEF TypeInv, Stores, Mailbox
  <2>4. Typed([cpu EXCEPT !.running = TRUE])
    BY DEF TypeInv, Typed, CpuRecord, HalfOK, InstructionOK
  <2> DEFINE to == [cpu EXCEPT !.running = TRUE, !.state = "INTERRUPT_PUSH_PC_HIGH",
                               !.pc = cpu.previous_pc, !.sp = cpu.previous_sp,
                               !.irq_id = mailbox.address]
  <2>5. Typed(to)
    <3>1. Typed(cpu)
      BY DEF TypeInv
    <3>2. PICK a \in AWord : a = mailbox.address
      BY <2>3
    <3> DEFINE c == [cpu EXCEPT !.running = TRUE, !.state = "INTERRUPT_PUSH_PC_HIGH",
                                !.pc = cpu.previous_pc, !.sp = cpu.previous_sp, !.irq_id = a]
    <3>3. c \in CpuRecord
      BY <3>1 DEF Typed, CpuRecord, CpuState
    <3>4. c.state = "INTERRUPT_PUSH_PC_HIGH" /\ c.instruction = cpu.instruction
      BY <3>1 DEF Typed, CpuRecord
    <3> HIDE DEF c
    <3>5. Typed(c)
      BY <3>1, <3>3, <3>4 DEF Typed, HalfOK, InstructionOK
    <3> QED BY <3>2, <3>5 DEF c
  <2>6. Typed(cpu')
    BY <1>2, <2>4, <2>5 DEF AcceptInterrupt, DropInterrupt
  <2> QED BY <1>2, <2>2, <2>6 DEF Interrupted, TypeInv, Stores, CacheTypeOK, RamTypeOK
<1>3. CASE SleepClock
  <2>1. Typed(Stop(cpu))
    BY Going DEF TypeInv
  <2> QED BY <1>3, <2>1, Proceeding DEF SleepClock, TypeInv
<1> QED BY <1>1, <1>2, <1>3 DEF AcceptInterrupt, DropInterrupt

\* NOP and EXT, which the processor starts with, set no flag.
LEMMA FlagRows ==
  \A q \in FlagTable :
    {q[2], q[3], q[4], q[5], q[6], q[7], q[8], q[9]} \cap {"NOP", "EXT", "FTC"} = {}
<1>1. ASSUME NEW q \in FlagTable
      PROVE  {q[2], q[3], q[4], q[5], q[6], q[7], q[8], q[9]} \cap {"NOP", "EXT", "FTC"} = {}
  <2>1. CASE q = <<"Z",  "JZ",  "JNZ",  "RJZ",  "RJNZ",  "CMOVZ",  "CMOVNZ",  "CLZ",  "SEZ">>
    BY <2>1
  <2>2. CASE q = <<"FZ", "JFZ", "JNFZ", "RJFZ", "RJNFZ", "CMOVFZ", "CMOVNFZ", "CLFZ", "SEFZ">>
    BY <2>2
  <2>3. CASE q = <<"L",  "JL",  "JNL",  "RJL",  "RJNL",  "CMOVL",  "CMOVNL",  "CLL",  "SEL">>
    BY <2>3
  <2>4. CASE q = <<"UL", "JUL", "JNUL", "RJUL", "RJNUL", "CMOVUL", "CMOVNUL", "CLUL", "SEUL">>
    BY <2>4
  <2>5. CASE q = <<"FL", "JFL", "JNFL", "RJFL", "RJNFL", "CMOVFL", "CMOVNFL", "CLFL", "SEFL">>
    BY <2>5
  <2>6. CASE q = <<"DL", "JDL", "JNDL", "RJDL", "RJNDL", "CMOVDL", "CMOVNDL", "CLDL", "SEDL">>
    BY <2>6
  <2>7. CASE q = <<"LL", "JLL", "JNLL", "RJLL", "RJNLL", "CMOVLL", "CMOVNLL", "CLLL", "SELL">>
    BY <2>7
  <2>8. CASE q = <<"AO", "JAO", "JNAO", "RJAO", "RJNAO", "CMOVAO", "CMOVNAO", "CLAO", "SEAO">>
    BY <2>8
  <2>9. CASE q = <<"MI", "",    "",     "",     "",      "CMOVMI", "CMOVNMI", "CLMI", "SEMI">>
    BY <2>9
  <2> QED BY <2>1, <2>2, <2>3, <2>4, <2>5, <2>6, <2>7, <2>8, <2>9 DEF FlagTable
<1> QED BY <1>1

LEMMA NoFlags == FlagsAfter("NOP", {}) = {} /\ FlagsAfter("EXT", {}) = {}
BY FlagRows DEF FlagsAfter

LEMMA NoFetchCache ==
  /\ "FTC" \notin JUMPS \cup REL_JUMPS \cup CMOVES \cup FLAG_OPS
  /\ "FTC" \notin INTEGER_OPS \cup UNARY_OPS \cup FLOAT_OPS \cup CONVERSIONS
BY FlagRows DEF JUMPS, REL_JUMPS, CMOVES, FLAG_OPS, Column, INTEGER_OPS, UNARY_OPS, FLOAT_OPS,
                CONVERSIONS

LEMMA OpenedTyped ==
  ASSUME TypeInv, NEW b \in BYTE
  PROVE  Typed(Opened(b))
<1> DEFINE c == [AtBase EXCEPT !.sr = IF b \in NoCache THEN @ \cup {"NC"} ELSE @ \ {"NC"}]
           m == Decoded(cpu.extension_index, b)
<1>1. Typed(c)
  <2>1. Typed(AtBase)
    BY Masks DEF TypeInv
  <2> QED BY <2>1, Flags DEF Typed, CpuRecord, HalfOK, InstructionOK
<1>2. Wrap(c.pc + 1) \in AWord
  <2>1. c.pc \in AWord
    BY <1>1 DEF Typed, CpuRecord
  <2> QED BY <2>1, Stepping
<1>3. m # "ILLEGAL" => m \in Mnemonic /\ FlagsAfter(m, {}) \subseteq Flag
  <2> SUFFICES ASSUME m # "ILLEGAL"
               PROVE  m \in Mnemonic /\ FlagsAfter(m, {}) \subseteq Flag
    OBVIOUS
  <2>1. cpu.extension_index \in Nat
    BY DEF TypeInv, Typed, CpuRecord
  <2>2. cpu.extension_index + 1 \in 1 .. Len(Opcode) /\ m = Opcode[cpu.extension_index + 1][b]
    BY <2>1, EncodingAssumption DEF Decoded
  <2>3. Opcode[cpu.extension_index + 1] \in [BYTE -> Mnemonic \cup {"ILLEGAL"}]
    BY <2>2, EncodingAssumption
  <2>4. m \in Mnemonic \cup {"ILLEGAL"}
    BY <2>2, <2>3
  <2> QED BY <2>2, <2>4, FlagAssumption
<1>4. FlagsAfter("EXT", {}) \subseteq Flag /\ "EXT" \in Mnemonic
  <2>2. FlagsAfter("EXT", {}) = {}
    BY NoFlags
  <2> QED BY <2>2 DEF Mnemonic
<1> HIDE DEF c, m
<1>9. c.extension_index + 1 \in Nat
  BY <1>1 DEF Typed, CpuRecord
<1>5. Typed([c EXCEPT !.pc = Wrap(@ + 1), !.extension_index = @ + 1, !.instruction = "EXT"])
  BY <1>1, <1>2, <1>4, <1>9 DEF Typed, CpuRecord, HalfOK, InstructionOK
<1>6. Typed(Stop([c EXCEPT !.pc = Wrap(@ + 1), !.extension_index = @ + 1, !.instruction = "EXT"]))
  BY <1>5, Going
<1>7. Typed(Stop([c EXCEPT !.state = "EXCEPTION"]))
  <2>1. Typed([c EXCEPT !.state = "EXCEPTION"])
    BY <1>1 DEF Typed, CpuRecord, HalfOK, InstructionOK, CpuState
  <2> QED BY <2>1, Going
<1>8. m # "ILLEGAL" =>
        \A s \in {"EXECUTE", "FETCH_ADDRESSING_MODES"} :
          Typed([c EXCEPT !.instruction = m, !.extension_index = 0, !.pc = Wrap(@ + 1), !.state = s])
  <2> SUFFICES ASSUME m # "ILLEGAL", NEW s \in {"EXECUTE", "FETCH_ADDRESSING_MODES"}
               PROVE  Typed([c EXCEPT !.instruction = m, !.extension_index = 0,
                                      !.pc = Wrap(@ + 1), !.state = s])
    OBVIOUS
  <2> DEFINE d == [c EXCEPT !.instruction = m, !.extension_index = 0, !.pc = Wrap(@ + 1),
                            !.state = s]
  <2>1. c \in CpuRecord /\ s \in CpuState /\ 0 \in Nat
    BY <1>1 DEF Typed, CpuState
  <2>2. d \in CpuRecord /\ d.instruction = m /\ d.state = s
    BY <1>2, <1>3, <2>1 DEF CpuRecord
  <2> HIDE DEF d
  <2>3. Typed(d)
    BY <1>3, <2>2 DEF Typed, HalfOK, InstructionOK
  <2> QED BY <2>3 DEF d
<1> QED BY <1>6, <1>7, <1>8 DEF Opened, c, m

LEMMA Decoding ==
  ASSUME TypeInv, UNCHANGED ram,
         FetchInstruction \/ FetchAddressingModes \/ FetchArgumentBytes \/ ComputeAddress
  PROVE  TypeInv'
<1> DEFINE r == Restartable
<1>1. Typed(cpu) /\ Stores /\ Typed(r) /\ Typed(AtBase)
  BY Masks DEF TypeInv
<1>2. cpu.pc \in Address /\ r.pc \in AWord /\ ReadByte(cpu.pc) \in BYTE
  <2>1. cpu.pc \in Address /\ r.pc \in AWord
    BY <1>1, Sizes DEF Typed, CpuRecord
  <2> QED BY <1>1, <2>1, ReadBytes
<1>3. Wrap(r.pc + 1) \in AWord
  BY <1>2, Stepping
<1>9. r.state = cpu.state
  BY <1>1 DEF Typed, CpuRecord, Restartable
<1> HIDE DEF r
<1>4. CASE FetchInstruction
  <2>1. Typed(Opened(ReadByte(cpu.pc)))
    BY <1>2, OpenedTyped
  <2> QED BY <1>1, <1>2, <1>4, <2>1, Reading DEF FetchInstruction
<1>5. CASE FetchAddressingModes
  <2> DEFINE mode == AddressingMode[ReadByte(cpu.pc)]
             s == IF BytesToLoad(mode) = 0 THEN "COMPUTE_ADDRESS" ELSE "FETCH_ARGUMENT_BYTES"
             d == [r EXCEPT !.mode = mode, !.pc = Wrap(@ + 1),
                            !.raw_index = IF BytesToLoad(mode) = 0 THEN @ ELSE 0,
                            !.state = s]
  <2>1. mode \in [admr : ADMR, admx : ADMX]
    BY <1>2, EncodingAssumption
  <2>2. s \in CpuState /\ s \notin Halves
    BY DEF CpuState, Halves
  <2>3. cpu_read_memory(cpu.pc, r, d)
    BY <1>5 DEF FetchAddressingModes, r
  <2> HIDE DEF mode, s
  <2>4. Typed(d)
    <3> DEFINE i == IF BytesToLoad(mode) = 0 THEN r.raw_index ELSE 0
    <3>1. r \in CpuRecord
      BY <1>1 DEF Typed
    <3>2. i \in 0 .. RAW + 1
      BY <3>1 DEF CpuRecord, RAW
    <3>3. d = [r EXCEPT !.mode = mode, !.pc = Wrap(@ + 1), !.raw_index = i, !.state = s]
      BY <3>1 DEF CpuRecord
    <3> HIDE DEF i
    <3>4. d \in CpuRecord /\ d.instruction = r.instruction /\ d.state = s
      BY ZenonT(60), <1>3, <2>1, <2>2, <3>1, <3>2, <3>3 DEF CpuRecord
    <3> HIDE DEF d
    <3> QED BY <1>1, <2>2, <3>4, Settled
  <2> QED BY <1>1, <1>2, <2>3, <2>4, Reading
<1>6. CASE FetchArgumentBytes
  <2> DEFINE b == ReadByte(cpu.pc)
             raw == [i \in 0 .. RAW - 1 |-> IF i = cpu.raw_index THEN b ELSE r.raw[i]]
             c == [r EXCEPT !.raw = raw, !.raw_index = IF @ > RAW THEN @ ELSE @ + 1,
                            !.pc = Wrap(@ + 1)]
  <2>1. raw \in [0 .. RAW - 1 -> BYTE]
    BY <1>1, <1>2 DEF Typed, CpuRecord
  <2> HIDE DEF raw
  <2>2. Typed(c)
    <3> DEFINE i == IF r.raw_index > RAW THEN r.raw_index ELSE r.raw_index + 1
    <3>1. r \in CpuRecord /\ r.state = "FETCH_ARGUMENT_BYTES"
      BY <1>1, <1>6, <1>9 DEF Typed, FetchArgumentBytes, In
    <3>2. i \in 0 .. RAW + 1
      BY <3>1 DEF CpuRecord, RAW
    <3>3. c = [r EXCEPT !.raw = raw, !.raw_index = i, !.pc = Wrap(@ + 1)]
      BY <3>1 DEF CpuRecord
    <3> HIDE DEF i
    <3>4. c \in CpuRecord /\ c.instruction = r.instruction /\ c.state = "FETCH_ARGUMENT_BYTES"
      BY ZenonT(60), <1>3, <2>1, <3>1, <3>2, <3>3 DEF CpuRecord
    <3> HIDE DEF c
    <3> QED BY <1>1, <3>4, Settled DEF Halves
  <2>3. Loaded(b) = IF c.raw_index >= BytesToLoad(cpu.mode) /\ LastCategory # "ADMC_NONE"
                    THEN Goto(c, "COMPUTE_ADDRESS") ELSE Stop(c)
    BY DEF Loaded, r, raw
  <2> HIDE DEF c, b
  <2>4. Typed(Loaded(b))
    BY <2>2, <2>3, Going DEF CpuState, Halves
  <2>5. cpu_read_memory(cpu.pc, r, Loaded(b))
    BY <1>6 DEF FetchArgumentBytes, r, b
  <2> QED BY <1>1, <1>2, <2>4, <2>5, Reading
<1>7. CASE ComputeAddress
  <2>1. ExtendedAddress \in AWord
    <3>1. Argument(0) \in AWord /\ cpu.raw[2] \in Int
      BY <1>1, Arguments, Sizes DEF RAW, Typed, CpuRecord, BYTE
    <3>2. \A x \in Register : Value(cpu, x) \in AWord
      BY <1>1, Values
    <3>3. \A x \in Register : /\ Wrap(Argument(0) + Value(cpu, x)) \in AWord
                              /\ Wrap(Argument(0) + cpu.raw[2] * Value(cpu, x)) \in AWord
      <4> SUFFICES ASSUME NEW x \in Register
                   PROVE  /\ Wrap(Argument(0) + Value(cpu, x)) \in AWord
                          /\ Wrap(Argument(0) + cpu.raw[2] * Value(cpu, x)) \in AWord
        OBVIOUS
      <4>1. PICK v \in Int : v = Value(cpu, x)
        BY <3>2 DEF AWord
      <4>2. PICK k \in Int : k = cpu.raw[2]
        BY <3>1
      <4>3. PICK o \in Int : o = Argument(0)
        BY <3>1 DEF AWord
      <4>4. o + v \in Int /\ o + k * v \in Int
        OBVIOUS
      <4> QED BY <4>1, <4>2, <4>3, <4>4, Wrapping
    <3>4. cpu.mode.admx.reg \in Register /\ cpu.address_extended \in AWord
      BY <1>1, ModeRegisters DEF Typed, CpuRecord
    <3> QED BY <3>1, <3>2, <3>3, <3>4 DEF ExtendedAddress
  <2>2. ReducedAddress \in AWord
    <3>1. ReducedIndex \in 0 .. RAW - 2
      BY DEF ReducedIndex, RAW
    <3>2. Argument(ReducedIndex) \in AWord
      BY <1>1, <3>1, Arguments
    <3> QED BY <1>1, <3>2 DEF ReducedAddress, Typed, CpuRecord
  <2> DEFINE s == CASE cpu.mode.admx.kind = "NONE" -> "FETCH_DESTINATION"
                    [] cpu.mode.admx.kind = "UNUSED" -> "COMPUTE_ADDRESS"
                    [] OTHER -> "FETCH_SOURCE"
             d == [r EXCEPT !.address_extended = ExtendedAddress,
                            !.address_reduced = ReducedAddress, !.state = s]
  <2>3. s \in CpuState /\ s \notin Halves
    BY DEF CpuState, Halves
  <2>4. d = AddressComputed
    BY DEF AddressComputed, r
  <2> HIDE DEF s
  <2>5. Typed(d)
    BY ZenonT(60), <1>1, <2>1, <2>2, <2>3 DEF Typed, CpuRecord, HalfOK, InstructionOK, Halves
  <2>6. Typed(Stop(AddressComputed))
    BY <2>4, <2>5, Going
  <2> QED BY <1>1, <1>7, <2>6, Proceeding DEF ComputeAddress
<1> QED BY <1>4, <1>5, <1>6, <1>7

LEMMA SourcedTyped ==
  ASSUME NEW c, Typed(c)
  PROVE  Typed(Sourced(c))
BY Going DEF Sourced, CpuState, Halves

LEMMA Operands ==
  ASSUME TypeInv, UNCHANGED ram,
         \/ FetchSourceImmediate \/ FetchSourceRegister \/ FetchSource \/ FetchSourceHigh
         \/ FetchDestinationRegister \/ FetchDestinationNone \/ FetchDestination
         \/ FetchDestinationHigh
  PROVE  TypeInv'
<1> DEFINE r == Restartable
           Extended(w) == [r EXCEPT !.data_extended = w]
<1>1. Typed(cpu) /\ Stores /\ Typed(r)
  BY Masks DEF TypeInv
<1>2. /\ cpu.address_extended \in Address /\ cpu.address_reduced \in Address
      /\ Wrap(cpu.address_extended + 1) \in Address /\ Wrap(cpu.address_reduced + 1) \in Address
  <2>1. cpu.address_extended \in Address /\ cpu.address_reduced \in Address
    BY <1>1, Sizes DEF Typed, CpuRecord
  <2> QED BY <2>1, Stepping, Sizes
<1>3. r.state = cpu.state /\ r.data_extended = cpu.data_extended /\ r.data_reduced = cpu.data_reduced
  BY <1>1 DEF Typed, CpuRecord, Restartable
<1> HIDE DEF r
<1>4. ASSUME NEW w \in AWord, r.state \notin Halves
      PROVE  Typed(Extended(w))
  BY <1>1, <1>4 DEF Typed, CpuRecord, HalfOK, InstructionOK, Halves
<1> HIDE DEF Extended
<1>5. CASE FetchSourceImmediate
  <2>1. Argument(0) \in AWord
    BY <1>1, Arguments DEF RAW
  <2>2. Typed(Sourced(Extended(Argument(0))))
    BY <1>3, <1>4, <1>5, <2>1, SourcedTyped DEF FetchSourceImmediate, In, Halves
  <2> QED BY <1>1, <1>5, <2>2, Proceeding DEF FetchSourceImmediate, Extended, r
<1>6. CASE FetchSourceRegister
  <2> DEFINE w == IF cpu.mode.admx.reg = "PC" THEN cpu.previous_pc
                  ELSE Value(cpu, cpu.mode.admx.reg)
  <2>1. w \in AWord
    BY <1>1, ModeRegisters, Values DEF Typed, CpuRecord
  <2> HIDE DEF w
  <2>2. Typed(Sourced(Extended(w)))
    BY <1>3, <1>4, <1>6, <2>1, SourcedTyped DEF FetchSourceRegister, In, Halves
  <2> QED BY <1>1, <1>6, <2>2, Proceeding DEF FetchSourceRegister, Extended, r, w
<1>7. CASE FetchSource
  <2> DEFINE b == ReadByte(cpu.address_extended)
             d == [r EXCEPT !.state = "FETCH_SOURCE_HIGH", !.data_extended = b]
  <2>1. cpu_read_memory(cpu.address_extended, r, d)
    BY <1>7 DEF FetchSource, r
  <2>2. b \in BYTE
    BY <1>1, <1>2, ReadBytes
  <2> HIDE DEF b
  <2>3. Typed(d)
    <3>1. /\ d \in CpuRecord /\ d.instruction = r.instruction
          /\ d.state = "FETCH_SOURCE_HIGH" /\ d.data_extended = b
      BY <1>1, <2>2, Sizes DEF Typed, CpuRecord, CpuState
    <3> HIDE DEF d
    <3> QED BY <1>1, <2>2, <3>1 DEF Typed, HalfOK, InstructionOK
  <2> QED BY <1>1, <1>2, <2>1, <2>3, Reading
<1>8. CASE FetchSourceHigh
  <2> DEFINE a == Wrap(cpu.address_extended + 1)
             w == WordOf(r.data_extended, ReadByte(a))
  <2>1. cpu_read_memory(a, r, Sourced(Extended(w)))
    BY <1>8 DEF FetchSourceHigh, Extended, r
  <2>2. w \in AWord
    <3>1. ReadByte(a) \in BYTE
      BY <1>1, <1>2, ReadBytes
    <3>2. cpu.data_extended \in BYTE
      BY <1>1, <1>8 DEF FetchSourceHigh, In, Typed, HalfOK
    <3> QED BY <1>3, <3>1, <3>2, Bytes
  <2> HIDE DEF w
  <2>3. Typed(Sourced(Extended(w)))
    <3> DEFINE t == IF argument_count(cpu.instruction) = 2 THEN "FETCH_DESTINATION"
                    ELSE "EXECUTE"
    <3>1. t \in CpuState /\ t \notin Halves
      BY DEF CpuState, Halves
    <3>2. Sourced(Extended(w)) = [Extended(w) EXCEPT !.state = t]
      BY DEF Sourced, Goto
    <3> HIDE DEF t
    <3> DEFINE d == [Extended(w) EXCEPT !.state = t]
    <3>3. Extended(w) \in CpuRecord /\ Extended(w).instruction = r.instruction
      BY <1>1, <2>2 DEF Extended, Typed, CpuRecord
    <3>4. d \in CpuRecord /\ d.instruction = r.instruction /\ d.state = t
      BY <3>1, <3>3 DEF CpuRecord
    <3> HIDE DEF d
    <3>5. Typed(d)
      BY <1>1, <3>1, <3>4, Settled
    <3> QED BY <3>2, <3>5 DEF d
  <2> QED BY <1>1, <1>2, <2>1, <2>3, Reading
<1>9. CASE FetchDestinationRegister
  <2> DEFINE w == Value(cpu, cpu.mode.admr.reg)
             d == [r EXCEPT !.data_reduced = w, !.state = "EXECUTE"]
  <2>1. w \in AWord
    BY <1>1, ModeRegisters, Values
  <2>2. Proceed(d)
    BY <1>9 DEF FetchDestinationRegister, r
  <2> HIDE DEF w
  <2>3. Typed(d)
    <3>1. d \in CpuRecord /\ d.instruction = r.instruction /\ d.state = "EXECUTE"
      BY <1>1, <2>1 DEF Typed, CpuRecord, CpuState
    <3> HIDE DEF d
    <3> QED BY <1>1, <3>1, Settled DEF Halves
  <2> QED BY <1>1, <2>2, <2>3, Proceeding
<1>10. CASE FetchDestinationNone
  <2>1. Typed(Stop(Goto(r, "EXCEPTION")))
    BY <1>1, Going DEF CpuState, Halves
  <2> QED BY <1>1, <1>10, <2>1, Proceeding DEF FetchDestinationNone, r
<1>11. CASE FetchDestination
  <2> DEFINE b == ReadByte(cpu.address_reduced)
             d == [r EXCEPT !.state = "FETCH_DESTINATION_HIGH", !.data_reduced = b]
  <2>1. cpu_read_memory(cpu.address_reduced, r, d)
    BY <1>11 DEF FetchDestination, r
  <2>2. b \in BYTE
    BY <1>1, <1>2, ReadBytes
  <2> HIDE DEF b
  <2>3. Typed(d)
    <3>1. /\ d \in CpuRecord /\ d.instruction = r.instruction
          /\ d.state = "FETCH_DESTINATION_HIGH" /\ d.data_reduced = b
      BY <1>1, <2>2, Sizes DEF Typed, CpuRecord, CpuState
    <3> HIDE DEF d
    <3> QED BY <1>1, <2>2, <3>1 DEF Typed, HalfOK, InstructionOK
  <2> QED BY <1>1, <1>2, <2>1, <2>3, Reading
<1>12. CASE FetchDestinationHigh
  <2> DEFINE a == Wrap(cpu.address_reduced + 1)
             w == WordOf(r.data_reduced, ReadByte(a))
             d == [r EXCEPT !.state = "EXECUTE", !.data_reduced = w]
  <2>1. cpu_read_memory(a, r, d)
    BY <1>12 DEF FetchDestinationHigh, r
  <2>2. w \in AWord
    <3>1. ReadByte(a) \in BYTE
      BY <1>1, <1>2, ReadBytes
    <3>2. cpu.data_reduced \in BYTE
      BY <1>1, <1>12 DEF FetchDestinationHigh, In, Typed, HalfOK
    <3> QED BY <1>3, <3>1, <3>2, Bytes
  <2> HIDE DEF w
  <2>3. Typed(d)
    <3>1. d \in CpuRecord /\ d.instruction = r.instruction /\ d.state = "EXECUTE"
      BY <1>1, <2>2 DEF Typed, CpuRecord, CpuState
    <3> HIDE DEF d
    <3> QED BY <1>1, <3>1, Settled DEF Halves
  <2> QED BY <1>1, <1>2, <2>1, <2>3, Reading
<1> QED BY <1>5, <1>6, <1>7, <1>8, <1>9, <1>10, <1>11, <1>12

-----------------------------------------------------------------------------
(***************************************************************************)
(* CS_EXECUTE.                                                             *)
(***************************************************************************)
\* What every group starts from.
LEMMA Started ==
  ASSUME TypeInv, In("EXECUTE")
  PROVE  /\ Typed(cpu) /\ Stores /\ Typed(Restartable)
         /\ cpu.pc \in AWord /\ cpu.sp \in AWord /\ cpu.sr \in SUBSET Flag
         /\ cpu.data_extended \in AWord /\ cpu.data_reduced \in AWord
         /\ cpu.address_extended \in AWord /\ cpu.address_reduced \in AWord
         /\ Restartable.sr \in SUBSET Flag /\ Restartable.pc = cpu.pc
         /\ Restartable.r = cpu.r /\ Restartable.address_reduced = cpu.address_reduced
         /\ Restartable.state = "EXECUTE" /\ Restartable.instruction = cpu.instruction
<1>1. Typed(cpu) /\ Stores /\ Typed(Restartable)
  BY Masks DEF TypeInv
<1>2. Restartable.sr \in SUBSET Flag
  BY <1>1 DEF Typed, CpuRecord
<1> QED BY <1>1, <1>2 DEF Restartable, Typed, CpuRecord, In

LEMMA Targets ==
  ASSUME TypeInv, In("EXECUTE")
  PROVE  Target \in AWord
<1>1. cpu.pc \in AWord /\ cpu.data_extended \in AWord
  BY Started
<1>2. cpu.pc + cpu.data_extended \in Int
  BY <1>1 DEF AWord
<1> QED BY <1>1, <1>2, Wrapping DEF Target

LEMMA Branching ==
  ASSUME TypeInv, UNCHANGED ram,
         \/ ExecuteNop \/ ExecuteJump \/ ExecuteCall \/ ExecuteInt \/ ExecuteHalt
         \/ ExecuteSleep \/ ExecuteInvalidate \/ ExecuteFetchCache
  PROVE  TypeInv'
<1> DEFINE r == Restartable
<1>1. In("EXECUTE")
  BY DEF Executing, ExecuteNop, ExecuteJump, ExecuteCall, ExecuteInt, ExecuteHalt, ExecuteSleep,
         ExecuteInvalidate, ExecuteFetchCache
<1>2. /\ Typed(r) /\ Stores /\ cpu.pc \in AWord /\ r.pc = cpu.pc
      /\ r.state = "EXECUTE" /\ cpu.data_extended \in Address
  BY <1>1, Started, Sizes
<1>3. Target \in AWord
  BY <1>1, Targets
<1>4. Typed(Finish(r)) /\ Typed(Counted(r))
  BY <1>2, Going
<1> HIDE DEF r
<1>5. CASE ExecuteNop
  BY <1>2, <1>4, <1>5, Proceeding DEF ExecuteNop, r
<1>6. CASE ExecuteJump
  <2> DEFINE to == IF Taken(cpu.instruction, cpu.sr) THEN Target ELSE r.pc
             d == [r EXCEPT !.pc = to]
  <2>1. to \in AWord
    BY <1>2, <1>3
  <2>2. Proceed(Finish(d))
    BY <1>6 DEF ExecuteJump, r
  <2> HIDE DEF to
  <2>3. Typed(d)
    BY <1>2, <2>1 DEF Typed, CpuRecord, HalfOK, InstructionOK
  <2>4. Typed(Finish(d))
    BY <2>3, Going
  <2> QED BY <1>2, <2>2, <2>4, Proceeding
<1>7. CASE ExecuteCall
  <2> DEFINE d == [r EXCEPT !.result = cpu.pc, !.pc = Target, !.state = "PUSH_HIGH"]
  <2>1. d \in CpuRecord /\ d.instruction = r.instruction /\ d.state = "PUSH_HIGH"
    BY <1>2, <1>3 DEF Typed, CpuRecord, CpuState
  <2>2. Proceed(d)
    BY <1>7 DEF ExecuteCall, r
  <2> HIDE DEF d
  <2>3. Typed(d)
    BY <1>2, <2>1, Settled DEF Halves
  <2> QED BY <1>2, <2>2, <2>3, Proceeding
<1>8. CASE ExecuteInt
  <2>1. Typed(Goto(Counted(r), "INTERRUPT_PUSH_PC_HIGH"))
    BY <1>4, Going DEF CpuState, Halves
  <2> QED BY <1>2, <1>8, <2>1, Proceeding DEF ExecuteInt, r
<1>9. CASE ExecuteHalt
  <2>1. Typed(Goto(Counted(r), "HALT"))
    BY <1>4, Going DEF CpuState, Halves
  <2>2. Typed(Stop(Goto(Counted(r), "HALT")))
    BY <2>1, Going
  <2> QED BY <1>2, <1>9, <2>2, Proceeding DEF ExecuteHalt, r
<1>10. CASE ExecuteSleep
  <2>1. Typed(Goto(r, "SLEEP"))
    BY <1>2, Going DEF CpuState, Halves
  <2>2. Typed(Stop(Goto(r, "SLEEP")))
    BY <2>1, Going
  <2> QED BY <1>2, <1>10, <2>2, Proceeding DEF ExecuteSleep, r
<1>11. CASE ExecuteInvalidate
  <2>1. CacheTypeOK'
    <3>1. ASSUME NEW i \in 0 .. CAPACITY - 1
          PROVE  [cache[i] EXCEPT !.valid = FALSE] \in
                   [valid : BOOLEAN, address : Address, data : BYTE]
      <4>1. cache[i] \in [valid : BOOLEAN, address : Address, data : BYTE]
        BY <1>2 DEF Stores, CacheTypeOK
      <4> QED BY <4>1
    <3> QED BY <1>11, <3>1 DEF ExecuteInvalidate, cache_invalidate, CacheTypeOK
  <2> QED BY <1>2, <1>4, <1>11, <2>1
          DEF ExecuteInvalidate, r, TypeInv, Stores, DevicesTypeOK, RamTypeOK
<1>12. CASE ExecuteFetchCache
  BY <1>2, <1>4, <1>12, Reading DEF ExecuteFetchCache, r
<1> QED BY <1>5, <1>6, <1>7, <1>8, <1>9, <1>10, <1>11, <1>12

LEMMA Moving ==
  ASSUME TypeInv, UNCHANGED ram,
         ExecuteMove \/ ExecuteMoveByte \/ ExecutePush \/ ExecutePop
  PROVE  TypeInv'
<1> DEFINE r == Restartable
<1>1. In("EXECUTE")
  BY DEF Executing, ExecuteMove, ExecuteMoveByte, ExecutePush, ExecutePop
<1>2. /\ Typed(r) /\ Stores /\ cpu.data_extended \in AWord /\ cpu.address_extended \in AWord
      /\ cpu.sp \in AWord /\ r.address_reduced \in AWord /\ r.sr \in SUBSET Flag
  BY <1>1, Started
<1>3. Typed(Finish(r)) /\ SrValue(r.sr) \in AWord /\ Wrap(r.address_reduced - 1) \in AWord
  BY <1>2, Going, Flags, Stepping
<1>4. r = Restartable
  OBVIOUS
<1> HIDE DEF r
<1>5. CASE ExecuteMove
  <2> DEFINE w == IF cpu.instruction = "LEA" THEN cpu.address_extended ELSE cpu.data_extended
             d == [r EXCEPT !.result = w, !.state = "WRITEBACK_LOW"]
  <2>1. w \in AWord
    BY <1>2
  <2>2. Proceed(Finish(r)) \/ Proceed(d)
    BY <1>4, <1>5 DEF ExecuteMove
  <2> HIDE DEF w
  <2>3. d \in CpuRecord /\ d.instruction = r.instruction /\ d.state = "WRITEBACK_LOW"
    BY <1>2, <2>1 DEF Typed, CpuRecord, CpuState
  <2> HIDE DEF d
  <2>4. Typed(d)
    BY <1>2, <2>3, Settled DEF Halves
  <2> QED BY <1>2, <1>3, <2>2, <2>4, Proceeding
<1>6. CASE ExecuteMoveByte
  <2> DEFINE w == WordOf(Low(cpu.data_extended), Low(cpu.data_extended))
             d == [r EXCEPT !.result = w, !.address_reduced = Wrap(@ - 1),
                            !.state = "WRITEBACK_HIGH"]
  <2>1. w \in AWord
    BY <1>2, Bytes
  <2>2. Proceed(d)
    BY <1>4, <1>6 DEF ExecuteMoveByte
  <2> HIDE DEF w
  <2>3. d \in CpuRecord /\ d.instruction = r.instruction /\ d.state = "WRITEBACK_HIGH"
    BY <1>2, <1>3, <2>1 DEF Typed, CpuRecord, CpuState
  <2> HIDE DEF d
  <2>4. Typed(d)
    BY <1>2, <2>3, Settled DEF Halves
  <2> QED BY <1>2, <2>2, <2>4, Proceeding
<1>7. CASE ExecutePush
  <2> DEFINE w == IF cpu.instruction = "PUSHSR" THEN SrValue(r.sr) ELSE cpu.data_extended
             s == IF cpu.instruction = "PUSHB" THEN "PUSH_LOW" ELSE "PUSH_HIGH"
             d == [r EXCEPT !.result = w, !.state = s]
  <2>1. w \in AWord /\ s \in CpuState /\ s \notin Halves
    BY <1>2, <1>3 DEF CpuState, Halves
  <2>2. Proceed(d)
    BY <1>4, <1>7 DEF ExecutePush
  <2> HIDE DEF w, s
  <2>3. d \in CpuRecord /\ d.instruction = r.instruction /\ d.state = s
    BY <1>2, <2>1 DEF Typed, CpuRecord
  <2> HIDE DEF d
  <2>4. Typed(d)
    BY <1>2, <2>1, <2>3, Settled
  <2> QED BY <1>2, <2>2, <2>4, Proceeding
<1>8. CASE ExecutePop
  <2> DEFINE a == IF cpu.instruction \in {"POPSR", "RET"} THEN cpu.sp ELSE r.address_reduced
             s == IF cpu.instruction = "POPSR" THEN "POPSR_LOW" ELSE "POP_LOW"
             d == [r EXCEPT !.address_reduced = a, !.state = s]
  <2>1. a \in AWord /\ s \in CpuState /\ s \notin Halves
    BY <1>2 DEF CpuState, Halves
  <2>2. Proceed(d)
    BY <1>4, <1>8 DEF ExecutePop
  <2> HIDE DEF a, s
  <2>3. d \in CpuRecord /\ d.instruction = r.instruction /\ d.state = s
    BY <1>2, <2>1 DEF Typed, CpuRecord
  <2> HIDE DEF d
  <2>4. Typed(d)
    BY <1>2, <2>1, <2>3, Settled
  <2> QED BY <1>2, <2>2, <2>4, Proceeding
<1> QED BY <1>5, <1>6, <1>7, <1>8

LEMMA Calculating ==
  ASSUME TypeInv, UNCHANGED ram,
         ExecuteCompare \/ ExecuteFlag \/ ExecuteAlu \/ ExecuteInfo
  PROVE  TypeInv'
<1> DEFINE r == Restartable
           m == cpu.instruction
           a == cpu.data_reduced
           b == cpu.data_extended
<1>1. In("EXECUTE")
  BY DEF Executing, ExecuteCompare, ExecuteFlag, ExecuteAlu, ExecuteInfo
<1>2. /\ Typed(r) /\ Stores /\ Typed(cpu) /\ r.sr \in SUBSET Flag /\ r.r = cpu.r
      /\ a \in AWord /\ b \in AWord
  BY <1>1, Started
<1>3. r = Restartable
  OBVIOUS
<1> HIDE DEF r
<1>4. ASSUME NEW sr \in SUBSET Flag
      PROVE  Typed(Finish([r EXCEPT !.sr = sr]))
  <2>1. Typed([r EXCEPT !.sr = sr])
    BY <1>2 DEF Typed, CpuRecord, HalfOK, InstructionOK
  <2> QED BY <2>1, Going
<1>5. CASE ExecuteCompare
  <2> DEFINE sr == IF m = "CMP"
                   THEN (r.sr \ {"Z", "FZ", "L", "UL", "FL", "DL", "LL"})
                          \cup (CompareFlags(a, b) \cap Flag)
                   ELSE (r.sr \ {"Z", "FZ", "L"}) \cup (TestFlags(b) \cap Flag)
  <2>1. sr \in SUBSET Flag
    BY <1>2
  <2>2. Proceed(Finish([r EXCEPT !.sr = sr]))
    BY <1>3, <1>5 DEF ExecuteCompare
  <2> HIDE DEF sr
  <2> QED BY <1>2, <1>4, <2>1, <2>2, Proceeding
<1>6. CASE ExecuteFlag
  <2> DEFINE sr == FlagsAfter(m, r.sr)
  <2>1. sr \in SUBSET Flag
    <3>1. FlagsAfter(m, {}) \subseteq Flag
      BY <1>2 DEF Typed, InstructionOK
    <3>2. FlagsAfter(m, r.sr) \subseteq r.sr \cup FlagsAfter(m, {})
      BY DEF FlagsAfter
    <3> QED BY <1>2, <3>1, <3>2
  <2>2. Proceed(Finish([r EXCEPT !.sr = sr]))
    BY <1>3, <1>6 DEF ExecuteFlag
  <2> HIDE DEF sr
  <2> QED BY <1>2, <1>4, <2>1, <2>2, Proceeding
<1>7. CASE ExecuteAlu
  <2> DEFINE sr == IF AluOverflow(m, a, b, "AO" \in cpu.sr)
                   THEN r.sr \cup {"AO"} ELSE r.sr \ {"AO"}
             d(w) == [r EXCEPT !.result = w, !.state = "WRITEBACK_LOW", !.sr = sr]
  <2>1. sr \in SUBSET Flag
    BY <1>2, Flags
  <2>2. AluResults(m, a, b, "AO" \in cpu.sr) \subseteq AWord
    <3>1. m \in INTEGER_OPS \cup UNARY_OPS \/ m \in FLOAT_OPS \cup CONVERSIONS
      BY <1>7 DEF ExecuteAlu, Executing
    <3>2. m \in INTEGER_OPS \cup UNARY_OPS \/ FloatResult(m, a, b) \in AWord
      BY <1>2, <3>1, FloatAssumption
    <3> HIDE DEF m, a, b
    <3>3. \A ao \in BOOLEAN : AluResults(m, a, b, ao) \subseteq AWord
      BY <1>2, <3>2, AluWords
    <3>4. ("AO" \in cpu.sr) \in BOOLEAN
      OBVIOUS
    <3> QED BY <3>3, <3>4, Zenon
  <2>3. \E w \in AluResults(m, a, b, "AO" \in cpu.sr) : Proceed(d(w))
    BY <1>3, <1>7 DEF ExecuteAlu
  <2>4. PICK w \in AWord : Proceed(d(w))
    BY <2>2, <2>3
  <2> HIDE DEF sr
  <2>5. d(w) \in CpuRecord /\ d(w).instruction = r.instruction /\ d(w).state = "WRITEBACK_LOW"
    BY <1>2, <2>1 DEF Typed, CpuRecord, CpuState
  <2> HIDE DEF d
  <2>6. Typed(d(w))
    BY <1>2, <2>5, Settled DEF Halves
  <2> QED BY <1>2, <2>4, <2>6, Proceeding
<1>8. CASE ExecuteInfo
  <2> DEFINE d(w) == [r EXCEPT !.r = [x \in DOMAIN r.r |-> IF x = "R0" THEN w ELSE 0]]
  <2>1. cpu.executed \in AWord
    <3>1. cpu.executed \in 0 .. COUNT_RANGE - 1
      BY <1>2 DEF Typed, CpuRecord
    <3> QED BY <3>1, CountAssumption, WordFacts DEF AWord
  <2>2. \E w \in AWord : Proceed(Finish(d(w)))
    BY <1>3, <1>8, <2>1 DEF ExecuteInfo
  <2>3. PICK w \in AWord : Proceed(Finish(d(w)))
    BY <2>2
  <2>4. [x \in DOMAIN r.r |-> IF x = "R0" THEN w ELSE 0] \in [{"R0", "R1", "R2", "R3"} -> AWord]
    BY <1>2, Sizes DEF Typed, CpuRecord
  <2>5. Typed(d(w))
    BY <1>2, <2>4 DEF Typed, CpuRecord, HalfOK, InstructionOK
  <2> HIDE DEF d
  <2>6. Typed(Finish(d(w)))
    BY <2>5, Going
  <2> QED BY <1>2, <2>3, <2>6, Proceeding
<1> QED BY <1>5, <1>6, <1>7, <1>8

-----------------------------------------------------------------------------
(***************************************************************************)
(* Writing back, the stack and interrupts.                                 *)
(***************************************************************************)
LEMMA Committing ==
  ASSUME TypeInv
  PROVE  /\ Typed(cpu) /\ Stores /\ Typed(Committed)
         /\ cpu.pc \in AWord /\ cpu.sp \in Address /\ cpu.result \in AWord
         /\ cpu.address_reduced \in Address /\ cpu.irq_id \in AWord
         /\ Committed.state = cpu.state /\ Committed.sp = cpu.sp
         /\ Committed.sr \in SUBSET Flag /\ Committed.data_extended = cpu.data_extended
<1>1. Typed(cpu) /\ Stores /\ Typed(Committed)
  BY Masks DEF TypeInv
<1>2. Committed.sr \in SUBSET Flag
  BY <1>1 DEF Typed, CpuRecord
<1> QED BY <1>1, <1>2, Sizes DEF Committed, Typed, CpuRecord

LEMMA WritingBack ==
  ASSUME TypeInv, UNCHANGED ram,
         \/ WritebackLow \/ WritebackLowRegister \/ WritebackLowNone
         \/ WritebackHigh \/ WritebackHighRegister
  PROVE  TypeInv'
<1> DEFINE c == Committed
           x == cpu.mode.admr.reg
<1>1. /\ Typed(cpu) /\ Stores /\ Typed(c)
      /\ cpu.address_reduced \in Address /\ cpu.result \in AWord
  BY Committing
<1>2. /\ Low(cpu.result) \in BYTE /\ High(cpu.result) \in BYTE
      /\ Wrap(cpu.address_reduced + 1) \in Address
  BY <1>1, Bytes, Stepping, Sizes
<1>3. x \in Register \ {"PC"} /\ Value(cpu, x) \in AWord
  BY <1>1, ModeRegisters, Values
<1>4. /\ WordOf(Low(Value(cpu, x)), High(cpu.result)) \in AWord
      /\ WordOf(Low(cpu.result), High(Value(cpu, x))) \in AWord
  BY <1>1, <1>3, Bytes
<1>5. c = Committed
  OBVIOUS
<1> HIDE DEF c, x
<1>6. CASE WritebackLow
  <2>1. Typed(Goto(c, "WRITEBACK_HIGH"))
    BY <1>1, Going DEF CpuState, Halves
  <2> QED BY <1>1, <1>2, <1>5, <1>6, <2>1, Writing DEF WritebackLow
<1>7. CASE WritebackLowRegister
  <2> DEFINE d == Assign(c, x, WordOf(Low(Value(cpu, x)), High(cpu.result)))
  <2>1. Typed(d)
    BY <1>1, <1>3, <1>4, Assigned
  <2>2. Proceed(Goto(Counted(d), "WRITEBACK_HIGH"))
    BY <1>5, <1>7 DEF WritebackLowRegister, x
  <2> HIDE DEF d
  <2>3. Typed(Counted(d))
    BY <2>1, Going
  <2>4. Typed(Goto(Counted(d), "WRITEBACK_HIGH"))
    BY <2>3, Going DEF CpuState, Halves
  <2> QED BY <1>1, <2>2, <2>4, Proceeding
<1>8. CASE WritebackLowNone
  <2>1. Typed(Stop(c))
    BY <1>1, Going
  <2> QED BY <1>1, <1>5, <1>8, <2>1, Proceeding DEF WritebackLowNone
<1>9. CASE WritebackHigh
  <2>1. Typed(Finish(c))
    BY <1>1, Going
  <2> QED BY <1>1, <1>2, <1>5, <1>9, <2>1, Writing DEF WritebackHigh
<1>10. CASE WritebackHighRegister
  <2> DEFINE d == Assign(c, x, WordOf(Low(cpu.result), High(Value(cpu, x))))
  <2>1. Typed(d)
    BY <1>1, <1>3, <1>4, Assigned
  <2>2. Proceed(Finish(d))
    BY <1>5, <1>10 DEF WritebackHighRegister, x
  <2> HIDE DEF d
  <2>3. Typed(Finish(d))
    BY <2>1, Going
  <2> QED BY <1>1, <2>2, <2>3, Proceeding
<1> QED BY <1>6, <1>7, <1>8, <1>9, <1>10

\* The processor with another stack pointer.
LEMMA Moved ==
  ASSUME TypeInv
  PROVE  /\ Below \in Address /\ Typed(Pushed) /\ Typed(Popped)
         /\ Popped.state = cpu.state /\ Popped.instruction = cpu.instruction
         /\ Popped.sr \in SUBSET Flag
<1> DEFINE c == Committed
<1>1. Typed(c) /\ c.sp \in AWord /\ cpu.sp \in AWord
  BY Committing, Sizes
<1>2. Below \in AWord /\ Wrap(c.sp + 1) \in AWord
  BY <1>1, Stepping DEF Below
<1>3. c.state = cpu.state /\ c.instruction = cpu.instruction
  BY Committing DEF Typed, CpuRecord, Committed
<1>4. c = Committed
  OBVIOUS
<1> HIDE DEF c
<1>5. ASSUME NEW a \in AWord
      PROVE  LET d == [c EXCEPT !.sp = a]
             IN Typed(d) /\ d.state = c.state /\ d.instruction = c.instruction
                /\ d.sr \in SUBSET Flag
  BY <1>1 DEF Typed, CpuRecord, HalfOK, InstructionOK
<1>6. Pushed = [c EXCEPT !.sp = Below] /\ Popped = [c EXCEPT !.sp = Wrap(c.sp + 1)]
  BY <1>4 DEF Pushed, Popped
<1> QED BY <1>2, <1>3, <1>5, <1>6, Sizes

LEMMA Pushing ==
  ASSUME TypeInv, UNCHANGED ram,
         PushHigh \/ PushLow \/ InterruptPushPcHigh \/ InterruptPushPcLow
  PROVE  TypeInv'
<1>1. /\ Stores /\ Typed(Committed) /\ Typed(Pushed) /\ Below \in Address
      /\ cpu.pc \in AWord /\ cpu.result \in AWord
  BY Committing, Moved
<1>2. /\ Low(cpu.result) \in BYTE /\ High(cpu.result) \in BYTE
      /\ Low(cpu.pc) \in BYTE /\ High(cpu.pc) \in BYTE
  BY <1>1, Bytes
<1>3. /\ Typed(Goto(Pushed, "PUSH_LOW")) /\ Typed(Finish(Pushed))
      /\ Typed(Goto(Pushed, "INTERRUPT_PUSH_PC_LOW"))
      /\ Typed(Goto(Pushed, "INTERRUPT_FETCH_IRQ_VECTOR_LOW"))
  BY <1>1, Going DEF CpuState, Halves
<1>4. CASE PushHigh
  BY <1>1, <1>2, <1>3, <1>4, Writing DEF PushHigh
<1>5. CASE PushLow
  BY <1>1, <1>2, <1>3, <1>5, Writing DEF PushLow
<1>6. CASE InterruptPushPcHigh
  BY <1>1, <1>2, <1>3, <1>6, Writing DEF InterruptPushPcHigh
<1>7. CASE InterruptPushPcLow
  BY <1>1, <1>2, <1>3, <1>7, Writing DEF InterruptPushPcLow
<1> QED BY <1>4, <1>5, <1>6, <1>7

LEMMA Popping ==
  ASSUME TypeInv, UNCHANGED ram, PopLow \/ PopHigh \/ PopsrLow \/ PopsrHigh
  PROVE  TypeInv'
<1> DEFINE p == Popped
           b == ReadByte(cpu.sp)
<1>1. /\ Typed(cpu) /\ Stores /\ Typed(Committed) /\ cpu.sp \in Address
      /\ Typed(p) /\ p.state = cpu.state /\ p.sr \in SUBSET Flag
  BY Committing, Moved
<1>2. b \in BYTE /\ b \in AWord
  BY <1>1, ReadBytes, Sizes
<1>3. p = Popped
  OBVIOUS
<1> HIDE DEF p, b
<1>4. CASE PopLow
  <2> DEFINE s == IF cpu.instruction = "POPB" THEN "WRITEBACK_LOW" ELSE "POP_HIGH"
             d == [p EXCEPT !.result = b, !.state = s]
  <2>1. s \in CpuState /\ s \notin Halves \ {"POP_HIGH"}
    BY DEF CpuState, Halves
  <2>2. cpu_read_memory(cpu.sp, Committed, d)
    BY <1>3, <1>4 DEF PopLow, b
  <2> HIDE DEF s
  <2>3. d \in CpuRecord /\ d.instruction = p.instruction /\ d.state = s /\ d.result = b
    BY <1>1, <1>2, <2>1 DEF Typed, CpuRecord
  <2> HIDE DEF d
  <2>4. Typed(d)
    BY <1>1, <1>2, <2>1, <2>3 DEF Typed, HalfOK, InstructionOK, Halves
  <2> QED BY <1>1, <2>2, <2>4, Reading
<1>5. CASE PopHigh
  <2> DEFINE w == WordOf(cpu.result, b)
             d == [p EXCEPT !.result = w, !.pc = w]
             e == [p EXCEPT !.result = w, !.state = "WRITEBACK_LOW"]
             f == IF cpu.instruction = "RET" THEN Finish(d) ELSE e
  <2>1. w \in AWord
    <3>1. cpu.result \in BYTE
      BY <1>1, <1>5 DEF PopHigh, In, Typed, HalfOK
    <3> QED BY <1>2, <3>1, Bytes
  <2>2. cpu_read_memory(cpu.sp, Committed, f)
    BY <1>3, <1>5 DEF PopHigh, b
  <2> HIDE DEF w
  <2>3. p \in CpuRecord /\ {"WRITEBACK_LOW", "FETCH_INSTRUCTION"} \subseteq CpuState
    BY <1>1 DEF Typed, CpuState
  <2>4. e \in CpuRecord /\ e.instruction = p.instruction /\ e.state = "WRITEBACK_LOW"
    BY <2>1, <2>3 DEF CpuRecord
  <2>5. Typed(e)
    <3> HIDE DEF e
    <3> QED BY <1>1, <2>4, Settled DEF Halves
  <2>6. Typed(Finish(d))
    <3> DEFINE n == (p.executed + 1) % COUNT_RANGE
               g == [p EXCEPT !.result = w, !.pc = w, !.executed = n,
                              !.state = "FETCH_INSTRUCTION"]
    <3>1. n \in 0 .. COUNT_RANGE - 1
      BY <2>3, CountAssumption, WordFacts DEF CpuRecord
    <3>2. Finish(d) = g
      BY <2>3 DEF Finish, Goto, Counted, CpuRecord
    <3> HIDE DEF n
    <3>3. g \in CpuRecord /\ g.instruction = p.instruction /\ g.state = "FETCH_INSTRUCTION"
      BY <2>1, <2>3, <3>1 DEF CpuRecord
    <3> HIDE DEF g
    <3> QED BY <1>1, <3>2, <3>3, Settled DEF Halves
  <2> HIDE DEF d, e
  <2> QED BY <1>1, <2>2, <2>5, <2>6, Reading
<1>6. CASE PopsrLow
  <2> DEFINE sr == SrFlags(b)
             d == [p EXCEPT !.sr = sr, !.state = "POPSR_HIGH"]
  <2>1. cpu_read_memory(cpu.sp, Committed, d)
    BY <1>3, <1>6 DEF PopsrLow, b
  <2>2. sr \in SUBSET Flag
    BY Flags
  <2> HIDE DEF sr
  <2>3. p \in CpuRecord /\ "POPSR_HIGH" \in CpuState
    BY <1>1 DEF Typed, CpuState
  <2>4. d \in CpuRecord /\ d.instruction = p.instruction /\ d.state = "POPSR_HIGH"
    BY <2>2, <2>3 DEF CpuRecord
  <2> HIDE DEF d
  <2>5. Typed(d)
    BY <1>1, <2>4, Settled DEF Halves
  <2> QED BY <1>1, <2>1, <2>5, Reading
<1>7. CASE PopsrHigh
  <2> DEFINE sr == p.sr \cup SrFlags(WordOf(0, b))
             d == [p EXCEPT !.sr = sr, !.state = "FETCH_INSTRUCTION"]
  <2>1. cpu_read_memory(cpu.sp, Committed, d)
    BY <1>3, <1>7 DEF PopsrHigh, b
  <2>2. sr \in SUBSET Flag
    BY <1>1, Flags
  <2> HIDE DEF sr
  <2>3. p \in CpuRecord /\ "FETCH_INSTRUCTION" \in CpuState
    BY <1>1 DEF Typed, CpuState
  <2>4. d \in CpuRecord /\ d.instruction = p.instruction /\ d.state = "FETCH_INSTRUCTION"
    BY <2>2, <2>3 DEF CpuRecord
  <2> HIDE DEF d
  <2>5. Typed(d)
    BY <1>1, <2>4, Settled DEF Halves
  <2> QED BY <1>1, <2>1, <2>5, Reading
<1> QED BY <1>4, <1>5, <1>6, <1>7

LEMMA Vectoring ==
  ASSUME TypeInv, UNCHANGED ram, InterruptFetchIrqVectorLow \/ InterruptFetchIrqVectorHigh
  PROVE  TypeInv'
<1> DEFINE c == Committed
           v == Vector(cpu.irq_id)
<1>1. /\ Typed(cpu) /\ Stores /\ Typed(c) /\ c.data_extended = cpu.data_extended
      /\ cpu.irq_id \in AWord
  BY Committing
<1>2. v \in Address /\ Wrap(v + 1) \in Address
  BY <1>1, VectorAddress, Stepping, Sizes
<1>3. c = Committed
  OBVIOUS
<1> HIDE DEF c, v
<1>4. CASE InterruptFetchIrqVectorLow
  <2> DEFINE b == ReadByte(v)
             d == [c EXCEPT !.data_extended = b, !.state = "INTERRUPT_FETCH_IRQ_VECTOR_HIGH"]
  <2>1. b \in BYTE /\ b \in AWord
    BY <1>1, <1>2, ReadBytes, Sizes
  <2>2. cpu_read_memory(v, c, d)
    BY <1>3, <1>4 DEF InterruptFetchIrqVectorLow, v
  <2> HIDE DEF b
  <2>3. /\ d \in CpuRecord /\ d.instruction = c.instruction
        /\ d.state = "INTERRUPT_FETCH_IRQ_VECTOR_HIGH" /\ d.data_extended = b
    BY <1>1, <2>1 DEF Typed, CpuRecord, CpuState
  <2> HIDE DEF d
  <2>4. Typed(d)
    BY <1>1, <2>1, <2>3 DEF Typed, HalfOK, InstructionOK
  <2> QED BY <1>1, <1>2, <2>2, <2>4, Reading
<1>5. CASE InterruptFetchIrqVectorHigh
  <2> DEFINE a == Wrap(v + 1)
             w == WordOf(cpu.data_extended, ReadByte(a))
             d == [c EXCEPT !.data_extended = w, !.pc = w, !.state = "FETCH_INSTRUCTION"]
  <2>1. w \in AWord
    <3>1. cpu.data_extended \in BYTE
      BY <1>1, <1>5 DEF InterruptFetchIrqVectorHigh, In, Typed, HalfOK
    <3>2. ReadByte(a) \in BYTE
      BY <1>1, <1>2, ReadBytes
    <3> QED BY <3>1, <3>2, Bytes
  <2>2. cpu_read_memory(a, c, d)
    BY <1>3, <1>5 DEF InterruptFetchIrqVectorHigh, v
  <2> HIDE DEF w
  <2>3. d \in CpuRecord /\ d.instruction = c.instruction /\ d.state = "FETCH_INSTRUCTION"
    BY <1>1, <2>1 DEF Typed, CpuRecord, CpuState
  <2> HIDE DEF d
  <2>4. Typed(d)
    BY <1>1, <2>3, Settled DEF Halves
  <2> QED BY <1>1, <1>2, <2>2, <2>4, Reading
<1> QED BY <1>4, <1>5

\* A clock of the processor keeps everything in its width.
LEMMA ClocksTyped ==
  ASSUME TypeInv, cpu_clock, UNCHANGED ram
  PROVE  TypeInv'
<1>1. CASE ClockBegin \/ AcceptInterrupt \/ DropInterrupt \/ SleepClock
  BY <1>1, ClockBegins
<1>2. CASE FetchInstruction \/ FetchAddressingModes \/ FetchArgumentBytes \/ ComputeAddress
  BY <1>2, Decoding
<1>3. CASE \/ FetchSourceImmediate \/ FetchSourceRegister \/ FetchSource \/ FetchSourceHigh
           \/ FetchDestinationRegister \/ FetchDestinationNone \/ FetchDestination
           \/ FetchDestinationHigh
  BY <1>3, Operands
<1>4. CASE Execute
  BY <1>4, Branching, Moving, Calculating DEF Execute
<1>5. CASE \/ WritebackLow \/ WritebackLowRegister \/ WritebackLowNone
           \/ WritebackHigh \/ WritebackHighRegister
  BY <1>5, WritingBack
<1>6. CASE PushHigh \/ PushLow \/ InterruptPushPcHigh \/ InterruptPushPcLow
  BY <1>6, Pushing
<1>7. CASE PopLow \/ PopHigh \/ PopsrLow \/ PopsrHigh
  BY <1>7, Popping
<1>8. CASE InterruptFetchIrqVectorLow \/ InterruptFetchIrqVectorHigh
  BY <1>8, Vectoring
<1> QED BY <1>1, <1>2, <1>3, <1>4, <1>5, <1>6, <1>7, <1>8 DEF cpu_clock

\* The state cpu_create leaves.
LEMMA CreatedTyped ==
  /\ DevicesInit => DevicesTypeOK
  /\ CacheInit => CacheTypeOK
  /\ cpu_create => Typed(cpu)
<1>1. DevicesInit => DevicesTypeOK
  <2>1. device_create \in Mailbox
    BY ByteLines, Sizes DEF device_create, Mailbox, DeviceState
  <2> QED BY <2>1 DEF DevicesInit, DevicesTypeOK
<1>2. CacheInit => CacheTypeOK
  BY Sizes DEF CacheInit, CacheTypeOK, NoLine
<1>3. SEGMENT_STACK + 1 \in AWord /\ 0 \in AWord
  BY EncodingAssumption, Sizes DEF Address, AWord
<1>4. ASSUME cpu_create
      PROVE  /\ cpu \in CpuRecord /\ cpu.instruction = "NOP"
             /\ cpu.state = "FETCH_INSTRUCTION"
  <2> DEFINE none == [admr |-> [kind |-> "NONE", reg |-> "R0"],
                      admx |-> [kind |-> "NONE", reg |-> "R0"]]
             zeros == [x \in {"R0", "R1", "R2", "R3"} |-> 0]
             bytes == [i \in 0 .. RAW - 1 |-> 0]
  <2>1. none \in [admr : ADMR, admx : ADMX]
    BY DEF ADMR, ADMX
  <2>2. /\ zeros \in [{"R0", "R1", "R2", "R3"} -> AWord] /\ bytes \in [0 .. RAW - 1 -> BYTE]
        /\ 0 \in 0 .. RAW + 1 /\ 0 \in 0 .. COUNT_RANGE - 1
    BY Sizes, CountAssumption, WordFacts DEF RAW
  <2>3. "NOP" \in Mnemonic /\ "FETCH_INSTRUCTION" \in CpuState
    BY DEF Mnemonic, NoArgument, CpuState
  <2>4. cpu = [state |-> "FETCH_INSTRUCTION", running |-> FALSE, r |-> zeros,
               pc |-> 0, sp |-> SEGMENT_STACK + 1, sr |-> {}, executed |-> 0,
               instruction |-> "NOP", extension_index |-> 0, mode |-> none,
               raw |-> bytes, raw_index |-> 0, previous_pc |-> 0, previous_sp |-> 0,
               address_reduced |-> 0, address_extended |-> 0,
               data_reduced |-> 0, data_extended |-> 0, result |-> 0, irq_id |-> 0]
    BY <1>4 DEF cpu_create
  <2> HIDE DEF none, zeros, bytes
  <2> QED BY <1>3, <2>1, <2>2, <2>3, <2>4 DEF CpuRecord
<1>5. cpu_create => Typed(cpu)
  BY <1>4, NoFlags DEF Typed, HalfOK, InstructionOK
<1> QED BY <1>1, <1>2, <1>5

LEMMA ReadLines ==
  ASSUME RamTypeOK, NEW a \in Address
  PROVE  ram_read(a) \in Line
<1>1. ASSUME NEW i \in 0 .. LINE - 1
      PROVE  ram[(a + i) % ADDRESS_SPACE] \in BYTE
  <2>1. a + i \in Int
    BY DEF Address
  <2>2. (a + i) % ADDRESS_SPACE \in Address
    BY <2>1, WrapAddress, Sizes DEF Wrap
  <2> QED BY <2>2 DEF RamTypeOK
<1> QED BY <1>1 DEF ram_read, Line

-----------------------------------------------------------------------------
(***************************************************************************)
(* What the states do with the memory.                                     *)
(***************************************************************************)
\* The control is at a store.
AtStore ==
  /\ cpu.state \in {"WRITEBACK_LOW", "WRITEBACK_HIGH", "PUSH_LOW", "PUSH_HIGH",
                    "INTERRUPT_PUSH_PC_HIGH", "INTERRUPT_PUSH_PC_LOW"}
  /\ cpu.state \in {"WRITEBACK_LOW", "WRITEBACK_HIGH"} =>
       mode_category(cpu.mode.admr) = "ADMC_IND"

\* The control is at a read from address a.
ReadsFrom(a) ==
  \/ /\ cpu.state \in {"FETCH_INSTRUCTION", "FETCH_ADDRESSING_MODES", "FETCH_ARGUMENT_BYTES"}
     /\ a = cpu.pc
  \/ /\ cpu.state = "FETCH_SOURCE" /\ mode_category(cpu.mode.admx) = "ADMC_IND"
     /\ a = cpu.address_extended
  \/ cpu.state = "FETCH_SOURCE_HIGH" /\ a = Wrap(cpu.address_extended + 1)
  \/ /\ cpu.state = "FETCH_DESTINATION" /\ mode_category(cpu.mode.admr) = "ADMC_IND"
     /\ a = cpu.address_reduced
  \/ cpu.state = "FETCH_DESTINATION_HIGH" /\ a = Wrap(cpu.address_reduced + 1)
  \/ cpu.state = "EXECUTE" /\ cpu.instruction = "FTC" /\ a = cpu.data_extended
  \/ cpu.state \in {"POP_LOW", "POP_HIGH", "POPSR_LOW", "POPSR_HIGH"} /\ a = cpu.sp
  \/ cpu.state = "INTERRUPT_FETCH_IRQ_VECTOR_LOW" /\ a = Vector(cpu.irq_id)
  \/ cpu.state = "INTERRUPT_FETCH_IRQ_VECTOR_HIGH" /\ a = Wrap(Vector(cpu.irq_id) + 1)

AtRead == \E a \in Address : ReadsFrom(a)

\* c is the processor at the same access again.
Repeats(c) ==
  /\ c \in CpuRecord /\ ("NC" \in c.sr <=> "NC" \in cpu.sr)
  /\ c.state = cpu.state /\ c.instruction = cpu.instruction
  /\ c.extension_index = cpu.extension_index
  /\ c.pc = cpu.pc /\ c.sp = cpu.sp /\ c.mode = cpu.mode /\ c.irq_id = cpu.irq_id
  /\ c.address_extended = cpu.address_extended /\ c.address_reduced = cpu.address_reduced
  /\ c.data_extended = cpu.data_extended

\* A clock that leaves c behind has not ended before a first opcode.
Opening(c) == ~c.running => c.state # "FETCH_INSTRUCTION" \/ c.extension_index # 0

\* What the states do, seen from the memory.
Elsewhere == ~AtStore /\ ~AtRead /\ \E c : Opening(c) /\ Proceed(c)
Loads ==
  \E a \in Address :
    ReadsFrom(a) /\ \E c, d : Repeats(c) /\ Opening(d) /\ cpu_read_memory(a, c, d)
Saves ==
  AtStore /\ \E a \in Address, b \in BYTE :
               \E d : d.running /\ cpu_write_memory(a, b, Committed, d)

\* A state is at one access, or at none.
LEMMA OneAccess ==
  ASSUME NEW a, ReadsFrom(a)
  PROVE  ~AtStore /\ \A b : ReadsFrom(b) => b = a
BY DEF ReadsFrom, AtStore

LEMMA Masked ==
  ASSUME TypeInv
  PROVE  /\ Repeats(Restartable) /\ Restartable.running = cpu.running
         /\ Repeats(Committed) /\ Committed.running = cpu.running
         /\ Repeats(AtBase) /\ AtBase.running = cpu.running
<1>1. Typed(cpu) /\ Typed(Restartable) /\ Typed(Committed) /\ Typed(AtBase)
  BY Masks DEF TypeInv
<1>2. cpu \in CpuRecord /\ Restartable \in CpuRecord /\ Committed \in CpuRecord
      /\ AtBase \in CpuRecord
  BY <1>1 DEF Typed
<1>3. Repeats(Restartable) /\ Restartable.running = cpu.running
  BY <1>2 DEF Repeats, Restartable, CpuRecord
<1>4. Repeats(Committed) /\ Committed.running = cpu.running
  BY <1>2 DEF Repeats, Committed, CpuRecord
<1> HIDE DEF Restartable
<1>5. Repeats(AtBase) /\ AtBase.running = cpu.running
  BY <1>2, <1>3 DEF Repeats, AtBase, CpuRecord
<1> QED BY <1>3, <1>4, <1>5

\* What the states go on with: while the clock runs, or stopped elsewhere.
LEMMA GoingOn ==
  ASSUME NEW c \in CpuRecord, c.running
  PROVE  /\ Finish(c).running /\ Counted(c).running
         /\ \A s : Goto(c, s).running
         /\ \A s : s # "FETCH_INSTRUCTION" => Opening(Stop(Goto(c, s)))
BY DEF Finish, Counted, Goto, Stop, Opening, CpuRecord

LEMMA OpenedSeen ==
  ASSUME TypeInv, cpu.running, NEW b
  PROVE  Opening(Opened(b))
<1> DEFINE c == [AtBase EXCEPT !.sr = IF b \in NoCache THEN @ \cup {"NC"} ELSE @ \ {"NC"}]
           m == Decoded(cpu.extension_index, b)
<1>1. AtBase \in CpuRecord /\ AtBase.running
  BY Masked DEF Repeats
<1>2. DOMAIN c = DOMAIN AtBase /\ c.running /\ c.extension_index \in Nat
  BY <1>1 DEF CpuRecord
<1> HIDE DEF c, m
<1>3. Opened(b) = IF Opcode[1][b] = "EXT"
                  THEN Stop([c EXCEPT !.pc = Wrap(@ + 1), !.extension_index = @ + 1,
                                      !.instruction = "EXT"])
                  ELSE IF m = "ILLEGAL" THEN Stop([c EXCEPT !.state = "EXCEPTION"])
                  ELSE [c EXCEPT !.instruction = m, !.extension_index = 0,
                                 !.pc = Wrap(@ + 1),
                                 !.state = IF argument_count(m) = 0 THEN "EXECUTE"
                                           ELSE "FETCH_ADDRESSING_MODES"]
  BY DEF Opened, c, m
<1>4. c.extension_index + 1 # 0
  BY <1>2
<1> QED BY <1>1, <1>2, <1>3, <1>4 DEF Opening, Stop, CpuRecord

LEMMA Seen ==
  ASSUME TypeInv, cpu_clock
  PROVE  \/ Elsewhere \/ Loads \/ Saves \/ ExecuteInvalidate
         \/ ClockBegin \/ AcceptInterrupt \/ DropInterrupt
<1>1. /\ cpu.pc \in Address /\ cpu.sp \in Address /\ Below \in Address
      /\ cpu.address_extended \in Address /\ cpu.address_reduced \in Address
      /\ Wrap(cpu.address_extended + 1) \in Address /\ Wrap(cpu.address_reduced + 1) \in Address
      /\ cpu.data_extended \in Address
      /\ Vector(cpu.irq_id) \in Address /\ Wrap(Vector(cpu.irq_id) + 1) \in Address
  <2>1. /\ cpu.pc \in AWord /\ cpu.sp \in AWord /\ cpu.address_extended \in AWord
        /\ cpu.address_reduced \in AWord /\ cpu.irq_id \in AWord /\ cpu.data_extended \in AWord
    BY DEF TypeInv, Typed, CpuRecord
  <2>2. Vector(cpu.irq_id) \in AWord
    BY <2>1, VectorAddress, Sizes
  <2> QED BY <2>1, <2>2, Stepping, Sizes, Moved
<1>2. /\ Low(cpu.result) \in BYTE /\ High(cpu.result) \in BYTE
      /\ Low(cpu.pc) \in BYTE /\ High(cpu.pc) \in BYTE
  <2>1. cpu.result \in AWord /\ cpu.pc \in AWord
    BY Committing
  <2> QED BY <2>1, Bytes
<1>a. /\ Repeats(Restartable) /\ Repeats(Committed) /\ Repeats(AtBase)
      /\ Restartable.running = cpu.running /\ Committed.running = cpu.running
      /\ cpu \in CpuRecord /\ Restartable \in CpuRecord /\ Committed \in CpuRecord
  BY Masked DEF Repeats, TypeInv, Typed
<1>3. CASE FetchInstruction
  <2>1. /\ cpu_read_memory(cpu.pc, AtBase, Opened(ReadByte(cpu.pc)))
        /\ cpu.running /\ ReadsFrom(cpu.pc)
    BY <1>3 DEF FetchInstruction, In, ReadsFrom
  <2> QED BY <1>1, <1>a, <2>1, OpenedSeen DEF Loads
<1>4. CASE FetchAddressingModes
  <2> DEFINE a == cpu.pc
             m == AddressingMode[ReadByte(cpu.pc)]
             d == [Restartable EXCEPT
                    !.mode = m, !.pc = Wrap(@ + 1),
                    !.raw_index = IF BytesToLoad(m) = 0 THEN @ ELSE 0,
                    !.state = IF BytesToLoad(m) = 0 THEN "COMPUTE_ADDRESS"
                              ELSE "FETCH_ARGUMENT_BYTES"]
  <2>1. cpu_read_memory(a, Restartable, d) /\ cpu.running /\ ReadsFrom(a)
    BY <1>4 DEF FetchAddressingModes, In, ReadsFrom
  <2>2. d.running
    BY <1>a, <2>1 DEF CpuRecord
  <2> HIDE DEF d
  <2> QED BY <1>1, <1>a, <2>1, <2>2 DEF Loads, Opening
<1>5. CASE FetchArgumentBytes
  <2>1. ASSUME NEW b
        PROVE  Opening(Loaded(b))
    BY <1>5, <1>a DEF FetchArgumentBytes, In, Repeats, Loaded, Goto, Stop, Opening, CpuRecord
  <2>2. /\ cpu_read_memory(cpu.pc, Restartable, Loaded(ReadByte(cpu.pc)))
        /\ ReadsFrom(cpu.pc)
    BY <1>5 DEF FetchArgumentBytes, In, ReadsFrom
  <2> QED BY <1>1, <1>a, <2>1, <2>2 DEF Loads
<1>6. CASE ComputeAddress
  <2>1. Opening(Stop(AddressComputed))
    BY <1>a DEF AddressComputed, Opening, Stop, CpuRecord
  <2> QED BY <1>6, <2>1 DEF ComputeAddress, In, AtStore, AtRead, ReadsFrom, Elsewhere
<1>7. CASE FetchSourceImmediate \/ FetchSourceRegister
  <2>1. /\ mode_category(cpu.mode.admx) # "ADMC_IND" /\ cpu.state = "FETCH_SOURCE"
        /\ cpu.running
    BY <1>7 DEF FetchSourceImmediate, FetchSourceRegister, In, mode_category
  <2>2. ASSUME NEW w
        PROVE  Sourced([Restartable EXCEPT !.data_extended = w]).running
    BY <1>a, <2>1 DEF Sourced, Goto, CpuRecord
  <2>3. ~AtStore /\ ~AtRead
    BY <2>1 DEF AtStore, AtRead, ReadsFrom
  <2> QED BY <1>7, <2>2, <2>3 DEF FetchSourceImmediate, FetchSourceRegister, Elsewhere, Opening
<1>8. CASE FetchDestinationRegister \/ FetchDestinationNone
  <2>1. /\ mode_category(cpu.mode.admr) # "ADMC_IND" /\ cpu.state = "FETCH_DESTINATION"
        /\ cpu.running
    BY <1>8 DEF FetchDestinationRegister, FetchDestinationNone, In, mode_category
  <2>2. /\ Opening(Stop(Goto(Restartable, "EXCEPTION")))
        /\ \A w : [Restartable EXCEPT !.data_reduced = w, !.state = "EXECUTE"].running
    BY <1>a, <2>1, GoingOn DEF CpuRecord
  <2>3. ~AtStore /\ ~AtRead
    BY <2>1 DEF AtStore, AtRead, ReadsFrom
  <2> QED BY <1>8, <2>2, <2>3 DEF FetchDestinationRegister, FetchDestinationNone, Elsewhere, Opening
<1>9. CASE FetchSource
  <2> DEFINE a == cpu.address_extended
             d == [Restartable EXCEPT !.state = "FETCH_SOURCE_HIGH",
                                   !.data_extended = ReadByte(a)]
  <2>1. cpu_read_memory(a, Restartable, d) /\ cpu.running /\ ReadsFrom(a)
    BY <1>9 DEF FetchSource, In, ReadsFrom
  <2>2. d.running
    BY <1>a, <2>1 DEF CpuRecord
  <2> HIDE DEF d
  <2> QED BY <1>1, <1>a, <2>1, <2>2 DEF Loads, Opening
<1>10. CASE FetchSourceHigh
  <2> DEFINE a == Wrap(cpu.address_extended + 1)
             d == Sourced([Restartable EXCEPT !.data_extended = WordOf(@, ReadByte(a))])
  <2>1. cpu_read_memory(a, Restartable, d) /\ cpu.running /\ ReadsFrom(a)
    BY <1>10 DEF FetchSourceHigh, In, ReadsFrom
  <2>2. d.running
    BY <1>a, <2>1 DEF CpuRecord, Sourced, Goto
  <2> HIDE DEF d
  <2> QED BY <1>1, <1>a, <2>1, <2>2 DEF Loads, Opening
<1>11. CASE FetchDestination
  <2> DEFINE a == cpu.address_reduced
             d == [Restartable EXCEPT !.state = "FETCH_DESTINATION_HIGH",
                                   !.data_reduced = ReadByte(a)]
  <2>1. cpu_read_memory(a, Restartable, d) /\ cpu.running /\ ReadsFrom(a)
    BY <1>11 DEF FetchDestination, In, ReadsFrom
  <2>2. d.running
    BY <1>a, <2>1 DEF CpuRecord
  <2> HIDE DEF d
  <2> QED BY <1>1, <1>a, <2>1, <2>2 DEF Loads, Opening
<1>12. CASE FetchDestinationHigh
  <2> DEFINE a == Wrap(cpu.address_reduced + 1)
             d == [Restartable EXCEPT !.state = "EXECUTE",
                                   !.data_reduced = WordOf(@, ReadByte(a))]
  <2>1. cpu_read_memory(a, Restartable, d) /\ cpu.running /\ ReadsFrom(a)
    BY <1>12 DEF FetchDestinationHigh, In, ReadsFrom
  <2>2. d.running
    BY <1>a, <2>1 DEF CpuRecord
  <2> HIDE DEF d
  <2> QED BY <1>1, <1>a, <2>1, <2>2 DEF Loads, Opening
<1> DEFINE Calm == ~AtStore /\ ~AtRead
<1>b. cpu.running /\ cpu.state = "EXECUTE" /\ cpu.instruction # "FTC" => Calm /\ Restartable.running
  BY <1>a DEF AtStore, AtRead, ReadsFrom
<1>13. CASE ExecuteNop
  <2>1. cpu.running /\ cpu.state = "EXECUTE" /\ cpu.instruction # "FTC"
    BY <1>13 DEF ExecuteNop, Executing, In
  <2> QED BY <1>13, <1>a, <1>b, <2>1, GoingOn DEF ExecuteNop, Elsewhere, Opening
<1>14. CASE ExecuteJump \/ ExecuteCall
  <2>1. /\ cpu.running /\ cpu.state = "EXECUTE" /\ cpu.instruction # "FTC"
    BY <1>14, NoFetchCache DEF ExecuteJump, ExecuteCall, Executing, In
  <2> QED BY <1>14, <1>a, <1>b, <2>1, GoingOn
             DEF ExecuteJump, ExecuteCall, Elsewhere, Opening, Finish, Goto, Counted,
                 CpuRecord
<1>15. CASE ExecuteMove \/ ExecuteMoveByte
  <2>1. /\ cpu.running /\ cpu.state = "EXECUTE" /\ cpu.instruction # "FTC"
    BY <1>15, NoFetchCache DEF ExecuteMove, ExecuteMoveByte, Executing, In
  <2> QED BY <1>15, <1>a, <1>b, <2>1, GoingOn
             DEF ExecuteMove, ExecuteMoveByte, Elsewhere, Opening, CpuRecord
<1>16. CASE ExecutePush \/ ExecutePop
  <2>1. /\ cpu.running /\ cpu.state = "EXECUTE" /\ cpu.instruction # "FTC"
    BY <1>16, NoFetchCache DEF ExecutePush, ExecutePop, Executing, In
  <2> QED BY <1>16, <1>a, <1>b, <2>1, GoingOn
             DEF ExecutePush, ExecutePop, Elsewhere, Opening, CpuRecord
<1>17. CASE ExecuteCompare \/ ExecuteFlag
  <2>1. /\ cpu.running /\ cpu.state = "EXECUTE" /\ cpu.instruction # "FTC"
    BY <1>17, NoFetchCache DEF ExecuteCompare, ExecuteFlag, Executing, In
  <2> QED BY <1>17, <1>a, <1>b, <2>1, GoingOn
             DEF ExecuteCompare, ExecuteFlag, Elsewhere, Opening, Finish, Goto, Counted,
                 CpuRecord
<1>18. CASE ExecuteAlu
  <2>1. /\ cpu.running /\ cpu.state = "EXECUTE" /\ cpu.instruction # "FTC"
    BY <1>18, NoFetchCache DEF ExecuteAlu, Executing, In
  <2>2. ASSUME NEW w, NEW f
        PROVE  [Restartable EXCEPT !.result = w, !.state = "WRITEBACK_LOW", !.sr = f].running
    BY <1>a, <2>1 DEF CpuRecord
  <2> QED BY <1>18, <1>b, <2>1, <2>2 DEF ExecuteAlu, Elsewhere, Opening
<1>19. CASE ExecuteInfo
  <2>1. /\ cpu.running /\ cpu.state = "EXECUTE" /\ cpu.instruction # "FTC"
    BY <1>19 DEF ExecuteInfo, Executing, In
  <2>2. ASSUME NEW f
        PROVE  Finish([Restartable EXCEPT !.r = f]).running
    BY <1>a, <2>1 DEF Finish, Goto, Counted, CpuRecord
  <2> QED BY <1>19, <1>b, <2>1, <2>2 DEF ExecuteInfo, Elsewhere, Opening
<1>31. CASE ExecuteInt \/ ExecuteHalt \/ ExecuteSleep
  <2>1. /\ cpu.running /\ cpu.state = "EXECUTE" /\ cpu.instruction # "FTC"
    BY <1>31 DEF ExecuteInt, ExecuteHalt, ExecuteSleep, Executing, In
  <2>2. /\ Goto(Counted(Restartable), "INTERRUPT_PUSH_PC_HIGH").running
        /\ Opening(Stop(Goto(Counted(Restartable), "HALT")))
        /\ Opening(Stop(Goto(Restartable, "SLEEP")))
    BY <1>a, <2>1 DEF Opening, Stop, Goto, Counted, CpuRecord
  <2> QED BY <1>31, <1>b, <2>1, <2>2
          DEF ExecuteInt, ExecuteHalt, ExecuteSleep, Elsewhere, Opening
<1>20. CASE ExecuteFetchCache
  <2>1. /\ cpu_read_memory(cpu.data_extended, Restartable, Finish(Restartable))
        /\ cpu.running /\ ReadsFrom(cpu.data_extended)
    BY <1>20 DEF ExecuteFetchCache, Executing, In, ReadsFrom
  <2> QED BY <1>1, <1>a, <2>1, GoingOn DEF Loads, Opening
<1>21. CASE WritebackLowRegister \/ WritebackLowNone \/ WritebackHighRegister
  <2>1. /\ mode_category(cpu.mode.admr) # "ADMC_IND" /\ cpu.running
        /\ cpu.state \in {"WRITEBACK_LOW", "WRITEBACK_HIGH"}
    BY <1>21 DEF WritebackLowRegister, WritebackLowNone, WritebackHighRegister, In, mode_category
  <2>2. ~AtStore /\ ~AtRead
    BY <2>1 DEF AtStore, AtRead, ReadsFrom
  <2>3. ASSUME NEW x, NEW w
        PROVE  /\ Finish(Assign(Committed, x, w)).running
               /\ Goto(Counted(Assign(Committed, x, w)), "WRITEBACK_HIGH").running
    BY <1>a, <2>1 DEF Finish, Goto, Counted, Assign, CpuRecord
  <2>4. WritebackLowNone => Opening(Stop(Committed))
    BY <1>a DEF WritebackLowNone, In, Repeats, Stop, Opening, CpuRecord
  <2> QED BY <1>21, <2>2, <2>3, <2>4
          DEF WritebackLowRegister, WritebackLowNone, WritebackHighRegister, Elsewhere, Opening
<1>22. CASE WritebackLow \/ WritebackHigh
  <2>1. Committed.running /\ AtStore
    BY <1>22, <1>a DEF WritebackLow, WritebackHigh, In, AtStore
  <2> QED BY <1>1, <1>2, <1>22, <1>a, <2>1, GoingOn DEF WritebackLow, WritebackHigh, Saves
<1>c. /\ cpu.running => Pushed.running /\ Popped.running
      /\ Pushed \in CpuRecord /\ Popped \in CpuRecord
  BY <1>a, Moved DEF Pushed, Popped, Typed, CpuRecord
<1>23. CASE PushHigh \/ PushLow \/ InterruptPushPcHigh \/ InterruptPushPcLow
  <2>1. Pushed.running /\ AtStore
    BY <1>23, <1>c DEF PushHigh, PushLow, InterruptPushPcHigh, InterruptPushPcLow, In, AtStore
  <2> QED BY <1>1, <1>2, <1>23, <1>c, <2>1, GoingOn
          DEF PushHigh, PushLow, InterruptPushPcHigh, InterruptPushPcLow, Saves
<1>24. CASE PopLow
  <2> DEFINE a == cpu.sp
             d == [Popped EXCEPT !.result = ReadByte(a),
                               !.state = IF cpu.instruction = "POPB" THEN "WRITEBACK_LOW"
                                         ELSE "POP_HIGH"]
  <2>1. cpu_read_memory(a, Committed, d) /\ cpu.running /\ ReadsFrom(a)
    BY <1>24 DEF PopLow, In, ReadsFrom
  <2>2. d.running
    BY <1>a, <1>c, <2>1 DEF CpuRecord
  <2> HIDE DEF d
  <2> QED BY <1>1, <1>a, <2>1, <2>2 DEF Loads, Opening
<1>25. CASE PopHigh
  <2> DEFINE a == cpu.sp
             d == LET w == WordOf(cpu.result, ReadByte(a))
                  IN IF cpu.instruction = "RET"
                     THEN Finish([Popped EXCEPT !.result = w, !.pc = w])
                     ELSE [Popped EXCEPT !.result = w, !.state = "WRITEBACK_LOW"]
  <2>1. cpu_read_memory(a, Committed, d) /\ cpu.running /\ ReadsFrom(a)
    BY <1>25 DEF PopHigh, In, ReadsFrom
  <2>2. d.running
    BY <1>a, <1>c, <2>1 DEF Finish, Goto, Counted, CpuRecord
  <2> HIDE DEF d
  <2> QED BY <1>1, <1>a, <2>1, <2>2 DEF Loads, Opening
<1>26. CASE PopsrLow
  <2> DEFINE a == cpu.sp
             d == [Popped EXCEPT !.sr = SrFlags(ReadByte(a)), !.state = "POPSR_HIGH"]
  <2>1. cpu_read_memory(a, Committed, d) /\ cpu.running /\ ReadsFrom(a)
    BY <1>26 DEF PopsrLow, In, ReadsFrom
  <2>2. d.running
    BY <1>a, <1>c, <2>1 DEF CpuRecord
  <2> HIDE DEF d
  <2> QED BY <1>1, <1>a, <2>1, <2>2 DEF Loads, Opening
<1>27. CASE PopsrHigh
  <2> DEFINE a == cpu.sp
             d == [Popped EXCEPT !.sr = @ \cup SrFlags(WordOf(0, ReadByte(a))),
                               !.state = "FETCH_INSTRUCTION"]
  <2>1. cpu_read_memory(a, Committed, d) /\ cpu.running /\ ReadsFrom(a)
    BY <1>27 DEF PopsrHigh, In, ReadsFrom
  <2>2. d.running
    BY <1>a, <1>c, <2>1 DEF CpuRecord
  <2> HIDE DEF d
  <2> QED BY <1>1, <1>a, <2>1, <2>2 DEF Loads, Opening
<1>28. CASE InterruptFetchIrqVectorLow
  <2> DEFINE a == Vector(cpu.irq_id)
             d == [Committed EXCEPT !.data_extended = ReadByte(a),
                                  !.state = "INTERRUPT_FETCH_IRQ_VECTOR_HIGH"]
  <2>1. cpu_read_memory(a, Committed, d) /\ cpu.running /\ ReadsFrom(a)
    BY <1>28 DEF InterruptFetchIrqVectorLow, In, ReadsFrom
  <2>2. d.running
    BY <1>a, <1>c, <2>1 DEF CpuRecord
  <2> HIDE DEF d
  <2> QED BY <1>1, <1>a, <2>1, <2>2 DEF Loads, Opening
<1>29. CASE InterruptFetchIrqVectorHigh
  <2> DEFINE a == Wrap(Vector(cpu.irq_id) + 1)
             d == LET w == WordOf(cpu.data_extended, ReadByte(a))
                  IN [Committed EXCEPT !.data_extended = w, !.pc = w,
                                       !.state = "FETCH_INSTRUCTION"]
  <2>1. cpu_read_memory(a, Committed, d) /\ cpu.running /\ ReadsFrom(a)
    BY <1>29 DEF InterruptFetchIrqVectorHigh, In, ReadsFrom
  <2>2. d.running
    BY <1>a, <1>c, <2>1 DEF CpuRecord
  <2> HIDE DEF d
  <2> QED BY <1>1, <1>a, <2>1, <2>2 DEF Loads, Opening
<1>30. CASE SleepClock
  <2>1. cpu.state = "SLEEP" /\ Opening(Stop(cpu)) /\ Proceed(Stop(cpu))
    BY <1>30, <1>a DEF SleepClock, In, Stop, Opening, CpuRecord
  <2> QED BY <2>1 DEF Elsewhere, AtStore, AtRead, ReadsFrom
<1> QED BY <1>3, <1>4, <1>5, <1>6, <1>7, <1>8, <1>9, <1>10, <1>11, <1>12, <1>13, <1>14,
           <1>15, <1>16, <1>17, <1>18, <1>19, <1>20, <1>21, <1>22, <1>23, <1>24, <1>25,
           <1>26, <1>27, <1>28, <1>29, <1>30, <1>31
        DEF cpu_clock, Execute

LEMMA Posted ==
  ASSUME DevicesTypeOK, NEW m, Post(m)
  PROVE  mailbox' = m
BY Own DEF Post, mailbox, DevicesTypeOK

LEMMA Released ==
  ASSUME DevicesTypeOK, Release
  PROVE  mailbox'.state = "DS_IDLE" /\ mailbox'.processed = 0
<1>1. mailbox' = [mailbox EXCEPT !.state = "DS_IDLE", !.processed = 0]
  BY Posted DEF Release
<1> QED BY <1>1, Own DEF Mailbox

\* What is asked or answered is what the control is waiting for.
AccessInv ==
  /\ mailbox.state \in {"DS_FETCH", "DS_STORE"} \/ mailbox.processed = 1 =>
       AtStore \/ (ReadsFrom(mailbox.address) /\ ~Cached(mailbox.address))
  /\ mailbox.state = "DS_INTERRUPT" => mailbox.processed = 0

\* Where a clock of the processor may end.
ClockEnded ==
  /\ mailbox.processed = 0
  /\ cpu.state = "FETCH_INSTRUCTION" /\ cpu.extension_index = 0 => mailbox.state # "DS_IDLE"

LEMMA StillThere ==
  ASSUME NEW c, Repeats(c), cpu' = Stop(c)
  PROVE  /\ AtStore' <=> AtStore
         /\ \A a : ReadsFrom(a)' <=> ReadsFrom(a)
         /\ Caching' <=> Caching
<1>1. /\ cpu'.state = cpu.state /\ cpu'.instruction = cpu.instruction
      /\ cpu'.pc = cpu.pc /\ cpu'.sp = cpu.sp /\ cpu'.mode = cpu.mode
      /\ cpu'.irq_id = cpu.irq_id /\ cpu'.data_extended = cpu.data_extended
      /\ cpu'.address_extended = cpu.address_extended
      /\ cpu'.address_reduced = cpu.address_reduced
      /\ "NC" \in cpu'.sr <=> "NC" \in cpu.sr
  BY DEF Repeats, Stop, CpuRecord
<1> QED BY <1>1 DEF AtStore, ReadsFrom, Caching

LEMMA LoadsAsk ==
  ASSUME TypeInv, AccessInv, Loads
  PROVE  AccessInv' /\ (~cpu'.running => ClockEnded')
<1>1. DevicesTypeOK /\ mailbox \in Mailbox
  BY Own DEF TypeInv, Stores
<1>2. PICK a \in Address : ReadsFrom(a) /\ \E c, d : Repeats(c) /\ Opening(d) /\ cpu_read_memory(a, c, d)
  BY DEF Loads
<1>3. PICK c, d : Repeats(c) /\ Opening(d) /\ cpu_read_memory(a, c, d)
  BY <1>2
<1>4. ~AtStore /\ \A b : ReadsFrom(b) => b = a
  BY <1>2, OneAccess
<1>5. CASE ReadHit(a, d)
  <2>1. Cached(a) /\ cpu' = d /\ UNCHANGED <<dev, cache>>
    BY <1>5 DEF ReadHit, Proceed
  <2>2. mailbox.state \notin {"DS_FETCH", "DS_STORE"} /\ mailbox.processed = 0
    BY <1>1, <1>4, <2>1 DEF AccessInv, Mailbox
  <2> QED BY <1>3, <2>1, <2>2 DEF AccessInv, ClockEnded, Opening, mailbox
<1>6. CASE ReadReplied(a, d)
  <2>1. mailbox'.state = "DS_IDLE" /\ mailbox'.processed = 0 /\ cpu' = d
    BY <1>1, <1>6, Released DEF ReadReplied
  <2> QED BY <1>3, <2>1 DEF AccessInv, ClockEnded, Opening
<1>7. CASE ReadRequest(a, c)
  <2>1. /\ mailbox' = [mailbox EXCEPT !.state = "DS_FETCH", !.processed = 0, !.address = a]
        /\ ~Cached(a) /\ cpu' = Stop(c) /\ UNCHANGED cache
    BY <1>1, <1>7, Posted DEF ReadRequest
  <2>2. mailbox'.state = "DS_FETCH" /\ mailbox'.processed = 0 /\ mailbox'.address = a
    BY <1>1, <2>1 DEF Mailbox
  <2>3. ReadsFrom(a)' /\ ~Cached(a)'
    BY <1>2, <1>3, <2>1, StillThere DEF Cached, Hit
  <2> QED BY <2>2, <2>3 DEF AccessInv, ClockEnded
<1>8. CASE ~Cached(a) /\ Waiting(c)
  <2>1. /\ mailbox.processed = 0 /\ mailbox.state # "DS_IDLE"
        /\ cpu' = Stop(c) /\ UNCHANGED <<dev, cache>>
    BY <1>8 DEF Waiting, Proceed
  <2>2. /\ AtStore' <=> AtStore
        /\ ReadsFrom(mailbox.address)' <=> ReadsFrom(mailbox.address)
        /\ Cached(mailbox.address)' <=> Cached(mailbox.address)
    BY <1>3, <2>1, StillThere DEF Cached, Hit, mailbox
  <2> QED BY <2>1, <2>2 DEF AccessInv, ClockEnded, mailbox
<1> QED BY <1>3, <1>5, <1>6, <1>7, <1>8 DEF cpu_read_memory

LEMMA SavesAsk ==
  ASSUME TypeInv, AccessInv, Saves
  PROVE  AccessInv' /\ (~cpu'.running => ClockEnded')
<1>1. DevicesTypeOK /\ mailbox \in Mailbox /\ Repeats(Committed) /\ AtStore
  BY Own, Masked DEF TypeInv, Stores, Saves
<1>2. PICK a \in Address, b \in BYTE :
        \E d : d.running /\ cpu_write_memory(a, b, Committed, d)
  BY DEF Saves
<1>3. PICK d : d.running /\ cpu_write_memory(a, b, Committed, d)
  BY <1>2
<1>4. CASE WriteReplied(d)
  <2>1. mailbox'.state = "DS_IDLE" /\ mailbox'.processed = 0 /\ cpu' = d
    BY <1>1, <1>4, Released DEF WriteReplied
  <2> QED BY <1>3, <2>1 DEF AccessInv, ClockEnded
<1>5. CASE WriteRequest(a, b, Committed)
  <2>1. /\ mailbox' = [mailbox EXCEPT !.state = "DS_STORE", !.address = a, !.data = ByteLine(b)]
        /\ mailbox.processed = 0 /\ cpu' = Stop(Committed)
    BY <1>1, <1>5, Posted DEF WriteRequest
  <2>2. mailbox'.state = "DS_STORE" /\ mailbox'.processed = 0
    BY <1>1, <2>1 DEF Mailbox
  <2>3. AtStore'
    BY <1>1, <2>1, StillThere
  <2> QED BY <2>2, <2>3 DEF AccessInv, ClockEnded
<1>6. CASE Waiting(Committed)
  <2>1. /\ mailbox.processed = 0 /\ mailbox.state # "DS_IDLE"
        /\ cpu' = Stop(Committed) /\ UNCHANGED <<dev, cache>>
    BY <1>6 DEF Waiting, Proceed
  <2>2. AtStore'
    BY <1>1, <2>1, StillThere
  <2> QED BY <2>1, <2>2 DEF AccessInv, ClockEnded, mailbox
<1> QED BY <1>3, <1>4, <1>5, <1>6 DEF cpu_write_memory

\* A clock keeps to one access at a time, and ends with nothing answered.
LEMMA ClocksAsk ==
  ASSUME TypeInv, AccessInv, cpu_clock
  PROVE  AccessInv' /\ (~cpu'.running => ClockEnded')
<1>1. DevicesTypeOK /\ mailbox \in Mailbox /\ cpu \in CpuRecord
  BY Own DEF TypeInv, Typed, Stores
<1>2. CASE Elsewhere
  <2>1. /\ mailbox.state \notin {"DS_FETCH", "DS_STORE"} /\ mailbox.processed = 0
        /\ UNCHANGED <<dev, cache>>
    BY <1>1, <1>2 DEF Elsewhere, Proceed, AccessInv, AtRead, Mailbox
  <2>2. Opening(cpu')
    BY <1>2 DEF Elsewhere, Proceed
  <2> QED BY <2>1, <2>2 DEF AccessInv, ClockEnded, Opening, mailbox
<1>3. CASE ExecuteInvalidate
  <2>1. ~AtStore /\ ~AtRead /\ cpu.running /\ UNCHANGED dev /\ cpu' = Finish(Restartable)
    BY <1>3 DEF ExecuteInvalidate, Executing, In, AtStore, AtRead, ReadsFrom
  <2>2. mailbox.state \notin {"DS_FETCH", "DS_STORE"} /\ mailbox.processed = 0
    BY <1>1, <2>1 DEF AccessInv, AtRead, Mailbox
  <2>3. cpu'.running
    BY <2>1, Masked, GoingOn DEF Repeats
  <2> QED BY <2>1, <2>2, <2>3 DEF AccessInv, mailbox
<1>4. CASE ClockBegin
  <2>1. UNCHANGED <<dev, cache>> /\ cpu' = [cpu EXCEPT !.running = TRUE]
    BY <1>4 DEF ClockBegin, Proceed
  <2>2. /\ cpu'.running
        /\ cpu'.state = cpu.state /\ cpu'.instruction = cpu.instruction
        /\ cpu'.pc = cpu.pc /\ cpu'.sp = cpu.sp /\ cpu'.mode = cpu.mode
        /\ cpu'.irq_id = cpu.irq_id /\ cpu'.data_extended = cpu.data_extended
        /\ cpu'.address_extended = cpu.address_extended
        /\ cpu'.address_reduced = cpu.address_reduced /\ cpu'.sr = cpu.sr
    BY <1>1, <2>1 DEF CpuRecord
  <2>3. /\ AtStore' <=> AtStore
        /\ ReadsFrom(mailbox.address)' <=> ReadsFrom(mailbox.address)
        /\ Cached(mailbox.address)' <=> Cached(mailbox.address)
    BY <2>1, <2>2 DEF AtStore, ReadsFrom, Cached, Hit, Caching, mailbox
  <2> QED BY <2>1, <2>2, <2>3 DEF AccessInv, mailbox
<1>5. CASE AcceptInterrupt \/ DropInterrupt
  <2>1. Interrupted /\ cpu'.running
    BY <1>1, <1>5 DEF AcceptInterrupt, DropInterrupt, CpuRecord
  <2>2. mailbox' = [mailbox EXCEPT !.state = "DS_IDLE"] /\ mailbox.state = "DS_INTERRUPT"
    BY <1>1, <2>1, Posted DEF Interrupted
  <2>3. mailbox'.state = "DS_IDLE" /\ mailbox'.processed = 0
    BY <1>1, <2>2 DEF AccessInv, Mailbox
  <2> QED BY <2>1, <2>3 DEF AccessInv
<1> QED BY <1>2, <1>3, <1>4, <1>5, Seen, LoadsAsk, SavesAsk

\* While a request is out, a clock leaves the mailbox alone, and it never
\* touches another device's.
LEMMA ClocksPost ==
  ASSUME TypeInv, AccessInv, cpu_clock
  PROVE  /\ \A d \in Device : d # "CPU" => dev'[d] = dev[d]
         /\ mailbox.processed = 0 /\ mailbox.state \in {"DS_FETCH", "DS_STORE"} =>
              UNCHANGED dev
<1>1. DevicesTypeOK /\ mailbox \in Mailbox
  BY Own DEF TypeInv, Stores
<1>2. ASSUME NEW m, Post(m)
      PROVE  \A d \in Device : d # "CPU" => dev'[d] = dev[d]
  BY <1>1, <1>2 DEF Post, DevicesTypeOK
<1>3. ASSUME Release
      PROVE  \A d \in Device : d # "CPU" => dev'[d] = dev[d]
  BY <1>1, <1>3 DEF Release, Post, DevicesTypeOK
<1>4. CASE Elsewhere
  BY <1>4 DEF Elsewhere, Proceed
<1>5. CASE Loads
  <2>1. PICK a \in Address : \E c, d : cpu_read_memory(a, c, d)
    BY <1>5 DEF Loads
  <2>2. PICK c, d : cpu_read_memory(a, c, d)
    BY <2>1
  <2>3. CASE ReadHit(a, d) \/ Waiting(c)
    BY <2>3 DEF ReadHit, Waiting, Proceed
  <2>4. CASE ReadReplied(a, d)
    BY <1>3, <2>4 DEF ReadReplied
  <2>5. CASE ReadRequest(a, c)
    <3>1. mailbox.processed = 1 \/ mailbox.state = "DS_IDLE"
      BY <2>5 DEF ReadRequest
    <3> QED BY <1>1, <2>5, <3>1 DEF ReadRequest, Post, DevicesTypeOK
  <2> QED BY <2>2, <2>3, <2>4, <2>5 DEF cpu_read_memory
<1>6. CASE Saves
  <2>1. PICK a \in Address, b \in BYTE : \E d : cpu_write_memory(a, b, Committed, d)
    BY <1>6 DEF Saves
  <2>2. PICK d : cpu_write_memory(a, b, Committed, d)
    BY <2>1
  <2>3. CASE WriteReplied(d)
    BY <1>3, <2>3 DEF WriteReplied
  <2>4. CASE WriteRequest(a, b, Committed)
    BY <1>1, <2>4 DEF WriteRequest, Post, DevicesTypeOK
  <2>5. CASE Waiting(Committed)
    BY <2>5 DEF Waiting, Proceed
  <2> QED BY <2>2, <2>3, <2>4, <2>5 DEF cpu_write_memory
<1>7. CASE ExecuteInvalidate \/ ClockBegin
  BY <1>7 DEF ExecuteInvalidate, ClockBegin, Proceed
<1>8. CASE AcceptInterrupt \/ DropInterrupt
  BY <1>1, <1>8 DEF AcceptInterrupt, DropInterrupt, Interrupted, Post, DevicesTypeOK
<1> QED BY <1>4, <1>5, <1>6, <1>7, <1>8, Seen
=============================================================================

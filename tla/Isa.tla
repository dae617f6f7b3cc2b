-------------------------------- MODULE Isa --------------------------------
(***************************************************************************)
(* What the processor promises a program: instructions that are executed   *)
(* one after the other, each in one step, on registers and a memory, and   *)
(* interrupts between them.  There are no clocks, no bus, no cache and no  *)
(* intermediate registers here.  Machine implements it.                    *)
(*                                                                         *)
(* Only well-formed instructions have a step; the machine is free to stop  *)
(* at any other.                                                           *)
(***************************************************************************)
EXTENDS Encoding

CONSTANTS
  Images,       \* what the memory may hold at the start
  INT_CLOCK     \* the identifier of the one interrupt there is

VARIABLE arch

\* sr without the internal flags; irq is the last interrupt taken.
IsaInit ==
  arch \in [mem : Images, r : {[x \in {"R0", "R1", "R2", "R3"} |-> 0]},
            pc : {0}, sp : {SEGMENT_STACK + 1}, sr : {{}}, irq : {0}]

Word(s, a) == WordOf(s.mem[a], s.mem[Wrap(a + 1)])
PutByte(s, a, b) == [s EXCEPT !.mem[a] = b]
PutWord(s, a, w) == PutByte(PutByte(s, a, Low(w)), Wrap(a + 1), High(w))

Push(s, w) == LET a == Wrap(s.sp - 2) IN [PutWord(s, a, w) EXCEPT !.sp = a]
Pop(s, n)  == [s EXCEPT !.sp = Wrap(@ + n)]

-----------------------------------------------------------------------------
\* The number of EXT prefixes, as far as there are pages for them.
IsPrefix(s, n) == Opcode[1][s.mem[Wrap(s.pc + n)]] = "EXT"
Prefixes(s) ==
  CHOOSE n \in 0 .. Len(Opcode) :
    /\ \A k \in 0 .. n - 1 : IsPrefix(s, k)
    /\ n < Len(Opcode) => ~IsPrefix(s, n)

\* The instruction at the program counter: after the prefixes come the opcode,
\* the modes, the arguments of the extended operand, then those of the reduced
\* one, and then the next instruction.
Instruction(s) ==
  LET n    == Prefixes(s)
      code == s.mem[Wrap(s.pc + n)]
      m    == Decoded(n, code)
      mode == AddressingMode[s.mem[Wrap(s.pc + n + 1)]]
      args == s.pc + n + 2
  IN [m |-> m, admr |-> mode.admr, admx |-> mode.admx,
      no_cache |-> IF code \in NoCache THEN {"NC"} ELSE {},
      extended |-> Wrap(args),
      reduced |-> Wrap(args + mode_bytes(mode.admx)),
      next |-> Wrap(IF argument_count(m) = 0 THEN args - 1
                    ELSE args + argument_bytes(m, mode.admr, mode.admx))]

WellFormed(i) ==
  /\ i.m \notin {"ILLEGAL", "EXT"}
  /\ i.m \in ReadArgument \cup TwoArguments => mode_category(i.admx) # "ADMC_NONE"
  /\ i.m \in WriteArgument \cup TwoArguments => mode_category(i.admr) # "ADMC_NONE"
  /\ i.m \in WriteArgument => i.admx.kind = "NONE"
  /\ i.m = "LEA" => mode_category(i.admx) = "ADMC_IND"

Content(s, x) == IF x = "SP" THEN s.sp ELSE s.r[x]

\* The program counter as an index is the address of the next instruction.
Index(s, i) ==
  IF i.admx.reg = "PC" THEN i.next ELSE Content(s, i.admx.reg)

ExtendedAddress(s, i) ==
  LET base == Word(s, i.extended) IN
  CASE i.admx.kind = "IND"      -> Index(s, i)
    [] i.admx.kind = "IND16"    -> base
    [] i.admx.kind = "OFFSET16" -> Wrap(base + Index(s, i))
    [] i.admx.kind = "SCALED8"  ->
         Wrap(base + s.mem[Wrap(i.extended + 2)] * Index(s, i))

ReducedAddress(s, i) ==
  IF i.admr.kind = "IND16" THEN Word(s, i.reduced) ELSE s.r["R0"]

\* The program counter as an operand is the address of the instruction.
Source(s, i) ==
  CASE i.admx.kind = "IMM16" -> Word(s, i.extended)
    [] i.admx.kind = "REG"   -> IF i.admx.reg = "PC" THEN s.pc
                                ELSE Content(s, i.admx.reg)
    [] OTHER -> Word(s, ExtendedAddress(s, i))

Destination(s, i) ==
  IF i.admr.kind = "REG" THEN Content(s, i.admr.reg)
  ELSE Word(s, ReducedAddress(s, i))

SetRegister(s, x, w) == IF x = "SP" THEN [s EXCEPT !.sp = w] ELSE [s EXCEPT !.r[x] = w]

\* s with word w, or byte b, in the reduced operand, whose address is a.
Store(s, i, a, w) ==
  IF i.admr.kind = "REG" THEN SetRegister(s, i.admr.reg, w) ELSE PutWord(s, a, w)
StoreByte(s, i, a, b) ==
  IF i.admr.kind = "REG"
  THEN SetRegister(s, i.admr.reg, WordOf(b, High(Content(s, i.admr.reg))))
  ELSE PutByte(s, a, b)

\* Entering the handler of interrupt id.
Enter(s, id) == LET t == Push(s, s.pc) IN [t EXCEPT !.pc = Word(t, Vector(id))]

-----------------------------------------------------------------------------
\* What executing instruction i in s may lead to; n is s after the fetch.
Simple(s, i, n) ==
  CASE i.m \in {"NOP", "EXTNOP", "EXTNOP2", "INV", "FTC"} -> {n}
    [] i.m \in JUMPS -> {IF Taken(i.m, s.sr) THEN [n EXCEPT !.pc = Source(s, i)] ELSE n}
    [] i.m \in REL_JUMPS ->
         {IF Taken(i.m, s.sr) THEN [n EXCEPT !.pc = Wrap(@ + Source(s, i))] ELSE n}
    [] i.m \in FLAG_OPS -> {[n EXCEPT !.sr = FlagsAfter(i.m, @)]}
    [] i.m = "CMP" ->
         {[n EXCEPT !.sr = (@ \ {"Z", "FZ", "L", "UL", "FL", "DL", "LL"})
             \cup (CompareFlags(Destination(s, i), Source(s, i)) \cap Flag)]}
    [] i.m = "TST" ->
         {[n EXCEPT !.sr = (@ \ {"Z", "FZ", "L"}) \cup (TestFlags(Source(s, i)) \cap Flag)]}
    [] i.m \in {"HWCLOCK", "HWINSTR"} ->
         {[n EXCEPT !.r = [x \in DOMAIN @ |-> IF x = "R0" THEN w ELSE 0]] : w \in AWord}
    [] OTHER -> {}

Stacking(s, i, n) ==
  CASE i.m = "PUSH"   -> {Push(n, Source(s, i))}
    [] i.m = "PUSHB"  -> LET a == Wrap(s.sp - 1)
                         IN {[PutByte(n, a, Low(Source(s, i))) EXCEPT !.sp = a]}
    [] i.m = "PUSHSR" -> {Push(n, SrValue(s.sr \cup i.no_cache))}
    [] i.m = "POP"    -> {Store(Pop(n, 2), i, ReducedAddress(s, i), Word(s, s.sp))}
    [] i.m = "POPB"   -> {Store(Pop(n, 1), i, ReducedAddress(s, i), s.mem[s.sp])}
    [] i.m = "POPSR"  -> {[Pop(n, 2) EXCEPT !.sr = SrFlags(Word(s, s.sp)) \ InternalFlags]}
    [] i.m = "RET"    -> {[Pop(n, 2) EXCEPT !.pc = Word(s, s.sp)]}
    [] i.m = "CALL"   -> {[Push(n, i.next) EXCEPT !.pc = Source(s, i)]}
    [] i.m = "RCALL"  -> {[Push(n, i.next) EXCEPT !.pc = Wrap(i.next + Source(s, i))]}
    [] i.m = "INT"    -> {Enter(n, s.irq)}
    [] OTHER -> {}

Moving(s, i, n) ==
  CASE i.m = "MOV"  -> {Store(n, i, ReducedAddress(s, i), Source(s, i))}
    [] i.m = "MOVB" -> {StoreByte(n, i, ReducedAddress(s, i), Low(Source(s, i)))}
    [] i.m = "LEA"  -> {Store(n, i, ReducedAddress(s, i), ExtendedAddress(s, i))}
    [] i.m \in CMOVES ->
         {IF Taken(i.m, s.sr) THEN Store(n, i, ReducedAddress(s, i), Source(s, i)) ELSE n}
    [] OTHER -> {}

\* The second operand of an operation with one operand has no influence.
Calculating(s, i, n) ==
  IF i.m \notin INTEGER_OPS \cup UNARY_OPS \cup FLOAT_OPS \cup CONVERSIONS THEN {}
  ELSE LET a  == Destination(s, i)
           b  == IF i.m \in TwoArguments THEN Source(s, i) ELSE 0
           ao == "AO" \in s.sr
       IN {[Store(n, i, ReducedAddress(s, i), w) EXCEPT
              !.sr = IF AluOverflow(i.m, a, b, ao) THEN @ \cup {"AO"} ELSE @ \ {"AO"}] :
             w \in AluResults(i.m, a, b, ao)}

\* HLT and HWSLEEP have no outcome: nothing more is executed.
Outcomes(s) ==
  LET i == Instruction(s)
      n == [s EXCEPT !.pc = i.next]
  IN IF ~WellFormed(i) THEN {}
     ELSE Simple(s, i, n) \cup Stacking(s, i, n) \cup Moving(s, i, n)
            \cup Calculating(s, i, n)

Perform == arch' \in Outcomes(arch)

Irq ==
  /\ "MI" \notin arch.sr
  /\ arch' = Enter([arch EXCEPT !.irq = INT_CLOCK], INT_CLOCK)

IsaNext == Perform \/ Irq

IsaSpec == IsaInit /\ [][IsaNext]_arch
=============================================================================

------------------------------ MODULE Assembly ------------------------------
(***************************************************************************)
(* Lines of assembly as the tools under compiler/asm hold them, and what a *)
(* straight-line program does to the registers, the memory and the flags   *)
(* when the processor executes it.                                         *)
(*                                                                         *)
(* An operand is what its text spells: a mode, the value of its number and *)
(* whether it names a label.  The tokens that spell it are left out.       *)
(***************************************************************************)
EXTENDS Alu, Instructions, SequencesExt

CONSTANTS
  LABEL         \* what the label that programs refer to stands for

ASSUME LabelAssumption == LABEL \in AWord

Mode       == [kind : {"NONE", "REG", "IMM16", "IND16", "IND", "OFFSET16", "BAD"}, reg : Register]
Operand    == [kind : {m.kind : m \in Mode}, reg : Register, imm : AWord, label : BOOLEAN]
ParsedLine == [op : Mnemonic \cup {"LABEL"}, admr : Mode, admx : Mode, names_label : BOOLEAN,
               dst : Operand, src : Operand]

Absent == [kind |-> "NONE", reg |-> "R0", imm |-> 0, label |-> FALSE]
REG(x)         == [Absent EXCEPT !.kind = "REG", !.reg = x]
IMM(w)         == [Absent EXCEPT !.kind = "IMM16", !.imm = w]
IND(x)         == [Absent EXCEPT !.kind = "IND", !.reg = x]
IND16(w)       == [Absent EXCEPT !.kind = "IND16", !.imm = w]
OFFSET16(w, x) == [Absent EXCEPT !.kind = "OFFSET16", !.reg = x, !.imm = w]
NAME           == [Absent EXCEPT !.kind = "IMM16", !.label = TRUE]

ModeOf(t) == [kind |-> t.kind, reg |-> t.reg]

\* Instruction_t: the mnemonic and the two modes that rules look at, the type
\* of the first token of the third expression, and the text that is printed.
TwoOperands(m, dst, src) ==
  [op |-> m, admr |-> ModeOf(dst), admx |-> ModeOf(src),
   names_label |-> src.label /\ src.kind = "IMM16", dst |-> dst, src |-> src]
OneRead(m, src)    == [TwoOperands(m, Absent, src) EXCEPT !.names_label = FALSE]
OneWritten(m, dst) == TwoOperands(m, dst, Absent)
Plain(m)           == TwoOperands(m, Absent, Absent)

-----------------------------------------------------------------------------
\* A machine: r, mem and the flags sr.  Words lie in two bytes, low byte first.
BYTES == 2 ^ (WIDTH \div 2)

Load(s, a)     == s.mem[a] + BYTES * s.mem[Wrap(a + 1)]
PutAt(s, a, w) == [s EXCEPT !.mem[a] = w % BYTES, !.mem[Wrap(a + 1)] = w \div BYTES]

Number(t)     == Wrap(t.imm + (IF t.label THEN LABEL ELSE 0))
Place(s, t)   ==
  CASE t.kind = "IND"   -> s.r[t.reg]
    [] t.kind = "IND16" -> Number(t)
    [] OTHER            -> Wrap(Number(t) + s.r[t.reg])
Fetched(s, t) ==
  CASE t.kind = "REG"   -> s.r[t.reg]
    [] t.kind = "IMM16" -> Number(t)
    [] OTHER            -> Load(s, Place(s, t))
Stored(s, t, w) ==
  IF t.kind = "REG" THEN [s EXCEPT !.r[t.reg] = w] ELSE PutAt(s, Place(s, t), w)

Pushed(s, w) == LET a == Wrap(s.r["SP"] - 2) IN PutAt([s EXCEPT !.r["SP"] = a], a, w)
Popped(s)    == [s EXCEPT !.r["SP"] = Wrap(@ + 2)]
Top(s)       == Load(s, s.r["SP"])

\* The flags that are told apart are AO and Z; a stacked status register is a
\* word of them.
Flags       == {"AO", "Z"}
FlagWord(f) == (IF "AO" \in f THEN 1 ELSE 0) + (IF "Z" \in f THEN 2 ELSE 0)

\* The machine after instruction i.
Execute(s, i) ==
  LET a  == Fetched(s, i.dst)
      b  == Fetched(s, i.src)
      ao == "AO" \in s.sr
      m  == i.op
  IN CASE m = "MOV" -> Stored(s, i.dst, b)
       [] m = "LEA" -> Stored(s, i.dst, Place(s, i.src))
       [] m \in CMOVES -> IF Taken(m, s.sr) THEN Stored(s, i.dst, b) ELSE s
       [] m = "PUSH" -> Pushed(s, b)
       [] m = "POP" -> Stored(Popped(s), i.dst, Top(s))
       [] m = "PUSHSR" -> Pushed(s, FlagWord(s.sr))
       [] m = "POPSR" -> [Popped(s) EXCEPT !.sr = CHOOSE f \in SUBSET Flags : FlagWord(f) = Top(s) % 4]
       [] m = "CMP" -> [s EXCEPT !.sr = (@ \ {"Z"}) \cup (CompareFlags(a, b) \cap Flags)]
       [] m \in FLAG_OPS -> [s EXCEPT !.sr = FlagsAfter(m, @)]
       [] m \in INTEGER_OPS \cup FLOAT_OPS ->
            [Stored(s, i.dst, CHOOSE w \in AluResults(m, a, b, ao) : TRUE)
               EXCEPT !.sr = IF AluOverflow(m, a, b, ao) THEN @ \cup {"AO"} ELSE @ \ {"AO"}]
       [] m \in UNARY_OPS ->
            [Stored(s, i.dst, AluResult(m, a, 0, ao))
               EXCEPT !.sr = IF AluOverflow(m, a, 0, ao) THEN @ \cup {"AO"} ELSE @ \ {"AO"}]
       [] OTHER -> s

Run(program, s) == FoldLeft(Execute, s, program)
=============================================================================

---------------------------- MODULE Instructions ----------------------------
(***************************************************************************)
(* The instruction set as tables: which instructions take which operands,  *)
(* what each addressing mode costs and means, and the instructions that    *)
(* belong to a flag of the status register.  How a byte encodes a mnemonic *)
(* or a pair of modes is left to the processor's constants.                *)
(***************************************************************************)
EXTENDS Integers, Sequences

\* One row per flag: the instructions that test, clear and set it.  (The code
\* has no CLxx or SExx for the relative and conditional forms, and MI has no
\* jumps.)
FlagTable == {
  <<"Z",  "JZ",  "JNZ",  "RJZ",  "RJNZ",  "CMOVZ",  "CMOVNZ",  "CLZ",  "SEZ">>,
  <<"FZ", "JFZ", "JNFZ", "RJFZ", "RJNFZ", "CMOVFZ", "CMOVNFZ", "CLFZ", "SEFZ">>,
  <<"L",  "JL",  "JNL",  "RJL",  "RJNL",  "CMOVL",  "CMOVNL",  "CLL",  "SEL">>,
  <<"UL", "JUL", "JNUL", "RJUL", "RJNUL", "CMOVUL", "CMOVNUL", "CLUL", "SEUL">>,
  <<"FL", "JFL", "JNFL", "RJFL", "RJNFL", "CMOVFL", "CMOVNFL", "CLFL", "SEFL">>,
  <<"DL", "JDL", "JNDL", "RJDL", "RJNDL", "CMOVDL", "CMOVNDL", "CLDL", "SEDL">>,
  <<"LL", "JLL", "JNLL", "RJLL", "RJNLL", "CMOVLL", "CMOVNLL", "CLLL", "SELL">>,
  <<"AO", "JAO", "JNAO", "RJAO", "RJNAO", "CMOVAO", "CMOVNAO", "CLAO", "SEAO">>,
  <<"MI", "",    "",     "",     "",      "CMOVMI", "CMOVNMI", "CLMI", "SEMI">>}

Column(i) == {row[i] : row \in FlagTable} \ {""}

JUMPS     == {"JMP"} \cup Column(2) \cup Column(3)
REL_JUMPS == {"RJMP"} \cup Column(4) \cup Column(5)
CMOVES    == Column(6) \cup Column(7)
FLAG_OPS  == Column(8) \cup Column(9)

\* A conditional instruction is taken when its flag has the wanted value; sr
\* is the set of flags that are set.
Taken(m, sr) ==
  \A row \in FlagTable :
    /\ m \in {row[2], row[4], row[6]} => row[1] \in sr
    /\ m \in {row[3], row[5], row[7]} => row[1] \notin sr

\* The flags after a CLxx or SExx.
FlagsAfter(m, sr) ==
  (sr \ {row[1] : row \in {q \in FlagTable : q[8] = m}})
     \cup {row[1] : row \in {q \in FlagTable : q[9] = m}}

-----------------------------------------------------------------------------
\* argument_count and single_operant_writeback of instruction_encoding.
FLOAT_OPS   == {"ADDF", "SUBF", "MULF", "DIVF", "ADDD", "SUBD", "MULD", "DIVD",
                "ADDL", "SUBL", "MULL", "DIVL"}
CONVERSIONS == {"CIF", "CID", "CIL", "CFI", "CFD", "CFL", "CDI", "CDF", "CDL",
                "CLI", "CLF", "CLD"}
INTEGER_OPS == {"ADD", "ADC", "SUB", "SBC", "MUL", "DIV", "SSA", "SSS", "SSM",
                "USA", "USS", "USM", "UBS", "SBS", "AND", "OR", "XOR"}
UNARY_OPS   == {"NEG", "ABS", "INC", "DEC", "NOT", "CBI"}

NoArgument  == {"NOP", "PUSHSR", "POPSR", "RET", "INV", "HWCLOCK", "HWINSTR",
                "HWSLEEP", "HLT", "EXTNOP", "EXTNOP2"} \cup FLAG_OPS
\* One argument that is read: the extended operand.
ReadArgument == {"PUSH", "PUSHB", "CALL", "RCALL", "TST", "FTC", "INT"}
                  \cup JUMPS \cup REL_JUMPS
\* One argument that is written back: the reduced operand.
WriteArgument == {"POP", "POPB"} \cup UNARY_OPS \cup CONVERSIONS
TwoArguments == {"MOV", "MOVB", "LEA", "CMP"} \cup INTEGER_OPS \cup FLOAT_OPS
                  \cup CMOVES

Mnemonic == NoArgument \cup ReadArgument \cup WriteArgument \cup TwoArguments
              \cup {"EXT"}

argument_count(m) ==
  IF m \in TwoArguments THEN 2
  ELSE IF m \in ReadArgument \cup WriteArgument THEN 1 ELSE 0

single_operant_writeback(m) == m \in WriteArgument

-----------------------------------------------------------------------------
(***************************************************************************)
(* Addressing modes.  An extended mode is a category with the register it  *)
(* uses; the enumerators are the rows of this record set.                  *)
(***************************************************************************)
Register == {"R0", "R1", "R2", "R3", "SP", "PC"}

ADMX == {[kind |-> "NONE", reg |-> "R0"], [kind |-> "UNUSED", reg |-> "R0"],
         [kind |-> "IMM16", reg |-> "R0"], [kind |-> "IND16", reg |-> "R0"]}
        \cup [kind : {"REG", "IND", "OFFSET16", "SCALED8"}, reg : Register]

ADMR == {[kind |-> "NONE", reg |-> "R0"], [kind |-> "IND16", reg |-> "R0"],
         [kind |-> "IND", reg |-> "R0"]}
        \cup [kind : {"REG"}, reg : Register \ {"PC"}]

\* Argument bytes of a mode; cpu_*_addressing_mode_bytes.
mode_bytes(mode) ==
  CASE mode.kind \in {"IMM16", "IND16", "OFFSET16"} -> 2
    [] mode.kind = "SCALED8" -> 3
    [] OTHER -> 0

\* cpu_*_addressing_mode_category.
mode_category(mode) ==
  CASE mode.kind \in {"NONE", "UNUSED"} -> "ADMC_NONE"
    [] mode.kind = "IMM16" -> "ADMC_IMM"
    [] mode.kind = "REG" -> "ADMC_REG"
    [] OTHER -> "ADMC_IND"

\* Bytes that follow the addressing-mode byte of an instruction.
argument_bytes(m, admr, admx) ==
  IF m \in TwoArguments THEN mode_bytes(admr) + mode_bytes(admx)
  ELSE IF single_operant_writeback(m) THEN mode_bytes(admr)
  ELSE mode_bytes(admx)
=============================================================================

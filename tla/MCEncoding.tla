----------------------------- MODULE MCEncoding -----------------------------
(***************************************************************************)
(* Small tables of opcodes and modes for TLC: words of 8 bits and bytes of *)
(* 4 bits.                                                                 *)
(***************************************************************************)
EXTENDS Encoding

NoFloat(m, a, b) == 0
NeverLess(m, a, b) == FALSE

Layout == <<"Z", "L", "AO", "UL", "FZ", "MI", "NC", "MNI">>

Page(mnemonics) == [b \in BYTE |-> mnemonics[b + 1]]

\* The second MOV carries the no-cache bit.
Pages ==
  <<Page(<<"NOP", "MOV", "MOVB", "PUSH", "POP", "CALL", "RET", "SEMI", "CLMI",
           "POPSR", "INC", "PUSHSR", "HLT", "MOV", "FTC", "EXT">>),
    Page(<<"EXTNOP", "JMP", "JNZ", "DEC", "ADD", "CMP", "PUSHB", "POPB", "LEA",
           "CMOVZ", "TST", "USM", "INV", "HWINSTR", "HWSLEEP", "EXT">>),
    Page(<<"RJMP", "RCALL", "INT", "SUB", "SBS", "UBS", "ADC", "HWCLOCK",
           "XOR", "JAO", "CBI", "EXTNOP2", "ILLEGAL", "ILLEGAL", "ILLEGAL", "EXT">>)>>

NoCache13    == {13}
NoCacheBytes == {13, 14}

Mode(admr, admx) == [admr |-> admr, admx |-> admx]
Of(kind, reg) == [kind |-> kind, reg |-> reg]
Null  == Of("NONE", "R0")
Imm   == Of("IMM16", "R0")
Ind16 == Of("IND16", "R0")
Reg(x) == Of("REG", x)

Modes ==
  LET table == <<Mode(Reg("R0"), Imm),   Mode(Reg("R0"), Reg("R1")),
                 Mode(Null, Imm),        Mode(Null, Reg("R0")),
                 Mode(Reg("R0"), Null),  Mode(Ind16, Imm),
                 Mode(Of("IND", "R0"), Reg("R1")),
                 Mode(Reg("R0"), Ind16),
                 Mode(Reg("R1"), Of("OFFSET16", "R0")),
                 Mode(Reg("R2"), Of("SCALED8", "R1")),
                 Mode(Reg("R1"), Reg("PC")), Mode(Ind16, Null),
                 Mode(Reg("R1"), Of("IND", "SP")), Mode(Ind16, Ind16),
                 Mode(Null, Ind16),
                 Mode(Reg("R0"), Of("UNUSED", "R0"))>>
  IN [b \in BYTE |-> table[b + 1]]
=============================================================================

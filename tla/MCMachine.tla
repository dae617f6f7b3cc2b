----------------------------- MODULE MCMachine -----------------------------
(***************************************************************************)
(* Machine for TLC: programs that run by themselves, and programs that are *)
(* interrupted at any moment.                                              *)
(***************************************************************************)
EXTENDS Machine, MCPrograms

\* A loop, and a call with a frame on the stack.
Loop ==
  I("MOV", Reg("R0"), Imm, W(2)) \o I("DEC", Reg("R0"), Null, <<>>)
    \o I("CMP", Reg("R0"), Imm, W(0)) \o I("JNZ", Null, Imm, W(4))
    \o I("CALL", Null, Imm, W(24)) \o I("PUSH", Null, Reg("R0"), <<>>) \o Code("HLT")
    \o I("PUSH", Null, Imm, W(DATA)) \o I("POP", Reg("R0"), Null, <<>>)
    \o I("MOV", Of("IND", "R0"), Reg("R1"), <<>>) \o Code("RET")

\* Every addressing mode.
Addressing ==
  I("MOV", Reg("R0"), Ind16, W(DATA)) \o I("MOV", Reg("R1"), Of("OFFSET16", "R0"), W(DATA))
    \o I("ADD", Reg("R2"), Of("SCALED8", "R1"), <<0, 5, 2>>)
    \o I("MOV", Ind16, Ind16, W(DATA) \o W(DATA + 1))
    \o I("MOVB", Ind16, Imm, W(7) \o W(DATA + 2)) \o I("MOVB", Reg("R0"), Reg("R1"), <<>>)
    \o I("ADD", Reg("R1"), Reg("PC"), <<>>) \o I("PUSH", Null, Reg("R0"), <<>>)
    \o I("MOV", Reg("R1"), Of("IND", "SP"), <<>>)
    \o I("POP", Ind16, Null, W(DATA)) \o Code("HLT")

\* A program that overwrites the argument of its next instruction, calls it in
\* a circle, and one that runs in place: JMP r1 with r1 = 0.
SelfModifying ==
  I("MOVB", Ind16, Imm, W(3) \o W(8)) \o I("MOV", Reg("R0"), Imm, W(1)) \o Code("HLT")
InPlace == I("JMP", Reg("R0"), Reg("R1"), <<>>)

\* The instructions of the second and third pages.
Extended ==
  I("TST", Null, Reg("R0"), <<>>) \o I("CMOVZ", Reg("R0"), Imm, W(66))
    \o I("LEA", Reg("R1"), Of("OFFSET16", "R0"), W(3)) \o I("PUSHB", Null, Reg("R0"), <<>>)
    \o I("POPB", Reg("R0"), Null, <<>>) \o Code("SEMI") \o Code("PUSHSR") \o Code("POPSR")
    \o Code("INV") \o I("FTC", Null, Reg("R0"), <<>>) \o I("USM", Reg("R0"), Imm, W(9))
    \o Code("CLMI") \o Code("HWSLEEP")
Extended3 ==
  I("RJMP", Null, Imm, W(1)) \o Code("NOP") \o I("SUB", Reg("R0"), Imm, W(1))
    \o I("INC", Reg("R0"), Null, <<>>) \o I("ADC", Reg("R0"), Ind16, W(DATA))
    \o I("SBS", Reg("R0"), Imm, W(2)) \o I("UBS", Reg("R0"), Imm, W(255))
    \o I("RCALL", Null, Imm, W(2)) \o Code("HWINSTR") \o Code("HWCLOCK") \o Code("HLT")

\* An address that nobody answers for, INT and the handler.
Software ==
  I("FTC", Null, Imm, W(OPEN)) \o I("INT", Null, Imm, W(0)) \o Code("HWINSTR") \o Code("EXTNOP2") \o Code("HLT")

\* Instructions that are not well-formed, and stop.
Missing   == I("MOV", Null, Imm, W(1))
WriteNone == I("INC", Null, Reg("R0"), <<>>)
Illegal   == <<15, 15, 13>>
TooFar    == <<15, 15, 15, 0>>
Unused    == I("MOV", Reg("R0"), Of("UNUSED", "R0"), <<>>)

IsaPrograms ==
  {Load(p, Return, d) :
     p \in {Loop, Addressing, SelfModifying, InPlace, Extended, Extended3}, d \in {0, 9}}
  \cup {Load(p, Return, 0) : p \in {Software, Missing, WriteNone, Illegal, TooFar, Unused}}

-----------------------------------------------------------------------------
Stacking ==
  I("CALL", Null, Imm, W(5)) \o Code("HLT")
    \o I("PUSH", Null, Ind16, W(DATA)) \o I("POP", Reg("R0"), Null, <<>>)
    \o I("INC", Reg("R0"), Null, <<>>) \o Code("RET")

Memory ==
  I("MOVB", Ind16, Imm, W(3) \o W(DATA + 3)) \o I("INC", Ind16, Null, W(DATA + 2))
    \o Code("HLT")

\* An address that nobody answers for, between interrupts.
Opening ==
  I("FTC", Null, Imm, W(OPEN)) \o I("INC", Reg("R0"), Null, <<>>) \o Code("HLT")

\* With interrupts masked, a prefix.
MaskedPrefix == Code("SEMI") \o Code("EXTNOP") \o Code("CLMI") \o Code("NOP") \o Code("HLT")

Masking ==
  Code("SEMI") \o I("INC", Reg("R0"), Null, <<>>) \o Code("PUSHSR") \o Code("CLMI")
    \o Code("POPSR") \o Code("CLMI") \o Code("NOP") \o Code("HLT")

IrqPrograms == {Load(p, Handler, 0) : p \in {Stacking, Memory, Masking, MaskedPrefix, Opening}}

-----------------------------------------------------------------------------
\* Whether a program is interrupted is noted in its image, in a byte that no
\* program writes.
MARK == DATA - 1

Programs == IsaPrograms \cup {[image EXCEPT ![MARK] = 1] : image \in IrqPrograms}

MCNext == CpuClock \/ Answer \/ (ram[MARK] = 1 /\ Interrupt)

MCSpec == Init /\ [][MCNext]_vars /\ WF_vars(CpuClock)
=============================================================================

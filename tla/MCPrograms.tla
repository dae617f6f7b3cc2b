----------------------------- MODULE MCPrograms -----------------------------
(***************************************************************************)
(* Programs for the small tables, written with a small assembler, and the  *)
(* images of the RAM they are loaded into.                                 *)
(***************************************************************************)
EXTENDS Devices, MCEncoding

\* The assembler: instructions as byte sequences.
W(w) == <<Low(w), High(w)>>

Cacheable(p) == IF p = 1 THEN BYTE \ NoCache ELSE BYTE
Code(m) ==
  LET p == CHOOSE p \in 1 .. Len(Opcode) : \E b \in Cacheable(p) : Opcode[p][b] = m
      code == CHOOSE b \in Cacheable(p) : Opcode[p][b] = m
  IN [i \in 1 .. p |-> IF i = p THEN code ELSE 15]

Modal(admr, admx) == <<CHOOSE b \in BYTE : AddressingMode[b] = Mode(admr, admx)>>

I(m, admr, admx, args) == Code(m) \o Modal(admr, admx) \o args

\* Where a program's data and the handler are, and an address without device.
DATA == 80
OPEN == SEGMENT_MMIO - 1
HANDLER == 60

Load(program, handler, d) ==
  [a \in Address |->
     IF a < Len(program) THEN program[a + 1]
     ELSE IF a \in HANDLER .. HANDLER + Len(handler) - 1 THEN handler[a - HANDLER + 1]
     ELSE IF a = DATA THEN d
     ELSE IF a \in {Vector(0), Vector(INT_CLOCK)} THEN Low(HANDLER)
     ELSE IF a \in {Vector(0) + 1, Vector(INT_CLOCK) + 1} THEN High(HANDLER)
     ELSE 0]

\* Handlers: one that returns, and one that uses a register, memory and the
\* stack.
Return == Code("RET")
Handler ==
  I("PUSH", Null, Reg("R0"), <<>>) \o I("INC", Reg("R0"), Null, <<>>)
    \o I("MOV", Ind16, Imm, W(5) \o W(DATA)) \o I("POP", Reg("R0"), Null, <<>>)
    \o Code("RET")
=============================================================================

----------------------------- MODULE MCComputer -----------------------------
(***************************************************************************)
(* Instances of Computer for TLC: programs, what they print and what they  *)
(* leave in R0.                                                            *)
(***************************************************************************)
EXTENDS Computer, MCPrograms

Run(code, handler, on_ram, printed, r0) ==
  [image |-> Load(code, handler, 0), on_ram |-> on_ram, ends |-> TRUE,
   screen |-> printed, r0 |-> r0, reads_output |-> FALSE]
Endless(code) == [Run(code, Return, TRUE, <<>>, 0) EXCEPT !.ends = FALSE]

\* The bytes from 11 on carry the no-cache bit.
ComputerPages ==
  <<Page(<<"NOP", "MOV", "MOVB", "PUSH", "POP", "CALL", "RET", "JMP", "INV", "INC",
           "HLT", "NOP", "JMP", "MOVB", "FTC", "EXT">>)>>
NoCacheFrom11 == {11, 12, 13, 14}

PutByte(a, b)  == I("MOVB", Ind16, Imm, W(b) \o W(a))
GetNoCache(a)  == <<13>> \o Modal(Reg("R0"), Ind16) \o W(a)
GetCached(a)   == I("MOV", Reg("R0"), Ind16, W(a))

\* The RAM alone: the stack.
Calling ==
  I("CALL", Null, Imm, W(5)) \o Code("HLT")
    \o I("PUSH", Null, Imm, W(7)) \o I("POP", Reg("R0"), Null, <<>>) \o Code("RET")

\* A store, and one that is read again, with a carry into its high byte.
Storing ==
  PutByte(DATA + 2, 15) \o I("INC", Ind16, Null, W(DATA + 2)) \o Code("HLT")

\* An address nobody answers for.
Opening == <<14>> \o Modal(Null, Imm) \o W(OPEN)

\* Two bytes for the terminal.
Printing == PutByte(MMIO_INPUT_REGISTER, 3) \o PutByte(MMIO_INPUT_REGISTER, 5) \o Code("HLT")

\* The first byte of bank 0, after one was written to bank 1 at the same address.
WINDOW == SEGMENT_MEMORY_BANK
Banking ==
  PutByte(WINDOW, 5) \o PutByte(MMIO_REGISTER_ADDRESS, 1) \o PutByte(WINDOW, 3)
    \o PutByte(MMIO_REGISTER_ADDRESS, 0)
BankingNoCache    == Banking \o GetNoCache(WINDOW) \o Code("HLT")
BankingInvalidate == Banking \o Code("INV") \o GetCached(WINDOW) \o Code("HLT")

\* A probe for file 1, and what it has changed in the output register, which was
\* read, and cached, before.
Probing ==
  I("MOVB", Reg("R0"), Ind16, W(MMIO_OUTPUT_REGISTER_ADDRESS))
    \o PutByte(MMIO_MODE_REGISTER_ADDRESS, M_SET_PATH) \o PutByte(MMIO_INPUT_REGISTER_ADDRESS, 1)
    \o PutByte(MMIO_MODE_REGISTER_ADDRESS, M_PROBE_FILE)
    \o GetNoCache(MMIO_OUTPUT_REGISTER_ADDRESS) \o Code("HLT")

\* Loops without cache: a jump to r1 = 0 after n instructions that do nothing.
Looping(n) == [i \in 1 .. n |-> 11] \o <<12>> \o Modal(Reg("R0"), Reg("R1"))

SmallPrograms ==
  <<Run(Calling, Handler, TRUE, <<>>, 7), Run(Storing, Handler, TRUE, <<>>, 0),
    Endless(Opening \o Looping(0)),
    Run(Printing, Handler, FALSE, <<3, 5>>, 0),
    Run(BankingNoCache, Return, FALSE, <<>>, 5),
    Run(BankingInvalidate, Return, FALSE, <<>>, 5),
    [Run(Probing, Return, FALSE, <<>>, 0) EXCEPT !.reads_output = TRUE]>>
  \o [i \in 1 .. 6 |-> Endless(Looping(i - 1))]

OneFile == {<<1>>}
=============================================================================

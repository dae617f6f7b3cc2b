---------------------------- MODULE MCAssembler ----------------------------
(***************************************************************************)
(* Instances of Assembler for TLC: every program of LENGTH of the          *)
(* statements below and the ending, with the options of the command line,  *)
(* with none, and with overwriting.                                        *)
(***************************************************************************)
EXTENDS Assembler, MCEncoding

AsmPages ==
  <<Page(<<"NOP", "MOV", "JMP", "RJMP", "POP", "PUSH", "HLT", "ADD", "CMP",
           "JZ", "DEC", "CALL", "RET", "MOV", "NOP", "EXT">>),
    Page([i \in 1 .. BYTE_RANGE |->
            CASE i = 1 -> "EXTNOP" [] i = 2 -> "MOVB" [] OTHER -> "ILLEGAL"])>>

A == Argument("a", FALSE, 0, 0)
Number(w) == Argument("", FALSE, w, 0)

MovImmediate == Instr("MOV", Reg("R0"), Imm, NoArguments, Number(35))

SomeStatements ==
  {Instr("NOP", Null, Null, NoArguments, NoArguments),
   Instr("EXTNOP", Null, Null, NoArguments, NoArguments),
   Instr("MOV", Reg("R0"), Reg("R1"), NoArguments, NoArguments),
   [MovImmediate EXCEPT !.no_cache = TRUE],
   Instr("MOV", Reg("R2"), Of("SCALED8", "R1"), NoArguments, Argument("", FALSE, 20, 3)),
   Instr("MOV", Ind16, Ind16, Number(81), A),
   Instr("MOVB", Ind16, Imm, Number(81), Number(7)),
   Instr("POP", Ind16, Null, A, NoArguments),
   Instr("RJMP", Null, Imm, NoArguments, A),
   Instr("RJMP", Null, Imm, NoArguments, Argument("c", FALSE, 0, 0)),
   Named("LABEL", "a"), Named("DEREF", "c"),
   Directive("ADDRESS", 3), Directive("ADDRESS", 20), Directive("ADDRESS", SEGMENT_CODE_END - 4),
   Directive("RESERVE", 2), Directive("PAD", 8), Directive("PAD", 6),
   Directive("STORE_ADDRESS", 0), Directive("RESTORE_ADDRESS", 0),
   Directive("SEGMENT_DATA", 0), Directive("SEGMENT_CODE", 0),
   Directive("DW", 35), Directive("DB", 5), Directive("DB", BYTE_RANGE),
   Directive("TEXT", 2), Directive("INCBIN", 3)}

SomeEnding ==
  <<Instr("JMP", Null, Imm, NoArguments, Argument("c", TRUE, 27, 0)),
    Instr("MOV", Reg("R1"), Of("OFFSET16", "R0"), NoArguments, Argument("c", FALSE, 0, 0)),
    Instr("RJMP", Null, Imm, NoArguments, Argument("c", FALSE, 0, 0)),
    Named("LABEL", "c"), Instr("HLT", Null, Null, NoArguments, NoArguments)>>

DefaultOptions == {"ERROR_ON_CODE_SEGMENT_BREACH", "PAD_SEGMENT_BREACH_WITH_ZERO", "ERROR_ON_OVERLAP"}
SomeOptions ==
  {DefaultOptions, {}, {"PAD_SEGMENT_BREACH_WITH_ZERO", "OVERWRITE_ON_OVERLAP"}}
=============================================================================

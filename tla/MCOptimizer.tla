---------------------------- MODULE MCOptimizer ----------------------------
(***************************************************************************)
(* Instances of Optimizer for TLC: every program of three of the lines     *)
(* below and the ending.                                                  *)
(***************************************************************************)
EXTENDS Optimizer

LeftOperand(m, a, b) == a
NeverLess(m, a, b)   == FALSE

r1 == REG("R1")
r2 == REG("R2")
SomeLines ==
  {TwoOperands("MOV", dst, src) :
     dst \in {REG("R0"), r1}, src \in {IMM(0), IMM(6), r2, NAME, IND("R1")}}
  \cup {TwoOperands("MOV", dst, src) :
     dst \in {IND("R0"), r2}, src \in {r1, IND16(6)}}
  \cup {TwoOperands("ADD", r1, src) : src \in {IMM(0), IMM(15), r1, r2, NAME}}
  \cup {TwoOperands("ADD", r2, src) : src \in {IMM(15), r1}}
  \cup {TwoOperands("SUB", r1, IMM(7)), TwoOperands("SUB", REG("SP"), IMM(2)),
        TwoOperands("MOV", REG("R0"), REG("SP")), TwoOperands("MOV", r1, r1),
        TwoOperands("LEA", r1, IND16(6)), TwoOperands("LEA", r1, OFFSET16(2, "R2")),
        TwoOperands("LEA", r2, OFFSET16(2, "R1")),
        TwoOperands("MUL", r1, IMM(1)), TwoOperands("SBS", r1, IMM(1)),
        TwoOperands("AND", r1, IMM(15)), TwoOperands("OR", r2, IMM(0)),
        OneRead("PUSH", r1), OneRead("PUSH", IND("R1")), OneWritten("POP", r1),
        Plain("PUSHSR"), Plain("POPSR"), OneRead("JMP", NAME), Plain("LABEL")}

SomeEnding == <<TwoOperands("MOV", r2, IMM(6)), Plain("HLT")>>

SomeMachines ==
  {[r |-> [x \in Register |-> CASE x = "R0" -> 4 [] x = "R1" -> 8 [] x = "R2" -> 3
                                [] x = "SP" -> 12 [] OTHER -> 6],
    mem |-> [a \in AWord |-> (a * a + 2) % 4], sr |-> {}],
   [r |-> [x \in Register |-> CASE x = "R0" -> 15 [] x = "R1" -> 6 [] x = "R2" -> 8
                                [] x = "SP" -> 10 [] OTHER -> 1],
    mem |-> [a \in AWord |-> (3 * a + 1) % 4], sr |-> {"AO"}]}
=============================================================================

----------------------------- MODULE Optimizer -----------------------------
(***************************************************************************)
(* The peephole optimizer: optimizer_compile rewrites an assembly program, *)
(* one rule at one place at a time.  It looks from the first instruction   *)
(* on for one that starts a pattern, applies the first rule that fits, and *)
(* starts over; when no rule fits anywhere, the low-priority rule follows  *)
(* in the same way, and the program is printed.                            *)
(*                                                                         *)
(* Every rule is an operator that gives the set of programs it makes of p  *)
(* at i: one, or none if it does not fit.  Places count from 1 here and    *)
(* from 0 in the code.  The rules read the modes admr and admx and the     *)
(* type of one token, and change text, modes and types independently; only *)
(* the text is printed.                                                    *)
(***************************************************************************)
EXTENDS Assembly

CONSTANTS
  Lines,        \* the instructions programs are made of
  LINES,        \* bound: how many of them
  LastLines,    \* how programs end
  Machines,     \* the machines to compare programs on
  F16_ONE       \* 1.0 as a float

IsJump(m) == m \in JUMPS \cup REL_JUMPS \cup {"CALL", "RET", "RCALL"}
Leaves(m) == IsJump(m) \/ m = "HLT"

Transfers(i) == Leaves(i.op) \/ i.op = "LABEL"

\* Programs are lines that were parsed: a jump, a call, a return, HLT or a label has
\* no operand to write to.
ASSUME OptimizerAssumption ==
  /\ Lines \subseteq ParsedLine /\ LINES \in Nat /\ LastLines \in Seq(ParsedLine)
  /\ \A i \in Lines \cup {LastLines[k] : k \in DOMAIN LastLines} :
       Transfers(i) => i.admr = ModeOf(Absent)

VARIABLES
  source,       \* the program that was read
  program,
  stage,
  applied       \* the rule that was applied last

optVars == <<source, program, stage, applied>>

-----------------------------------------------------------------------------
MovLea == {"MOV", "LEA"}

is_arithmetic_operation(m) ==
  m \in {"ADD", "SUB", "INC", "DEC", "MUL", "DIV", "SBS", "UBS", "AND", "OR", "XOR", "CBI"}
        \cup FLOAT_OPS \cup (CONVERSIONS \ {"CLI", "CLF", "CLD"})

is_move_operator(m) == m \in {"MOV"} \cup (CMOVES \ {"CMOVLL", "CMOVNLL"})

is_register(mode) == mode.kind = "REG"

is_same_adm(admr, admx) ==
  /\ admr = admx
  /\ is_register(admr) \/ admr.kind = "IND"

is_same_indirect_adm(admr, admx) ==
  is_register(admr) /\ admx = [kind |-> "IND", reg |-> admr.reg]

offset_contains(admx, admr) ==
  is_register(admr) /\ admx = [kind |-> "OFFSET16", reg |-> admr.reg]

R0     == [kind |-> "REG", reg |-> "R0"]
IND_R0 == [kind |-> "IND", reg |-> "R0"]
SP     == [kind |-> "REG", reg |-> "SP"]

\* parse_immediate of the first token of an operand: what is no number reads as 0.
Parsed(t) == IF t.kind = "IMM16" /\ ~t.label THEN t.imm ELSE 0
Immediate(i) == i.admx.kind = "IMM16"
LabelFree(i) == Immediate(i) /\ ~i.names_label

\* Instruction i with another source operand, text and mode.
WithSource(i, t) == [i EXCEPT !.src = t, !.admx = ModeOf(t)]

\* Faulty: what follows is not moved up.
InsertAfter_Overwrite(p, i, new) == IF i < Len(p) THEN [p EXCEPT ![i + 1] = new] ELSE p

\* A new instruction after place i; beyond the end nothing is inserted.
InsertAfter(p, i, new) == IF i < Len(p) THEN InsertAt(p, i + 1, new) ELSE p

-----------------------------------------------------------------------------
\* mov/lea rN, x; ...; mov/lea rN, y => ...; mov/lea rN, y
KeepsMove(i, x) ==
  \/ Leaves(i.op)
  \/ i.op \notin MovLea /\ i.admr = x
  \/ i.op \in MovLea /\ is_same_indirect_adm(x, i.admx)
  \/ x = R0 /\ i.admr = IND_R0
  \/ is_same_adm(x, i.admx)
  \/ Immediate(i) /\ i.names_label
  \/ offset_contains(i.admx, x)

OverwrittenMove(p, i) ==
  IF /\ p[i].op \in MovLea /\ is_register(p[i].admr)
     /\ \E j \in i + 1 .. Len(p) - 1 :
          /\ p[j].op \in MovLea /\ p[j].admr = p[i].admr
          /\ \A k \in i + 1 .. j : ~KeepsMove(p[k], p[i].admr)
  THEN {RemoveAt(p, i)} ELSE {}

\* mov r0, $xyz; mov [r0], ? => mov r0, $xyz; mov [$xyz], ?
StoreThroughImmediate(p, i) ==
  IF /\ i + 2 <= Len(p)
     /\ p[i].op = "MOV" /\ p[i].admr = R0 /\ Immediate(p[i])
     /\ p[i + 1].op = "MOV" /\ p[i + 1].admr = IND_R0
  THEN LET place == [p[i].src EXCEPT !.kind = "IND16"]
       IN {[p EXCEPT ![i + 1].dst = place,
                     ![i + 1].admr = [kind |-> "IND16", reg |-> "R0"]]}
  ELSE {}

\* mov rN, $0; add rN, rM => mov rN, rM
AddToZero(p, i) ==
  IF /\ i + 1 <= Len(p)
     /\ p[i].op = "MOV" /\ LabelFree(p[i]) /\ Parsed(p[i].src) = 0
     /\ p[i + 1].op = "ADD" /\ p[i + 1].admr = p[i].admr
  THEN {RemoveAt([p EXCEPT ![i + 1].op = "MOV"], i)} ELSE {}

\* mov rN, rM; mov rM, rN => mov rN, rM
MoveBack(p, i) ==
  IF /\ i + 1 <= Len(p)
     /\ p[i].op = "MOV" /\ p[i + 1].op = "MOV"
     /\ is_same_adm(p[i].admr, p[i + 1].admx)
     /\ is_same_adm(p[i + 1].admr, p[i].admx)
  THEN {RemoveAt(p, i + 1)} ELSE {}

\* mov rN, $0; add ?, rN => mov rN, $0
AddOfZero(p, i) ==
  IF /\ i + 1 <= Len(p)
     /\ p[i].op = "MOV" /\ Immediate(p[i]) /\ Parsed(p[i].src) = 0
     /\ p[i + 1].op = "ADD" /\ is_same_adm(p[i].admr, p[i + 1].admx)
  THEN {RemoveAt(p, i + 1)} ELSE {}

\* lea rN, [?]; mov rN, [rN] => mov rN, [?]
LoadEffective(p, i) ==
  IF /\ i + 1 <= Len(p)
     /\ p[i].op = "LEA" /\ p[i + 1].op = "MOV" /\ p[i].admr = p[i + 1].admr
     /\ is_same_indirect_adm(p[i + 1].admr, p[i + 1].admx)
  THEN {RemoveAt([p EXCEPT ![i].op = "MOV"], i + 1)} ELSE {}

\* mov rN, x; op rM, rN; mov rN, y => op rM, x; mov rN, y.  The modes and types
\* of x are copied, its text is not.
ForwardOnce(p, i) ==
  IF /\ i + 2 <= Len(p)
     /\ p[i].op = "MOV" /\ p[i + 2].op = "MOV" /\ p[i].admr = p[i + 2].admr
     /\ p[i + 1].op \in {"MOV", "ADD", "SUB", "MUL", "DIV", "ADDF", "SUBF", "MULF",
                         "DIVF", "CMP", "SBS", "UBS", "AND", "OR", "XOR"}
     /\ is_same_adm(p[i].admr, p[i + 1].admx)
  THEN {RemoveAt([p EXCEPT ![i + 1].admx = p[i].admx,
                           ![i + 1].names_label = p[i].names_label], i)}
  ELSE {}

\* Faulty: the offset of a subtraction is not negated; it is not cut to a word.
Offset_SameSign(m, x) == x
Offset_Negative(m, x) == IF m = "SUB" THEN -x ELSE x

Offset(m, x) == IF m = "SUB" THEN Wrap(-x) ELSE x

\* mov rN, rM; add rN, x => lea rN, [x + rM]
AddToLea(p, i) ==
  IF /\ i + 1 <= Len(p)
     /\ p[i].op = "MOV" /\ p[i + 1].op \in {"ADD", "SUB"}
     /\ p[i].admr = p[i + 1].admr
     /\ is_register(p[i].admx) /\ Immediate(p[i + 1])
  THEN LET offset == Offset(p[i + 1].op, Parsed(p[i + 1].src))
           lea == [p[i] EXCEPT !.op = "LEA", !.admx.kind = "OFFSET16",
                               !.src = OFFSET16(offset, @.reg)]
       IN {RemoveAt([p EXCEPT ![i] = lea], i + 1)}
  ELSE {}

\* mov rN, .L; add rN, $xyz => lea rN, [.L + $xyz]
AddToLabel(p, i) ==
  IF /\ i + 2 <= Len(p)
     /\ p[i].op = "MOV" /\ is_register(p[i].admr) /\ Immediate(p[i]) /\ p[i].names_label
     /\ p[i + 1].op = "ADD" /\ p[i].admr = p[i + 1].admr /\ Immediate(p[i + 1])
     /\ Parsed(p[i + 1].src) # 0
  THEN LET lea == [p[i] EXCEPT !.op = "LEA", !.admx.kind = "IND16",
                     !.src = [@ EXCEPT !.kind = "IND16", !.imm = Parsed(p[i + 1].src)]]
       IN {RemoveAt([p EXCEPT ![i] = lea], i + 1)}
  ELSE {}

\* What is computed in advance, and whether AO is to be set afterwards.  What
\* has no case here leaves the value alone.
Precomputed(m, x, y) ==
  IF m \in {"ADD", "SUB", "MUL", "DIV", "AND", "OR", "XOR"} \cup FLOAT_OPS
  THEN AluResult(m, x, y, FALSE) ELSE x
SetsOverflow(m, x, y) ==
  CASE m = "ADD" -> x + y > WORDS - 1
    [] m = "SUB" -> Signed(x) - Signed(y) < -SIGN
    [] m = "MUL" -> x * y > WORDS - 1
    [] OTHER     -> FALSE

\* mov rN, x; op rN, y => mov rN, z, and seao after it.  The operations of
\* Programs do not divide by 0, which would end the optimizer.
Precompute(p, i) ==
  IF /\ i + 1 <= Len(p)
     /\ p[i].op = "MOV" /\ LabelFree(p[i])
     /\ is_arithmetic_operation(p[i + 1].op)
     /\ p[i].admr = p[i + 1].admr /\ Immediate(p[i + 1])
  THEN LET x == Parsed(p[i].src)
           y == Parsed(p[i + 1].src)
           m == p[i + 1].op
           moved == RemoveAt([p EXCEPT ![i].src = IMM(Precomputed(m, x, y))], i + 1)
       IN {IF SetsOverflow(m, x, y) THEN InsertAfter(moved, i, Plain("SEAO")) ELSE moved}
  ELSE {}

\* mov rN, $xyz; push [rN] => push [$xyz].  The first token of the text of the
\* move goes between the brackets, whatever it is.
PushPlace(p, i) ==
  IF /\ i + 2 <= Len(p)
     /\ p[i].op = "MOV" /\ p[i + 1].op = "PUSH"
     /\ is_same_indirect_adm(p[i].admr, p[i + 1].admx)
  THEN LET x == p[i].src
           place == CASE x.kind = "IMM16" -> [x EXCEPT !.kind = "IND16"]
                      [] x.kind = "REG"   -> [x EXCEPT !.kind = "IND"]
                      [] OTHER            -> [x EXCEPT !.kind = "BAD"]
       IN {RemoveAt([p EXCEPT ![i + 1].src = place], i)}
  ELSE {}

\* sub sp, $x; ...; mov r0, sp; mov [r0], ? => sub sp, $(x - 2); ...; push ?
StopsStack(i) == IsJump(i.op) \/ i.admr = SP
StoresBelow(p, j) ==
  /\ p[j].op = "MOV" /\ p[j].admr = R0 /\ p[j].admx = SP
  /\ p[j + 1].op = "MOV" /\ p[j + 1].admr = IND_R0

StackToPush(p, i) ==
  IF i + 3 <= Len(p) /\ p[i].op = "SUB" /\ p[i].admr = SP /\ Immediate(p[i])
  THEN {RemoveAt([p EXCEPT ![i].src = IMM(Wrap(Parsed(p[i].src) - 2)),
                           ![j + 1].op = "PUSH", ![j + 1].dst = Absent], j) :
          j \in {j \in i + 1 .. Len(p) - 2 :
                  /\ StoresBelow(p, j)
                  /\ \A k \in i + 1 .. j : ~StopsStack(p[k])
                  /\ \A k \in i + 1 .. j - 1 : ~StoresBelow(p, k)}}
  ELSE {}

\* mov rN, [rN]; other; mov [r0], rN => other; mov [r0], [rN]; mov rN, [rN]
Untouched(i, x) ==
  CASE argument_count(i.op) = 0 -> TRUE
    [] argument_count(i.op) = 1 -> i.admr # x
    [] OTHER -> i.admr # x /\ ~is_same_adm(x, i.admx) /\ ~is_same_indirect_adm(x, i.admx)

DelayLoad(p, i) ==
  IF /\ i + 2 <= Len(p)
     /\ p[i].op = "MOV" /\ is_register(p[i].admr) /\ p[i].admr # R0
     /\ is_same_indirect_adm(p[i].admr, p[i].admx)
     /\ p[i + 2].op = "MOV" /\ is_same_adm(p[i].admr, p[i + 2].admx)
     /\ p[i + 2].admr # p[i].admr
     /\ Untouched(p[i + 1], p[i].admr)
  THEN LET store == [p[i + 2] EXCEPT !.admx.kind = "IND",
                                     !.src = [@ EXCEPT !.kind = "IND"]]
       IN {RemoveAt(InsertAfter([p EXCEPT ![i + 2] = store], i + 2, p[i]), i)}
  ELSE {}

\* lea rN, [$x + rO]; lea rM, [$y + rN]; mov rN, rM; mov/lea rM, ?
\*   => lea rN, [$(x + y) + rO]; lea rM, [$y + rN]; mov/lea rM, ?
MergeLea(p, i) ==
  IF /\ i + 3 <= Len(p)
     /\ p[i].op = "LEA" /\ is_register(p[i].admr) /\ p[i].admx.kind = "OFFSET16"
     /\ offset_contains(p[i + 1].admx, p[i].admr)
     /\ p[i + 2].admr = p[i].admr
     /\ is_same_adm(p[i + 1].admr, p[i + 2].admx)
     /\ p[i + 3].admr = p[i + 1].admr /\ p[i + 3].op \in MovLea
  THEN {RemoveAt([p EXCEPT ![i].src.imm = Wrap(@ + p[i + 1].src.imm)], i + 2)} ELSE {}

\* mov rN, x; ...; mov rM, rN => ...; mov rM, x, where rN is not used until it
\* is loaded again.  The text of x is copied, the types of its tokens are not.
EndsForward(i, move) ==
  LET x == move.admr
  IN \/ Leaves(i.op)
     \/ i.op \in MovLea /\ (i.admr = x \/ is_same_adm(i.admr, move.admx))
     \/ Immediate(i) /\ i.names_label
     \/ i.admr = x /\ is_same_indirect_adm(x, i.admx)
     \/ is_arithmetic_operation(i.op) /\ (i.admr = x \/ is_same_adm(i.admr, move.admx))
     \/ offset_contains(i.admx, x)
     \/ is_move_operator(i.op) /\ i.admr = x

UsesLater(i, x) ==
  \/ is_same_adm(x, i.admx) \/ is_same_indirect_adm(x, i.admx)
  \/ offset_contains(i.admx, x) \/ Leaves(i.op)
Reloads(i, x) == i.op \in MovLea /\ i.admr = x

DeadAfter(p, j, x) ==
  \A k \in j + 1 .. Len(p) :
    UsesLater(p[k], x) => \E l \in j + 1 .. k - 1 : Reloads(p[l], x)

ForwardMove(p, i) ==
  IF p[i].op = "MOV" /\ is_register(p[i].admr)
  THEN LET x == p[i].admr
           fits == {j \in i + 1 .. Len(p) - 1 :
                      /\ \A k \in i + 1 .. j : ~EndsForward(p[k], p[i])
                      /\ p[j].op \in MovLea /\ is_same_adm(x, p[j].admx)
                      /\ DeadAfter(p, j, x)}
       IN {RemoveAt([p EXCEPT ![j].admx = p[i].admx, ![j].src = p[i].src], i) :
             j \in {j \in fits : \A k \in fits : j <= k}}
  ELSE {}

-----------------------------------------------------------------------------
\* mov rN, rN => nothing
MoveToItself(p, i) ==
  IF p[i].op = "MOV" /\ is_same_adm(p[i].admr, p[i].admx) THEN {RemoveAt(p, i)} ELSE {}

\* add rN, 0; sub rN, 0; mul rN, 1; div rN, 1; mulf rN, f1; divf rN, f1 => nothing
Neutral(p, i) ==
  LET x == Parsed(p[i].src)
  IN IF /\ Immediate(p[i])
        /\ \/ p[i].op \in {"ADD", "SUB", "ADDF", "SUBF"} /\ x = 0
           \/ p[i].op \in {"MUL", "DIV"} /\ x = 1
           \/ p[i].op \in {"MULF", "DIVF"} /\ x = F16_ONE
     THEN {RemoveAt(p, i)} ELSE {}

\* mov rN, x; mov rN, y => mov rN, y, and the same for lea
OverwrittenNext(p, i) ==
  IF /\ i + 1 <= Len(p)
     /\ is_register(p[i].admr) /\ p[i].admr = p[i + 1].admr
     /\ \/ /\ p[i].op = "MOV" /\ p[i + 1].op = "MOV"
           /\ ~is_same_indirect_adm(p[i + 1].admr, p[i + 1].admx)
        \/ p[i].op = "LEA" /\ p[i + 1].op = "LEA"
  THEN {RemoveAt(p, i)} ELSE {}

\* lea rN, [x] => mov rN, x
LeaToMove(p, i) ==
  IF /\ i + 1 <= Len(p)
     /\ p[i].op = "LEA" /\ p[i].admx.kind \in {"IND16", "IND"}
     /\ ~(p[i].src.label /\ p[i].src.imm # 0)      \* [.L + $xyz]
  THEN LET x == [p[i].src EXCEPT !.kind = IF @ = "IND16" THEN "IMM16" ELSE "REG"]
       IN {[p EXCEPT ![i] = [WithSource(@, x) EXCEPT !.op = "MOV", !.names_label = x.label]]}
  ELSE {}

\* push rN; pop rN => nothing, and pushsr; popsr => nothing
PushPop(p, i) ==
  IF /\ i + 1 <= Len(p)
     /\ \/ /\ p[i].op = "PUSH" /\ p[i + 1].op = "POP"
           /\ is_same_adm(p[i + 1].admr, p[i].admx)
        \/ p[i].op = "PUSHSR" /\ p[i + 1].op = "POPSR"
  THEN {RemoveAt(RemoveAt(p, i + 1), i)} ELSE {}

\* and rN, $ffff; or rN, 0 => nothing
NeutralMask(p, i) ==
  IF /\ Immediate(p[i]) /\ is_register(p[i].admr)
     /\ \/ p[i].op = "AND" /\ Parsed(p[i].src) = WORDS - 1
        \/ p[i].op = "OR" /\ p[i].src = IMM(0)
  THEN {RemoveAt(p, i)} ELSE {}

\* Faulty: a change is reported and none is made.
ZeroByXor_Unchanged(p, i) ==
  IF p[i].op = "MOV" /\ is_register(p[i].admr) /\ p[i].src = IMM(0) THEN {p} ELSE {}

\* mov rN, 0 => xor rN, rN, which comes when nothing else fits
ZeroByXor(p, i) ==
  IF /\ p[i].op = "MOV" /\ Immediate(p[i]) /\ is_register(p[i].admr)
     /\ p[i].src = IMM(0)
  THEN {[p EXCEPT ![i] = WithSource([@ EXCEPT !.op = "XOR"], p[i].dst)]} ELSE {}
-----------------------------------------------------------------------------
\* The rules in the order in which they are tried at one place.
Rules == <<"OverwrittenMove", "StoreThroughImmediate", "AddToZero", "MoveBack",
           "AddOfZero", "LoadEffective", "ForwardOnce", "AddToLea", "AddToLabel",
           "Precompute", "PushPlace", "StackToPush", "DelayLoad", "MergeLea",
           "ForwardMove", "MoveToItself", "Neutral", "OverwrittenNext",
           "LeaToMove", "PushPop", "NeutralMask">>

Rewritten(rule, p, i) ==
  CASE rule = "OverwrittenMove" -> OverwrittenMove(p, i)
    [] rule = "StoreThroughImmediate" -> StoreThroughImmediate(p, i)
    [] rule = "AddToZero" -> AddToZero(p, i)
    [] rule = "MoveBack" -> MoveBack(p, i)
    [] rule = "AddOfZero" -> AddOfZero(p, i)
    [] rule = "LoadEffective" -> LoadEffective(p, i)
    [] rule = "ForwardOnce" -> ForwardOnce(p, i)
    [] rule = "AddToLea" -> AddToLea(p, i)
    [] rule = "AddToLabel" -> AddToLabel(p, i)
    [] rule = "Precompute" -> Precompute(p, i)
    [] rule = "PushPlace" -> PushPlace(p, i)
    [] rule = "StackToPush" -> StackToPush(p, i)
    [] rule = "DelayLoad" -> DelayLoad(p, i)
    [] rule = "MergeLea" -> MergeLea(p, i)
    [] rule = "ForwardMove" -> ForwardMove(p, i)
    [] rule = "MoveToItself" -> MoveToItself(p, i)
    [] rule = "Neutral" -> Neutral(p, i)
    [] rule = "OverwrittenNext" -> OverwrittenNext(p, i)
    [] rule = "LeaToMove" -> LeaToMove(p, i)
    [] rule = "PushPop" -> PushPop(p, i)
    [] rule = "NeutralMask" -> NeutralMask(p, i)
    [] rule = "ZeroByXor" -> ZeroByXor(p, i)

Fits(rules, p, i) == \E k \in DOMAIN rules : Rewritten(rules[k], p, i) # {}
Fixed(rules)      == \A i \in DOMAIN program : ~Fits(rules, program, i)

\* One change, after which the loop over the places begins again.
Apply(rules) ==
  \E i \in DOMAIN program, k \in DOMAIN rules :
    /\ Rewritten(rules[k], program, i) # {}
    /\ \A l \in 1 .. k - 1 : Rewritten(rules[l], program, i) = {}
    /\ \A j \in 1 .. i - 1 : ~Fits(rules, program, j)
    /\ program' \in Rewritten(rules[k], program, i)
    /\ applied' = rules[k]
    /\ UNCHANGED <<source, stage>>

Turn(next) == stage' = next /\ UNCHANGED <<source, program, applied>>

OptimizerInit ==
  /\ \E body \in [1 .. LINES -> Lines] : source = body \o LastLines
  /\ program = source /\ stage = "rules" /\ applied = ""

LowRules == <<"ZeroByXor">>

Optimize    == stage = "rules" /\ Apply(Rules)
TurnLow     == stage = "rules" /\ Fixed(Rules) /\ Turn("low")
OptimizeLow == stage = "low" /\ Apply(LowRules)
Reconstruct == stage = "low" /\ Fixed(LowRules) /\ Turn("done")

OptimizerNext == Optimize \/ TurnLow \/ OptimizeLow \/ Reconstruct
OptimizerSpec == OptimizerInit /\ [][OptimizerNext]_optVars /\ WF_optVars(OptimizerNext)
-----------------------------------------------------------------------------
\* The optimizer stops on every program: no rule undoes what another one does,
\* although every change starts the search over (optimizer_compile).
Terminates == <>(stage = "done")

\* Jumps, calls, returns, HLTs and labels stay what they were and in their order,
\* whatever is removed and inserted at indices around them.
Control(p) ==
  LET before[n \in 0 .. Len(p)] ==
        IF n = 0 THEN <<>>
        ELSE IF Transfers(p[n]) THEN Append(before[n - 1], p[n]) ELSE before[n - 1]
  IN before[Len(p)]
ControlKept == Control(program) = Control(source)

\* What lies below the stack pointer is not compared, nor AO where a rule
\* replaces an addition.
SameOutcome(p, q, flags) ==
  \A s \in Machines :
    LET a == Run(p, s)
        b == Run(q, s)
        below == {Wrap(a.r["SP"] - k) : k \in 1 .. 4}
    IN /\ a.r = b.r /\ a.sr \cap flags = b.sr \cap flags
       /\ \A x \in AWord \ below : a.mem[x] = b.mem[x]

\* Programs without jumps that neither stack their flags nor set SP, do no
\* arithmetic with labels or through registers, and whose modes still agree with
\* their text.  Outside of them the rules below go wrong.
Ordinary(p) ==
  \A i \in DOMAIN p :
    /\ ~IsJump(p[i].op) /\ p[i].op \notin {"PUSHSR", "POPSR", "LABEL"} \cup CMOVES
    /\ p[i].admr # SP /\ p[i].admx = ModeOf(p[i].src)
    /\ p[i].op \notin MovLea =>
         ~p[i].src.label /\ p[i].admx.kind \notin {"IND", "OFFSET16"}

\* These rules make of an ordinary program one that does the same: registers,
\* memory and flags after it are equal, and all but AO where an addition was
\* removed (the rewritings of optimizer_compile).
KeepFlags == {"OverwrittenMove", "StoreThroughImmediate", "LoadEffective", "MoveToItself",
              "LeaToMove", "PushPop", "NeutralMask", "ZeroByXor"}
LoseCarry == {"AddToLea", "AddToLabel", "Neutral"}
RewritesPreserve ==
  [][program' # program /\ Ordinary(program) =>
       /\ applied' \in KeepFlags => SameOutcome(program, program', Flags)
       /\ applied' \in LoseCarry => SameOutcome(program, program', Flags \ {"AO"})]_optVars

\* Where a register is forwarded, its value becomes the operand (line 408:
\* mov rN, x; op rM, rN; mov rN, y => op rM, x; mov rN, y).
OperandForwarded ==
  [][program' # program /\ applied' = "ForwardOnce" =>
       \E i \in DOMAIN program' :
         /\ program[i].op = "MOV" /\ program' = RemoveAt([program EXCEPT ![i + 1] = @], i)
         /\ program'[i].src = program[i].src]_optVars
=============================================================================

----------------------------- MODULE Assembler -----------------------------
(***************************************************************************)
(* The assembler's last three passes: it reads a program statement by      *)
(* statement and gives labels their values, replaces labels by their       *)
(* values, and writes the bytes.  The first pass counts the bytes that it  *)
(* expects the last one to write; what is right depends on the two counts  *)
(* being equal.                                                            *)
(*                                                                         *)
(* Text is not modelled: a statement is an expression with its tokens      *)
(* read.  A program has at most MAX_SLOTS entries, the ones the first      *)
(* allocation sets to zero: later ones have whatever realloc leaves.       *)
(***************************************************************************)
EXTENDS Encoding, SequencesExt

CONSTANTS
  Statements,      \* the statements that programs are made of
  LENGTH,          \* bound: how many of them a program begins with
  Ending,          \* the statements that follow
  OptionSets,      \* the sets of AssembleOption_t to assemble with
  MAX_LABELS       \* 256

MAX_SLOTS == 16

\* An operand's label, "" if it has none, its number and its scale; sum is a
\* label with a number added to it.
Argument(name, sum, imm, scale) == [name |-> name, sum |-> sum, imm |-> imm, scale |-> scale]
NoArguments == Argument("", FALSE, 0, 0)

\* The statements other than instructions carry the mnemonic 0, which is NOP.
Directive(kind, value) ==
  [kind |-> kind, value |-> value, name |-> "", op |-> "NOP", no_cache |-> FALSE,
   admr |-> [kind |-> "NONE", reg |-> "R0"], admx |-> [kind |-> "NONE", reg |-> "R0"],
   dst |-> NoArguments, src |-> NoArguments]
Named(kind, name) == [Directive(kind, 0) EXCEPT !.name = name]
Instr(m, admr, admx, dst, src) ==
  [Directive("INSTRUCTION", 0) EXCEPT
     !.op = m, !.admr = admr, !.admx = admx, !.dst = dst, !.src = src]

\* Instruction_t: a statement and its address.
Slot(statement, address) == [statement |-> statement, address |-> address]

StatementKind ==
  {"INSTRUCTION", "LABEL", "ADDRESS", "PAD", "RESERVE", "STORE_ADDRESS", "RESTORE_ADDRESS",
   "SEGMENT_CODE", "SEGMENT_DATA", "DW", "DB", "DEREF", "INCBIN", "TEXT"}
AddressChange == {"ADDRESS", "PAD", "STORE_ADDRESS", "RESTORE_ADDRESS", "RESERVE"}

Operands(s) == mode_bytes(s.admx) + mode_bytes(s.admr)
PageOf(m)   == CHOOSE p \in DOMAIN Opcode : \E b \in BYTE : Opcode[p][b] = m
OneByte(m)  == argument_count(m) = 0

\* There are bytes for the mnemonic, the prefixes and the modes of instruction
\* s, it has no operand that its mnemonic does not take, and its numbers are words.
Encodable(s) ==
  /\ s.op \notin {"EXT", "ILLEGAL"}
  /\ \E p \in DOMAIN Opcode : \E b \in BYTE : Opcode[p][b] = s.op
  /\ \E b \in BYTE : Opcode[PageOf(s.op)][b] = s.op /\ (b \in NoCache <=> s.no_cache)
  /\ PageOf(s.op) > 1 => \E b \in BYTE : Opcode[1][b] = "EXT" /\ (b \in NoCache <=> s.no_cache)
  /\ ~OneByte(s.op) => \E b \in BYTE : AddressingMode[b] = [admr |-> s.admr, admx |-> s.admx]
  /\ s.op \in ReadArgument \/ OneByte(s.op) => mode_bytes(s.admr) = 0
  /\ s.op \in WriteArgument \/ OneByte(s.op) => mode_bytes(s.admx) = 0
  /\ s.src.imm \in AWord /\ s.dst.imm \in AWord

\* Where an operand is a label, there are bytes for it, and no number of its own
\* unless one is added.
Refers(t, mode_of) == t.name # "" => mode_bytes(mode_of) > 0 /\ (t.sum \/ t.imm = 0)

\* The byte of a prefix is no other instruction on any page, there is NOP, and
\* what is read is what the statements before this pass leave: known directives,
\* and instructions that exist.
ASSUME AssemblerAssumption ==
  /\ Len(Opcode) + 7 <= ADDRESS_SPACE
  /\ \E p \in DOMAIN Opcode : \E b \in BYTE : Opcode[p][b] = "NOP"
  /\ \A p \in DOMAIN Opcode : \A b \in BYTE :
       Opcode[1][b] = "EXT" => Opcode[p][b] \in {"EXT", "ILLEGAL"}
  /\ \A s \in Statements \cup {Ending[i] : i \in DOMAIN Ending} :
       /\ s.kind \in StatementKind /\ s.value \in Nat /\ s.no_cache \in BOOLEAN
       /\ IF s.kind = "INSTRUCTION" THEN Encodable(s) ELSE s.op = "NOP" /\ Operands(s) = 0
       /\ s.kind = "LABEL" => s.name # ""
       /\ Refers(s.src, s.admx) /\ Refers(s.dst, s.admr)

VARIABLES
  options,
  phase,           \* "parse", "emit", "image", and "null" or "exit" for a failure
  length,          \* statements that have been read
  slots,           \* the entries of Instruction_t
  mode,            \* "CODE" or "DATA"
  byte_index,      \* bytes that the first pass has counted
  labels,          \* jump_label
  segments         \* the addresses handed to the disassembler

parseVars == <<length, slots, mode, byte_index, labels, segments>>

VARIABLES
  item,            \* the entry to write next
  index,           \* where to write it
  stashed_address, stash_calls,
  image,           \* bin where it is written, with the entry that wrote it
  binary_size,
  error,
  place            \* for the properties: where each entry was met

emitVars == <<item, index, stashed_address, stash_calls, image, binary_size, error, place>>
asmVars  == <<options, phase, parseVars, emitVars>>
-----------------------------------------------------------------------------
(***************************************************************************)
(* The value of a label is counted from the last change of the address.    *)
(***************************************************************************)
Changes == {i \in DOMAIN slots : slots[i].statement.kind \in AddressChange}
Since   == IF Changes = {} THEN 1 ELSE Max(Changes)

\* Faulty: the prefixes are not counted.
CodeCount_NoPrefix(s) ==
  IF s.kind \in {"LABEL", "SEGMENT_CODE", "SEGMENT_DATA"} THEN 0
  ELSE Operands(s) + (IF s.op # "NOP" /\ OneByte(s.op) THEN 1 ELSE 2)

\* In a code segment data count like instructions without arguments, and NOP
\* counts two bytes.
CodeCount(s) ==
  IF s.kind \in {"LABEL", "SEGMENT_CODE", "SEGMENT_DATA"} THEN 0
  ELSE Operands(s) + (IF s.op = "NOP" THEN 2
                      ELSE PageOf(s.op) + (IF OneByte(s.op) THEN 0 ELSE 1))

CodeLabel ==
  LET from == IF Changes = {} THEN 0 ELSE slots[Since].address - 2
      count[k \in 0 .. Len(slots)] ==
        IF k < Since THEN from ELSE count[k - 1] + CodeCount(slots[k].statement)
  IN count[Len(slots)]

\* The mnemonics in the order of their numbers, as far as entries go.
Numbered ==
  <<"NOP", "MOV", "PUSH", "POP", "PUSHSR", "POPSR", "LEA", "JMP", "JZ", "JNZ",
    "JFZ", "JNFZ", "JL", "JNL", "JUL", "JNUL">>

\* In a data segment: the address and what byte_index is set to on the way.  The
\* encoding is looked up under the number of the entry.
DataStep(w, slot) ==
  LET s == slot.statement
      At(a)   == [address |-> a, byte_index |-> w.byte_index]
      past(a) == a + 1 + Operands(s) + PageOf(s.op) - (IF OneByte(s.op) THEN 1 ELSE 0)
  IN CASE s.kind = "ADDRESS" -> At(s.value)
       [] s.kind \in {"LABEL", "SEGMENT_CODE", "SEGMENT_DATA"} -> w
       [] s.kind \in {"DW", "DEREF"} -> At(w.address + 2)
       [] s.kind = "DB" -> At(w.address + 1)
       [] OTHER -> [address |-> past(w.address), byte_index |-> past(w.address)]

DataLabel ==
  LET from == IF Changes = {} THEN 0
              ELSE slots[Since].address - 2 + (IF OneByte(Numbered[Since]) THEN 1 ELSE 0)
      walk[k \in 0 .. Len(slots)] ==
        IF k < Since THEN [address |-> from, byte_index |-> byte_index]
        ELSE DataStep(walk[k - 1], slots[k])
  IN walk[Len(slots)]

-----------------------------------------------------------------------------
(***************************************************************************)
(* assembler_parse_expression: one statement.                              *)
(***************************************************************************)
Stop(how) == phase' = how /\ UNCHANGED <<options, parseVars, emitVars>>

Read == length' = length + 1
Add(s, address) == slots' = Append(slots, Slot(s, address))

\* The code grew beyond its segment and that is an error.
Breach == byte_index > SEGMENT_CODE_END /\ "ERROR_ON_CODE_SEGMENT_BREACH" \in options

Label(s) ==
  LET value == IF mode = "CODE" THEN CodeLabel ELSE DataLabel.address
  IN IF Len(labels) + 1 >= MAX_LABELS THEN Stop("exit")
     ELSE /\ Add(s, 0) /\ Read
          /\ labels' = Append(labels, [name |-> s.name, value |-> value])
          /\ byte_index' = IF mode = "CODE" THEN byte_index ELSE DataLabel.byte_index
          /\ segments' = IF Changes = {} THEN segments
                         ELSE Append(segments, slots[Since].address)
          /\ UNCHANGED <<options, phase, mode, emitVars>>

SetAddress(s) ==
  /\ Add(s, s.value) /\ Read /\ byte_index' = s.value
  /\ UNCHANGED <<options, phase, mode, labels, segments, emitVars>>

Pad(s) ==
  /\ Add(s, s.value) /\ Read
  /\ UNCHANGED <<options, phase, mode, byte_index, labels, segments, emitVars>>

StoreOrRestore(s) ==
  /\ Add(s, 0) /\ Read
  /\ UNCHANGED <<options, phase, mode, byte_index, labels, segments, emitVars>>

\* In a data segment the number is signed.
Reserve(s) ==
  LET next == byte_index + (IF mode = "CODE" THEN s.value ELSE Signed(s.value))
  IN /\ Add(s, next) /\ Read /\ byte_index' = next
     /\ UNCHANGED <<options, phase, mode, labels, segments, emitVars>>

Segment(s) ==
  /\ Add(s, 0) /\ Read
  /\ mode' = IF s.kind = "SEGMENT_DATA" THEN "DATA" ELSE "CODE"
  /\ UNCHANGED <<options, phase, byte_index, labels, segments, emitVars>>

\* Met in a data segment, an instruction ends it.
Instruct(s) ==
  LET bytes == Operands(s) + (IF OneByte(s.op) THEN 1 ELSE 2)
  IN /\ Add(s, byte_index) /\ Read /\ byte_index' = byte_index + bytes
     /\ mode' = "CODE"
     /\ UNCHANGED <<options, phase, labels, segments, emitVars>>

Data(s) ==
  IF mode = "CODE" \/ (s.kind = "DB" /\ s.value >= BYTE_RANGE) THEN Stop("null")
  ELSE /\ Add(s, IF s.kind = "INCBIN" THEN byte_index ELSE 0) /\ Read
       /\ byte_index' = byte_index + (CASE s.kind = "DW" -> 2 [] s.kind = "DB" -> 1 [] OTHER -> 0)
       /\ UNCHANGED <<options, phase, mode, labels, segments, emitVars>>

\* One entry per character; the null character at the end is not among them.
Text(s) ==
  IF mode = "CODE" THEN Stop("null")
  ELSE /\ slots' = slots \o [i \in 1 .. s.value |-> Slot(Directive("DB", i), 0)]
       /\ Read /\ byte_index' = byte_index + s.value
       /\ UNCHANGED <<options, phase, mode, labels, segments, emitVars>>

Statement(s) ==
  CASE s.kind = "LABEL"       -> Label(s)
    [] s.kind = "ADDRESS"     -> SetAddress(s)
    [] s.kind = "PAD"         -> Pad(s)
    [] s.kind = "RESERVE"     -> Reserve(s)
    [] s.kind = "TEXT"        -> Text(s)
    [] s.kind = "INSTRUCTION" -> Instruct(s)
    [] s.kind \in {"STORE_ADDRESS", "RESTORE_ADDRESS"} -> StoreOrRestore(s)
    [] s.kind \in {"SEGMENT_CODE", "SEGMENT_DATA"}     -> Segment(s)
    [] s.kind \in {"DW", "DB", "DEREF", "INCBIN"}      -> Data(s)

Remaining == {Ending[i] : i \in DOMAIN Ending \cap {length - LENGTH + 1}}

Parse ==
  /\ phase = "parse" /\ Len(slots) < MAX_SLOTS
  /\ \E s \in IF length < LENGTH THEN Statements ELSE Remaining :
       IF Breach THEN Stop("null") ELSE Statement(s)

-----------------------------------------------------------------------------
(***************************************************************************)
(* assembler_resolve_labels: what stands in the arguments for a label.     *)
(***************************************************************************)
Definitions(name) == {i \in DOMAIN labels : labels[i].name = name}
Value(name)       == labels[Min(Definitions(name))].value

Relative(s, t) == s.op \in REL_JUMPS \cup {"RCALL"} /\ s.admx.kind = "IMM16" /\ t = s.src

\* The names that entry s looks up, and those that must be defined once.
Mentions(s) == ({s.dst.name, s.src.name} \ {""})
                 \cup (IF s.kind \in {"LABEL", "DEREF"} THEN {s.name} ELSE {})
Unique(s)   == (IF Relative(s, s.src) THEN {s.src.name} \ {""} ELSE {})
                 \cup (IF s.kind = "DEREF" THEN {s.name} ELSE {})

Resolvable ==
  \A i \in DOMAIN slots :
    LET s == slots[i].statement
    IN /\ \A name \in Mentions(s) : Definitions(name) # {}
       /\ \A name \in Unique(s) : Cardinality(Definitions(name)) = 1

\* The four bytes after the address are those of the jump without prefixes.
Target(slot, t) ==
  IF Relative(slot.statement, t)
  THEN Wrap(Value(t.name) - slot.address - (IF t.sum THEN 0 ELSE 4))
  ELSE Wrap(Value(t.name))

\* The argument's bytes; a label with a number is added byte by byte, and what
\* the low bytes carry does not fit into uint8_t and is lost.
ArgumentBytes(slot, mode_of, t) ==
  LET v    == IF t.name = "" THEN 0 ELSE Target(slot, t)
      word == <<(Low(t.imm) + Low(v)) % BYTE_RANGE, (High(t.imm) + High(v)) % BYTE_RANGE>>
  IN CASE mode_bytes(mode_of) = 0 -> <<>>
       [] mode_bytes(mode_of) = 2 -> word
       [] mode_bytes(mode_of) = 3 -> Append(word, t.scale)

Resolve ==
  /\ phase = "parse" /\ length >= LENGTH /\ Remaining = {}
  /\ phase' = IF Resolvable THEN "emit" ELSE "exit"
  /\ UNCHANGED <<options, parseVars, emitVars>>

-----------------------------------------------------------------------------
(***************************************************************************)
(* assembler_parse_instruction: one entry.                                 *)
(***************************************************************************)
OpcodeByte(p, m, no_cache) ==
  CHOOSE b \in BYTE : Opcode[p][b] = m /\ (b \in NoCache <=> no_cache)
ModeByte(s) ==
  CHOOSE b \in BYTE : AddressingMode[b] = [admr |-> s.admr, admx |-> s.admx]

\* Faulty: the arguments of the reduced operand come first.
InstructionBytes_Swapped(slot) ==
  LET s == slot.statement
      p == PageOf(s.op)
  IN [i \in 1 .. p |-> OpcodeByte(IF i = p THEN p ELSE 1, IF i = p THEN s.op ELSE "EXT", s.no_cache)]
       \o (IF OneByte(s.op) THEN <<>>
           ELSE <<ModeByte(s)>> \o ArgumentBytes(slot, s.admr, s.dst)
                  \o ArgumentBytes(slot, s.admx, s.src))

\* The prefixes, the opcode, the modes, the arguments of the extended operand
\* and those of the reduced one.
InstructionBytes(slot) ==
  LET s == slot.statement
      p == PageOf(s.op)
  IN [i \in 1 .. p |-> OpcodeByte(IF i = p THEN p ELSE 1, IF i = p THEN s.op ELSE "EXT", s.no_cache)]
       \o (IF OneByte(s.op) THEN <<>>
           ELSE <<ModeByte(s)>> \o ArgumentBytes(slot, s.admx, s.src)
                  \o ArgumentBytes(slot, s.admr, s.dst))

\* A file to include is value bytes.
Bytes(slot) ==
  LET s == slot.statement
  IN CASE s.kind = "INSTRUCTION" -> InstructionBytes(slot)
       [] s.kind = "DW"     -> <<Low(s.value), High(s.value)>>
       [] s.kind = "DB"     -> <<s.value>>
       [] s.kind = "DEREF"  -> <<Low(Wrap(Value(s.name))), High(Wrap(Value(s.name)))>>
       [] s.kind = "INCBIN" -> [i \in 1 .. s.value |-> i]

\* The image with v at address a.
Put(bin, a, v) == [x \in DOMAIN bin \cup {a} |-> IF x = a THEN v ELSE bin[x]]

\* Faulty: a byte that is 0 counts as not written.
SafeWrite_Zero(w, b) ==
  LET next    == [w EXCEPT !.index = Wrap(@ + 1)]
      written == [next EXCEPT !.image = Put(@, w.index, [byte |-> b, from |-> item])]
  IN IF w.index \in DOMAIN w.image /\ w.image[w.index].byte # 0
     THEN IF "ERROR_ON_OVERLAP" \in options THEN [next EXCEPT !.error = 1]
          ELSE IF "OVERWRITE_ON_OVERLAP" \in options THEN written ELSE next
     ELSE IF "PAD_SEGMENT_BREACH_WITH_ZERO" \in options /\ w.index > SEGMENT_CODE_END
          THEN [next EXCEPT !.error = 1]
          ELSE written

\* safe_write, and the increment of the index.
SafeWrite(w, b) ==
  LET next    == [w EXCEPT !.index = Wrap(@ + 1)]
      written == [next EXCEPT !.image = Put(@, w.index, [byte |-> b, from |-> item])]
  IN IF w.index \in DOMAIN w.image
     THEN IF "ERROR_ON_OVERLAP" \in options THEN [next EXCEPT !.error = 1]
          ELSE IF "OVERWRITE_ON_OVERLAP" \in options THEN written ELSE next
     ELSE IF "PAD_SEGMENT_BREACH_WITH_ZERO" \in options /\ w.index > SEGMENT_CODE_END
          THEN [next EXCEPT !.error = 1]
          ELSE written

Entry == slots[item].statement

Advance ==
  /\ phase = "emit" /\ item <= Len(slots) /\ item' = item + 1
  /\ place' = Append(place, index)

\* Faulty: the size is that of the last thing written.
Reach_Last(i) == index' = i /\ binary_size' = i

Reach(i) == index' = i /\ binary_size' = (IF i > binary_size THEN i ELSE binary_size)

IsPowerOf2(x) == x \in {2 ^ i : i \in 0 .. WIDTH - 1}

ChangeAddress ==
  /\ Advance /\ Entry.kind \in {"ADDRESS", "RESERVE"}
  /\ Reach(IF Entry.kind = "ADDRESS" THEN Wrap(Entry.value) ELSE Wrap(index + Entry.value))
  /\ UNCHANGED <<options, phase, parseVars, stashed_address, stash_calls, image, error>>

Padded(i, pad) == Wrap(((i - 1) \div pad) * pad + pad)

PadAddress ==
  /\ Advance /\ Entry.kind = "PAD" /\ IsPowerOf2(Entry.value)
  /\ Reach(Padded(index, Entry.value))
  /\ UNCHANGED <<options, phase, parseVars, stashed_address, stash_calls, image, error>>

StoreAddress ==
  /\ Advance /\ Entry.kind = "STORE_ADDRESS"
  /\ stashed_address' = index /\ stash_calls' = stash_calls + 1
  /\ error' = IF stash_calls + 1 > 1 THEN 1 ELSE error
  /\ Reach(index)
  /\ UNCHANGED <<options, phase, parseVars, image>>

RestoreAddress ==
  /\ Advance /\ Entry.kind = "RESTORE_ADDRESS"
  /\ stash_calls' = stash_calls - 1
  /\ Reach(stashed_address)
  /\ UNCHANGED <<options, phase, parseVars, stashed_address, image, error>>

\* Labels and segments write nothing, and neither does what lies outside the
\* code segment, unless that is to be padded.
Outside == index > SEGMENT_CODE_END /\ "PAD_SEGMENT_BREACH_WITH_ZERO" \notin options

Skip ==
  /\ Advance
  /\ \/ Entry.kind \in {"LABEL", "SEGMENT_CODE", "SEGMENT_DATA"} /\ UNCHANGED binary_size
     \/ /\ Entry.kind \in {"INSTRUCTION", "DW", "DB", "DEREF", "INCBIN"} /\ Outside
        /\ binary_size' = IF index > binary_size THEN index ELSE binary_size
  /\ UNCHANGED <<options, phase, parseVars, index, stashed_address, stash_calls, image, error>>

\* One byte after the other.
Written(bytes) ==
  LET w[n \in 0 .. Len(bytes)] ==
        IF n = 0 THEN [index |-> index, image |-> image, error |-> error]
        ELSE SafeWrite(w[n - 1], bytes[n])
  IN w[Len(bytes)]

\* A file that runs past the last address has had the index there.
Write ==
  /\ Advance /\ Entry.kind \in {"INSTRUCTION", "DW", "DB", "DEREF", "INCBIN"} /\ ~Outside
  /\ LET bytes == Bytes(slots[item])
         w     == Written(bytes)
     IN /\ IF Entry.kind = "INCBIN" /\ index + Len(bytes) >= ADDRESS_SPACE
           THEN index' = w.index /\ binary_size' = ADDRESS_SPACE - 1
           ELSE Reach(w.index)
        /\ image' = w.image /\ error' = w.error
  /\ UNCHANGED <<options, phase, parseVars, stashed_address, stash_calls>>

\* Padding to what is no power of 2 ends the assembler, and so does an error.
BadPad ==
  /\ phase = "emit" /\ item <= Len(slots) /\ Entry.kind = "PAD" /\ ~IsPowerOf2(Entry.value)
  /\ Stop("null")

Finish ==
  /\ phase = "emit" /\ item > Len(slots)
  /\ Stop(IF error = 1 /\ "ERROR_ON_OVERLAP" \in options THEN "null" ELSE "image")

-----------------------------------------------------------------------------
Init ==
  /\ options \in OptionSets /\ phase = "parse" /\ length = 0
  /\ slots = <<>> /\ mode = "CODE" /\ byte_index = 0 /\ labels = <<>> /\ segments = <<>>
  /\ item = 1 /\ index = 0 /\ stashed_address = 0 /\ stash_calls = 0
  /\ image = <<>> /\ binary_size = 0 /\ error = 0 /\ place = <<>>

Next ==
  \/ Parse \/ Resolve
  \/ ChangeAddress \/ PadAddress \/ StoreAddress \/ RestoreAddress \/ Skip \/ Write
  \/ BadPad \/ Finish

Spec == Init /\ [][Next]_asmVars
-----------------------------------------------------------------------------
Kind(i)    == slots[i].statement.kind
IsItem(i)  == Kind(i) \in {"INSTRUCTION", "DW", "DB", "DEREF", "INCBIN"}
Dropped(i) == IsItem(i) /\ place[i] > SEGMENT_CODE_END
Extent(i)  == {Wrap(place[i] + n) : n \in 0 .. Len(Bytes(slots[i])) - 1}
Whole(i)   == IsItem(i) /\ \A a \in Extent(i) : a \in DOMAIN image /\ image[a].from = i

\* The processor, with the image as its memory, at entry i.
Processor == INSTANCE Isa WITH Images <- {}, INT_CLOCK <- 0, arch <- index
Loaded(i) ==
  [mem |-> [a \in Address |-> IF a \in DOMAIN image THEN image[a].byte ELSE 0],
   pc |-> place[i]]

\* What is assembled is what the processor decodes: the mnemonic, the modes, the
\* length and the numbers that are its arguments, through prefixes and the
\* no-cache bit (assembler_parse_instruction against the fetch of cpu_clock).
AssembledIsDecoded ==
  phase = "image" =>
    \A i \in {i \in DOMAIN slots : Kind(i) = "INSTRUCTION" /\ Whole(i)} :
      LET s == slots[i].statement
          d == Processor!Instruction(Loaded(i))
      IN /\ d.m = s.op /\ d.next = Wrap(place[i] + Len(Bytes(slots[i])))
         /\ (d.no_cache # {}) = s.no_cache
         /\ ~OneByte(s.op) => d.admx = s.admx /\ d.admr = s.admr
         /\ s.src.name = "" /\ mode_bytes(s.admx) > 0 =>
              Processor!Word(Loaded(i), d.extended) = s.src.imm
         /\ s.dst.name = "" /\ mode_bytes(s.admr) > 0 =>
              Processor!Word(Loaded(i), d.reduced) = s.dst.imm

\* The segment that entry i is met in.
Marks(i)  == {j \in 1 .. i - 1 : Kind(j) \in {"SEGMENT_CODE", "SEGMENT_DATA", "INSTRUCTION"}}
InData(i) == Marks(i) # {} /\ Kind(Max(Marks(i))) = "SEGMENT_DATA"

\* byte_index is where entry i is written: since the last .address nothing was
\* met that it does not count.
Tracked(i) ==
  LET jumps == {j \in 1 .. i - 1 : Kind(j) = "ADDRESS"}
      from  == IF jumps = {} THEN 1 ELSE Max(jumps)
  IN \A j \in from .. i - 1 :
       /\ Kind(j) \notin {"PAD", "STORE_ADDRESS", "RESTORE_ADDRESS", "DEREF", "INCBIN"}
       /\ PageOf(slots[j].statement.op) = 1 /\ ~Dropped(j)
       /\ Kind(j) = "LABEL" => ~InData(j)

\* The value of label entry j is where it is written.
Exact(j) ==
  LET changes == {k \in 1 .. j - 1 : Kind(k) \in AddressChange}
      from    == IF changes = {} THEN 1 ELSE Max(changes)
  IN /\ changes = {} \/ Kind(from) = "ADDRESS"
       \/ (Kind(from) = "RESERVE" /\ Tracked(from) /\ ~InData(j))
     /\ \A k \in from .. j - 1 :
          /\ ~Dropped(k) /\ Kind(k) # "INCBIN"
          /\ ~InData(j) => /\ Kind(k) \notin {"DW", "DB", "DEREF"}
                           /\ Kind(k) = "INSTRUCTION" => slots[k].statement.op # "NOP"

\* The number that instruction i has for its label, and the address it means.
Meant(i) ==
  LET d == Processor!Instruction(Loaded(i))
      s == slots[i].statement
      w == Processor!Word(Loaded(i), IF s.src.name # "" THEN d.extended ELSE d.reduced)
  IN IF s.src.name # "" /\ Relative(s, s.src) THEN Wrap(d.next + w) ELSE w

\* Whole instructions with one operand that is a label, and the entry that
\* defines it.
Uses ==
  {i \in DOMAIN slots :
     LET s == slots[i].statement
     IN /\ Kind(i) = "INSTRUCTION" /\ Whole(i)
        /\ (s.src.name = "") # (s.dst.name = "") /\ ~s.src.sum /\ ~s.dst.sum}
Definition(i) ==
  LET s == slots[i].statement
  IN CHOOSE j \in DOMAIN slots :
       /\ Kind(j) = "LABEL" /\ slots[j].statement.name \in {s.src.name, s.dst.name}
       /\ \A k \in 1 .. j - 1 :
            Kind(k) = "LABEL" => slots[k].statement.name # slots[j].statement.name

\* A label in an operand is the address that what follows it was written to, and
\* a relative jump lands there: the bytes that the first pass counts are those
\* the last one writes (docs/assembly specs.txt, Labels), where it does count.
LabelsResolve ==
  phase = "image" =>
    \A i \in Uses :
      LET j == Definition(i) IN
      Exact(j) /\ (Relative(slots[i].statement, slots[i].statement.src) => Tracked(i) /\ PageOf(slots[i].statement.op) = 1)
        => Meant(i) = place[j]

\* Who has claimed address a.
Claimants(a) ==
  {i \in DOMAIN slots : /\ IsItem(i) /\ a \in Extent(i)
                        /\ "PAD_SEGMENT_BREACH_WITH_ZERO" \notin options => ~Dropped(i)}

\* Two items never share a byte unknown to the user: the image is refused, or one
\* rule decides everywhere, the first of them has the byte or the last one has
\* it, whatever stood there and however addresses are set (safe_write).
OverlapDecided ==
  phase = "image" =>
    /\ "ERROR_ON_OVERLAP" \in options =>
         \A a \in DOMAIN image : Cardinality(Claimants(a)) = 1
    /\ \/ \A a \in DOMAIN image : image[a].from = Min(Claimants(a))
       \/ \A a \in DOMAIN image : image[a].from = Max(Claimants(a))

\* As assembler.h:11 has it, AO_OVERWRITE_ON_OVERLAP is to "keep the old value. If
\* not set, it will keep the newest value".
OverwriteKeepsOld ==
  phase = "image" =>
    \A a \in DOMAIN image :
      image[a].from = IF "OVERWRITE_ON_OVERLAP" \in options THEN Min(Claimants(a))
                      ELSE Max(Claimants(a))

\* All that was written is in the file, whose size is binary_size, and with
\* padding none of it lies outside the code segment (assembler_parse_instruction).
ImageInFile ==
  \A a \in DOMAIN image :
    /\ a < binary_size
    /\ "PAD_SEGMENT_BREACH_WITH_ZERO" \in options => a <= SEGMENT_CODE_END
=============================================================================

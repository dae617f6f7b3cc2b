------------------------------ MODULE Encoding ------------------------------
(***************************************************************************)
(* How memory and the status register encode what the processor works on:  *)
(* words in two bytes, opcodes, addressing modes, flags and the fixed      *)
(* places of the stack and of the interrupt vectors.                       *)
(***************************************************************************)
EXTENDS MemoryMap, Instructions, Alu

CONSTANTS
  SEGMENT_STACK,      \* last address of the stack, 0x7EFF
  SEGMENT_IRQ_TABLE,  \* first interrupt vector, 0x7F00
  Opcode,             \* page by page, the mnemonic of every byte
  NoCache,            \* the bytes that carry the no-cache bit
  AddressingMode,     \* the two modes that a byte encodes
  SR_LAYOUT           \* the flags of the status register, low bit first

ASSUME EncodingAssumption ==
  /\ ADDRESS_SPACE = WORDS /\ WORDS = BYTE_RANGE * BYTE_RANGE
  /\ SEGMENT_STACK \in Address /\ SEGMENT_IRQ_TABLE \in Address
  /\ SEGMENT_STACK < SEGMENT_IRQ_TABLE
  /\ Opcode \in Seq([BYTE -> Mnemonic \cup {"ILLEGAL"}]) /\ Opcode # <<>>
  /\ NoCache \subseteq BYTE
  /\ AddressingMode \in [BYTE -> [admr : ADMR, admx : ADMX]]
  /\ Len(SR_LAYOUT) = WIDTH

Low(w)         == w % BYTE_RANGE
High(w)        == w \div BYTE_RANGE
WordOf(lo, hi) == lo + BYTE_RANGE * hi

Flag == {SR_LAYOUT[i] : i \in 1 .. WIDTH}

\* sr.value as a word: the flags that are set in w, and the word of a set.
SrFlags(w) == {SR_LAYOUT[i] : i \in {j \in 1 .. WIDTH : Bit(w, j - 1) = 1}}
SrValue(s) == CHOOSE w \in AWord : SrFlags(w) = s

\* The flags a program does not control.
InternalFlags == {"NC", "MNI"}

\* The register has the flags that the processor itself sets, and those of the
\* instructions there are.
ASSUME FlagAssumption ==
  /\ InternalFlags \cup {"AO"} \subseteq Flag
  /\ \A n \in 1 .. Len(Opcode) : \A b \in BYTE : FlagsAfter(Opcode[n][b], {}) \subseteq Flag

\* The mnemonic of byte b after n EXT prefixes.
Decoded(n, b) == IF n < Len(Opcode) THEN Opcode[n + 1][b] ELSE "ILLEGAL"

Vector(id) == Wrap(SEGMENT_IRQ_TABLE + 2 * id)
=============================================================================

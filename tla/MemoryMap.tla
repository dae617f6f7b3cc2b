----------------------------- MODULE MemoryMap -----------------------------
(***************************************************************************)
(* The 16-bit address space and the listening regions of the devices on    *)
(* the bus.  The code's numbers are the values of the constants: a model   *)
(* checked by TLC shrinks them, the theorems hold for every choice that    *)
(* keeps the order of the segments.                                        *)
(***************************************************************************)
EXTENDS Integers, Sequences

CONSTANTS
  ADDRESS_SPACE,        \* number of addresses, 2^16 in the code
  SEGMENT_CODE_END,     \* last RAM address, 0x7FFF
  SEGMENT_MEMORY_BANK,  \* first address of the bank window, 0x8000
  MMIO_BANK_WIDTH,      \* width of the bank window, 0x2000
  SEGMENT_MMIO,         \* first MMIO address, 0xF000
  LINE,                 \* bytes in the reply to a fetch, 8 (a uint64_t)
  BYTE_RANGE,           \* number of byte values, 2^8
  TICKER_ACTIVE         \* the ticker is mounted (system_create's argument)

SEGMENT_CODE == 0

\* The segments follow each other and the MMIO registers fit at the top.
ASSUME SegmentAssumption ==
  /\ ADDRESS_SPACE \in Nat /\ SEGMENT_CODE_END \in Nat
  /\ SEGMENT_MEMORY_BANK \in Nat /\ MMIO_BANK_WIDTH \in Nat \ {0}
  /\ SEGMENT_MMIO \in Nat
  /\ SEGMENT_CODE_END < SEGMENT_MEMORY_BANK
  /\ SEGMENT_MEMORY_BANK + MMIO_BANK_WIDTH <= SEGMENT_MMIO
  /\ SEGMENT_MMIO + 9 < ADDRESS_SPACE

ASSUME WordAssumption ==
  /\ LINE \in Nat \ {0}
  /\ BYTE_RANGE \in Nat /\ BYTE_RANGE > 1
  /\ TICKER_ACTIVE \in BOOLEAN

Address == 0 .. ADDRESS_SPACE - 1
BYTE    == 0 .. BYTE_RANGE - 1
Line    == [0 .. LINE - 1 -> BYTE]

\* A byte in the 64-bit data field: the bytes above it are zero.
ByteLine(b) == [i \in 0 .. LINE - 1 |-> IF i = 0 THEN b ELSE 0]

\* The MMIO registers.
MMIO_INPUT_REGISTER            == SEGMENT_MMIO + 2   \* terminal
MMIO_REGISTER_ADDRESS          == SEGMENT_MMIO + 4   \* bank index
MMIO_MODE_REGISTER_ADDRESS     == SEGMENT_MMIO + 6   \* file system ...
MMIO_MODIFIER_REGISTER_ADDRESS == SEGMENT_MMIO + 7
MMIO_INPUT_REGISTER_ADDRESS    == SEGMENT_MMIO + 8
MMIO_OUTPUT_REGISTER_ADDRESS   == SEGMENT_MMIO + 9

-----------------------------------------------------------------------------
\* The devices in the order they are added to the bus.
Slave  == {"RAM", "TERMINAL", "MEMORY_BANK", "FILESYSTEM"}
Device == Slave \cup {"CPU", "TICKER"}

BusOrder ==
  <<"CPU", "RAM", "TERMINAL", "MEMORY_BANK", "FILESYSTEM">>
    \o (IF TICKER_ACTIVE THEN <<"TICKER">> ELSE <<>>)

Position ==
  [d \in Device |-> CASE d = "CPU" -> 1        [] d = "RAM" -> 2
                      [] d = "TERMINAL" -> 3   [] d = "MEMORY_BANK" -> 4
                      [] d = "FILESYSTEM" -> 5 [] d = "TICKER" -> 6]

\* d accepts reads from address a (a listening region with LR_READ).
Reads(d, a) ==
  \/ d = "RAM" /\ a \in SEGMENT_CODE .. SEGMENT_CODE_END
  \/ /\ d = "MEMORY_BANK"
     /\ a \in SEGMENT_MEMORY_BANK .. SEGMENT_MEMORY_BANK + MMIO_BANK_WIDTH - 1
  \/ /\ d = "FILESYSTEM"
     /\ a \in {MMIO_MODE_REGISTER_ADDRESS, MMIO_MODIFIER_REGISTER_ADDRESS,
               MMIO_OUTPUT_REGISTER_ADDRESS}

\* d accepts writes to address a (a listening region with LR_WRITE).
Writes(d, a) ==
  \/ d = "RAM" /\ a \in SEGMENT_CODE .. SEGMENT_CODE_END
  \/ d = "TERMINAL" /\ a = MMIO_INPUT_REGISTER
  \/ /\ d = "MEMORY_BANK"
     /\ \/ a = MMIO_REGISTER_ADDRESS
        \/ a \in SEGMENT_MEMORY_BANK .. SEGMENT_MEMORY_BANK + MMIO_BANK_WIDTH - 1
  \/ /\ d = "FILESYSTEM"
     /\ a \in {MMIO_MODE_REGISTER_ADDRESS, MMIO_MODIFIER_REGISTER_ADDRESS,
               MMIO_INPUT_REGISTER_ADDRESS}

\* The device found for an access is the last one in bus order that listens.
ReadListener(d, a) ==
  /\ d \in Slave /\ Reads(d, a)
  /\ \A e \in Slave : Reads(e, a) => Position[e] <= Position[d]

WriteListener(d, a) ==
  /\ d \in Slave /\ Writes(d, a)
  /\ \A e \in Slave : Writes(e, a) => Position[e] <= Position[d]

\* Nobody answers: the open bus.
OpenRead(a)  == \A d \in Slave : ~Reads(d, a)
OpenWrite(a) == \A d \in Slave : ~Writes(d, a)
=============================================================================

------------------------------ MODULE MCSystem ------------------------------
(***************************************************************************)
(* Instances of System for TLC.  The segments are shrunk to a few          *)
(* addresses; each set of accesses concentrates on some of the devices.    *)
(***************************************************************************)
EXTENDS System

R(a)    == [op |-> "read", address |-> a, byte |-> 0]
W(a, b) == [op |-> "write", address |-> a, byte |-> b]

\* RAM, the bank window and its register, with the lines of the last RAM byte
\* and of the last byte of the window running over, and the address before the
\* MMIO registers, which has no listener.
MemoryAccesses ==
  {R(0), R(SEGMENT_CODE_END), R(SEGMENT_MEMORY_BANK + 1),
   W(SEGMENT_CODE_END, 1),
   W(SEGMENT_MEMORY_BANK, 1), W(SEGMENT_MEMORY_BANK + 1, 1),
   W(MMIO_REGISTER_ADDRESS, 0), W(MMIO_REGISTER_ADDRESS, 1),
   R(SEGMENT_MMIO), W(SEGMENT_MMIO, 1), W(MMIO_INPUT_REGISTER, 1)}

\* The file system's registers, and a read that no device answers.
FileSystemAccesses ==
  {R(SEGMENT_MMIO), R(MMIO_MODE_REGISTER_ADDRESS), R(MMIO_OUTPUT_REGISTER_ADDRESS),
   R(MMIO_MODIFIER_REGISTER_ADDRESS), W(MMIO_MODIFIER_REGISTER_ADDRESS, 1),
   W(MMIO_INPUT_REGISTER_ADDRESS, 1)}
  \cup {W(MMIO_MODE_REGISTER_ADDRESS, m) : m \in M_SET_PATH .. M_CREATE_FILE}

PushAccesses == {W(SEGMENT_CODE_END, 0)}
NoPushes     == {}

NoFiles  == {}
OneFile  == {<<1>>}
=============================================================================

SPECIFICATION MCSpec
CONSTANTS
  ADDRESS_SPACE = 256
  SEGMENT_CODE_END = 127
  SEGMENT_MEMORY_BANK = 128
  MMIO_BANK_WIDTH = 8
  SEGMENT_MMIO = 240
  LINE = 3
  BYTE_RANGE = 16
  TICKER_ACTIVE = TRUE
  INT_CLOCK = 1
  CAPACITY = 4
  WIDTH = 8
  FloatResult <- NoFloat
  FloatLess <- NeverLess
  SEGMENT_STACK = 111
  SEGMENT_IRQ_TABLE = 112
  Opcode <- Pages
  NoCache <- NoCache13
  AddressingMode <- Modes
  SR_LAYOUT <- Layout
  COUNT_RANGE = 4
  Images <- Programs
  MaxInterrupts = 2
INVARIANTS
  TypeOK
  CacheCoherent
  RestartIsClean
PROPERTIES
  ImplementsIsa
  ClockEnds
CHECK_DEADLOCK FALSE

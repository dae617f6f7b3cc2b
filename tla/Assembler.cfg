SPECIFICATION Spec
CONSTANTS
  ADDRESS_SPACE = 256
  SEGMENT_CODE_END = 127
  SEGMENT_MEMORY_BANK = 128
  MMIO_BANK_WIDTH = 8
  SEGMENT_MMIO = 240
  LINE = 3
  BYTE_RANGE = 16
  TICKER_ACTIVE = TRUE
  WIDTH = 8
  FloatResult <- NoFloat
  FloatLess <- NeverLess
  SEGMENT_STACK = 111
  SEGMENT_IRQ_TABLE = 112
  NoCache <- NoCacheBytes
  AddressingMode <- Modes
  SR_LAYOUT <- Layout
  Opcode <- AsmPages
  Ending <- SomeEnding
  MAX_LABELS = 256
  Statements <- SomeStatements
  LENGTH = 3
  OptionSets <- SomeOptions
INVARIANTS
  AssembledIsDecoded
  LabelsResolve
  OverlapDecided
  ImageInFile
CHECK_DEADLOCK FALSE

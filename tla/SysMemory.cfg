SPECIFICATION Spec
CONSTANTS
  ADDRESS_SPACE = 14
  SEGMENT_CODE_END = 1
  SEGMENT_MEMORY_BANK = 2
  MMIO_BANK_WIDTH = 2
  SEGMENT_MMIO = 4
  LINE = 2
  BYTE_RANGE = 2
  TICKER_ACTIVE = TRUE
  INT_CLOCK = 1
  NUM_BANKS = 2
  PATH_LIMIT = 2
  InitialFiles <- NoFiles
  Accesses <- MemoryAccesses
  Pushes <- PushAccesses
  MaxPrint = 1
  MaxAge = 2
INVARIANTS
  TypeOK
  OneRequest
  AccessMatchesRequest
  InterruptsBetween
  StoreReply
  AnsweredInTime
PROPERTIES
  RequestKept
  ImplementsPort

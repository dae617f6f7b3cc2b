SPECIFICATION Spec
CONSTANTS
  ADDRESS_SPACE = 14
  SEGMENT_CODE_END = 1
  SEGMENT_MEMORY_BANK = 2
  MMIO_BANK_WIDTH = 2
  SEGMENT_MMIO = 4
  LINE = 2
  BYTE_RANGE = 8
  TICKER_ACTIVE = TRUE
  INT_CLOCK = 1
  NUM_BANKS = 2
  PATH_LIMIT = 2
  InitialFiles <- OneFile
  Accesses <- FileSystemAccesses
  Pushes <- NoPushes
  MaxPrint = 1
  MaxAge = 2
INVARIANTS
  FilesLeftAlone

SPECIFICATION HookSpec
CONSTANTS
  CELLS = 3
  HookSet <- SmallHooks
  MaxHooks = 3
PROPERTIES
  ChangeSeen
CHECK_DEADLOCK FALSE

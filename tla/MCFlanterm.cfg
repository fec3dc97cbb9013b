SPECIFICATION Spec
CONSTANTS
  NULL = NULL
  PoolAddress = 0
  FLANTERM_MAX_ESC_VALUES = 5
  tab_size = 2
  Threads = {1, 2}
  Modes <- MCModes
  Texts <- MCTexts
  LogLines <- MCLogLines
  MaxCells = 12
  MaxCalls = 2
  MaxSwitches = 2
INVARIANTS
  
  MemorySound
  RolesKept
  LogLeavesDefaults
PROPERTIES
  ScreenShowsText
  TextMoves
CHECK_DEADLOCK FALSE

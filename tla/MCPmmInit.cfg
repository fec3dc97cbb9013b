SPECIFICATION PmmInitSpec
CONSTANTS
  PAGE_SIZE = 2
  Maps <- MCMaps
INVARIANTS
  LeavesUsable
CHECK_DEADLOCK FALSE

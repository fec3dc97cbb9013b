SPECIFICATION Spec
CONSTANTS
  NCPU = 1
  total_count = 4
  SLAB_MAG_OBJS = 2
  MaxSlabs = 2
  WithFree = TRUE
INVARIANTS
  ExclusiveUnlessShort
  ListsWellFormed
  FaultCauses
VIEW MCView
CHECK_DEADLOCK FALSE

SPECIFICATION Spec
CONSTANTS
  NCPU = 1
  total_count = 240
  SLAB_MAG_OBJS = 32
  MaxSlabs = 2
  WithFree = FALSE
INVARIANTS
  RefillsWithFreeObjects
CHECK_DEADLOCK FALSE

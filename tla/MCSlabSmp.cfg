SPECIFICATION Spec
CONSTANTS
  NCPU = 3
  total_count = 14
  SLAB_MAG_OBJS = 2
  MaxSlabs = 1
  WithFree = FALSE
INVARIANTS
  EveryObjectOnce
PROPERTIES
  IsObjectPool
  
CHECK_DEADLOCK FALSE

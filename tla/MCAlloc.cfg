SPECIFICATION Spec
CONSTANTS
  PAGE_SIZE = 64
  SLAB_PAGE_COUNT = 2
  NBINS = 2
  Sizes = {4, 5, 12, 61}
  MaxPages = 8
  MaxSlabs = 2
  MaxObjects = 3
  MaxBlocks = 3
INVARIANTS
  HeapSound
CHECK_DEADLOCK FALSE

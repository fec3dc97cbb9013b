SPECIFICATION Spec
CONSTANTS
  NBits = 21
  Usable <- MCUsable
  FirstFree = 1
  Radix = 2
  BootMap <- MCBootMap
  HeapBase = 8
  HeapLimit = 14
  MaxPages = 2
  MaxPagemaps = 1
INVARIANTS
  TypeOK
  RegionsDisjoint
  FramesExclusive
  FreeFindsEveryPage
  KernelHalfShared
PROPERTIES
  UsesPmm
  OperationsFinish
CHECK_DEADLOCK FALSE

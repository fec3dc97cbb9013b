SPECIFICATION Spec
CONSTANTS
  SMP_MAX_CPU_COUNT = 3
  NThreads = 3
  Steps = 2
INVARIANTS
  TypeOK
  ThreadsPlaced
  OneQueuePerThread
  ContextsKept
PROPERTIES
  RoundRobin
  ThreadsScheduled
CHECK_DEADLOCK FALSE

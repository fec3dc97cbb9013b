SPECIFICATION Spec
CONSTANTS
  SMP_MAX_CPU_COUNT = 3
  Rounds = 9
INVARIANTS
  StartInv
  OnlyTimersShared
PROPERTIES
  StartsUp
CHECK_DEADLOCK FALSE

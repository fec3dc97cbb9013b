SPECIFICATION VfsSpec
CONSTANTS
  Mounts = {"tmpfs", "m2", "m3"}
  Names = {"a", "d", "x"}
  Tree <- MCTree
  Dirs <- MCDirs
  MaxPath = 3
  MaxFinds = 2
INVARIANTS
  FindSound
  FindFaultCauses
PROPERTIES
  FindReturns
CHECK_DEADLOCK FALSE

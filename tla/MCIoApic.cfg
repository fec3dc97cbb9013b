SPECIFICATION Spec
CONSTANTS
  Tables = {"APIC", "FACP"}
  Entries <- MCEntries
  MaxEntries = 3
  VecSize = 2
  Pins = 4
  Irqs = {0, 1, 2}
INVARIANTS
  
  FaultCauses
PROPERTIES
  WalkEnds
CHECK_DEADLOCK FALSE

SPECIFICATION Spec
CONSTANTS
  NBits = 13
  Usable <- MCUsable
  FirstFree = 2
INVARIANTS
  TypeOK
  BitmapIsHeld
  HintBoundsHeld
PROPERTY LostForever
CHECK_DEADLOCK FALSE

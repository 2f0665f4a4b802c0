CONSTANTS
  Linked <- LinkedCircuits
  Bits = 2
  Values <- Tried
  None = "none"
SPECIFICATION Spec
CHECK_DEADLOCK FALSE
INVARIANTS OutputsKept

CONSTANTS
  Calls <- Calls3
  Width <- Widths
  Callers <- Constant
SPECIFICATION Spec
INVARIANTS MeaningKept

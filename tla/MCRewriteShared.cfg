CONSTANTS
  Input = {1, 2, 3}
  Output = {out}
  Gate = {11, 12, 13, 14, 15, 16, 17, 18}
  ONE_GATE = ONE_GATE
  ZERO_GATE = ZERO_GATE
  NULL = NULL
  InitialCircuits <- SharedTree
  CheckTimeout = FALSE
SPECIFICATION Spec
INVARIANTS FunctionPreserved

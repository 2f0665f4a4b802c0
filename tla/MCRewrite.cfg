CONSTANTS
  Input = {1, 2}
  Output = {out1, out2}
  Gate = {11, 12, 13, 14, 15, 16, 17, 18, 19, 20, 21}
  ONE_GATE = ONE_GATE
  ZERO_GATE = ZERO_GATE
  NULL = NULL
  InitialCircuits <- RewriteCircuits
  CheckTimeout = TRUE
SPECIFICATION Spec
INVARIANTS StateOK NoCycle FunctionPreserved CleanEnd
PROPERTIES Termination

CONSTANTS
  Input = {1, 2}
  Output = {out}
  Gate = {11, 12, 13, 14, 15, 16, 17, 18, 19, 20, 21}
  ONE_GATE = ONE_GATE
  ZERO_GATE = ZERO_GATE
  NULL = NULL
  InitialCircuits <- ImplicationGates
  CheckTimeout = FALSE
  CheckTimeouts = {FALSE}
  SimRounds = 1
SPECIFICATION LuckySpec
PROPERTIES MinimizerTermination

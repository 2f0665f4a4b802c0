CONSTANTS
  Input = {1, 2}
  Output = {out}
  Gate = {11, 12, 13, 14}
  ONE_GATE = ONE_GATE
  ZERO_GATE = ZERO_GATE
  NULL = NULL
  InitialCircuits <- SweepCircuits
  CheckTimeout = TRUE
  SimRounds = 1
SPECIFICATION SpecSweep
INVARIANTS Inv SameFunction Ranked
PROPERTIES CounterexamplesAreNew SweepTermination

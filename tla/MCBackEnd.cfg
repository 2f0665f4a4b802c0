CONSTANTS
  Name <- Names
  Circuit <- Compiled
  Main = "main"
  Site = {1, 2, 3, 4, 5}
  In <- Places
  Callees <- Acyclic
  None = None
  Element <- Elements
  FunctionCall = {1, 2}
  ParallelCircuits <- GraphCircuits
  NoCall = 0
  Infinity = 99
SPECIFICATION SpecBackEnd
INVARIANTS Complete LinkComplete MeaningKept CallsOK Ordered InputsListed DepthCovered ReadBack WiresRight NoInputConverted
PROPERTIES AllEnd

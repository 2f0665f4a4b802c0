CONSTANTS
  Address = {a1, a2, a3}
  Op = {"AND", "INPUT", "OUTPUT"}
  MaxWires = 3
  ONE_GATE = ONE_GATE
  ZERO_GATE = ZERO_GATE
  NULL = NULL
SPECIFICATION Spec
INVARIANTS Linkage NoWireToDeleted ListsIntact
PROPERTIES CallsReturn ImplementsWiring

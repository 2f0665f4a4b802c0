CONSTANTS
  CHAR_BIT = 2
  InTypes <- Inputs
  OutTypes <- Integers2
  MaxNode = 4
  NONE = NONE

SPECIFICATION SpecFrontEnd

INVARIANTS SameAsProgram ConvertedOnce LoweringIsRight

CONSTANTS
  Programs <- DoWhiles
SPECIFICATION Spec
CHECK_DEADLOCK FALSE
PROPERTIES Terminates

CONSTANTS
  WorldSize = 4
  Shapes <- MCShapes

SPECIFICATION Spec
INVARIANT GroupMatchesShape
CHECK_DEADLOCK FALSE

SPECIFICATION Spec
CONSTANTS
  SwapBuilt = FALSE
  Rows = 2
  MaxFrame = 2
INVARIANT TearFree

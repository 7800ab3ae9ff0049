SPECIFICATION Spec
CONSTANTS
  Labels <- MCLabels
  Used <- MCUsedLocal
  Step <- MCStep
  Limits <- MCLimits
  Full = 4
  MaxOwn <- MCMaxOwnLocal
  Modes = {"local"}
  MaxRefs = 2
  MaxStored = 1
CHECK_DEADLOCK FALSE
INVARIANTS Grounded
PROPERTIES LocalsSolved

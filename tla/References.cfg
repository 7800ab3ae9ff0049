SPECIFICATION Spec
CONSTANTS
  Labels <- MCLabels
  Used <- MCUsed
  Step <- MCStep
  Limits <- MCLimits
  Full = 4
  MaxOwn <- MCMaxOwn
  Modes = {"class"}
  MaxRefs = 1
  MaxStored = 2
CHECK_DEADLOCK FALSE
INVARIANTS TypeOK NoTwins NoPanic NoFalseNegative FilterLoad
PROPERTIES ExtendKeepsMeaning PlacesStable

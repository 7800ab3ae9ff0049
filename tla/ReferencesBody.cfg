SPECIFICATION Spec
CONSTANTS
  Labels <- MCLabels
  Used <- MCUsed
  Step <- MCStep
  Limits <- MCLimits
  Full = 4
  MaxOwn <- MCMaxOwnBody
  Modes = {"class"}
  MaxRefs = 1
  MaxStored = 1
CHECK_DEADLOCK FALSE
PROPERTIES BodyKeepsMeaning

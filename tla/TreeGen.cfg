SPECIFICATION FairSpec
CONSTANTS
  Java = Java
  Xml = Xml
  Error = Error
  SpacesKind = SpacesKind
  None = None
  Down = Down
  Up = Up
  Right = Right
  Byte <- MCByte
  Files <- MCFiles
  Untyped <- MCUntyped
  Spelling <- MCSpelling
  Formatted <- MCFormatted
  LineBreak <- MCLineBreak
  KindHash <- MCKindHash
  LabelHash <- MCLabelHash
  BlankHash <- MCBlankHash
  Word = 1024
  MaxFiles = 2
INVARIANTS TypeOK RoundTrip MetricsFaithful SameRootSameFile NoPanic
PROPERTY Terminates
CHECK_DEADLOCK FALSE

SPECIFICATION Spec
CONSTANTS
  Java = Java
  Xml = Xml
  Error = Error
  SpacesKind = SpacesKind
  None = None
  Down = Down
  Up = Up
  Right = Right
  Byte <- MCByte
  Files <- BlankFiles
  Untyped <- MCUntyped
  Spelling <- MCSpelling
  Formatted <- MCFormatted
  LineBreak <- MCLineBreak
  KindHash <- MCKindHash
  LabelHash <- MCLabelHash
  BlankHash <- MCBlankHash
  Word = 4096
  MaxFiles = 1
INVARIANT ReadsBack
CHECK_DEADLOCK FALSE

\* BufferSize 8: the header takes 4 bytes, a known tag 1, a custom tag 3, and the
\* last byte is never used: a custom tag and what follows it never both fit.
SPECIFICATION FairSpec
CONSTANTS
  Names <- MCNames
  NameLength <- MCNameLength
  Cut <- MCCut
  RawEnd <- MCRawEnd
  BufferSize = 8
  NameMax = 1
  CountMax = 7
  MaxDepth = 3
INVARIANTS TypeOK DepthAgrees BeliefsSound ChildrenAllowed SavingIsStable
PROPERTIES EndTagMatches EndTagCloses

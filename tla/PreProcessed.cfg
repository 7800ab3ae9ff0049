SPECIFICATION FairSpec
CONSTANTS
  None = None
  Much = Much
  Pom = Pom
  Pom2 = Pom2
  One = One
  Two = Two
  Mid = Mid
  Big = Big
  Text = Text
  Bytes = Bytes
  Trees <- MCTrees
  Sessions <- MCSessions
  IsJava <- MCIsJava
  Unreadable = {Bytes}
  Blobs = {Pom, Pom2, One, Two, Mid, Big, Text, Bytes}
  Symbols = {"a", "b", "s", "t", "u", "v"}
  AnaOf <- MCAnaOf
  Resolve <- MCResolve
  MuchRefs = 2
  MaxRefs = 4
INVARIANTS TypeOK SourcesComplete NamesAgree FiltersComplete OnlyNamesakesPanic
PROPERTY Finishes
CHECK_DEADLOCK FALSE

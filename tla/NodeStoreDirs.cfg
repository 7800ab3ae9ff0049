SPECIFICATION Spec
CONSTANTS
  Leaf = Leaf
  Inner = Inner
  Directory = Directory
  Length = Length
  Blank = Blank
  SpacesKind = SpacesKind
  None = None
  NodeKinds = {Leaf, Inner}
  DirKinds = {Directory}
  Labels = {Length}
  Blanks = {Blank}
  Hashes = {0, 1, 2, 3, 4, 5, 6, 7, 8}
  HashOf <- MCHashOf
  Tag <- MCTag
  InitialCapacity = 1
  MaxNodes = 3
  MaxChildren = 2
INVARIANT AllCompressed

SPECIFICATION FairSpec
CONSTANTS
  Trees <- MCTrees
  MaxMatches <- MCMaxMatches
  MaxUps = 2
INVARIANTS TypeOK PositionsRight AlwaysLinked ScopeCovered LimitHonoured
PROPERTY AllSearched
CHECK_DEADLOCK FALSE

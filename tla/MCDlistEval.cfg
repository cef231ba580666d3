SPECIFICATION FairSpec
CONSTANTS
  a = a
  b = b
  c = c
  NoItem = NoItem
  N = 3
  Token <- Tokens
  Graphs <- AllGraphs
INVARIANTS
  RunsAfterRequired
  RunsAfterUsed
  ReturnsTheRest
  WellFoundedListsFinish
  DependentsAreReachable
PROPERTIES
  Returns
CHECK_DEADLOCK FALSE

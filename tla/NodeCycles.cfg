SPECIFICATION MCSpec
CONSTANTS
  a = a
  Node = {a, b, c, d}
  Children <- ShortLists
  MaxChildren = 2
  MaxEdges = 4
  MaxDepth = 6
INVARIANTS
  NoCycleMissed
  AlarmsExplained
  OverflowOnlyOnLoop
PROPERTY
  SearchEnds
CHECK_DEADLOCK FALSE

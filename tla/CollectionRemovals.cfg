SPECIFICATION OneRemovedSpec
CONSTANTS
  EntityLimitCount = 1
  VersionModulus = 4
  MaxVersion = 1
  MaxSize = 3
  Bit29 = {FALSE}
  A = A
  B = B
  n1 = n1
  n2 = n2
  Static = {A}
  DataStatic = {A}
  StaticPairs = {}
  Components <- TagAndPairOfEntity
  ComLists <- TagAndPairOfEntityLists
  MaxNode = 4
  Names = {n1}
  NoName = NoName
  Vacant = Vacant
  PairCalls = {"static"}
  Removals = "any"
INVARIANTS
  FaultsExplained
  PairNamesKept
\* After a fault the program does nothing more.
CHECK_DEADLOCK FALSE

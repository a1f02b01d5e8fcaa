SPECIFICATION CollectionSpec
CONSTANTS
  EntityLimitCount = 9
  VersionModulus = 4
  MaxVersion = 0
  MaxSize = 1
  Bit29 = {FALSE}
  A = A
  B = B
  n1 = n1
  n2 = n2
  Static = {A, B}
  DataStatic = {}
  StaticPairs = {}
  Components <- TwoTags
  ComLists <- TwoTagLists
  MaxNode = 4
  Names = {}
  NoName = NoName
  Vacant = Vacant
  PairCalls = {}
  Removals = "any"
INVARIANT
  RemovedHasNoCommands

SPECIFICATION CollectionSpec
CONSTANTS
  EntityLimitCount = 9
  VersionModulus = 4
  MaxVersion = 0
  MaxSize = 2
  Bit29 = {FALSE}
  A = A
  B = B
  n1 = n1
  n2 = n2
  Static = {A}
  DataStatic = {}
  StaticPairs = {}
  Components <- TagAndPair
  ComLists <- TagAndPairLists
  MaxNode = 4
  Names = {n1}
  NoName = NoName
  Vacant = Vacant
  PairCalls = {"static"}
  Removals = "any"
PROPERTY
  RemovedIsNoComponent

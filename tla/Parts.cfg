SPECIFICATION PartsSpec
\* The program may stop calling.
CHECK_DEADLOCK FALSE
CONSTANTS
  EntityLimitCount = 2
  VersionModulus = 4
  MaxVersion = 2
  MaxSize = 5
  Bit29 = {FALSE, TRUE}
  Components = {c1, c2, c3}
  MaxNode = 9
  PerPage = 2
  MaxChunk = 7
  Value = {v1, v2}
  Junk = Junk
  ElementSize = 2
  MaxElements = 3
  MaxDocuments = 5
  MaxWrites = 1
  Content = {d1, d2}
  Nothing = Nothing
INVARIANTS
  FreeListSound
  NoSlotLost
  StaleHandleRejected
  EdgesExact
  NodesDistinct
  StoredUnlessShort
  DocumentsOwned
PROPERTIES
  FreshHandle
  ElementsKept
  LackIsFormerRoom
SYMMETRY Symmetry

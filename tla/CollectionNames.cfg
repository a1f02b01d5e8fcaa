SPECIFICATION MCSpec
CONSTANTS
  x = x
  y = y
  xy = xy
  z = z
  LayoutA = LayoutA
  LayoutName <- MCLayoutName
  NoLayoutName = NoLayoutName
  Address <- MCAddress
  NullLayout = NullLayout
  MaxLayouts = 4
  ComponentName <- MCComponentName
  FirstId = 2
  MaxComponent = 3
  NoAddress = NoAddress
  PairName <- MCPairName
  CollectionName <- MCCollectionName
  p1 = p1
  p2 = p2
  c1 = c1
  c2 = c2
  EntityIndex = {0, 1}
  MaxCollections = 2
  NoCollection = NoCollection
INVARIANTS
  RegistryTypeOK
  NameLeadsToBearer
  FoundByName
  ComponentLayoutsLive
  CollectionNamesSound
  EntityFoundByName
  PairsWhole
SYMMETRY Symmetry

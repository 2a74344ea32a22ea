SPECIFICATION Spec
CONSTANTS
  Path <- MCSmallPath
  Leaf <- MCSmallLeaf
  Session = {s1, s2}
  Prefixes <- MCRootOnly
  Markers <- MCNoMarker
  PageSizes = {2}
  DirTtl = 2
  MaxDirEntries = 1
  MaxChanges = 1
  NoMarker = NoMarker
  NoEntry = NoEntry
PROPERTIES
  ListingsConverge

SPECIFICATION Spec
CONSTANTS
  Path <- MCPath
  Leaf <- MCLeaf
  Session = {s1}
  Prefixes <- MCPrefixes
  Markers <- MCMarkers
  PageSizes = {0, 1, 2}
  DirTtl = 0
  MaxDirEntries = 2
  MaxChanges = 1
  NoMarker = NoMarker
  NoEntry = NoEntry
INVARIANTS
  KeysAscend
  NothingLost
  NothingInvented
PROPERTIES
  SessionEnds

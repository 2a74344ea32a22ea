SPECIFICATION Spec
CONSTANTS
  FileKeys <- MCFileKeys
  DirKeys <- MCDirKeys
  MaxEntries = 4
  Prefixes <- MCPrefixes
  Delimiters <- MCDelimiters
  Markers <- MCMarkers
  PageSizes = {0, 1, 2}
  NoMarker = NoMarker
INVARIANTS
  ComparisonsExact
  PruningIsExact
  SlashAgrees
  PagesPartitionTheListing
PROPERTIES
  PagingEnds
CHECK_DEADLOCK FALSE

SPECIFICATION Spec
CONSTANTS
  Req = {r1, r2}
  Lengths = {0, 1}
  Mtimes = {1}
  MaxVersion = 2
  MaxChunk = 1
  MetadataTtl = 2
  NegativeTtl = 1
  BlocksTtl = 1
  DistinctIdentity = TRUE
  NoEntry = NoEntry
INVARIANTS
  TypeOK
  BodyNotOlderThanETag
  WindowInsideFile
  CompleteBodyIsExact
  ErroredMapDropped
PROPERTIES
  StalenessEnds

SPECIFICATION ClientSpec
CONSTANTS
  Req = {r1, r2}
  Client = r1
  Lengths = {1}
  Mtimes = {2, 3}
  PerSecond = 2
  MaxVersion = 2
  MaxChunk = 1
  MetadataTtl = 1
  NegativeTtl = 1
  BlocksTtl = 1
  DistinctIdentity = FALSE
  NoEntry = NoEntry
  NoCopy = NoCopy
INVARIANTS
  EchoedValidatorsPass
CHECK_DEADLOCK FALSE

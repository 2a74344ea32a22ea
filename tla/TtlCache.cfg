SPECIFICATION Spec
CONSTANTS
  Key = {k1, k2, k3}
  Value = {v1, v2}
  Weight = {0, 1, 2, 4}
  Capacity = 2
  MaxWeight = 3
  Ttl = 2
  NoEntry = NoEntry
INVARIANTS
  TypeOK
  ListMatchesMap
  WeightExact
  InsertKeepsItsEntry
PROPERTIES
  EvictsOldestFirst
  EachKeyIsASlot
  InsertReturns

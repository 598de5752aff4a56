SPECIFICATION Spec
CONSTANTS
  Id = {"i1", "i2", "i3", "i4", "i5", "i9"}
  Doi = {"a", "b", "c", "d", "x", "y", "z"}
  Isil = {"DE-14", "DE-15"}
  IdMap <- MCIdMap
  OciMap <- MCOciMap
  Backends <- MCBackends
  NoField = NoField
  IllTyped = IllTyped
  NotJson = NotJson
  FaultyBackends = {1}
  NoDoi = NoDoi
  NoIsil = NoIsil
  Conn = {c1, c2}
  BadIsil = BadIsil
  DbFaults = TRUE
  CacheFaults = TRUE
  NoRow = NoRow
  CacheEnabled = TRUE
  MaxFileSize = 0
  BatchSize = 2
  PoolSize = 1
  Requests <- AllRequests
SYMMETRY Symmetry
INVARIANTS TypeOK CacheSound NothingDropsOut ReadOnlyOnlyOverLimit
PROPERTIES ServiceRefinement ReadOnlyIsFinal

SPECIFICATION Spec
CONSTANTS
  Id = {"i1", "i2", "i3", "i4", "i5", "i9"}
  Doi = {"a", "b", "c", "d", "x", "y", "z"}
  Isil = {"DE-14", "DE-15"}
  IdMap <- MCIdMap
  OciMap <- MCOciMap
  Backends <- FieldlessBlob
  NoField = NoField
  IllTyped = IllTyped
  NotJson = NotJson
  FaultyBackends = {}
  NoDoi = NoDoi
  NoIsil = NoIsil
  Conn = {c1}
  BadIsil = BadIsil
  DbFaults = FALSE
  CacheFaults = FALSE
  NoRow = NoRow
  CacheEnabled = TRUE
  MaxFileSize = 1
  BatchSize = 2
  PoolSize = 1
  Requests <- TroubledRequests
INVARIANT FilterByIndexData

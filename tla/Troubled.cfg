SPECIFICATION FairSpec
CONSTANTS
  Id = {"i1", "i2", "i3", "i4"}
  Doi = {"a", "b", "c", "d"}
  Isil = {"DE-14", "DE-15"}
  IdMap <- ChainIdMap
  OciMap <- ChainOciMap
  Backends <- TroubledBlobs
  NoField = NoField
  IllTyped = IllTyped
  NotJson = NotJson
  FaultyBackends = {1}
  NoDoi = NoDoi
  NoIsil = NoIsil
  Conn = {c1, c2}
  BadIsil = BadIsil
  DbFaults = FALSE
  CacheFaults = FALSE
  NoRow = NoRow
  CacheEnabled = TRUE
  MaxFileSize = 1
  BatchSize = 2
  PoolSize = 0
  Requests <- TroubledRequests
INVARIANT CacheSound
PROPERTIES ServiceRefinement Answered LimitEnforced

SPECIFICATION Spec
CONSTANTS
  Source = {"main", "slub-production", "ai"}
  Docs <- MCDocsWithList
  DocId = {"m1", "m2", "m3", "s1", "s2", "a1", "a2", "a3"}
  Doi = {"a", "b"}
  Match = {"a.", "a", "b"}
  PostProcess <- MCPostProcess
  NoMatch = NoMatch
  IgnoredKey = {"barcode_de105"}
  Order <- MCOrder
  MinRows = 1
  None = None
  Line <- MCLine
  BufferSize = 2
  PipeSize = 1
  Index = {"idx_k", "idx_v"}
  MaxFaults = 0
INVARIANT ListsAreSearched
CHECK_DEADLOCK FALSE

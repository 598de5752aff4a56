SPECIFICATION Spec
CONSTANTS
  Task = {"SolrFetchDocs-ai-short", "SolrFetchDocs-main", "IdMappingTable",
          "IndexMappedDOI", "StatsReportData", "IdMappingDatabase"}
  Daily <- MCDaily
  Requires <- MCRequires
  Linked <- MCLinked
  Lenient <- MCLenient
  Keep <- MCKeep
  Job = {"nightly", "stats"}
  Cleaner = {"nightly"}
  Roots <- MCRoots
  None = None
  MaxDay = 0
  MaxDump = 0
  MaxFaults = 1
INVARIANT BuiltFromAll
PROPERTY KeepsPromise

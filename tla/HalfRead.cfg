SPECIFICATION Spec
CONSTANTS
  Task = {"SolrFetchDocs-main", "IdMappingTable", "IndexMappedDOI",
          "OpenCitationsUniqueDOI", "StatsCommonDOI", "StatsReportData"}
  Daily <- MCDaily
  Requires <- MCRequires
  Linked <- MCLinked
  Lenient <- MCLenient
  Keep <- MCKeep
  Job = {"nightly", "stats"}
  Cleaner = {"nightly"}
  Roots <- MCRoots
  None = None
  MaxDay = 0
  MaxDump = 0
  MaxFaults = 0
INVARIANT BuiltFromAll

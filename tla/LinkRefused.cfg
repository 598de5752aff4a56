SPECIFICATION Spec
CONSTANTS
  Task = {"SolrFetchDocs-ai-short", "SolrDatabase-ai-short", "IdMappingTableForInstitution",
          "IndexMappedDOIForInstitution", "StatsReportData"}
  Daily <- MCDaily
  Requires <- MCRequires
  Linked <- MCLinked
  Lenient <- MCLenient
  Keep <- MCKeep
  Job = {"nightly", "stats"}
  Cleaner = {"nightly"}
  Roots <- MCRoots
  None = None
  MaxDay = 1
  MaxDump = 0
  MaxFaults = 0
PROPERTY OverwritesLinks

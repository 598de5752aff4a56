SPECIFICATION FairSpec
CONSTANTS
  Task = {"SolrFetchDocs-ai-short", "SolrDatabase-ai-short", "OpenCitationsDownload",
          "OpenCitationsSingleFile", "OpenCitationsDatabase"}
  Daily <- MCDaily
  Requires <- MCRequires
  Linked <- MCLinked
  Lenient <- MCLenient
  Keep <- MCKeep
  Job = {"nightly"}
  Cleaner = {"nightly"}
  Roots <- MCRoots
  None = None
  MaxDay = 1
  MaxDump = 1
  MaxFaults = 2
INVARIANTS TypeOK CurrentExists NameTellsContent DoneIsCurrent
PROPERTIES RemovesOnlyOutdated KeepsPromise Recovers

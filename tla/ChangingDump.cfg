SPECIFICATION Spec
CONSTANTS
  Task = {"OpenCitationsDownload", "OpenCitationsSingleFile", "OpenCitationsDatabase",
          "OpenCitationsCitedCountTable", "OpenCitationsCitedCountDatabase"}
  Daily <- MCDaily
  Requires <- MCRequires
  Linked <- MCLinked
  Lenient <- MCLenient
  Keep <- MCKeep
  Job = {"nightly"}
  Cleaner = {"nightly"}
  Roots <- MCRoots
  None = None
  MaxDay = 0
  MaxDump = 1
  MaxFaults = 0
INVARIANT NameTellsContent

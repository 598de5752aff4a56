SPECIFICATION FairSpec
CONSTANTS
  Db = {"IdMappingDatabase", "OpenCitationsDatabase"}
  Version = {0, 1}
  Queries <- MCQueries
  Conn = {"c1"}
  Built = Built
  Absent = Absent
  None = None
  StartLimit = 2
  MaxFaults = 1
INVARIANTS TypeOK NoAnswerFromBefore
PROPERTIES ServedIsCurrent Available DataIsEphemeral

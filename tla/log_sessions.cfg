SPECIFICATION FairSpec
CONSTANTS
  Clients = {c1, c2}
  Teams = {{c1}, {c1, c2}}
  MaxSessions = 2
  Kinds = {"status", "current"}
  MaxVolt = 2
  Modes = {"cv", "cc"}
  Threshold = 2
  Contention = {TRUE, FALSE}
INVARIANTS TypeOK StopEndsLogging RowsBelong FileTracks
PROPERTY ClientsReturn
CHECK_DEADLOCK FALSE

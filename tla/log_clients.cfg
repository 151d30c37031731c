SPECIFICATION Spec
CONSTANTS
  Clients = {c1, c2}
  Teams = {{c1}, {c1, c2}}
  MaxSessions = 2
  Kinds = {"status", "current"}
  MaxVolt = 0
  Modes = {"cv"}
  Threshold = 1
  Contention = {TRUE, FALSE}
CHECK_DEADLOCK FALSE
INVARIANT ClientsAreSafe

SPECIFICATION Spec
CONSTANTS
  Masters = {m1, m2}
  LastReg = 1
  Word = 2
  Calls <- ReadsOnly
  Retries = 2
  Late = FALSE
  MaxCalls = 2
PROPERTY OkMeansDone
CHECK_DEADLOCK FALSE

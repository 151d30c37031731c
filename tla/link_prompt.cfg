SPECIFICATION FairSpec
CONSTANTS
  Masters = {m1}
  LastReg = 1
  Word = 2
  Calls <- AllCalls
  Retries = 2
  Late = FALSE
  MaxCalls = 3
INVARIANTS TypeOK OnlyThisCall
PROPERTIES OkMeansDone CallsReturn ImplementsBank
CHECK_DEADLOCK FALSE

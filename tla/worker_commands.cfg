SPECIFICATION FairSpec
CONSTANTS
  t1 = t1
  t2 = t2
  Threads = {t1, t2}
  Free = Free
  Menu <- CommandMenu
  Samples = 1
  MaxErrs = 0
  MaxCalls = 2
  MaxOpens = 2
  MaxFaults = 1
INVARIANTS LockIsReleased StatusShowsSetting
PROPERTY CommandsReturn
CHECK_DEADLOCK FALSE

SPECIFICATION Spec
CONSTANTS
  t1 = t1
  t2 = t2
  Threads = {t1, t2}
  Free = Free
  Menu <- StopMenu
  Samples = 1
  MaxErrs = 0
  MaxCalls = 2
  MaxOpens = 1
  MaxFaults = 0
PROPERTY OffStaysOff
CHECK_DEADLOCK FALSE

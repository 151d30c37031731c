SPECIFICATION Spec
CONSTANTS
  t1 = t1
  t2 = t2
  Threads = {t1}
  Free = Free
  Menu <- MeasureMenu
  Samples = 1
  MaxErrs = 0
  MaxCalls = 2
  MaxOpens = 1
  MaxFaults = 1
INVARIANT MeasurementsLeaveOff
CHECK_DEADLOCK FALSE

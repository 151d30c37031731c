SPECIFICATION Spec
CONSTANTS
  t1 = t1
  t2 = t2
  Threads = {t1, t2}
  Free = Free
  Menu <- ProcedureMenu
  Samples = 2
  MaxErrs = 1
  MaxCalls = 2
  MaxOpens = 2
  MaxFaults = 2
INVARIANTS TypeOK OneAtATime ConnectedInside
  ReturnedProceduresLeaveOff FailedWaveformLeavesOff DiffScanRestores
PROPERTY SectionsApart
CHECK_DEADLOCK FALSE

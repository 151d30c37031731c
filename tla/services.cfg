SPECIFICATION FairSpec
CONSTANTS
  Psus <- TwoPsus
  Commands <- TwoSlots
  MaxStarts = 2
INVARIANTS AllOffReplyMeansOff CleanStop
INVARIANTS ApprovedFirst AllOffReturnMeansOff LogsStoppable
PROPERTIES StartServes ShutdownEnds
CHECK_DEADLOCK FALSE

SPECIFICATION FairSpec
CONSTANTS
  MaxMessages = 1
  MaxSignals = 1
PROPERTY TermEndsProcess
CHECK_DEADLOCK FALSE

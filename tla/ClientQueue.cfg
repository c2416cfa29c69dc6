SPECIFICATION FairSpec
CONSTANTS
  MaxMessages = 3
  MaxSignals = 2
INVARIANT TypeOK
 
INVARIANT PopsNonEmpty
INVARIANT MutexHeld
 
PROPERTY MessageHandled
PROPERTY JoinEndsWithTraffic
CHECK_DEADLOCK FALSE

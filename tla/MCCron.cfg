SPECIFICATION FairSpec
CONSTANTS
  Orders <- MCOrders
  Step = 1
  Width = 4
  MaxOrders = 4
INVARIANT TypeOK
INVARIANT TwoItemsSafe
INVARIANT NothingLeaks
PROPERTY BreaksByLostLink
PROPERTY ImplementsSchedule
PROPERTY JobsFire
CHECK_DEADLOCK FALSE

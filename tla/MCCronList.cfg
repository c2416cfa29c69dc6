SPECIFICATION Spec
CONSTANTS
  Orders <- MCOrders
  Step = 1
  Width = 4
  MaxOrders = 4
INVARIANT Intact
CHECK_DEADLOCK FALSE

SPECIFICATION Spec
CONSTANTS
  c1 = c1
  c2 = c2
  c3 = c3
  empty = empty
  motor = motor
  Clients = {c1, c2}
  Ids <- OneId
  EmptyId = empty
  Filters <- StarFilters
  NoFilter = ""
  Accepts <- StarAccepts
  Signals <- NoSignals
  ShortReads = TRUE
  Room = 2
  Backlog = 2
  MaxSends = 1
INVARIANT TypeOK
INVARIANT Registered
INVARIANT ExactDelivery
CHECK_DEADLOCK FALSE
SYMMETRY Symmetry

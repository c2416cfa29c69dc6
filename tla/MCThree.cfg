SPECIFICATION Spec
CONSTANTS
  c1 = c1
  c2 = c2
  c3 = c3
  empty = empty
  motor = motor
  Clients = {c1, c2, c3}
  Ids <- OneId
  EmptyId = empty
  Filters <- StarFilters
  NoFilter = ""
  Accepts <- StarAccepts
  Signals <- NoSignals
  ShortReads = FALSE
  Room = 1
  Backlog = 1
  MaxSends = 1
PROPERTY RemovesOnlyDeparted
PROPERTY ImplementsBus
CHECK_DEADLOCK FALSE
SYMMETRY Symmetry

SPECIFICATION Spec
CONSTANTS
  c1 = c1
  c2 = c2
  c3 = c3
  empty = empty
  motor = motor
  Clients = {c1, c2}
  Ids <- MCIds
  EmptyId = empty
  Filters <- AllFilters
  NoFilter = ""
  Accepts <- AllAccepts
  Signals <- NoSignals
  ShortReads = FALSE
  Room = 2
  Backlog = 2
  MaxSends = 2
INVARIANT SenderOrder
INVARIANT EndsByDeparture
CHECK_DEADLOCK FALSE
SYMMETRY Symmetry

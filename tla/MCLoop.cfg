SPECIFICATION Spec
CONSTANTS
  c1 = c1
  c2 = c2
  c3 = c3
  empty = empty
  motor = motor
  Clients = {c1, c2}
  Ids <- MCIds
  EmptyId = empty
  Filters <- AllFilters
  NoFilter = ""
  Accepts <- AllAccepts
  Signals <- TermSignal
  ShortReads = FALSE
  Room = 1
  Backlog = 2
  MaxSends = 1
INVARIANT InfiniteMainLoop
CHECK_DEADLOCK FALSE

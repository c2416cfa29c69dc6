SPECIFICATION LuaSpec
CONSTANTS
  Filters <- MCFilters
  MessageIds = {"button", "sensor"}
  DbKeys = {"action", "direction"}
  DbValues = {"idle", "left"}
  NoData = "none"
  FdLimit = 3
  StackRoom = 1
  MaxLuaMessages = 2
  MaxCommands = 3
  MaxCrashes = 0
INVARIANT RetrievesWhatWasPersisted
CHECK_DEADLOCK FALSE

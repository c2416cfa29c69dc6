SPECIFICATION FairSpec
CONSTANTS
  Letters = {"a", "b"}
  MaxSubject = 3
  MaxPattern = 4
  NumPins = 2
  Inhibitions <- MCInhibitions
  Half = 2
  PinOrders <- MCPinOrders
  MaxPinOrders = 4
  CanIds = {1}
  Address = 99
  MaxConfigured = 2
  MaxCanOrders = 3
  MaxFrames = 1
  Rates = {300, 19200}
  TtyLines <- MCTtyLines
  TtyOrders <- MCTtyOrders
  MaxLines = 3
  MaxTtyOrders = 2
  SpeechOrders <- MCSpeechOrders
  Voices = {"en"}
  DefaultVoice = "default"
  MaxSpeechOrders = 3
  SocketRoom = 2
  MaxSphinxOrders = 4
  MaxSphinxTexts = 3
  Filters <- MCFilters
  MessageIds = {"button", "sensor"}
  DbKeys = {"action", "direction"}
  DbValues = {"idle", "left"}
  NoData = "none"
  FdLimit = 1
  StackRoom = 1
  MaxLuaMessages = 2
  MaxCommands = 3
  MaxCrashes = 1
  QueueRoom = 2
  MaxPuts = 2
  MaxPublished = 2
  MaxLinesTyped = 3
  MaxCliMessages = 2
  Processes = {1, 2}
  Together <- MCTogether
  ConfigFiles <- MCConfigFiles
  MaxStarts = 3
 
INVARIANT MatchIsExact
INVARIANT InhibitionCounts
INVARIANT AnswersGrow
 
INVARIANT TextsKeepOldEnds
INVARIANT OnlyTheLastTextIsCut
INVARIANT OneTextTooMany
PROPERTY SphinxStopsTheServer
 
 
INVARIANT PublishedOnce
INVARIANT ForwardedInOrder
PROPERTY PutsArePublished
 
INVARIANT OneCanBeStopped
 
INVARIANT OrderlyEnds
CHECK_DEADLOCK FALSE

SPECIFICATION Spec
CONSTANTS
  App = {"dpset", "OFPHandler", "monitor"}
  AppOrder <- MCAppOrder
  Source = "OFPHandler"
  Class = {"state", "message"}
  Handles <- MCHandles
  Publisher = {"recv1"}
  Blocks = {"OFPHandler"}
  MaxEvents = 2
INVARIANTS DeliveredToAll
PROPERTIES QueuedIsHandled ShutdownEnds
CHECK_DEADLOCK FALSE

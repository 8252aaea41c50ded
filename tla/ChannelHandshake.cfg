SPECIFICATION Spec
CONSTANTS
  Port = {1}
  DpId = {"d1"}
  Sends = {"Hello", "Features", "PortDesc", "PortStatus"}
  Observed = {"PortStatus"}
  MaxUnreplied = 0
  MaxEcho = 0
  ExternalClose = TRUE
  Rogue = FALSE
  MultiPart = FALSE
  MaxIn = 5
  MaxBatch = 2
INVARIANTS TypeOK StampFitsReply NewsInOrder PortsMirror EndsDead ClosedAfterWriter
CHECK_DEADLOCK FALSE

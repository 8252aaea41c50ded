SPECIFICATION Spec
CONSTANTS
  Port = {}
  DpId = {"d1"}
  Sends = {"Hello", "BadHello", "BadVersion", "EchoRequest"}
  Observed = {"PortStatus"}
  MaxUnreplied = 1
  MaxEcho = 2
  ExternalClose = FALSE
  Rogue = TRUE
  MultiPart = FALSE
  MaxIn = 1
  MaxBatch = 1
INVARIANT HelloFirst
PROPERTIES EndOfServe QueuedIsSent Teardown
CHECK_DEADLOCK FALSE

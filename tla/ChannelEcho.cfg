SPECIFICATION Spec
CONSTANTS
  Port = {1}
  DpId = {"d1"}
  Sends = {"Hello", "Features", "PortDesc"}
  Observed = {"PortStatus"}
  MaxUnreplied = 1
  MaxEcho = 2
  ExternalClose = FALSE
  Rogue = FALSE
  MultiPart = FALSE
  MaxIn = 3
  MaxBatch = 1
INVARIANT EndsDead
CHECK_DEADLOCK FALSE

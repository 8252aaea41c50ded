SPECIFICATION Spec
CONSTANTS
  c1 = c1
  c2 = c2
  d1 = d1
  Conn = {c1, c2}
  DpId = {d1}
  Port = {1, 2}
  None = None
  MaxChanges = 2
  dpid <- MCDpid
INVARIANTS RegistryCurrent EntersAndLeaves ViewMatches PortsConverge
PROPERTIES ImplementsRegistry DeadIsForgotten
CHECK_DEADLOCK FALSE

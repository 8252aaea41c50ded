SPECIFICATION Spec
CONSTANTS
  c1 = c1
  c2 = c2
  d1 = d1
  Conn = {c1}
  DpId = {d1}
  Port = {1}
  None = None
  MaxChanges = 1
  dpid <- MCDpid
INVARIANT EnterThenLeave
CHECK_DEADLOCK FALSE

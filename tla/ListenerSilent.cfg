SPECIFICATION Spec
CONSTANTS
  Client = {"s1", "s2"}
  Silent = {"s1"}
  Fault = {}
  UseSsl = TRUE
  MaxStarts = 1
PROPERTY StopReturns
CHECK_DEADLOCK FALSE

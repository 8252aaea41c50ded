SPECIFICATION Spec
CONSTANTS
  Client = {"s1", "s2"}
  Silent = {}
  Fault = {"bind", "cert", "accept"}
  UseSsl = TRUE
  MaxStarts = 2
INVARIANTS StoppedIsQuiet AcceptedIsInHand
PROPERTIES StopReturns EachServed
CHECK_DEADLOCK FALSE

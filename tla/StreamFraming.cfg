SPECIFICATION Spec
CONSTANTS
  Byte = {0, 1, 2, 3}
  HDR = 2
  MaxRead = 3
  MaxBytes = 6
INVARIANTS TypeOK SameMessages BufferIsRest
PROPERTY ParseReturns
CHECK_DEADLOCK FALSE

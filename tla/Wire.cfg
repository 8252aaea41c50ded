SPECIFICATION Spec
CONSTANTS
  Message <- MCMessage
  MaxDepth = 6
  Settable <- MCSettable
INVARIANTS RoundTrip LengthsNest PrerequisiteFirst
PROPERTY WalkEnds
CHECK_DEADLOCK FALSE

SPECIFICATION Spec
CONSTANTS
  Sender = {"app"}
  MaxUnreplied = 1
  MaxXid = 3
  MaxSends = 1
INVARIANTS ListIsFlight KeepsPromptSwitch
PROPERTIES SilentSwitchIsClosed EchoThreadEnds
CHECK_DEADLOCK FALSE

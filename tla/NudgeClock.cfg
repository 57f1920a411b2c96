SPECIFICATION Spec
CONSTANTS
  Hour = 1
  MaxTime = 100
INVARIANT CountdownNeverShort
CHECK_DEADLOCK FALSE

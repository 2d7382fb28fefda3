SPECIFICATION Spec
CONSTANTS
  MaxQueue = 2
INVARIANTS CallersNeverLogIn
CHECK_DEADLOCK FALSE

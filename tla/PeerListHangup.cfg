CONSTANTS
  Uuids = {u1, u2}
  Nodes = {n1, n2, n3}
  NoNode = NoNode
  AppCalls = {"hangup"}
SPECIFICATION Spec
INVARIANTS HangupEndsCall
CHECK_DEADLOCK FALSE

CONSTANTS
  Uuids = {u1, u2}
  Nodes = {n1, n2}
  NoNode = NoNode
  AppCalls = {"send"}
SPECIFICATION FairSpec
INVARIANTS NoUseAfterFree NoOrphan UnknownOnlyIfReplaced
PROPERTIES UnansweredCallsGo
CHECK_DEADLOCK FALSE

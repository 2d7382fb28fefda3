CONSTANTS
  Uuids = {u1, u2}
  Nodes = {n1, n2}
  NoNode = NoNode
  AppCalls = {"respond", "hangup"}
SPECIFICATION Spec
INVARIANTS TypeOK OneNodePerCall
CHECK_DEADLOCK FALSE
SYMMETRY Symmetry

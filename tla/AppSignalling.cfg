CONSTANTS
  Sockets = {s1, s2}
  NoSocket = NoSocket
SPECIFICATION Spec
INVARIANTS TypeOK NeverSilent CurrentIsLoggedIn
CHECK_DEADLOCK FALSE
SYMMETRY Symmetry

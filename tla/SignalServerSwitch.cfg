SPECIFICATION Spec
CONSTANTS
  Conns = {c1, c2}
  Devices = {d1}
  TempIds = {t1}
  Keys = {k0}
  ZeroKey = k0
  NoId = NoId
  NoConn = NoConn
  SwitchIds = TRUE
INVARIANTS OneIdPerConnection

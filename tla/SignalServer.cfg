SPECIFICATION FairSpec
CONSTANTS
  Conns = {c1, c2}
  Devices = {d1}
  TempIds = {t1}
  Keys = {k0, k1}
  ZeroKey = k0
  NoId = NoId
  NoConn = NoConn
  SwitchIds = FALSE
INVARIANTS TypeOK EntryIsLive ReachableOrKicked ToldIsSo
PROPERTIES StaleIsResolved EntryLostByCloseOrTakeover ImplementsDirectory

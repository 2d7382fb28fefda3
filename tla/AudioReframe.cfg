SPECIFICATION Spec
CONSTANTS
  Peers = {p1, p2}
  Block = 3
  Extra = 3
  Sizes = {1, 2, 3, 7}
  MaxBytes = 7
INVARIANTS RemainderIsShort NothingFromOutside
PROPERTIES BlocksFollowFrame

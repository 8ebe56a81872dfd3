SPECIFICATION VSpec
CONSTANTS
  p1 = p1
  p2 = p2
  p3 = p3
  b1 = b1
  b2 = b2
  b3 = b3
  NoBlock = NoBlock
  Proc = {p1, p2, p3}
  Block = {b1, b2, b3}
  v0 = v0
  v1 = v1
  Val = {v0, v1}
  NBUF = 2
  MaxPinned = 1
  Sizes = {4, 6}
SYMMETRY Symmetry
CHECK_DEADLOCK FALSE
INVARIANTS CacheInv DriverInv
PROPERTY TransfersAreAtomic

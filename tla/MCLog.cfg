SPECIFICATION FairSpec
CONSTANTS
  p1 = p1
  p2 = p2
  p3 = p3
  b1 = b1
  b2 = b2
  b3 = b3
  Proc = {p1, p2, p3}
  Block = {b1, b2, b3}
  Val = {0, 1}
  MAXOPBLOCKS = 2
  LOGSIZE = 4
  nlog = 4
  OpBlocks = 1
INVARIANTS PinsBalanced NoPanic
PROPERTIES AtomicCommit SleepersWake

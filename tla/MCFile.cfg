SPECIFICATION Spec
CONSTANTS
  Proc = {1, 2}
  NInode = 3
  NBlock = 9
  BSIZE = 2
  BPB = 4
  NDIRECT = 1
  MAXOPBLOCKS = 6
  NFILE = 2
  NOFILE = 2
  Lengths = {1, 5}
  Appends = {1}
  MaxAppends = 2
  MaxCalls = 4
INVARIANTS BlockInv  FileInv OpFits

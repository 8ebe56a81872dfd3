\* Two process slots, used again and again; programs touch and unmap what they like.
SPECIFICATION Spec
CONSTANTS
  p1 = p1
  p2 = p2
  f1 = f1
  Proc <- TwoProcs
  File <- OneFile
  Writable <- OneFile
  Val <- Zero
  MAXVMA = 2
  MaxPage = 2
  MaxRef = 3
  FileSize = 2
  Ops = {"munmap", "fork", "exit", "wait"}
  NoFile = NoFile
  Absent = Absent
SYMMETRY Symmetry
INVARIANTS
  TypeOK
  RefsCover
  
CHECK_DEADLOCK FALSE

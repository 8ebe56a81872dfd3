\* A program unmaps a page it never touched.
SPECIFICATION Spec
CONSTANTS
  p1 = p1
  p2 = p2
  f1 = f1
  Proc <- OneProc
  File <- OneFile
  Writable <- OneFile
  Val <- Vals
  MAXVMA = 3
  MaxPage = 3
  MaxRef = 5
  FileSize = 2
  Ops = {"munmap"}
  NoFile = NoFile
  Absent = Absent
INVARIANTS
  OpsEnded
CHECK_DEADLOCK FALSE

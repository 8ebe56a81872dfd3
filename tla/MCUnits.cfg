SPECIFICATION UnitsSpec
CONSTANTS
  Sizes <- MCSizes
  Wanted = {2, 5}
  MINUNITS = 4
  HEAPMAX = 16
  NPROC = 2
  Memories = {14, 16, 20, 23}
  PGSIZE = 2
  P = 2
  UserPages = 4
  Sbrks <- MCSbrks
  Lens = {3}
  Programs <- MCPrograms
  Args = {1}
  MaxCalls = 6
  DIRSIZ = 2
  GREPBUF = 5
  WORD = 256
  MAXARGS = 3
  Missing <- MCMissing
\* A text is checked in one state, a panic stops the kernel, and the heap and the
\* calls can be used up.
CHECK_DEADLOCK FALSE
INVARIANTS LockInv TrapInv PagesInv  HeapInv TextAgrees ShellAgrees

\* Three processes, two CPUs, a slot used again, sleeping for one tick.
SPECIFICATION Spec
CONSTANTS
  NPROC = 3
  NCPU = 2
  MaxPid = 3
  MaxSleep = 1
  Syscalls = {"fork", "exit", "wait", "sleep", "kill"}
  KillPids = {2}
INVARIANTS StackHasOneUser SchedDiscipline NoLostWakeup NoOrphans KilledByPid

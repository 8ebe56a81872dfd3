------------------------------ MODULE AtomicDisk ------------------------------
(***************************************************************************)
(* What the log of kernel/log.c promises to the file system: a disk whose   *)
(* contents change only by atomic commits.  System calls (members of Proc)  *)
(* change a volatile image; a commit, taken only when no system call is     *)
(* active, makes the whole volatile image durable in one step; a crash      *)
(* throws the volatile image away and brings back the last durable one.     *)
(***************************************************************************)
CONSTANTS Proc, Block, Val

VARIABLES
  durable,   \* contents of the disk a restart would show
  volatile,  \* contents the running system reads
  active,    \* system calls between begin_op() and end_op()
  up         \* FALSE from a crash to the end of recovery

vars == <<durable, volatile, active, up>>

Init ==
  /\ durable \in [Block -> Val]
  /\ volatile = durable
  /\ active = {}
  /\ up = FALSE

Begin(p) ==
  /\ up
  /\ p \notin active
  /\ active' = active \cup {p}
  /\ UNCHANGED <<durable, volatile, up>>

Write(p, b, v) ==
  /\ p \in active
  /\ volatile' = [volatile EXCEPT ![b] = v]
  /\ UNCHANGED <<durable, active, up>>

End(p) ==
  /\ p \in active
  /\ active' = active \ {p}
  /\ UNCHANGED <<durable, volatile, up>>

Commit ==
  /\ up
  /\ active = {}
  /\ durable' = volatile
  /\ UNCHANGED <<volatile, active, up>>

Crash ==
  /\ volatile' = durable
  /\ active' = {}
  /\ up' = FALSE
  /\ UNCHANGED durable

Recover ==
  /\ up' = TRUE
  /\ UNCHANGED <<durable, volatile, active>>

Next ==
  \/ \E p \in Proc : Begin(p) \/ End(p) \/ \E b \in Block, v \in Val : Write(p, b, v)
  \/ Commit
  \/ Crash
  \/ Recover

Spec == Init /\ [][Next]_vars
===============================================================================

------------------------------ MODULE ProcSteps ------------------------------
(***************************************************************************)
(* Proofs about module Proc, for any number of process slots and CPUs.      *)
(***************************************************************************)
EXTENDS Proc, TLAPS

\* The provers of a leaf, in turn, and their time.
USE SMTT(60), ZenonT(60)

-------------------------------------------------------------------------------
(* The inductive invariant.                                                 *)

\* The ranges of the indices, of the channels and of the lock holders.
Slot0 == 0 .. NPROC
Index == 0 .. NPROC + 1
Chan  == 0 .. NPROC + 2
CPU0  == 0 .. NCPU

\* TypeOK, in those terms.
Types ==
  /\ state \in [Slot -> {"UNUSED", "USED", "SLEEPING", "RUNNABLE", "RUNNING", "ZOMBIE"}]
  /\ chan \in [Slot -> Chan]
  /\ killed \in [Slot -> BOOLEAN]
  /\ pid \in [Slot -> Nat]
  /\ parent \in [Slot -> Slot0]
  /\ nextpid \in Nat
  /\ lock \in [Lock -> CPU0]
  /\ cur \in [CPU -> Slot0]
  /\ pc \in [Slot -> Place]
  /\ cont \in [Slot -> Place]
  /\ lk \in [Slot -> {WAIT, TICKS}]
  /\ i \in [Slot -> Index]
  /\ j \in [Slot -> Slot0]
  /\ havekids \in [Slot -> BOOLEAN]
  /\ np \in [Slot -> Slot0]
  /\ left \in [Slot -> Nat]
  /\ intr \in Slot0

\* Places where the thread holds its own p->lock; "resume" is one once a
\* scheduler has switched to the thread.
Own == {"resume", "sched", "sleep_release", "sleep_state", "exit_release"}

\* Places where it holds no lock, the only ones where it can be preempted.
Free == {"user", "relock", "fork_parent", "fork_runnable", "exit"}

\* Where the thread is, or goes on after sched().
at(s) == IF pc[s] \in {"sched", "resume"} THEN cont[s] ELSE pc[s]

Exit      == {"reparent", "reparent_wakeup", "exit_wakeup", "exit_zombie", "exit_release"}
ToSleep   == {"sleep", "sleep_release"}
HasWait(s)  == pc[s] \in Exit \cup {"wait_scan"} \/ (pc[s] \in ToSleep /\ lk[s] = WAIT)
HasTicks(s) == pc[s] = "tick_test" \/ (pc[s] \in ToSleep /\ lk[s] = TICKS)

\* A CPU runs a thread that no other CPU runs.  One that it does not run was
\* left in sched(), or is new.
Threads ==
  /\ \A c, d \in CPU : cur[c] # 0 /\ cur[c] = cur[d] => c = d
  /\ \A s \in Slot : (\A c \in CPU : cur[c] # s) => pc[s] = "resume" /\ state[s] # "RUNNING"
  /\ \A c \in CPU : cur[c] # 0 =>
       state[cur[c]] \in CASE pc[cur[c]] = "sched"        -> {"RUNNABLE", "SLEEPING", "ZOMBIE"}
                           [] pc[cur[c]] = "exit_release" -> {"ZOMBIE"}
                           [] OTHER                       -> {"RUNNING"}

\* p->lock is held by the CPU of the thread that is at one of its places.
Locks ==
  /\ \A s \in Slot : lock[s] # 0 => cur[lock[s]] = s /\ pc[s] \in Own
  /\ \A c \in CPU : cur[c] # 0 /\ pc[cur[c]] \in Own => lock[cur[c]] = c

\* So is wait_lock.
WaitLock ==
  /\ lock[WAIT] # 0 => cur[lock[WAIT]] # 0 /\ HasWait(cur[lock[WAIT]])
  /\ \A s \in Slot : HasWait(s) => lock[WAIT] # 0 /\ cur[lock[WAIT]] = s

\* So is tickslock, unless the clock interrupt holds it, which does not interrupt
\* a thread with a lock.
TicksLock ==
  /\ lock[TICKS] # 0 => \/ lock[TICKS] = 1 /\ intr # 0
                        \/ cur[lock[TICKS]] # 0 /\ HasTicks(cur[lock[TICKS]])
  /\ \A s \in Slot : HasTicks(s) => lock[TICKS] # 0 /\ cur[lock[TICKS]] = s
  /\ intr # 0 => lock[TICKS] = 1 /\ (cur[1] # 0 => pc[cur[1]] \in Free)

\* Where a thread goes on, the lock it sleeps with, and its loop indices.
Indices ==
  \A s \in Slot :
    /\ cont[s] \in Free
    /\ pc[s] \notin {"sched", "resume"} => cont[s] = "user"
    /\ lk[s] = TICKS => at(s) \in ToSleep \cup {"sleep_state", "relock"}
    /\ state[s] \in {"UNUSED", "ZOMBIE"} => lk[s] = WAIT
    /\ pc[s] \in {"reparent", "reparent_wakeup"} => i[s] \in Slot
    /\ pc[s] = "wait_scan" => i[s] # 0
    /\ pc[s] \in {"reparent_wakeup", "exit_wakeup"} => j[s] \in Slot

\* The child that fork() makes is in no other fork().
Forks ==
  \A s \in Slot : at(s) \in {"fork_parent", "fork_runnable"} =>
    /\ np[s] \in Slot /\ state[np[s]] = "USED"
    /\ parent[np[s]] = IF at(s) = "fork_runnable" THEN s ELSE 0
    /\ \A t \in Slot : at(t) \in {"fork_parent", "fork_runnable"} /\ np[t] = np[s] => t = s

\* init does not exit; exit() has given away the children up to its index.
Exits ==
  /\ state[init] \in {"RUNNABLE", "RUNNING", "SLEEPING"}
  /\ \A s \in Slot :
       /\ at(s) \in Exit \cup {"exit"} => s # init
       /\ pc[s] \in {"reparent", "reparent_wakeup"} => \A t \in Slot : t < i[s] => parent[t] # s
       /\ pc[s] \in {"exit_wakeup", "exit_zombie", "exit_release"} => \A t \in Slot : parent[t] # s
       /\ state[s] = "UNUSED" => parent[s] = 0

\* s sleeps in wait(), or will without looking at its children again.
Waits(s) ==
  \/ pc[s] \in {"sleep", "sleep_release", "sleep_state"} /\ lk[s] = WAIT
  \/ state[s] = "SLEEPING" /\ chan[s] = s

\* What wait() has seen of its children is still so when it sleeps, or their
\* exit() still has to reach it with wakeup().
Children ==
  \A s \in Slot :
    /\ pc[s] = "wait_scan" =>
         /\ havekids[s] => \E t \in Slot : parent[t] = s
         /\ \A t \in Slot : t < i[s] /\ parent[t] = s => havekids[s] /\ state[t] # "ZOMBIE"
    /\ Waits(s) =>
         /\ \E t \in Slot : parent[t] = s
         /\ \A t \in Slot : parent[t] = s =>
              /\ pc[t] = "exit_wakeup" => j[t] <= s
              /\ pc[t] \notin {"exit_zombie", "exit_release"}
              /\ state[t] = "ZOMBIE" =>
                   s = init /\ \E q \in Slot : pc[q] = "reparent_wakeup" /\ j[q] <= init

\* s sleeps in sys_sleep(), or will without looking at the time again.
Dozes(s) ==
  \/ pc[s] \in {"sleep", "sleep_release", "sleep_state"} /\ lk[s] = TICKS
  \/ state[s] = "SLEEPING" /\ chan[s] = TICKS

\* One whose time is over will be reached by the wakeup() of the clock interrupt.
Time == \A s \in Slot : Dozes(s) /\ left[s] = 0 => intr \in 1 .. s

IInv ==
  /\ Types /\ Threads /\ Locks /\ WaitLock /\ TicksLock /\ Indices
  /\ Forks /\ Exits /\ NoOrphans /\ Children /\ Time

-------------------------------------------------------------------------------
\* Slots, locks and CPUs.
LEMMA Names ==
  /\ Lock = Slot \cup {WAIT, TICKS} /\ WAIT \notin Slot /\ TICKS \notin Slot /\ WAIT # TICKS
  /\ Slot0 = Slot \cup {0} /\ 0 \notin Slot /\ init \in Slot /\ 1 \in Slot
  /\ CPU0 = CPU \cup {0} /\ 0 \notin CPU /\ 1 \in CPU
  /\ Slot \subseteq Index /\ 0 \in Index /\ 0 \in Chan /\ TICKS \in Chan /\ Slot \subseteq Chan
  BY ProcAssumption DEF Lock, Slot, WAIT, TICKS, CPU, init, Slot0, Index, Chan, CPU0

USE Names

\* The order of the slots, for the loops over the process table.
LEMMA Order ==
  /\ \A k \in Index : (k # 0 /\ k <= NPROC => k \in Slot) /\ (k > NPROC => \A t \in Slot : t < k)
  /\ \A k \in Slot : /\ k + 1 \in Index /\ k + 1 # 0
                     /\ k < NPROC => k + 1 \in Slot
                     /\ ~(k < NPROC) => \A t \in Slot : (t < k \/ t = k) /\ (k <= t => t = k)
                     /\ \A t \in Slot : /\ t < k + 1 => t < k \/ t = k
                                        /\ k <= t => t = k \/ k + 1 <= t
                     /\ 1 <= k /\ ~(k < 1)
  BY ProcAssumption DEF Slot, Index

\* A thread that a CPU runs is RUNNING, unless it is about to leave the CPU.
LEMMA Runs ==
  ASSUME IInv, NEW c \in CPU, NEW s \in Slot, cur[c] = s, pc[s] \notin {"sched", "exit_release"}
  PROVE  state[s] = "RUNNING"
  BY ZenonT(60) DEF IInv, Threads

\* One thread at a time is at a place of wait_lock.
LEMMA OneWaits ==
  ASSUME IInv, NEW s \in Slot, NEW t \in Slot, HasWait(s), HasWait(t)
  PROVE  s = t
  BY ZenonT(60) DEF IInv, WaitLock

\* A thread in sleep() past the acquire of its p->lock keeps others out.
LEMMA Unlocked ==
  ASSUME IInv, NEW t \in Slot, lock[t] = 0
  PROVE  pc[t] \notin {"sleep_release", "sleep_state"}
<1>1. (\A c \in CPU : cur[c] # t) => pc[t] = "resume"
  BY ZenonT(60) DEF IInv, Threads
<1>2. \A c \in CPU : cur[c] = t /\ pc[t] \in Own => lock[t] = c
  BY ZenonT(60) DEF IInv, Locks
<1> QED
  BY <1>1, <1>2, ZenonT(60) DEF Own

\* The first process is RUNNABLE and nothing runs.
LEMMA InitIInv ==
  ASSUME Init
  PROVE  IInv
<1>1. Types
  BY ZenonT(60) DEF Init, Types, Place
<1>2. Threads /\ Locks
  BY ZenonT(60) DEF Init, Threads, Locks
<1>3. WaitLock /\ TicksLock
  BY ZenonT(60) DEF Init, WaitLock, TicksLock, HasWait, HasTicks, Exit, ToSleep
<1>4. Indices /\ Forks /\ Exits
  BY ZenonT(60) DEF Init, Indices, Forks, Exits, at, Free, Exit
<1>5. NoOrphans /\ Children /\ Time
  BY ZenonT(60) DEF Init, NoOrphans, Children, Waits, Time, Dozes
<1> QED
  BY <1>1, <1>2, <1>3, <1>4, <1>5, ZenonT(60) DEF IInv

-------------------------------------------------------------------------------
(* Every step keeps it: one lemma per action, one step per conjunct.         *)

\* scheduler() switches to a RUNNABLE slot: no CPU runs it, since its p->lock is free.
LEMMA SchedulerStep ==
  ASSUME IInv, NEW c \in CPU, NEW s \in Slot, scheduler(c, s)
  PROVE  IInv'
<1>1. Types'
  BY ZenonT(60) DEF IInv, Types, scheduler, acquire, local, clock
<1>2. Threads'
  BY DEF IInv, Types, Threads, Locks, Own, scheduler, acquire
<1>3. Locks'
  BY DEF IInv, Types, Threads, Locks, Own, scheduler, acquire
<1>4. WaitLock'
  BY DEF IInv, WaitLock, HasWait, scheduler, acquire, local
<1>5. TicksLock'
  BY DEF IInv, TicksLock, HasTicks, scheduler, acquire, local, clock
<1>6. Indices'
  BY DEF IInv, Indices, at, scheduler, local
<1>7. Forks'
  BY DEF IInv, Forks, at, scheduler, local
<1>8. Exits'
  BY DEF IInv, Exits, at, scheduler, local
<1>9. NoOrphans'
  BY DEF IInv, NoOrphans, scheduler
<1>10. Children'
  BY DEF IInv, Children, Waits, scheduler, local
<1>11. Time'
  BY DEF IInv, Time, Dozes, scheduler, local, clock
<1> QED
  BY <1>1, <1>2, <1>3, <1>4, <1>5, <1>6, <1>7, <1>8, <1>9, <1>10, <1>11, ZenonT(60) DEF IInv

\* The thread that comes back from sched() goes on where it holds no lock.
LEMMA ResumeStep ==
  ASSUME IInv, NEW c \in CPU, NEW s \in Slot, resume(c, s)
  PROVE  IInv'
<1> state[s] = "RUNNING"
  BY Runs, ZenonT(60) DEF resume, At
<1>1. Types'
  BY Order DEF IInv, Types, Place, resume, Goto, release, local, clock
<1>2. Threads'
  BY DEF IInv, Threads, Indices, Free, resume, Goto
<1>3. Locks'
  BY DEF IInv, Types, Locks, Own, Indices, Free, resume, Goto, release
<1>4. WaitLock'
  BY DEF IInv, WaitLock, HasWait, Exit, ToSleep, Indices, Free, resume, At, Goto, release, local
<1>5. TicksLock'
  BY DEF IInv, TicksLock, HasTicks, Free, ToSleep, Indices, resume, At, Goto, release, local, clock
<1>6. Indices'
  BY ZenonT(60) DEF IInv, Types, Indices, Free, at, resume, At, Goto, local
<1>7. Forks'
  BY DEF IInv, Forks, at, Indices, resume, Goto, local
<1>8. Exits'
  BY DEF IInv, Exits, at, Exit, Indices, Free, resume, Goto, local
<1>9. NoOrphans'
  BY ZenonT(60) DEF IInv, NoOrphans, resume
<1>10. Children'
  BY DEF IInv, Children, Waits, Indices, Free, resume, At, Goto, local
<1>11. Time'
  BY DEF IInv, Time, Dozes, Indices, Free, resume, Goto, local, clock
<1> QED
  BY <1>1, <1>2, <1>3, <1>4, <1>5, <1>6, <1>7, <1>8, <1>9, <1>10, <1>11, ZenonT(60) DEF IInv

\* sched() leaves the CPU: the thread is no longer RUNNING and its p->lock is released.
LEMMA SchedStep ==
  ASSUME IInv, NEW c \in CPU, NEW s \in Slot, sched(c, s)
  PROVE  IInv'
<1>1. Types'
  BY ZenonT(60) DEF IInv, Types, Place, sched, Goto, release, table, local, clock
<1>2. Threads'
  BY DEF IInv, Types, Threads, sched, At, Goto, table
<1>3. Locks'
  BY DEF IInv, Types, Threads, Locks, sched, At, Goto, release
<1>4. WaitLock'
  BY DEF IInv, WaitLock, HasWait, Exit, ToSleep, sched, At, Goto, release, local
<1>5. TicksLock'
  BY DEF IInv, Threads, TicksLock, HasTicks, ToSleep, sched, At, Goto, release, local, clock
<1>6. Indices'
  BY DEF IInv, Indices, at, sched, At, Goto, table, local
<1>7. Forks'
  BY DEF IInv, Forks, at, sched, At, Goto, table, local
<1>8. Exits'
  BY DEF IInv, Exits, at, sched, At, Goto, table, local
<1>9. NoOrphans'
  BY ZenonT(60) DEF IInv, NoOrphans, sched, table
<1>10. Children'
  BY DEF IInv, Children, Waits, sched, At, Goto, table, local
<1>11. Time'
  BY DEF IInv, Time, Dozes, sched, Goto, table, local, clock
<1> QED
  BY <1>1, <1>2, <1>3, <1>4, <1>5, <1>6, <1>7, <1>8, <1>9, <1>10, <1>11, ZenonT(60) DEF IInv

\* yield(): a CPU without a lock runs a thread at one of the Free places.
LEMMA YieldStep ==
  ASSUME IInv, NEW c \in CPU, NEW s \in Slot, yield(c, s)
  PROVE  IInv'
<1> pc[s] \in Free /\ state[s] = "RUNNING"
  <2>1. \A l \in Lock : lock[l] # c
    BY ZenonT(60) DEF yield, Held
  <2>2. cur[c] = s /\ s # 0 /\ \A d \in CPU : cur[d] = s => d = c
    BY ZenonT(60) DEF IInv, Threads, yield
  <2>3. pc[s] \notin Own
    BY <2>1, <2>2, ZenonT(60) DEF IInv, Locks
  <2>4. ~HasWait(s)
    BY <2>1, <2>2, ZenonT(60) DEF IInv, Types, WaitLock
  <2>5. ~HasTicks(s)
    BY <2>1, <2>2, ZenonT(60) DEF IInv, Types, TicksLock
  <2>6. pc[s] \in Free
    BY <2>3, <2>4, <2>5, ZenonT(60) DEF Own, HasWait, HasTicks, Free, Exit, ToSleep, IInv, Types, Place
  <2> QED
    BY <2>2, <2>6, Runs, ZenonT(60) DEF Free
<1>1. Types'
  BY ZenonT(60) DEF IInv, Types, Place, yield, Goto, acquire, local, clock
<1>2. Threads'
  BY DEF IInv, Types, Threads, yield, Goto
<1>3. Locks'
  BY DEF IInv, Types, Threads, Locks, Own, yield, Goto, acquire
<1>4. WaitLock'
  BY DEF IInv, WaitLock, HasWait, Exit, ToSleep, Free, yield, Goto, acquire, local
<1>5. TicksLock'
  BY DEF IInv, Threads, TicksLock, HasTicks, Free, ToSleep, yield, Goto, acquire, local, clock
<1>6. Indices'
  BY ZenonT(60) DEF IInv, Types, Indices, Free, at, yield, Goto, local
<1>7. Forks'
  BY DEF IInv, Types, Forks, at, yield, Goto, local
<1>8. Exits'
  BY ZenonT(60) DEF IInv, Types, Exits, at, Exit, yield, Goto, local
<1>9. NoOrphans'
  BY DEF IInv, NoOrphans, yield
<1>10. Children'
  BY DEF IInv, Children, Waits, Free, yield, Goto, local
<1>11. Time'
  BY DEF IInv, Time, Dozes, yield, Goto, local, clock
<1> QED
  BY <1>1, <1>2, <1>3, <1>4, <1>5, <1>6, <1>7, <1>8, <1>9, <1>10, <1>11, ZenonT(60) DEF IInv

\* sleep() takes p->lock before it lets its other lock go.
LEMMA SleepAcquireStep ==
  ASSUME IInv, NEW c \in CPU, NEW s \in Slot, sleep_acquire(c, s)
  PROVE  IInv'
<1>1. Types'
  BY ZenonT(60) DEF IInv, Types, Place, sleep_acquire, Goto, acquire, table, local, clock
<1>2. Threads'
  BY DEF IInv, Threads, sleep_acquire, At, Goto, table
<1>3. Locks'
  BY DEF IInv, Types, Threads, Locks, Own, sleep_acquire, At, Goto, acquire
<1>4. WaitLock'
  BY DEF IInv, WaitLock, HasWait, Exit, ToSleep, sleep_acquire, At, Goto, acquire, local
<1>5. TicksLock'
  BY DEF IInv, Threads, TicksLock, HasTicks, ToSleep, sleep_acquire, At, Goto, acquire, local, clock
<1>6. Indices'
  BY DEF IInv, Indices, at, ToSleep, sleep_acquire, At, Goto, table, local
<1>7. Forks'
  BY DEF IInv, Forks, at, sleep_acquire, Goto, table, local
<1>8. Exits'
  BY DEF IInv, Exits, at, Exit, sleep_acquire, Goto, table, local
<1>9. NoOrphans'
  BY ZenonT(60) DEF IInv, NoOrphans, sleep_acquire, table
<1>10. Children'
  BY DEF IInv, Children, Waits, sleep_acquire, At, Goto, table, local
<1>11. Time'
  BY DEF IInv, Time, Dozes, sleep_acquire, At, Goto, table, local, clock
<1> QED
  BY <1>1, <1>2, <1>3, <1>4, <1>5, <1>6, <1>7, <1>8, <1>9, <1>10, <1>11, ZenonT(60) DEF IInv

\* sleep() lets wait_lock or tickslock go; p->lock still keeps wakeup() out.
LEMMA SleepReleaseStep ==
  ASSUME IInv, NEW c \in CPU, NEW s \in Slot, sleep_release(c, s)
  PROVE  IInv'
<1>1. Types'
  BY ZenonT(60) DEF IInv, Types, Place, sleep_release, Goto, release, table, local, clock
<1>2. Threads'
  BY DEF IInv, Threads, sleep_release, At, Goto, table
<1>3. Locks'
  BY DEF IInv, Types, Locks, Own, sleep_release, At, Goto, release
<1>4. WaitLock'
  BY ZenonT(60) DEF IInv, Types, WaitLock, HasWait, Exit, ToSleep, sleep_release, At, Goto, release, local
<1>5. TicksLock'
  BY DEF IInv, Types, Threads, TicksLock, HasTicks, ToSleep, sleep_release, At, Goto, release, local, clock
<1>6. Indices'
  BY DEF IInv, Indices, at, sleep_release, At, Goto, table, local
<1>7. Forks'
  BY DEF IInv, Forks, at, sleep_release, Goto, table, local
<1>8. Exits'
  BY DEF IInv, Exits, at, Exit, sleep_release, Goto, table, local
<1>9. NoOrphans'
  BY ZenonT(60) DEF IInv, NoOrphans, sleep_release, table
<1>10. Children'
  BY DEF IInv, Children, Waits, sleep_release, At, Goto, table, local
<1>11. Time'
  BY DEF IInv, Time, Dozes, sleep_release, At, Goto, table, local, clock
<1> QED
  BY <1>1, <1>2, <1>3, <1>4, <1>5, <1>6, <1>7, <1>8, <1>9, <1>10, <1>11, ZenonT(60) DEF IInv

\* sleep() becomes SLEEPING: what Children and Time say of the thread still holds.
LEMMA SleepStateStep ==
  ASSUME IInv, NEW c \in CPU, NEW s \in Slot, sleep_state(c, s)
  PROVE  IInv'
<1> state[s] = "RUNNING"
  BY Runs, ZenonT(60) DEF sleep_state, At
<1>1. Types'
  BY Order, ZenonT(60) DEF IInv, Types, Place, sleep_state, Goto, local, clock
<1>2. Threads'
  BY DEF IInv, Types, Threads, sleep_state, Goto
<1>3. Locks'
  BY DEF IInv, Locks, Own, sleep_state, At, Goto
<1>4. WaitLock'
  BY DEF IInv, WaitLock, HasWait, Exit, ToSleep, sleep_state, At, Goto, local
<1>5. TicksLock'
  BY DEF IInv, Threads, TicksLock, HasTicks, ToSleep, sleep_state, At, Goto, local, clock
<1>6. Indices'
  BY ZenonT(60) DEF IInv, Types, Indices, Free, at, sleep_state, Goto, local
<1>7. Forks'
  BY DEF IInv, Types, Forks, at, sleep_state, Goto, local
<1>8. Exits'
  BY ZenonT(60) DEF IInv, Types, Exits, at, Exit, sleep_state, Goto, local
<1>9. NoOrphans'
  BY DEF IInv, NoOrphans, sleep_state
<1>10. Children'
  BY DEF IInv, Types, Children, Waits, sleep_state, At, Goto, local
<1>11. Time'
  BY ZenonT(60) DEF IInv, Types, Time, Dozes, sleep_state, At, Goto, local, clock
<1> QED
  BY <1>1, <1>2, <1>3, <1>4, <1>5, <1>6, <1>7, <1>8, <1>9, <1>10, <1>11, ZenonT(60) DEF IInv

\* sleep() takes its lock again, and wait() starts its scan anew.
LEMMA SleepRelockStep ==
  ASSUME IInv, NEW c \in CPU, NEW s \in Slot, sleep_relock(c, s)
  PROVE  IInv'
<1>1. Types'
  <2>1. CASE lk[s] = TICKS
    BY <2>1 DEF IInv, Types, Place, sleep_relock, Goto, acquire, table, clock
  <2>2. CASE lk[s] # TICKS
    <3>1. /\ pc' = [pc EXCEPT ![s] = "wait_scan"] /\ i' = [i EXCEPT ![s] = 1]
          /\ havekids' = [havekids EXCEPT ![s] = FALSE]
      BY <2>2, ZenonT(60) DEF sleep_relock, Goto
    <3>2. pc' \in [Slot -> Place] /\ i' \in [Slot -> Index] /\ havekids' \in [Slot -> BOOLEAN]
      BY <3>1, ZenonT(60) DEF IInv, Types, Place
    <3>3. lock' \in [Lock -> CPU0] /\ lk' \in [Slot -> {WAIT, TICKS}]
      BY ZenonT(60) DEF IInv, Types, sleep_relock, acquire
    <3> QED
      BY <3>2, <3>3, ZenonT(60) DEF IInv, Types, sleep_relock, table, clock
  <2> QED
    BY <2>1, <2>2, ZenonT(60)
<1>2. Threads'
  BY DEF IInv, Types, Threads, sleep_relock, At, Goto, table
<1>3. Locks'
  BY DEF IInv, Types, Locks, Own, sleep_relock, At, Goto, acquire
<1>4. WaitLock'
  BY DEF IInv, Types, WaitLock, HasWait, Exit, ToSleep, sleep_relock, At, Goto, acquire
<1>5. TicksLock'
  BY DEF IInv, Types, Threads, TicksLock, HasTicks, sleep_relock, At, Goto, acquire, clock
<1>6. Indices'
  BY DEF IInv, Types, Indices, at, sleep_relock, At, Goto, table
<1>7. Forks'
  BY DEF IInv, Types, Forks, at, sleep_relock, Goto, table
<1>8. Exits'
  BY DEF IInv, Types, Exits, at, Exit, sleep_relock, Goto, table
<1>9. NoOrphans'
  BY ZenonT(60) DEF IInv, NoOrphans, sleep_relock, table
<1>10. Children'
  BY Order DEF IInv, Types, Children, Waits, sleep_relock, At, Goto, table
<1>11. Time'
  BY ZenonT(60) DEF IInv, Types, Time, Dozes, sleep_relock, Goto, table, clock
<1> QED
  BY <1>1, <1>2, <1>3, <1>4, <1>5, <1>6, <1>7, <1>8, <1>9, <1>10, <1>11, ZenonT(60) DEF IInv

\* fork(): allocproc() takes a slot that no thread runs and that has no parent.
LEMMA ForkStep ==
  ASSUME IInv, NEW c \in CPU, NEW s \in Slot, fork(c, s)
  PROVE  IInv'
<1> state[s] = "RUNNING"
  BY Runs, ZenonT(60) DEF fork, syscall, At
<1> cur[c] = s /\ pc[s] = "user" /\ ~(c = 1 /\ intr # 0)
  BY ZenonT(60) DEF fork, syscall, At
<1> nextpid' \in Nat /\ UNCHANGED <<chan, killed, parent, lock, cur, i, j, havekids, lk, left, intr>>
  BY DEF IInv, Types, fork, clock
<1> \/ UNCHANGED <<state, pid, pc, cont, np>>
    \/ \E t \in Slot : /\ lock[t] = 0 /\ state[t] = "UNUSED"
                      /\ state' = [state EXCEPT ![t] = "USED"]
                      /\ pid' = [pid EXCEPT ![t] = nextpid]
                      /\ pc' = [pc EXCEPT ![t] = "resume", ![s] = "fork_parent"]
                      /\ cont' = [cont EXCEPT ![t] = "user"]
                      /\ np' = [np EXCEPT ![s] = t]
  BY ZenonT(60) DEF fork
<1>1. Types'
  <2>1. pc' \in [Slot -> Place] /\ cont' \in [Slot -> Place] /\ np' \in [Slot -> Slot0]
    BY DEF IInv, Types, Place
  <2>2. /\ state' \in [Slot -> {"UNUSED", "USED", "SLEEPING", "RUNNABLE", "RUNNING", "ZOMBIE"}]
        /\ pid' \in [Slot -> Nat]
    BY DEF IInv, Types
  <2> QED
    BY <2>1, <2>2, ZenonT(60) DEF IInv, Types
<1>2. Threads'
  BY DEF IInv, Types, Threads, Locks
<1>3. Locks'
  BY DEF IInv, Types, Threads, Locks, Own
<1>4. WaitLock'
  BY DEF IInv, Types, Threads, WaitLock, HasWait, Exit, ToSleep
<1>5. TicksLock'
  BY DEF IInv, Types, Threads, TicksLock, HasTicks, Free, ToSleep
<1>6. Indices'
  BY DEF IInv, Types, Indices, at, ToSleep
<1>7. Forks'
  BY DEF IInv, Types, Forks, at, Exits, Locks
<1>8. Exits'
  BY DEF IInv, Types, Exits, at, Exit
<1>9. NoOrphans'
  BY DEF IInv, Types, NoOrphans
<1>10. Children'
  BY DEF IInv, Types, Children, Waits, Exits, Threads, At, clock, syscall
<1>11. Time'
  BY DEF IInv, Types, Time, Dozes
<1> QED
  BY <1>1, <1>2, <1>3, <1>4, <1>5, <1>6, <1>7, <1>8, <1>9, <1>10, <1>11, ZenonT(60) DEF IInv

\* fork() gives the child its parent, which runs and so has not exited.
LEMMA ForkParentStep ==
  ASSUME IInv, NEW c \in CPU, NEW s \in Slot, fork_parent(c, s)
  PROVE  IInv'
<1> state[s] = "RUNNING"
  BY Runs, ZenonT(60) DEF fork_parent, At
<1>1. Types'
  BY Order, ZenonT(60) DEF IInv, Types, Place, Forks, at, fork_parent, At, Goto, local, clock
<1>2. Threads'
  BY DEF IInv, Threads, fork_parent, Goto
<1>3. Locks'
  BY DEF IInv, Locks, Own, fork_parent, At, Goto
<1>4. WaitLock'
  BY DEF IInv, WaitLock, HasWait, Exit, ToSleep, fork_parent, Goto, local
<1>5. TicksLock'
  BY DEF IInv, Threads, TicksLock, HasTicks, ToSleep, fork_parent, At, Goto, local, clock
<1>6. Indices'
  BY DEF IInv, Indices, at, ToSleep, fork_parent, At, Goto, local
<1>7. Forks'
  BY DEF IInv, Types, Forks, at, fork_parent, At, Goto, local
<1>8. Exits'
  BY DEF IInv, Exits, at, Exit, Forks, fork_parent, At, Goto, local
<1>9. NoOrphans'
  BY DEF IInv, NoOrphans, fork_parent
<1>10. Children'
  BY DEF IInv, Children, Waits, Forks, at, fork_parent, At, Goto, local
<1>11. Time'
  BY DEF IInv, Time, Dozes, fork_parent, Goto, local, clock
<1> QED
  BY <1>1, <1>2, <1>3, <1>4, <1>5, <1>6, <1>7, <1>8, <1>9, <1>10, <1>11, ZenonT(60) DEF IInv

\* fork() makes the child RUNNABLE, which has its parent by then.
LEMMA ForkRunnableStep ==
  ASSUME IInv, NEW c \in CPU, NEW s \in Slot, fork_runnable(c, s)
  PROVE  IInv'
<1> state[s] = "RUNNING"
  BY Runs, ZenonT(60) DEF fork_runnable, At
<1>1. Types'
  BY Order, ZenonT(60) DEF IInv, Types, Place, Forks, at, fork_runnable, At, Goto, clock
<1>2. Threads'
  BY DEF IInv, Threads, Forks, at, fork_runnable, At, Goto
<1>3. Locks'
  BY DEF IInv, Locks, Own, fork_runnable, At, Goto
<1>4. WaitLock'
  BY DEF IInv, WaitLock, HasWait, Exit, ToSleep, fork_runnable, At, Goto
<1>5. TicksLock'
  BY DEF IInv, Threads, TicksLock, HasTicks, ToSleep, fork_runnable, At, Goto, clock
<1>6. Indices'
  BY DEF IInv, Indices, at, ToSleep, fork_runnable, At, Goto
<1>7. Forks'
  BY DEF IInv, Types, Forks, at, fork_runnable, At, Goto
<1>8. Exits'
  BY DEF IInv, Exits, at, Exit, fork_runnable, Goto
<1>9. NoOrphans'
  BY DEF IInv, NoOrphans, Forks, at, fork_runnable, At
<1>10. Children'
  BY DEF IInv, Children, Waits, fork_runnable, At, Goto
<1>11. Time'
  BY DEF IInv, Time, Dozes, fork_runnable, Goto, clock
<1> QED
  BY <1>1, <1>2, <1>3, <1>4, <1>5, <1>6, <1>7, <1>8, <1>9, <1>10, <1>11, ZenonT(60) DEF IInv

\* exit() is not called by init.
LEMMA ExitStep ==
  ASSUME IInv, NEW c \in CPU, NEW s \in Slot, exit(c, s)
  PROVE  IInv'
<1>1. Types'
  BY ZenonT(60) DEF IInv, Types, Place, exit, Goto, table, local, clock
<1>2. Threads'
  BY DEF IInv, Threads, exit, At, Goto, table
<1>3. Locks'
  BY DEF IInv, Locks, Own, exit, At, Goto
<1>4. WaitLock'
  BY DEF IInv, WaitLock, HasWait, Exit, ToSleep, exit, At, Goto, local
<1>5. TicksLock'
  BY DEF IInv, Threads, TicksLock, HasTicks, ToSleep, exit, At, Goto, local, clock
<1>6. Indices'
  BY DEF IInv, Indices, at, ToSleep, exit, At, Goto, table, local
<1>7. Forks'
  BY DEF IInv, Forks, at, exit, Goto, table, local
<1>8. Exits'
  BY DEF IInv, Exits, at, exit, Goto, table, local
<1>9. NoOrphans'
  BY ZenonT(60) DEF IInv, NoOrphans, exit, table
<1>10. Children'
  BY DEF IInv, Children, Waits, exit, At, Goto, table, local
<1>11. Time'
  BY DEF IInv, Time, Dozes, exit, Goto, table, local, clock
<1> QED
  BY <1>1, <1>2, <1>3, <1>4, <1>5, <1>6, <1>7, <1>8, <1>9, <1>10, <1>11, ZenonT(60) DEF IInv

\* exit() takes wait_lock: from here on nobody's parent changes but by it.
LEMMA ExitWaitLockStep ==
  ASSUME IInv, NEW c \in CPU, NEW s \in Slot, exit_wait_lock(c, s)
  PROVE  IInv'
<1>1. Types'
  BY ZenonT(60) DEF IInv, Types, Place, exit_wait_lock, Goto, acquire, table, clock
<1>2. Threads'
  BY DEF IInv, Threads, exit_wait_lock, At, Goto, table
<1>3. Locks'
  BY DEF IInv, Locks, Own, exit_wait_lock, At, Goto, acquire
<1>4. WaitLock'
  BY ZenonT(60) DEF IInv, Types, WaitLock, HasWait, Exit, exit_wait_lock, At, Goto, acquire
<1>5. TicksLock'
  BY DEF IInv, Threads, TicksLock, HasTicks, ToSleep, exit_wait_lock, At, Goto, acquire, clock
<1>6. Indices'
  BY DEF IInv, Types, Indices, at, ToSleep, exit_wait_lock, At, Goto, table
<1>7. Forks'
  BY DEF IInv, Forks, at, exit_wait_lock, Goto, table
<1>8. Exits'
  BY Order DEF IInv, Types, Exits, at, exit_wait_lock, At, Goto, table
<1>9. NoOrphans'
  BY ZenonT(60) DEF IInv, NoOrphans, exit_wait_lock, table
<1>10. Children'
  BY DEF IInv, Children, Waits, exit_wait_lock, At, Goto, table
<1>11. Time'
  BY DEF IInv, Time, Dozes, exit_wait_lock, Goto, table, clock
<1> QED
  BY <1>1, <1>2, <1>3, <1>4, <1>5, <1>6, <1>7, <1>8, <1>9, <1>10, <1>11, ZenonT(60) DEF IInv

\* reparent(): a child goes to init, which will be woken if it waits.
LEMMA ReparentStep ==
  ASSUME IInv, NEW c \in CPU, NEW s \in Slot, reparent(c, s)
  PROVE  IInv'
<1> state[s] = "RUNNING"
  BY Runs, ZenonT(60) DEF reparent, At
<1> i[s] \in Slot
  BY ZenonT(60) DEF IInv, Indices, reparent, At
<1>1. Types'
  BY Order DEF IInv, Types, Place, reparent, Goto, clock
<1>2. Threads'
  BY DEF IInv, Types, Threads, reparent, Goto
<1>3. Locks'
  BY DEF IInv, Types, Locks, Own, reparent, At, Goto
<1>4. WaitLock'
  BY DEF IInv, Types, WaitLock, HasWait, Exit, reparent, At, Goto
<1>5. TicksLock'
  BY DEF IInv, Types, Threads, TicksLock, HasTicks, ToSleep, reparent, At, Goto, clock
<1>6. Indices'
  BY Order DEF IInv, Types, Indices, at, ToSleep, reparent, At, Goto
<1>7. Forks'
  BY DEF IInv, Types, Forks, at, reparent, Goto
<1>8. Exits'
  BY Order DEF IInv, Types, Exits, at, Exit, reparent, At, Goto
<1>9. NoOrphans'
  BY DEF IInv, Types, NoOrphans, Exits, reparent
<1>10. Children'
  <2> SUFFICES ASSUME NEW q \in Slot
               PROVE  /\ pc'[q] # "wait_scan"
                      /\ Waits(q)' =>
                           /\ \E t \in Slot : parent'[t] = q
                           /\ \A t \in Slot : parent'[t] = q =>
                                /\ pc'[t] = "exit_wakeup" => j'[t] <= q
                                /\ pc'[t] \notin {"exit_zombie", "exit_release"}
                                /\ state'[t] = "ZOMBIE" =>
                                     q = init /\ \E u \in Slot : pc'[u] = "reparent_wakeup" /\ j'[u] <= init
    BY ZenonT(60) DEF Children
  <2>1. HasWait(s) /\ \A t \in Slot : HasWait(t) => t = s
    BY OneWaits, ZenonT(60) DEF HasWait, Exit, reparent, At
  <2>2. pc'[q] # "wait_scan"
    BY <2>1 DEF IInv, Types, HasWait, reparent, At, Goto
  <2>3. ASSUME Waits(q)'
        PROVE  Waits(q) /\ q # s
    BY <2>3 DEF IInv, Types, Waits, reparent, At, Goto
  <2>4. ASSUME Waits(q)'
        PROVE  \E t \in Slot : parent'[t] = q
    BY <2>3, <2>4 DEF IInv, Types, Children, reparent
  <2>5. ASSUME Waits(q)', NEW t \in Slot, parent'[t] = q
        PROVE  /\ pc'[t] = "exit_wakeup" => j'[t] <= q
               /\ pc'[t] \notin {"exit_zombie", "exit_release"}
               /\ state'[t] = "ZOMBIE" =>
                    q = init /\ \E u \in Slot : pc'[u] = "reparent_wakeup" /\ j'[u] <= init
    <3>1. CASE parent[t] = q
      <4>1. state[t] # "ZOMBIE"
        BY <2>1, <2>3, <2>5, <3>1, ZenonT(60) DEF IInv, Children, HasWait, Exit, reparent, At
      <4> QED
        BY Order, <2>1, <2>3, <2>5, <3>1, <4>1 DEF IInv, Types, HasWait, Exit, reparent, At, Goto
    <3>2. CASE parent[t] # q
      <4>1. /\ t = i[s] /\ parent[t] = s /\ q = init
            /\ pc' = [pc EXCEPT ![s] = "reparent_wakeup"] /\ j' = [j EXCEPT ![s] = 1]
        BY <2>5, <3>2, ZenonT(60) DEF IInv, Types, reparent, Goto
      <4>2. pc'[s] = "reparent_wakeup" /\ j'[s] <= init
        BY <4>1 DEF IInv, Types, init
      <4> QED
        BY <2>1, <4>1, <4>2 DEF HasWait, Exit
    <3> QED
      BY <3>1, <3>2, ZenonT(60)
  <2> QED
    BY <2>2, <2>4, <2>5, ZenonT(60)
<1>11. Time'
  BY DEF IInv, Types, Time, Dozes, reparent, Goto, clock
<1> QED
  BY <1>1, <1>2, <1>3, <1>4, <1>5, <1>6, <1>7, <1>8, <1>9, <1>10, <1>11, ZenonT(60) DEF IInv
===============================================================================

-------------------------------- MODULE Proc ----------------------------------
(***************************************************************************)
(* kernel/proc.c: the process table, the per-CPU schedulers, fork, exit,    *)
(* wait, kill, sleep and wakeup, with sys_sleep and the clock interrupt.    *)
(*                                                                          *)
(* A CPU runs its scheduler (cur[c] = 0) or the kernel thread of the        *)
(* process in slot cur[c].  A spin lock is held by a CPU.  A step is at     *)
(* most one critical section; a section that ends in sched() is cut at      *)
(* every lock operation, because sleep() and exit() hold two locks at once  *)
(* and the scheduler of the CPU, not the process, releases the last.        *)
(* A CPU holding a spin lock has interrupts off (push_off), so it takes     *)
(* neither a clock interrupt nor a yield().                                 *)
(***************************************************************************)
EXTENDS Integers, FiniteSets

CONSTANTS
  NPROC,     \* process slots; slot 1 is initproc
  NCPU,      \* CPUs; CPU 1 is hart 0, which takes the clock interrupt
  MaxPid,    \* bound on nextpid
  MaxSleep,  \* bound on the argument of sleep()
  Syscalls,  \* the system calls the user programs make
  KillPids   \* the arguments they pass to kill()

ASSUME ProcAssumption ==
  /\ NPROC \in Nat \ {0}
  /\ NCPU \in Nat \ {0}
  /\ MaxPid \in Nat
  /\ MaxSleep \in Nat
  /\ Syscalls \subseteq {"fork", "exit", "wait", "sleep", "kill"}
  /\ KillPids \subseteq Nat \ {1}

Slot == 1 .. NPROC
CPU  == 1 .. NCPU
init == 1

\* Locks: p->lock of each slot, wait_lock and tickslock.  The channel &ticks
\* is named like its lock; the channel of wait() is the parent's slot.
WAIT  == NPROC + 1
TICKS == NPROC + 2
Lock  == 1 .. NPROC + 2

VARIABLES
  state, chan, killed, pid, parent,  \* struct proc
  nextpid,
  lock,      \* the CPU that holds each spin lock, 0 if free
  cur,       \* struct cpu: c->proc, 0 in the scheduler
  pc,        \* where the kernel thread of each slot is
  cont,      \* where it goes on after sched()
  lk,        \* the lock it passed to sleep()
  i, j,      \* its loop indices (i: reparent(), wait(); j: wakeup())
  havekids,  \* wait()
  np,        \* fork(): the child's slot
  left,      \* sys_sleep(): n - (ticks - ticks0), the ticks still to wait for
  intr       \* clockintr(): index of its wakeup() loop, 0 when not running

table  == <<state, chan, killed, pid, parent, nextpid>>
local  == <<i, j, havekids, np, lk>>
clock  == <<left, intr>>
vars   == <<table, lock, cur, pc, cont, local, clock>>

Held(c) == {l \in Lock : lock[l] = c}

\* The thread of slot s runs on CPU c, at the given place.
At(c, s, place) ==
  /\ cur[c] = s
  /\ pc[s] = place
  /\ ~(c = 1 /\ intr # 0)

Goto(s, place) == pc' = [pc EXCEPT ![s] = place]
acquire(c, l)  == lock[l] = 0 /\ lock' = [lock EXCEPT ![l] = c]
release(l)     == lock' = [lock EXCEPT ![l] = 0]

-------------------------------------------------------------------------------
(* Mutations: plausible slips in the code, used to see each property fail.  *)

\* wakeup() visits one slot too many.
WakeupLoopTooFar(c, s, ch, next) ==
  /\ state' = state
  /\ IF j[s] <= NPROC
       THEN j' = [j EXCEPT ![s] = @ + 1] /\ UNCHANGED pc
       ELSE j' = [j EXCEPT ![s] = 0] /\ Goto(s, next)
  /\ UNCHANGED <<chan, killed, pid, parent, nextpid, lock, cur, cont, i, havekids, np, lk, clock>>

\* exit() becomes a ZOMBIE without p->lock.
ZombieWithoutLock(c, s) ==
  /\ At(c, s, "exit_zombie")
  /\ state' = [state EXCEPT ![s] = "ZOMBIE"]
  /\ Goto(s, "exit_release")
  /\ UNCHANGED <<chan, killed, pid, parent, nextpid, lock, cur, cont, local, clock>>

\* exit() calls sched() with wait_lock held.
ExitKeepsWaitLock(c, s) ==
  /\ At(c, s, "exit_release")
  /\ Goto(s, "sched")
  /\ UNCHANGED <<table, lock, cur, cont, local, clock>>

\* exit() does not wake its parent.
ExitWakesNobody(c, s) ==
  /\ At(c, s, "exit_wakeup")
  /\ Goto(s, "exit_zombie")
  /\ UNCHANGED <<table, lock, cur, cont, local, clock>>

\* wait() sleeps without looking at havekids.
WaitWithoutKids(c, s) ==
  /\ At(c, s, "wait_scan")
  /\ i[s] > NPROC
  /\ Goto(s, "sleep")
  /\ i' = [i EXCEPT ![s] = 0]
  /\ havekids' = [havekids EXCEPT ![s] = FALSE]
  /\ UNCHANGED <<table, lock, cur, cont, j, np, lk, clock>>

\* reparent() leaves the last slot out.
ReparentStopsEarly(c, s) ==
  /\ At(c, s, "reparent")
  /\ IF i[s] < NPROC
       THEN /\ parent' = IF parent[i[s]] = s THEN [parent EXCEPT ![i[s]] = init] ELSE parent
            /\ i' = [i EXCEPT ![s] = @ + 1]
            /\ UNCHANGED <<pc, j>>
       ELSE /\ i' = [i EXCEPT ![s] = 0]
            /\ j' = [j EXCEPT ![s] = 1]
            /\ Goto(s, "exit_wakeup")
            /\ UNCHANGED parent
  /\ UNCHANGED <<state, chan, killed, pid, nextpid, lock, cur, cont, havekids, np, lk, clock>>

\* freeproc() does not clear p->killed.
FreeprocKeepsKilled(t) ==
  /\ state' = [state EXCEPT ![t] = "UNUSED"]
  /\ chan' = [chan EXCEPT ![t] = 0]
  /\ pid' = [pid EXCEPT ![t] = 0]
  /\ parent' = [parent EXCEPT ![t] = 0]
  /\ UNCHANGED killed

\* kill() marks its victim and lets it sleep.
KillWithoutWakeup(c, s) ==
  /\ At(c, s, "user") /\ ~killed[s] /\ "kill" \in Syscalls
  /\ \E t \in Slot : /\ pid[t] \in KillPids
                     /\ lock[t] = 0
                     /\ killed' = [killed EXCEPT ![t] = TRUE]
  /\ UNCHANGED <<state, chan, pid, parent, nextpid, lock, cur, pc, cont, local, clock>>

\* clockintr() counts the tick and wakes nobody.
ClockWakesNobody ==
  /\ intr # 0
  /\ intr' = 0 /\ release(TICKS)
  /\ UNCHANGED <<table, cur, pc, cont, local, left>>

-------------------------------------------------------------------------------
(* Scheduling.                                                              *)

\* scheduler(): found a RUNNABLE slot, switches to its thread with p->lock held.
scheduler(c, s) ==
  /\ cur[c] = 0
  /\ ~(c = 1 /\ intr # 0)
  /\ state[s] = "RUNNABLE"
  /\ acquire(c, s)
  /\ state' = [state EXCEPT ![s] = "RUNNING"]
  /\ cur' = [cur EXCEPT ![c] = s]
  /\ UNCHANGED <<chan, killed, pid, parent, nextpid, pc, cont, local, clock>>

\* The thread comes back from sched() (in yield() or sleep()) or starts in
\* forkret(): sleep() clears p->chan, all release p->lock.
resume(c, s) ==
  /\ At(c, s, "resume")
  /\ chan' = [chan EXCEPT ![s] = 0]
  /\ release(s)
  /\ Goto(s, cont[s])
  /\ cont' = [cont EXCEPT ![s] = "user"]
  /\ UNCHANGED <<state, killed, pid, parent, nextpid, cur, local, clock>>

\* sched(): swtch to the scheduler, which clears c->proc and releases p->lock.
sched(c, s) ==
  /\ At(c, s, "sched")
  /\ cur' = [cur EXCEPT ![c] = 0]
  /\ release(s)
  /\ Goto(s, "resume")
  /\ UNCHANGED <<table, cont, local, clock>>

\* yield(), from a timer interrupt in user mode (usertrap, which first sends a
\* killed process to exit) or in the kernel (kerneltrap).
yield(c, s) ==
  /\ cur[c] = s
  /\ ~(c = 1 /\ intr # 0)
  /\ Held(c) = {}
  /\ ~(pc[s] = "user" /\ killed[s])
  /\ acquire(c, s)
  /\ state' = [state EXCEPT ![s] = "RUNNABLE"]
  /\ cont' = [cont EXCEPT ![s] = pc[s]]
  /\ Goto(s, "sched")
  /\ UNCHANGED <<chan, killed, pid, parent, nextpid, cur, local, clock>>

-------------------------------------------------------------------------------
(* sleep() and wakeup().                                                    *)

\* sleep(): acquire(&p->lock) while still holding lk.
sleep_acquire(c, s) ==
  /\ At(c, s, "sleep")
  /\ acquire(c, s)
  /\ Goto(s, "sleep_release")
  /\ UNCHANGED <<table, cur, cont, local, clock>>

\* sleep(): release(lk).
sleep_release(c, s) ==
  /\ At(c, s, "sleep_release")
  /\ release(lk[s])
  /\ Goto(s, "sleep_state")
  /\ UNCHANGED <<table, cur, cont, local, clock>>

\* sleep(): set chan and state, then sched().
sleep_state(c, s) ==
  /\ At(c, s, "sleep_state")
  /\ chan' = [chan EXCEPT ![s] = IF lk[s] = TICKS THEN TICKS ELSE s]
  /\ state' = [state EXCEPT ![s] = "SLEEPING"]
  /\ cont' = [cont EXCEPT ![s] = "relock"]
  /\ Goto(s, "sched")
  /\ UNCHANGED <<killed, pid, parent, nextpid, lock, cur, local, clock>>

\* sleep(): acquire(lk) again, and back to the loop that called it.
sleep_relock(c, s) ==
  /\ At(c, s, "relock")
  /\ acquire(c, lk[s])
  /\ IF lk[s] = TICKS
       THEN Goto(s, "tick_test") /\ UNCHANGED <<i, havekids>>
       ELSE /\ Goto(s, "wait_scan")
            /\ i' = [i EXCEPT ![s] = 1]
            /\ havekids' = [havekids EXCEPT ![s] = FALSE]
  /\ lk' = [lk EXCEPT ![s] = WAIT]
  /\ UNCHANGED <<table, cur, cont, j, np, clock>>

\* wakeup(ch): the visit of slot t by a thread of slot me.
wakeup(ch, t, me) ==
  /\ t # me => lock[t] = 0
  /\ state' = IF t # me /\ state[t] = "SLEEPING" /\ chan[t] = ch
                THEN [state EXCEPT ![t] = "RUNNABLE"] ELSE state

-------------------------------------------------------------------------------
(* System calls.  usertrap() lets a killed process make no new one.         *)

syscall(c, s, name) == At(c, s, "user") /\ ~killed[s] /\ name \in Syscalls

\* fork(): allocproc() takes an UNUSED slot; everything up to the release of
\* np->lock is one section.  When memory runs out freeproc() undoes it.
fork(c, s) ==
  /\ syscall(c, s, "fork")
  /\ nextpid <= MaxPid
  /\ nextpid' = nextpid + 1
  /\ \/ \E t \in Slot :
          /\ lock[t] = 0
          /\ state[t] = "UNUSED"
          /\ state' = [state EXCEPT ![t] = "USED"]
          /\ pid' = [pid EXCEPT ![t] = nextpid]
          /\ pc' = [pc EXCEPT ![t] = "resume", ![s] = "fork_parent"]
          /\ cont' = [cont EXCEPT ![t] = "user"]
          /\ np' = [np EXCEPT ![s] = t]
     \/ /\ \E t \in Slot : lock[t] = 0 /\ state[t] = "UNUSED"
        /\ UNCHANGED <<state, pid, pc, cont, np>>
  /\ UNCHANGED <<chan, killed, parent, lock, cur, i, j, havekids, lk, clock>>

\* fork(): np->parent = p under wait_lock.
fork_parent(c, s) ==
  /\ At(c, s, "fork_parent")
  /\ lock[WAIT] = 0
  /\ parent' = [parent EXCEPT ![np[s]] = s]
  /\ Goto(s, "fork_runnable")
  /\ UNCHANGED <<state, chan, killed, pid, nextpid, lock, cur, cont, local, clock>>

\* fork(): np->state = RUNNABLE under np->lock.
fork_runnable(c, s) ==
  /\ At(c, s, "fork_runnable")
  /\ lock[np[s]] = 0
  /\ state' = [state EXCEPT ![np[s]] = "RUNNABLE"]
  /\ np' = [np EXCEPT ![s] = 0]
  /\ Goto(s, "user")
  /\ UNCHANGED <<chan, killed, pid, parent, nextpid, lock, cur, cont, i, j, havekids, lk, clock>>

\* exit(), called by the program or by usertrap() for a killed process; init
\* does not exit.  Files and the current directory are closed before.
exit(c, s) ==
  /\ At(c, s, "user")
  /\ s # init
  /\ killed[s] \/ "exit" \in Syscalls
  /\ Goto(s, "exit")
  /\ UNCHANGED <<table, lock, cur, cont, local, clock>>

\* exit(): acquire(&wait_lock), enter reparent().
exit_wait_lock(c, s) ==
  /\ At(c, s, "exit")
  /\ acquire(c, WAIT)
  /\ Goto(s, "reparent")
  /\ i' = [i EXCEPT ![s] = 1]
  /\ UNCHANGED <<table, cur, cont, j, havekids, np, lk, clock>>

\* reparent(): look at slot i; a child goes to init and init is woken.
reparent(c, s) ==
  /\ At(c, s, "reparent")
  /\ IF parent[i[s]] = s
       THEN /\ parent' = [parent EXCEPT ![i[s]] = init]
            /\ Goto(s, "reparent_wakeup")
            /\ j' = [j EXCEPT ![s] = 1]
            /\ UNCHANGED i
       ELSE /\ IF i[s] < NPROC
                 THEN /\ i' = [i EXCEPT ![s] = @ + 1]
                      /\ UNCHANGED <<pc, j>>
                 ELSE /\ i' = [i EXCEPT ![s] = 0]
                      /\ j' = [j EXCEPT ![s] = 1]
                      /\ Goto(s, "exit_wakeup")
            /\ UNCHANGED parent
  /\ UNCHANGED <<state, chan, killed, pid, nextpid, lock, cur, cont, havekids, np, lk, clock>>

\* One step of a wakeup() loop of slot s that goes on at next.
WakeupLoop(c, s, ch, next) ==
  /\ wakeup(ch, j[s], s)
  /\ IF j[s] < NPROC
       THEN j' = [j EXCEPT ![s] = @ + 1] /\ UNCHANGED pc
       ELSE j' = [j EXCEPT ![s] = 0] /\ Goto(s, next)
  /\ UNCHANGED <<chan, killed, pid, parent, nextpid, lock, cur, cont, i, havekids, np, lk, clock>>

\* reparent(): wakeup(initproc).
reparent_wakeup(c, s) ==
  At(c, s, "reparent_wakeup") /\ WakeupLoop(c, s, init, "reparent")

\* exit(): wakeup(p->parent).
exit_wakeup(c, s) ==
  At(c, s, "exit_wakeup") /\ WakeupLoop(c, s, parent[s], "exit_zombie")

\* exit(): acquire(&p->lock), p->state = ZOMBIE.
exit_zombie(c, s) ==
  /\ At(c, s, "exit_zombie")
  /\ acquire(c, s)
  /\ state' = [state EXCEPT ![s] = "ZOMBIE"]
  /\ Goto(s, "exit_release")
  /\ UNCHANGED <<chan, killed, pid, parent, nextpid, cur, cont, local, clock>>

\* exit(): release(&wait_lock), sched().
exit_release(c, s) ==
  /\ At(c, s, "exit_release")
  /\ release(WAIT)
  /\ Goto(s, "sched")
  /\ UNCHANGED <<table, cur, cont, local, clock>>

\* wait(): acquire(&wait_lock).
wait(c, s) ==
  /\ syscall(c, s, "wait")
  /\ acquire(c, WAIT)
  /\ Goto(s, "wait_scan")
  /\ i' = [i EXCEPT ![s] = 1]
  /\ havekids' = [havekids EXCEPT ![s] = FALSE]
  /\ UNCHANGED <<table, cur, cont, j, np, lk, clock>>

\* freeproc(): what it clears of the slot.
freeproc(t) ==
  /\ state' = [state EXCEPT ![t] = "UNUSED"]
  /\ chan' = [chan EXCEPT ![t] = 0]
  /\ killed' = [killed EXCEPT ![t] = FALSE]
  /\ pid' = [pid EXCEPT ![t] = 0]
  /\ parent' = [parent EXCEPT ![t] = 0]

\* wait(): leave with wait_lock released.
wait_return(s) ==
  /\ release(WAIT)
  /\ Goto(s, "user")
  /\ i' = [i EXCEPT ![s] = 0]
  /\ havekids' = [havekids EXCEPT ![s] = FALSE]

\* A wait() that does not look at the last slot.
WaitScanMissesLast(c, s) ==
  LET t == i[s] IN
  /\ At(c, s, "wait_scan")
  /\ t <= NPROC
  /\ parent[t] = s => lock[t] = 0
  /\ \/ /\ parent[t] = s /\ state[t] = "ZOMBIE" /\ t < NPROC
        /\ freeproc(t)
        /\ wait_return(s)
     \/ /\ ~(parent[t] = s /\ state[t] = "ZOMBIE" /\ t < NPROC)
        /\ i' = [i EXCEPT ![s] = t + 1]
        /\ havekids' = [havekids EXCEPT ![s] = @ \/ (parent[t] = s /\ t < NPROC)]
        /\ UNCHANGED <<state, chan, killed, pid, parent, lock, pc>>
  /\ UNCHANGED <<nextpid, cur, cont, j, np, lk, clock>>

\* wait(): look at slot i.  A ZOMBIE child is freed, unless its status cannot
\* be copied out (init passes no address).
wait_scan(c, s) ==
  LET t == i[s] IN
  /\ At(c, s, "wait_scan")
  /\ t <= NPROC
  /\ parent[t] = s => lock[t] = 0
  /\ \/ /\ parent[t] = s /\ state[t] = "ZOMBIE"
        /\ \/ freeproc(t)
           \/ s # init /\ UNCHANGED <<state, chan, killed, pid, parent>>
        /\ wait_return(s)
     \/ /\ ~(parent[t] = s /\ state[t] = "ZOMBIE")
        /\ i' = [i EXCEPT ![s] = t + 1]
        /\ havekids' = [havekids EXCEPT ![s] = @ \/ parent[t] = s]
        /\ UNCHANGED <<state, chan, killed, pid, parent, lock, pc>>
  /\ UNCHANGED <<nextpid, cur, cont, j, np, lk, clock>>

\* wait(): after the scan, give up or sleep(p, &wait_lock).
wait_decide(c, s) ==
  /\ At(c, s, "wait_scan")
  /\ i[s] > NPROC
  /\ IF ~havekids[s] \/ killed[s]
       THEN wait_return(s)
       ELSE /\ Goto(s, "sleep")
            /\ i' = [i EXCEPT ![s] = 0]
            /\ havekids' = [havekids EXCEPT ![s] = FALSE]
            /\ UNCHANGED lock
  /\ UNCHANGED <<table, cur, cont, j, np, lk, clock>>

\* sys_sleep(): acquire(&tickslock), note the time.
sys_sleep(c, s) ==
  /\ syscall(c, s, "sleep")
  /\ acquire(c, TICKS)
  /\ \E n \in 0 .. MaxSleep : left' = [left EXCEPT ![s] = n]
  /\ Goto(s, "tick_test")
  /\ UNCHANGED <<table, cur, cont, local, intr>>

\* sys_sleep(): test the loop condition and p->killed; return or sleep(&ticks).
tick_test(c, s) ==
  /\ At(c, s, "tick_test")
  /\ IF left[s] = 0 \/ killed[s]
       THEN /\ release(TICKS)
            /\ Goto(s, "user")
            /\ left' = [left EXCEPT ![s] = 0]
            /\ UNCHANGED lk
       ELSE /\ Goto(s, "sleep")
            /\ lk' = [lk EXCEPT ![s] = TICKS]
            /\ UNCHANGED <<lock, left>>
  /\ UNCHANGED <<table, cur, cont, i, j, havekids, np, intr>>

\* kill(): the slot found is marked, and made runnable if it sleeps.
kill(c, s) ==
  /\ syscall(c, s, "kill")
  /\ \E t \in Slot :
       /\ pid[t] \in KillPids
       /\ lock[t] = 0
       /\ killed' = [killed EXCEPT ![t] = TRUE]
       /\ state' = IF state[t] = "SLEEPING" THEN [state EXCEPT ![t] = "RUNNABLE"] ELSE state
  /\ UNCHANGED <<chan, pid, parent, nextpid, lock, cur, pc, cont, local, clock>>

-------------------------------------------------------------------------------
(* The clock interrupt on CPU 1.                                            *)

\* clockintr(): acquire(&tickslock), ticks++.
clockintr ==
  /\ "sleep" \in Syscalls
  /\ intr = 0
  /\ Held(1) = {}
  /\ acquire(1, TICKS)
  /\ left' = [s \in Slot |-> IF left[s] > 0 THEN left[s] - 1 ELSE 0]
  /\ intr' = 1
  /\ UNCHANGED <<table, cur, pc, cont, local>>

\* clockintr(): wakeup(&ticks) slot by slot, then release(&tickslock).
clock_wakeup ==
  /\ intr # 0
  /\ wakeup(TICKS, intr, cur[1])
  /\ IF intr < NPROC
       THEN intr' = intr + 1 /\ UNCHANGED lock
       ELSE intr' = 0 /\ release(TICKS)
  /\ UNCHANGED <<chan, killed, pid, parent, nextpid, cur, pc, cont, local, left>>

-------------------------------------------------------------------------------

\* userinit() has made the first process.
Init ==
  /\ state = [s \in Slot |-> IF s = init THEN "RUNNABLE" ELSE "UNUSED"]
  /\ chan = [s \in Slot |-> 0]
  /\ killed = [s \in Slot |-> FALSE]
  /\ pid = [s \in Slot |-> IF s = init THEN 1 ELSE 0]
  /\ parent = [s \in Slot |-> 0]
  /\ nextpid = 2
  /\ lock = [l \in Lock |-> 0]
  /\ cur = [c \in CPU |-> 0]
  /\ pc = [s \in Slot |-> "resume"]
  /\ cont = [s \in Slot |-> "user"]
  /\ lk = [s \in Slot |-> WAIT]
  /\ i = [s \in Slot |-> 0]
  /\ j = [s \in Slot |-> 0]
  /\ havekids = [s \in Slot |-> FALSE]
  /\ np = [s \in Slot |-> 0]
  /\ left = [s \in Slot |-> 0]
  /\ intr = 0

\* What the thread of slot s does on CPU c, apart from switching and from
\* choosing a system call.
Step(c, s) ==
  \/ sleep_acquire(c, s) \/ sleep_release(c, s) \/ sleep_state(c, s) \/ sleep_relock(c, s)
  \/ fork_parent(c, s) \/ fork_runnable(c, s)
  \/ exit_wait_lock(c, s) \/ reparent(c, s) \/ reparent_wakeup(c, s)
  \/ exit_wakeup(c, s) \/ exit_zombie(c, s) \/ exit_release(c, s)
  \/ wait_scan(c, s) \/ wait_decide(c, s)
  \/ tick_test(c, s)

Call(c, s) == fork(c, s) \/ exit(c, s) \/ wait(c, s) \/ sys_sleep(c, s) \/ kill(c, s)

Switch(c, s) == scheduler(c, s) \/ resume(c, s) \/ sched(c, s) \/ yield(c, s)

Next ==
  \/ \E c \in CPU, s \in Slot : Switch(c, s) \/ Step(c, s) \/ Call(c, s)
  \/ clockintr
  \/ clock_wakeup

Spec == Init /\ [][Next]_vars

\* A CPU executes, and its timer interrupts a thread that keeps it; a scheduler
\* passes over the whole table again and again, so a slot that is RUNNABLE again
\* and again is run; a running thread gets somewhere between two interrupts (they
\* are far apart) and gets the spin locks it spins for (they are held for a few
\* instructions); init calls wait() for ever (user/init.c); the clock ticks.
Fairness ==
  /\ \A c \in CPU :
       /\ SF_vars(\E s \in Slot : resume(c, s) \/ sched(c, s) \/ (killed[s] /\ exit(c, s)))
       /\ SF_vars(\E s \in Slot : yield(c, s))
  /\ \A s \in Slot :
       /\ SF_vars(\E c \in CPU : scheduler(c, s))
       /\ SF_vars(\E c \in CPU : Step(c, s))
  /\ SF_vars(\E c \in CPU : wait(c, init))
  /\ SF_vars(clockintr)
  /\ SF_vars(clock_wakeup)

FairSpec == Spec /\ Fairness

-------------------------------------------------------------------------------
(* Properties.                                                              *)

Place == {"user", "resume", "sched", "sleep", "sleep_release", "sleep_state", "relock",
          "fork_parent", "fork_runnable", "exit", "reparent", "reparent_wakeup",
          "exit_wakeup", "exit_zombie", "exit_release", "wait_scan", "tick_test"}

\* Types of the process table, of the locks and of the threads' local variables;
\* the loop indices of wait(), reparent() and wakeup() stay in the table.
TypeOK ==
  /\ state \in [Slot -> {"UNUSED", "USED", "SLEEPING", "RUNNABLE", "RUNNING", "ZOMBIE"}]
  /\ chan \in [Slot -> 0 .. NPROC + 2]
  /\ killed \in [Slot -> BOOLEAN]
  /\ pid \in [Slot -> Nat]
  /\ parent \in [Slot -> 0 .. NPROC]
  /\ nextpid \in Nat
  /\ lock \in [Lock -> 0 .. NCPU]
  /\ cur \in [CPU -> 0 .. NPROC]
  /\ pc \in [Slot -> Place]
  /\ cont \in [Slot -> Place]
  /\ lk \in [Slot -> {WAIT, TICKS}]
  /\ i \in [Slot -> 0 .. NPROC + 1]
  /\ j \in [Slot -> 0 .. NPROC]
  /\ havekids \in [Slot -> BOOLEAN]
  /\ np \in [Slot -> 0 .. NPROC]
  /\ left \in [Slot -> Nat]
  /\ intr \in 0 .. NPROC

\* A kernel stack is used by one CPU at a time and is not given away while it
\* is in use: a thread runs on at most one CPU, and wait() does not free (nor
\* fork() reuse) the slot of a child still on its way out of exit() or swtch().
StackHasOneUser ==
  \A c \in CPU : cur[c] # 0 =>
    /\ \A d \in CPU : cur[d] = cur[c] => d = c
    /\ state[cur[c]] \notin {"UNUSED", "USED"}
    /\ state[cur[c]] \in {"RUNNABLE", "SLEEPING", "ZOMBIE"} => lock[cur[c]] = c

\* The panics of sched() are unreachable: a thread enters it with p->lock and
\* no other lock, no longer RUNNING; and a CPU in the scheduler holds nothing
\* but the tickslock of an interrupt.  The types hold with it.
SchedDiscipline ==
  /\ TypeOK
  /\ \A c \in CPU :
       /\ cur[c] = 0 => Held(c) \subseteq {TICKS}
       /\ \A s \in Slot : cur[c] = s /\ pc[s] = "sched" =>
            Held(c) = {s} /\ state[s] # "RUNNING"

\* proc.c 23-25: no wakeup is lost.  A process asleep in wait() has a child, and
\* if one is a ZOMBIE it is about to be woken by the exiting process that has
\* just handed it the child; one asleep in sys_sleep() whose time is over is
\* about to be reached by the wakeup(&ticks) of the clock interrupt.  Both hold
\* also when the event came while it was on its way into sleep() on another CPU.
NoLostWakeup ==
  \A s \in Slot : state[s] = "SLEEPING" =>
    /\ chan[s] = s => \E t \in Slot : parent[t] = s
    /\ chan[s] = s /\ (\E t \in Slot : state[t] = "ZOMBIE" /\ parent[t] = s) =>
         s = init /\ \E q \in Slot : pc[q] = "reparent_wakeup" /\ j[q] <= init
    /\ chan[s] = TICKS /\ left[s] = 0 => intr \in 1 .. s

\* Nobody is the child of a process that has exited: exit() gives every child
\* to init before it becomes a ZOMBIE, also one fork() is still making.
NoOrphans ==
  \A t \in Slot :
    /\ parent[t] # 0 => state[parent[t]] \notin {"UNUSED", "USED", "ZOMBIE"}
    /\ state[t] \in {"RUNNABLE", "RUNNING", "SLEEPING", "ZOMBIE"} /\ t # init => parent[t] # 0

\* kill(pid) marks the process with that pid and no other; in particular a new
\* process in a reused slot does not inherit the mark.
KilledByPid ==
  \A t \in Slot : killed[t] /\ state[t] # "UNUSED" => pid[t] \in KillPids

\* Every process that exits is reaped in the end if init inherits it or if it
\* is a child of init: the wakeup in exit() or reparent() reaches init's wait().
OrphansReaped ==
  \A t \in Slot : state[t] = "ZOMBIE" /\ parent[t] = init ~> state[t] = "UNUSED"

\* A killed process exits, whether it runs, is preempted, or sleeps in wait()
\* or sys_sleep() when kill() marks it.
KilledExits == \A s \in Slot : killed[s] ~> state[s] \in {"ZOMBIE", "UNUSED"}

\* kill() ends in exit() and exit() in wait(), for every process.
ProcessesEnd == KilledExits /\ OrphansReaped
===============================================================================

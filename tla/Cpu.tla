---------------------------------- MODULE Cpu ----------------------------------
(***************************************************************************)
(* Interrupts, spin locks and context switches: spinlock.c, trap.c, and     *)
(* scheduler(), sched(), yield(), sleep() and wakeup() of proc.c, with a     *)
(* step for each place where an interrupt or another CPU can come between.  *)
(*                                                                          *)
(* A context is a kernel thread or the scheduler of a CPU.  todo[x] is what *)
(* context x has still to do, innermost call first: an interrupt puts its   *)
(* handler in front.  One lock, DEV, stands for the locks that handlers     *)
(* share with system calls (tickslock, cons.lock, uart_tx_lock, vdisk_lock);*)
(* threads sleep on it and handlers wake them.  exit(), kill() and the      *)
(* creation of threads are in Proc.                                         *)
(***************************************************************************)
EXTENDS Integers, Sequences, SequencesExt, FiniteSets

CONSTANT Sizes   \* the numbers of CPUs and threads to look at

ASSUME CpuAssumption == Sizes \subseteq (Nat \ {0}) \X (Nat \ {0})

VARIABLES NCPU, NTHREAD   \* never change

Hart     == 1 .. NCPU                   \* hart 1 is the one with cpuid() 0
Thread   == 1 .. NTHREAD                \* also names the p->lock of the thread
DEV      == NTHREAD + 1
Lock     == 1 .. NTHREAD + 1
Sched(c) == NTHREAD + c                 \* the scheduler of CPU c
Context  == 1 .. NTHREAD + NCPU
Stale    == <<0, 0>>                    \* sepc once it is saved or used; intena is
                                        \* FALSE when noff is 0, until it is set again

VARIABLES
  intr,     \* SIE of each CPU
  stvec,    \* where its traps go
  sepc,     \* sepc and sstatus: the context and place that its last trap left
  noff, intena, cur,   \* struct cpu; cur is the context it runs
  lock,     \* the CPU that holds each lock, or 0
  state,    \* p->state
  user,     \* the thread is in user space
  epc,      \* p->trapframe->epc
  todo, panicked

regs    == <<intr, stvec, sepc>>
offs    == <<noff, intena>>
procs   == <<state, user, epc>>
cpuvars == <<NCPU, NTHREAD, regs, offs, cur, lock, procs, todo, panicked>>

-------------------------------------------------------------------------------
(* Mutations.                                                               *)

Op(o, a) == <<[op |-> o, arg |-> a]>>

\* acquire() takes the lock and then turns interrupts off.
SwapFirst(l) == Op("swap", l) \o Op("intr_get", 0)

\* usertrapret() leaves interrupts on while it changes stvec.
NoIntrOff(was) == Op("stvec_user", 0) \o Op("w_sepc", <<>>) \o Op("sret_user", 0)

\* usertrap() turns interrupts on before it has saved sepc.
SaveLate(body) == Op("stvec_kernel", 0) \o Op("intr_on", 0) \o Op("save_epc", 0) \o body

\* sched() does not restore intena.
KeepsIntena(c, saved) == intena[c]

-------------------------------------------------------------------------------
(* The bodies of functions, as operations.                                  *)

acquire(l)  == Op("intr_get", 0) \o Op("swap", l)
release(l)  == Op("release", l)
sched(p, s) == Op("state", s) \o Op("sched", p)
yield(p)    == acquire(p) \o sched(p, "RUNNABLE") \o release(p)
sleep(p)    == acquire(p) \o release(DEV) \o sched(p, "SLEEPING") \o release(p) \o acquire(DEV)

\* wakeup() passes over the thread that calls it.
RECURSIVE wakeup(_, _)
wakeup(x, p) ==
  IF p > NTHREAD THEN <<>>
  ELSE (IF p = x THEN <<>> ELSE acquire(p) \o Op("wake", p) \o release(p)) \o wakeup(x, p + 1)

\* devintr(), by what interrupts: a device that the PLIC lets this CPU serve,
\* one that another CPU serves, or the timer, which only hart 0 counts.
devintr(c, x, which) ==
  IF which = "device" \/ (which = "timer" /\ c = 1)
    THEN acquire(DEV) \o wakeup(x, 1) \o release(DEV)
    ELSE <<>>

\* The argument of intr_off() only says what SIE can be when it is called.
usertrapret(was) ==
  Op("intr_off", was) \o Op("stvec_user", 0) \o Op("w_sepc", <<>>) \o Op("sret_user", 0)

\* usertrap(), for a system call and for an interrupt.
usertrap_syscall(body) == Op("stvec_kernel", 0) \o Op("save_epc", 0) \o Op("intr_on", 0) \o body
usertrap_intr(c, x, which) ==
  Op("stvec_kernel", 0) \o Op("save_epc", 0) \o devintr(c, x, which)
    \o (IF which = "timer" THEN yield(x) ELSE <<>>) \o usertrapret({FALSE})

kerneltrap(c, x, which, saved) ==
  devintr(c, x, which) \o (IF which = "timer" THEN Op("tick", x) ELSE <<>>) \o Op("w_sepc", saved) \o Op("sret", 0)

RECURSIVE scan(_)
scan(p)   == IF p > NTHREAD THEN <<>> ELSE acquire(p) \o Op("try", p) \o release(p) \o scan(p + 1)
scheduler == Op("intr_on", 0) \o scan(1)

-------------------------------------------------------------------------------
(* Steps of CPU c.                                                          *)

\* The next operation of what c runs is o, and more is what follows it.
Does(c, o) == ~ panicked /\ todo[cur[c]] # <<>> /\ Head(todo[cur[c]]).op = o
Arg(c)     == Head(todo[cur[c]]).arg
GoOn(c, ops) == todo' = [todo EXCEPT ![cur[c]] = ops \o Tail(@)]

panic == panicked' = TRUE /\ UNCHANGED <<regs, offs, cur, lock, procs, todo>>

\* push_off() in two: an interrupt, and a move to another CPU, can come after
\* intr_get().
push_off_get(c) ==
  /\ Does(c, "intr_get")
  /\ GoOn(c, Op("off", intr[c]))
  /\ UNCHANGED <<regs, offs, cur, lock, procs, panicked>>

Intena(c, old) == IF noff[c] = 0 THEN old ELSE intena[c]

push_off(c) ==
  /\ Does(c, "off")
  /\ intr' = [intr EXCEPT ![c] = FALSE]
  /\ intena' = [intena EXCEPT ![c] = Intena(c, Arg(c))]
  /\ noff' = [noff EXCEPT ![c] = @ + 1]
  /\ GoOn(c, <<>>)
  /\ UNCHANGED <<stvec, sepc, cur, lock, procs, panicked>>

\* The rest of acquire(): panic if this CPU holds the lock, else spin.
acquire_swap(c) ==
  /\ Does(c, "swap")
  /\ IF lock[Arg(c)] = c THEN panic
     ELSE /\ lock[Arg(c)] = 0
          /\ lock' = [lock EXCEPT ![Arg(c)] = c]
          /\ GoOn(c, <<>>)
          /\ UNCHANGED <<regs, offs, cur, procs, panicked>>

\* pop_off() panics, or turns interrupts on.
PopPanics(c) == intr[c] \/ noff[c] < 1
PopsOn(c)    == noff[c] = 1 /\ intena[c]

\* release(), with its pop_off().
release_lock(c) ==
  /\ Does(c, "release")
  /\ IF lock[Arg(c)] # c \/ PopPanics(c) THEN panic
     ELSE /\ lock' = [lock EXCEPT ![Arg(c)] = 0]
          /\ noff' = [noff EXCEPT ![c] = @ - 1]
          /\ intr' = [intr EXCEPT ![c] = PopsOn(c)]
          /\ intena' = [intena EXCEPT ![c] = noff[c] > 1 /\ @]
          /\ GoOn(c, <<>>)
          /\ UNCHANGED <<stvec, sepc, cur, procs, panicked>>

\* p->state = ... before sched().
set_state(c) ==
  /\ Does(c, "state")
  /\ state' = [state EXCEPT ![cur[c]] = Arg(c)]
  /\ GoOn(c, <<>>)
  /\ UNCHANGED <<regs, offs, cur, lock, user, epc, panicked>>

\* sched(): the four panics, and swtch() to the scheduler.
sched_swtch(c) ==
  /\ Does(c, "sched")
  /\ LET p == Arg(c) IN
     IF lock[p] # c \/ noff[c] # 1 \/ state[p] = "RUNNING" \/ intr[c] THEN panic
     ELSE /\ cur' = [cur EXCEPT ![c] = Sched(c)]
          /\ GoOn(c, Op("resume", intena[c]))
          /\ UNCHANGED <<regs, offs, lock, procs, panicked>>

Restored(c, saved) == saved

\* sched() goes on, on the CPU that runs the thread now.
sched_resume(c) ==
  /\ Does(c, "resume")
  /\ intena' = [intena EXCEPT ![c] = Restored(c, Arg(c))]
  /\ GoOn(c, <<>>)
  /\ UNCHANGED <<regs, noff, cur, lock, procs, panicked>>

\* scheduler(): switch to a thread that can run.
scheduler_try(c) ==
  /\ Does(c, "try")
  /\ GoOn(c, <<>>)
  /\ IF state[Arg(c)] = "RUNNABLE"
       THEN /\ state' = [state EXCEPT ![Arg(c)] = "RUNNING"]
            /\ cur' = [cur EXCEPT ![c] = Arg(c)]
       ELSE UNCHANGED <<state, cur>>
  /\ UNCHANGED <<regs, offs, lock, user, epc, panicked>>

scheduler_loop(c) ==
  /\ ~ panicked /\ cur[c] = Sched(c) /\ todo[cur[c]] = <<>>
  /\ todo' = [todo EXCEPT ![cur[c]] = scheduler]
  /\ UNCHANGED <<regs, offs, cur, lock, procs, panicked>>

wakeup_one(c) ==
  /\ Does(c, "wake")
  /\ state' = IF state[Arg(c)] = "SLEEPING" THEN [state EXCEPT ![Arg(c)] = "RUNNABLE"] ELSE state
  /\ GoOn(c, <<>>)
  /\ UNCHANGED <<regs, offs, cur, lock, user, epc, panicked>>

\* intr_on(), intr_off() and the writes of stvec, sepc and the trapframe.
register(c) ==
  /\ \/ /\ Does(c, "intr_on") /\ intr' = [intr EXCEPT ![c] = TRUE] /\ UNCHANGED <<stvec, sepc, epc>>
     \/ /\ Does(c, "intr_off") /\ intr' = [intr EXCEPT ![c] = FALSE] /\ UNCHANGED <<stvec, sepc, epc>>
     \/ /\ Does(c, "stvec_user") /\ stvec' = [stvec EXCEPT ![c] = "uservec"] /\ UNCHANGED <<intr, sepc, epc>>
     \/ /\ Does(c, "stvec_kernel") /\ stvec' = [stvec EXCEPT ![c] = "kernelvec"] /\ UNCHANGED <<intr, sepc, epc>>
     \/ /\ Does(c, "save_epc") /\ epc' = [epc EXCEPT ![cur[c]] = sepc[c]]
        /\ sepc' = [sepc EXCEPT ![c] = Stale] /\ UNCHANGED <<intr, stvec>>
     \/ /\ Does(c, "w_sepc")
        /\ sepc' = [sepc EXCEPT ![c] = IF Arg(c) = <<>> THEN epc[cur[c]] ELSE Arg(c)]
        /\ UNCHANGED <<intr, stvec, epc>>
  /\ GoOn(c, <<>>)
  /\ UNCHANGED <<offs, cur, lock, state, user, panicked>>
\* The end of kerneltrap(): a timer interrupt of a thread that runs ends in
\* yield().
kerneltrap_yield(c) ==
  /\ Does(c, "tick")
  /\ GoOn(c, IF Arg(c) \in Thread /\ state[Arg(c)] = "RUNNING" THEN yield(Arg(c)) ELSE <<>>)
  /\ UNCHANGED <<regs, offs, cur, lock, procs, panicked>>

\* sret restores SIE, which was on when the trap came, and the mode.
sret(c) ==
  /\ Does(c, "sret") \/ Does(c, "sret_user")
  /\ intr' = [intr EXCEPT ![c] = TRUE]
  /\ user' = IF Does(c, "sret_user") THEN [user EXCEPT ![cur[c]] = TRUE] ELSE user
  /\ sepc' = [sepc EXCEPT ![c] = Stale]
  /\ GoOn(c, <<>>)
  /\ UNCHANGED <<stvec, offs, cur, lock, state, epc, panicked>>

InUser(c) == cur[c] \in Thread /\ user[cur[c]]

\* A trap: SIE goes off and sepc is set.  Through the wrong vector, usertrap() or
\* kerneltrap() panics.
trap(c, body) ==
  IF stvec[c] # (IF InUser(c) THEN "uservec" ELSE "kernelvec") THEN panic
  ELSE /\ intr' = [intr EXCEPT ![c] = FALSE]
       /\ sepc' = [sepc EXCEPT ![c] = IF InUser(c) THEN <<cur[c], 0>> ELSE Stale]
       /\ user' = IF InUser(c) THEN [user EXCEPT ![cur[c]] = FALSE] ELSE user
       /\ todo' = [todo EXCEPT ![cur[c]] = body \o @]
       /\ UNCHANGED <<stvec, offs, cur, lock, state, epc, panicked>>

interrupt(c, which) ==
  /\ ~ panicked
  /\ intr[c]
  /\ LET x == cur[c] IN
     trap(c, IF InUser(c) THEN usertrap_intr(c, x, which)
             ELSE kerneltrap(c, x, which, <<x, Len(todo[x])>>))

\* A system call that needs no lock, one that uses DEV, one that sleeps on it.
syscall(c) ==
  /\ ~ panicked
  /\ InUser(c)
  /\ \E body \in {<<>>, acquire(DEV) \o release(DEV), acquire(DEV) \o sleep(cur[c]) \o release(DEV)} :
       trap(c, usertrap_syscall(body) \o usertrapret({TRUE}))

\* All CPUs enter scheduler(), and each thread is to leave sched() for forkret().
CpuInit ==
  /\ \E size \in Sizes : NCPU = size[1] /\ NTHREAD = size[2]
  /\ intr = [c \in Hart |-> FALSE] /\ stvec = [c \in Hart |-> "kernelvec"]
  /\ sepc = [c \in Hart |-> Stale]
  /\ noff = [c \in Hart |-> 0] /\ intena = [c \in Hart |-> FALSE]
  /\ cur = [c \in Hart |-> Sched(c)]
  /\ lock = [l \in Lock |-> 0]
  /\ state = [p \in Thread |-> "RUNNABLE"]
  /\ user = [p \in Thread |-> FALSE]
  /\ epc = [p \in Thread |-> <<p, 0>>]
  /\ todo = [x \in Context |-> IF x \in Thread THEN release(x) \o usertrapret(BOOLEAN) ELSE <<>>]
  /\ panicked = FALSE

CpuNext ==
  /\ UNCHANGED <<NCPU, NTHREAD>>
  /\ \E c \in Hart :
       \/ push_off_get(c) \/ push_off(c) \/ acquire_swap(c) \/ release_lock(c)
       \/ set_state(c) \/ sched_swtch(c) \/ sched_resume(c)
       \/ scheduler_try(c) \/ scheduler_loop(c) \/ wakeup_one(c)
       \/ register(c) \/ kerneltrap_yield(c) \/ sret(c) \/ syscall(c)
       \/ \E which \in {"device", "other", "timer"} : interrupt(c, which)

-------------------------------------------------------------------------------
(* Properties.                                                              *)

\* No lock is acquired twice or released by another CPU, pop_off() is never
\* called with interrupts on or too often, sched() always finds p->lock and no
\* other lock held, and no trap goes through the vector of the other mode.
NoPanic == ~ panicked

\* noff counts the locks that the CPU holds, and the one it is spinning for, also
\* after the thread that took one was moved to another CPU; while it is not zero
\* no interrupt is taken, so no handler waits for a lock of what it interrupted.
LocksHeldOff == \A c \in Hart :
  /\ noff[c] = Cardinality({l \in Lock : lock[l] = c}) + (IF Does(c, "swap") THEN 1 ELSE 0)
  /\ noff[c] > 0 => ~ intr[c]

Handlers(x) == {k \in DOMAIN todo[x] : todo[x][k].op = "sret"}

\* A handler runs with interrupts off from end to end, over the yield() in it and
\* whatever CPU it ends on: two never lie on the one page of a kernel stack, and
\* a system call that was interrupted, or slept, goes on with interrupts on.
HandlersDontNest ==
  /\ \A x \in Context : Cardinality(Handlers(x)) <= 1
  /\ \A c \in Hart : ~ panicked =>
       /\ Handlers(cur[c]) # {} => ~ intr[c]
       /\ Does(c, "intr_off") => intr[c] \in Arg(c)

\* sret goes back to what the trap left, although other traps have used sepc and
\* sstatus of the CPU, or the thread has changed CPU, since.
ReturnsWhereTrapped == \A c \in Hart :
  Does(c, "sret") \/ Does(c, "sret_user") => sepc[c] = <<cur[c], Len(todo[cur[c]]) - 1>>

\* Locks and interrupts stay in step on every CPU, over interrupts and moves.
LockInv == NoPanic /\ LocksHeldOff

\* Traps return to what they interrupted, in the state they found.
TrapInv == HandlersDontNest /\ ReturnsWhereTrapped
===============================================================================

------------------------------ MODULE ProcProofs ------------------------------
(***************************************************************************)
(* The rest of the proofs about module Proc: exit(), wait(), sys_sleep(),   *)
(* kill() and the clock, and the theorems.                                  *)
(***************************************************************************)
EXTENDS ProcSteps

USE SMTT(60), ZenonT(60)
USE Names

\* reparent(): wakeup(initproc) reaches init, which cannot hide on its way into sleep().
LEMMA ReparentWakeupStep ==
  ASSUME IInv, NEW c \in CPU, NEW s \in Slot, reparent_wakeup(c, s)
  PROVE  IInv'
<1> state[s] = "RUNNING"
  BY Runs, ZenonT(60) DEF reparent_wakeup, At
<1> j[s] \in Slot
  BY ZenonT(60) DEF IInv, Indices, reparent_wakeup, At
<1>1. Types'
  BY Order DEF IInv, Types, Place, reparent_wakeup, Goto, clock, wakeup, WakeupLoop
<1>2. Threads'
  BY DEF IInv, Types, Threads, reparent_wakeup, Goto, wakeup, WakeupLoop
<1>3. Locks'
  BY DEF IInv, Types, Locks, Own, reparent_wakeup, At, Goto, WakeupLoop
<1>4. WaitLock'
  BY DEF IInv, Types, WaitLock, HasWait, Exit, reparent_wakeup, At, Goto, WakeupLoop
<1>5. TicksLock'
  BY DEF IInv, Types, Threads, TicksLock, HasTicks, ToSleep, reparent_wakeup, At, Goto, clock, WakeupLoop
<1>6. Indices'
  BY Order DEF IInv, Types, Indices, at, ToSleep, reparent_wakeup, At, Goto, wakeup, WakeupLoop
<1>7. Forks'
  BY DEF IInv, Types, Forks, at, reparent_wakeup, Goto, wakeup, WakeupLoop
<1>8. Exits'
  BY DEF IInv, Types, Exits, at, Exit, reparent_wakeup, At, Goto, wakeup, WakeupLoop
<1>9. NoOrphans'
  BY DEF IInv, NoOrphans, reparent_wakeup, wakeup, WakeupLoop
<1>10. Children'
  <2> SUFFICES ASSUME NEW q \in Slot
               PROVE  /\ pc'[q] # "wait_scan"
                      /\ Waits(q)' =>
                           /\ \E t \in Slot : parent'[t] = q
                           /\ \A t \in Slot : parent'[t] = q =>
                                /\ pc'[t] = "exit_wakeup" => j'[t] <= q
                                /\ pc'[t] \notin {"exit_zombie", "exit_release"}
                                /\ state'[t] = "ZOMBIE" =>
                                     q = init /\ \E u \in Slot : pc'[u] = "reparent_wakeup" /\ j'[u] <= init
    BY ZenonT(60) DEF Children
  <2>1. HasWait(s) /\ \A t \in Slot : HasWait(t) => t = s
    BY OneWaits, ZenonT(60) DEF HasWait, Exit, reparent_wakeup, At
  <2>2. pc'[q] # "wait_scan" /\ parent' = parent
    BY <2>1 DEF IInv, Types, HasWait, reparent_wakeup, WakeupLoop, At, Goto
  <2>3. ASSUME Waits(q)'
        PROVE  Waits(q) /\ q # s
    BY <2>3, ZenonT(60) DEF IInv, Types, Waits, reparent_wakeup, WakeupLoop, wakeup, At, Goto
  <2>4. ASSUME Waits(q)', q = init
        PROVE  j[s] # q
    <3>1. SUFFICES ASSUME j[s] = q
                   PROVE  FALSE
      BY ZenonT(60)
    <3>2. /\ lock[q] = 0
          /\ state' = IF state[q] = "SLEEPING" /\ chan[q] = q
                      THEN [state EXCEPT ![q] = "RUNNABLE"] ELSE state
      BY <2>3, <2>4, <3>1, ZenonT(60) DEF reparent_wakeup, WakeupLoop, wakeup
    <3>3. pc[q] \notin {"sleep", "sleep_release", "sleep_state"} \/ lk[q] # WAIT
      BY Unlocked, <2>1, <2>3, <2>4, <3>2, ZenonT(60) DEF HasWait, ToSleep
    <3>4. pc'[q] = pc[q] /\ lk' = lk /\ chan' = chan
      BY <2>3, <2>4, ZenonT(60) DEF IInv, Types, reparent_wakeup, WakeupLoop, Goto
    <3> QED
      BY <2>3, <2>4, <3>2, <3>3, <3>4, ZenonT(60) DEF IInv, Types, Waits
  <2>5. ASSUME Waits(q)', NEW t \in Slot, parent[t] = q
        PROVE  /\ pc'[t] = "exit_wakeup" => j'[t] <= q
               /\ pc'[t] \notin {"exit_zombie", "exit_release"}
               /\ state'[t] # "ZOMBIE"
    <3>1. pc[t] = "exit_wakeup" => j[t] <= q /\ t = s
      BY <2>1, <2>3, <2>5, ZenonT(60) DEF IInv, Children, HasWait, Exit
    <3>2. pc[t] \notin {"exit_zombie", "exit_release"}
      BY <2>3, <2>5, ZenonT(60) DEF IInv, Children
    <3>3. state[t] # "ZOMBIE"
      <4>1. SUFFICES ASSUME state[t] = "ZOMBIE"
                     PROVE  FALSE
        BY ZenonT(60)
      <4>2. q = init /\ j[s] <= init
        BY <2>1, <2>3, <2>5, <4>1, ZenonT(60) DEF IInv, Children, HasWait, Exit
      <4>3. j[s] = init
        BY <4>2, ProcAssumption DEF Slot, init
      <4> QED
        BY <2>4, <2>5, <4>2, <4>3, ZenonT(60)
    <3>4. state'[t] # "ZOMBIE"
      BY <3>3 DEF reparent_wakeup, WakeupLoop, wakeup
    <3> QED
      BY Order, <2>4, <2>5, <3>1, <3>2, <3>4 DEF IInv, Types, reparent_wakeup, WakeupLoop, At, Goto
  <2> QED
    BY <2>2, <2>3, <2>5, ZenonT(60) DEF IInv, Children
<1>11. Time'
  BY ZenonT(60) DEF IInv, Types, Time, Dozes, reparent_wakeup, Goto, clock, wakeup, WakeupLoop
<1> QED
  BY <1>1, <1>2, <1>3, <1>4, <1>5, <1>6, <1>7, <1>8, <1>9, <1>10, <1>11, ZenonT(60) DEF IInv

\* exit(): wakeup(p->parent) reaches the parent, which cannot hide on its way into sleep().
LEMMA ExitWakeupStep ==
  ASSUME IInv, NEW c \in CPU, NEW s \in Slot, exit_wakeup(c, s)
  PROVE  IInv'
<1> state[s] = "RUNNING"
  BY Runs, ZenonT(60) DEF exit_wakeup, At
<1> j[s] \in Slot
  BY ZenonT(60) DEF IInv, Indices, exit_wakeup, At
<1>1. Types'
  BY Order DEF IInv, Types, Place, exit_wakeup, Goto, clock, wakeup, WakeupLoop
<1>2. Threads'
  BY DEF IInv, Types, Threads, exit_wakeup, Goto, wakeup, WakeupLoop
<1>3. Locks'
  BY DEF IInv, Types, Locks, Own, exit_wakeup, At, Goto, WakeupLoop
<1>4. WaitLock'
  BY DEF IInv, Types, WaitLock, HasWait, Exit, exit_wakeup, At, Goto, WakeupLoop
<1>5. TicksLock'
  BY DEF IInv, Types, Threads, TicksLock, HasTicks, ToSleep, exit_wakeup, At, Goto, clock, WakeupLoop
<1>6. Indices'
  BY Order DEF IInv, Types, Indices, at, ToSleep, exit_wakeup, At, Goto, wakeup, WakeupLoop
<1>7. Forks'
  BY DEF IInv, Types, Forks, at, exit_wakeup, Goto, wakeup, WakeupLoop
<1>8. Exits'
  BY DEF IInv, Types, Exits, at, Exit, exit_wakeup, At, Goto, wakeup, WakeupLoop
<1>9. NoOrphans'
  BY DEF IInv, NoOrphans, exit_wakeup, wakeup, WakeupLoop
<1>10. Children'
  <2> SUFFICES ASSUME NEW q \in Slot
               PROVE  /\ pc'[q] # "wait_scan"
                      /\ Waits(q)' =>
                           /\ \E t \in Slot : parent'[t] = q
                           /\ \A t \in Slot : parent'[t] = q =>
                                /\ pc'[t] = "exit_wakeup" => j'[t] <= q
                                /\ pc'[t] \notin {"exit_zombie", "exit_release"}
                                /\ state'[t] = "ZOMBIE" =>
                                     q = init /\ \E u \in Slot : pc'[u] = "reparent_wakeup" /\ j'[u] <= init
    BY ZenonT(60) DEF Children
  <2>1. HasWait(s) /\ \A t \in Slot : HasWait(t) => t = s
    BY OneWaits, ZenonT(60) DEF HasWait, Exit, exit_wakeup, At
  <2>2. pc'[q] # "wait_scan" /\ parent' = parent
    BY <2>1 DEF IInv, Types, HasWait, exit_wakeup, WakeupLoop, At, Goto
  <2>3. ASSUME Waits(q)'
        PROVE  Waits(q) /\ q # s
    BY <2>3, ZenonT(60) DEF IInv, Types, Waits, exit_wakeup, WakeupLoop, wakeup, At, Goto
  <2>4. ASSUME Waits(q)', q = parent[s]
        PROVE  j[s] # q
    <3>1. SUFFICES ASSUME j[s] = q
                   PROVE  FALSE
      BY ZenonT(60)
    <3>2. /\ lock[q] = 0
          /\ state' = IF state[q] = "SLEEPING" /\ chan[q] = q
                      THEN [state EXCEPT ![q] = "RUNNABLE"] ELSE state
      BY <2>3, <2>4, <3>1, ZenonT(60) DEF exit_wakeup, WakeupLoop, wakeup
    <3>3. pc[q] \notin {"sleep", "sleep_release", "sleep_state"} \/ lk[q] # WAIT
      BY Unlocked, <2>1, <2>3, <2>4, <3>2, ZenonT(60) DEF HasWait, ToSleep
    <3>4. pc'[q] = pc[q] /\ lk' = lk /\ chan' = chan
      BY <2>3, <2>4, ZenonT(60) DEF IInv, Types, exit_wakeup, WakeupLoop, Goto
    <3> QED
      BY <2>3, <2>4, <3>2, <3>3, <3>4, ZenonT(60) DEF IInv, Types, Waits
  <2>5. ASSUME Waits(q)', NEW t \in Slot, parent[t] = q
        PROVE  /\ pc'[t] = "exit_wakeup" => j'[t] <= q
               /\ pc'[t] \notin {"exit_zombie", "exit_release"}
               /\ state'[t] # "ZOMBIE"
    <3>1. pc[t] = "exit_wakeup" => j[t] <= q /\ t = s
      BY <2>1, <2>3, <2>5, ZenonT(60) DEF IInv, Children, HasWait, Exit
    <3>2. pc[t] \notin {"exit_zombie", "exit_release"}
      BY <2>3, <2>5, ZenonT(60) DEF IInv, Children
    <3>3. state[t] # "ZOMBIE"
      BY <2>1, <2>3, <2>5 DEF IInv, Children, HasWait, Exit, exit_wakeup, At
    <3>4. state'[t] # "ZOMBIE"
      BY <3>3 DEF exit_wakeup, WakeupLoop, wakeup
    <3> QED
      BY Order, <2>4, <2>5, <3>1, <3>2, <3>4 DEF IInv, Types, exit_wakeup, WakeupLoop, At, Goto
  <2> QED
    BY <2>2, <2>3, <2>5, ZenonT(60) DEF IInv, Children
<1>11. Time'
  BY ZenonT(60) DEF IInv, Types, Time, Dozes, exit_wakeup, Goto, clock, wakeup, WakeupLoop
<1> QED
  BY <1>1, <1>2, <1>3, <1>4, <1>5, <1>6, <1>7, <1>8, <1>9, <1>10, <1>11, ZenonT(60) DEF IInv

\* exit() becomes a ZOMBIE: it has no child, and its parent does not sleep in wait().
LEMMA ExitZombieStep ==
  ASSUME IInv, NEW c \in CPU, NEW s \in Slot, exit_zombie(c, s)
  PROVE  IInv'
<1> state[s] = "RUNNING"
  BY Runs, ZenonT(60) DEF exit_zombie, At
<1>1. Types'
  BY ZenonT(60) DEF IInv, Types, Place, exit_zombie, Goto, acquire, local, clock
<1>2. Threads'
  BY DEF IInv, Types, Threads, exit_zombie, Goto
<1>3. Locks'
  BY DEF IInv, Types, Threads, Locks, Own, exit_zombie, At, Goto, acquire
<1>4. WaitLock'
  BY DEF IInv, WaitLock, HasWait, Exit, exit_zombie, At, Goto, acquire, local
<1>5. TicksLock'
  BY DEF IInv, Threads, TicksLock, HasTicks, ToSleep, exit_zombie, At, Goto, acquire, local, clock
<1>6. Indices'
  BY DEF IInv, Types, Indices, at, ToSleep, exit_zombie, At, Goto, local
<1>7. Forks'
  BY DEF IInv, Forks, at, exit_zombie, Goto, local
<1>8. Exits'
  BY DEF IInv, Exits, at, Exit, exit_zombie, At, Goto, local
<1>9. NoOrphans'
  BY DEF IInv, NoOrphans, Exits, exit_zombie, At
<1>10. Children'
  BY DEF IInv, Children, Waits, WaitLock, HasWait, Exit, exit_zombie, At, Goto, local
<1>11. Time'
  BY DEF IInv, Time, Dozes, exit_zombie, Goto, local, clock
<1> QED
  BY <1>1, <1>2, <1>3, <1>4, <1>5, <1>6, <1>7, <1>8, <1>9, <1>10, <1>11, ZenonT(60) DEF IInv

\* exit() releases wait_lock and enters sched() with p->lock alone.
LEMMA ExitReleaseStep ==
  ASSUME IInv, NEW c \in CPU, NEW s \in Slot, exit_release(c, s)
  PROVE  IInv'
<1>1. Types'
  BY ZenonT(60) DEF IInv, Types, Place, exit_release, Goto, release, table, local, clock
<1>2. Threads'
  BY DEF IInv, Threads, exit_release, At, Goto, table
<1>3. Locks'
  BY DEF IInv, Types, Locks, Own, exit_release, At, Goto, release
<1>4. WaitLock'
  BY ZenonT(60) DEF IInv, Types, WaitLock, HasWait, Exit, ToSleep, exit_release, At, Goto, release, local
<1>5. TicksLock'
  BY DEF IInv, Threads, TicksLock, HasTicks, ToSleep, exit_release, At, Goto, release, local, clock
<1>6. Indices'
  BY DEF IInv, Indices, at, ToSleep, exit_release, At, Goto, table, local
<1>7. Forks'
  BY DEF IInv, Forks, at, Indices, exit_release, Goto, table, local
<1>8. Exits'
  BY DEF IInv, Exits, at, Exit, exit_release, At, Goto, table, local
<1>9. NoOrphans'
  BY ZenonT(60) DEF IInv, NoOrphans, exit_release, table
<1>10. Children'
  BY DEF IInv, Children, Waits, exit_release, At, Goto, table, local
<1>11. Time'
  BY DEF IInv, Time, Dozes, exit_release, Goto, table, local, clock
<1> QED
  BY <1>1, <1>2, <1>3, <1>4, <1>5, <1>6, <1>7, <1>8, <1>9, <1>10, <1>11, ZenonT(60) DEF IInv

\* wait() takes wait_lock and has seen no slot yet.
LEMMA WaitStep ==
  ASSUME IInv, NEW c \in CPU, NEW s \in Slot, wait(c, s)
  PROVE  IInv'
<1>1. Types'
  BY ZenonT(60) DEF IInv, Types, Place, wait, Goto, acquire, table, clock
<1>2. Threads'
  BY DEF IInv, Threads, wait, At, Goto, table, syscall
<1>3. Locks'
  BY DEF IInv, Locks, Own, wait, At, Goto, acquire, syscall
<1>4. WaitLock'
  BY ZenonT(60) DEF IInv, Types, WaitLock, HasWait, wait, At, Goto, acquire, syscall
<1>5. TicksLock'
  BY DEF IInv, Threads, TicksLock, HasTicks, ToSleep, wait, At, Goto, acquire, clock, syscall
<1>6. Indices'
  BY ZenonT(60) DEF IInv, Types, Indices, at, ToSleep, wait, At, Goto, table, syscall
<1>7. Forks'
  BY DEF IInv, Forks, at, wait, Goto, table
<1>8. Exits'
  BY ZenonT(60) DEF IInv, Types, Exits, at, Exit, wait, Goto, table
<1>9. NoOrphans'
  BY ZenonT(60) DEF IInv, NoOrphans, wait, table
<1>10. Children'
  BY Order DEF IInv, Types, Children, Waits, wait, At, Goto, table, syscall
<1>11. Time'
  BY DEF IInv, Time, Dozes, wait, Goto, table, clock
<1> QED
  BY <1>1, <1>2, <1>3, <1>4, <1>5, <1>6, <1>7, <1>8, <1>9, <1>10, <1>11, ZenonT(60) DEF IInv

\* wait() frees a ZOMBIE whose p->lock is free, so that no CPU is on its stack, or notes a child.
LEMMA WaitScanStep ==
  ASSUME IInv, NEW c \in CPU, NEW s \in Slot, wait_scan(c, s)
  PROVE  IInv'
<1> state[s] = "RUNNING"
  BY Runs, ZenonT(60) DEF wait_scan, At
<1> cur[c] = s /\ pc[s] = "wait_scan" /\ i[s] \in Slot /\ UNCHANGED <<nextpid, cur, cont, j, np, lk, clock>>
  BY Order, ZenonT(60) DEF IInv, Types, Indices, wait_scan, At
<1> \/ /\ parent[i[s]] = s /\ state[i[s]] = "ZOMBIE" /\ lock[i[s]] = 0
       /\ freeproc(i[s]) \/ UNCHANGED <<state, chan, killed, pid, parent>>
       /\ lock' = [lock EXCEPT ![WAIT] = 0] /\ pc' = [pc EXCEPT ![s] = "user"] /\ i' = [i EXCEPT ![s] = 0]
       /\ havekids' = [havekids EXCEPT ![s] = FALSE]
    \/ /\ ~(parent[i[s]] = s /\ state[i[s]] = "ZOMBIE")
       /\ i' = [i EXCEPT ![s] = i[s] + 1]
       /\ \E b \in BOOLEAN : (b <=> havekids[s] \/ parent[i[s]] = s) /\ havekids' = [havekids EXCEPT ![s] = b]
       /\ UNCHANGED <<state, chan, killed, pid, parent, lock, pc>>
  BY ZenonT(60) DEF wait_scan, wait_return, Goto, release
<1>1. Types'
  <2>1. \E b \in BOOLEAN : havekids' = [havekids EXCEPT ![s] = b]
    BY ZenonT(60)
  <2>2. havekids' \in [Slot -> BOOLEAN]
    BY <2>1, ZenonT(60) DEF IInv, Types
  <2>3. i' \in [Slot -> Index] /\ pc' \in [Slot -> Place] /\ lock' \in [Lock -> CPU0]
    BY Order DEF IInv, Types, Place
  <2>4. killed' = killed \/ killed' = [killed EXCEPT ![i[s]] = FALSE]
    BY ZenonT(60) DEF freeproc
  <2>5. killed' \in [Slot -> BOOLEAN]
    BY <2>4, ZenonT(60) DEF IInv, Types
  <2>6. /\ state' \in [Slot -> {"UNUSED", "USED", "SLEEPING", "RUNNABLE", "RUNNING", "ZOMBIE"}]
        /\ chan' \in [Slot -> Chan] /\ pid' \in [Slot -> Nat] /\ parent' \in [Slot -> Slot0]
    BY DEF IInv, Types, freeproc
  <2> QED
    BY <2>2, <2>3, <2>5, <2>6, ZenonT(60) DEF IInv, Types, clock
<1>2. Threads'
  BY DEF IInv, Types, Threads, Locks, Own, clock, freeproc
<1>3. Locks'
  BY DEF IInv, Types, Locks, Own, clock
<1>4. WaitLock'
  BY DEF IInv, Types, WaitLock, HasWait, Exit, ToSleep
<1>5. TicksLock'
  BY DEF IInv, Types, TicksLock, HasTicks, Free, ToSleep, clock
<1>6. Indices'
  BY Order DEF IInv, Types, Indices, at, ToSleep, freeproc
<1>7. Forks'
  BY DEF IInv, Types, Forks, at, freeproc
<1>8. Exits'
  BY DEF IInv, Types, Exits, at, Exit, freeproc
<1>9. NoOrphans'
  BY DEF IInv, Types, NoOrphans, freeproc
<1>10. Children'
  <2> SUFFICES ASSUME NEW q \in Slot
               PROVE  /\ pc'[q] = "wait_scan" =>
                           /\ havekids'[q] => \E t \in Slot : parent'[t] = q
                           /\ \A t \in Slot : t < i'[q] /\ parent'[t] = q => havekids'[q] /\ state'[t] # "ZOMBIE"
                      /\ Waits(q)' =>
                           /\ \E t \in Slot : parent'[t] = q
                           /\ \A t \in Slot : parent'[t] = q =>
                                /\ pc'[t] = "exit_wakeup" => j'[t] <= q
                                /\ pc'[t] \notin {"exit_zombie", "exit_release"}
                                /\ state'[t] # "ZOMBIE"
    BY DEF Children
  <2>1. HasWait(s) /\ \A t \in Slot : HasWait(t) => t = s
    BY OneWaits, ZenonT(60) DEF HasWait
  <2>2. CASE q = s
    <3>1. ~Waits(q)'
      BY <2>2, ZenonT(60) DEF IInv, Types, Waits, freeproc
    <3>2. ASSUME pc'[q] = "wait_scan"
          PROVE  /\ i'[q] = i[s] + 1 /\ parent' = parent /\ state' = state
                 /\ ~(parent[i[s]] = s /\ state[i[s]] = "ZOMBIE")
                 /\ havekids'[q] <=> havekids[s] \/ parent[i[s]] = s
      BY <2>2, <3>2, ZenonT(60) DEF IInv, Types
    <3>3. /\ havekids[s] => \E t \in Slot : parent[t] = s
          /\ \A t \in Slot : t < i[s] /\ parent[t] = s => havekids[s] /\ state[t] # "ZOMBIE"
      BY ZenonT(60) DEF IInv, Children
    <3>4. \A t \in Slot : t < i[s] + 1 => t < i[s] \/ t = i[s]
      BY Order, ZenonT(60)
    <3> QED
      BY <2>2, <3>1, <3>2, <3>3, <3>4
  <2>3. CASE q # s
    <3>1. pc'[q] # "wait_scan"
      BY <2>1, <2>3, ZenonT(60) DEF IInv, Types, HasWait
    <3>2. ASSUME Waits(q)'
          PROVE  Waits(q)
      BY <2>3, <3>2 DEF IInv, Types, Waits, freeproc
    <3>3. \A t \in Slot : parent[t] = q <=> parent'[t] = q
      BY <2>3 DEF IInv, Types, freeproc
    <3>4. ASSUME Waits(q)', NEW t \in Slot, parent[t] = q
          PROVE  /\ pc'[t] \notin {"exit_wakeup", "exit_zombie", "exit_release"}
                 /\ state'[t] # "ZOMBIE"
      <4>1. state[t] # "ZOMBIE"
        BY <2>1, <3>2, <3>4, ZenonT(60) DEF IInv, Children, HasWait, Exit
      <4>2. pc[t] \notin {"exit_wakeup", "exit_zombie", "exit_release"}
        BY <2>1, ZenonT(60) DEF HasWait, Exit
      <4> QED
        BY <4>1, <4>2, ZenonT(60) DEF IInv, Types, freeproc
    <3> QED
      BY <3>1, <3>2, <3>3, <3>4 DEF IInv, Children
  <2> QED
    BY <2>2, <2>3, ZenonT(60)
<1>11. Time'
  BY DEF IInv, Types, Time, Dozes, clock, freeproc
<1> QED
  BY <1>1, <1>2, <1>3, <1>4, <1>5, <1>6, <1>7, <1>8, <1>9, <1>10, <1>11, ZenonT(60) DEF IInv

\* wait() sleeps only after a scan that found a child and no ZOMBIE.
LEMMA WaitDecideStep ==
  ASSUME IInv, NEW c \in CPU, NEW s \in Slot, wait_decide(c, s)
  PROVE  IInv'
<1> state[s] = "RUNNING"
  BY Runs, ZenonT(60) DEF wait_decide, At
<1> cur[c] = s /\ pc[s] = "wait_scan" /\ i[s] > NPROC /\ UNCHANGED <<table, cur, cont, j, np, lk, clock>>
  BY ZenonT(60) DEF wait_decide, At
<1> i' = [i EXCEPT ![s] = 0] /\ havekids' = [havekids EXCEPT ![s] = FALSE]
  BY ZenonT(60) DEF wait_decide, wait_return
<1> \/ lock' = [lock EXCEPT ![WAIT] = 0] /\ pc' = [pc EXCEPT ![s] = "user"]
    \/ lock' = lock /\ pc' = [pc EXCEPT ![s] = "sleep"] /\ havekids[s]
  BY ZenonT(60) DEF wait_decide, wait_return, Goto, release
<1>1. Types'
  BY DEF IInv, Types, Place, table, clock
<1>2. Threads'
  BY DEF IInv, Types, Threads, table
<1>3. Locks'
  BY DEF IInv, Types, Locks, Own
<1>4. WaitLock'
  BY DEF IInv, Types, WaitLock, HasWait, Exit, ToSleep, Indices, at
<1>5. TicksLock'
  BY DEF IInv, Types, TicksLock, HasTicks, Free, ToSleep, Indices, at, clock
<1>6. Indices'
  BY DEF IInv, Types, Indices, at, ToSleep, table
<1>7. Forks'
  BY DEF IInv, Types, Forks, at, table
<1>8. Exits'
  BY DEF IInv, Types, Exits, at, Exit, table
<1>9. NoOrphans'
  BY ZenonT(60) DEF IInv, NoOrphans, table
<1>10. Children'
  BY Order DEF IInv, Types, Children, Waits, WaitLock, HasWait, Exit, table
<1>11. Time'
  BY DEF IInv, Types, Time, Dozes, Indices, at, ToSleep, table, clock
<1> QED
  BY <1>1, <1>2, <1>3, <1>4, <1>5, <1>6, <1>7, <1>8, <1>9, <1>10, <1>11, ZenonT(60) DEF IInv

\* sys_sleep() notes the time under tickslock.
LEMMA SysSleepStep ==
  ASSUME IInv, NEW c \in CPU, NEW s \in Slot, sys_sleep(c, s)
  PROVE  IInv'
<1> state[s] = "RUNNING"
  BY Runs, ZenonT(60) DEF sys_sleep, syscall, At
<1>1. Types'
  BY DEF IInv, Types, Place, sys_sleep, Goto, acquire, table, local
<1>2. Threads'
  BY DEF IInv, Threads, sys_sleep, Goto, table
<1>3. Locks'
  BY DEF IInv, Locks, Own, sys_sleep, At, Goto, acquire, syscall
<1>4. WaitLock'
  BY DEF IInv, WaitLock, HasWait, Exit, ToSleep, sys_sleep, At, Goto, acquire, local, syscall
<1>5. TicksLock'
  BY ZenonT(60) DEF IInv, Types, TicksLock, HasTicks, sys_sleep, At, Goto, acquire, local, syscall
<1>6. Indices'
  BY DEF IInv, Indices, at, ToSleep, sys_sleep, At, Goto, table, local, syscall
<1>7. Forks'
  BY DEF IInv, Forks, at, sys_sleep, Goto, table, local
<1>8. Exits'
  BY DEF IInv, Exits, at, Exit, sys_sleep, Goto, table, local
<1>9. NoOrphans'
  BY ZenonT(60) DEF IInv, NoOrphans, sys_sleep, table
<1>10. Children'
  BY DEF IInv, Children, Waits, sys_sleep, At, Goto, table, local, syscall
<1>11. Time'
  BY ZenonT(60) DEF IInv, Types, Time, Dozes, sys_sleep, Goto, table, local
<1> QED
  BY <1>1, <1>2, <1>3, <1>4, <1>5, <1>6, <1>7, <1>8, <1>9, <1>10, <1>11, ZenonT(60) DEF IInv

\* sys_sleep() sleeps only if its time is not over, under tickslock.
LEMMA TickTestStep ==
  ASSUME IInv, NEW c \in CPU, NEW s \in Slot, tick_test(c, s)
  PROVE  IInv'
<1> state[s] = "RUNNING"
  BY Runs, ZenonT(60) DEF tick_test, At
<1> /\ cur[c] = s /\ pc[s] = "tick_test" /\ ~(c = 1 /\ intr # 0)
    /\ UNCHANGED <<table, cur, cont, i, j, havekids, np, intr>>
  BY ZenonT(60) DEF tick_test, At
<1> \/ /\ lock' = [lock EXCEPT ![TICKS] = 0] /\ pc' = [pc EXCEPT ![s] = "user"]
       /\ left' = [left EXCEPT ![s] = 0] /\ lk' = lk
    \/ /\ lock' = lock /\ pc' = [pc EXCEPT ![s] = "sleep"] /\ left' = left /\ left[s] # 0
       /\ lk' = [lk EXCEPT ![s] = TICKS]
  BY ZenonT(60) DEF tick_test, Goto, release
<1>1. Types'
  BY DEF IInv, Types, Place, table
<1>2. Threads'
  BY DEF IInv, Types, Threads, table
<1>3. Locks'
  BY DEF IInv, Types, Locks, Own
<1>4. WaitLock'
  BY DEF IInv, Types, WaitLock, HasWait, Exit, ToSleep
<1>5. TicksLock'
  BY DEF IInv, Types, Threads, TicksLock, HasTicks, ToSleep
<1>6. Indices'
  BY DEF IInv, Types, Indices, at, ToSleep, table
<1>7. Forks'
  BY DEF IInv, Types, Forks, at, table
<1>8. Exits'
  BY DEF IInv, Types, Exits, at, Exit, table
<1>9. NoOrphans'
  BY ZenonT(60) DEF IInv, NoOrphans, table
<1>10. Children'
  BY DEF IInv, Types, Children, Waits, table
<1>11. Time'
  BY DEF IInv, Types, Time, Dozes, table
<1> QED
  BY <1>1, <1>2, <1>3, <1>4, <1>5, <1>6, <1>7, <1>8, <1>9, <1>10, <1>11, ZenonT(60) DEF IInv

\* kill() wakes a sleeper; it moves nobody to SLEEPING.
LEMMA KillStep ==
  ASSUME IInv, NEW c \in CPU, NEW s \in Slot, kill(c, s)
  PROVE  IInv'
<1>1. Types'
  BY ZenonT(60) DEF IInv, Types, kill, local, clock
<1>2. Threads'
  BY DEF IInv, Threads, kill
<1>3. Locks'
  BY ZenonT(60) DEF IInv, Locks, kill
<1>4. WaitLock'
  BY ZenonT(60) DEF IInv, WaitLock, HasWait, kill, local
<1>5. TicksLock'
  BY ZenonT(60) DEF IInv, TicksLock, HasTicks, kill, local, clock
<1>6. Indices'
  BY DEF IInv, Indices, at, kill, local
<1>7. Forks'
  BY DEF IInv, Forks, at, kill, local
<1>8. Exits'
  BY DEF IInv, Exits, at, kill, local
<1>9. NoOrphans'
  BY DEF IInv, NoOrphans, kill
<1>10. Children'
  BY DEF IInv, Children, Waits, kill, local
<1>11. Time'
  BY DEF IInv, Time, Dozes, kill, local, clock
<1> QED
  BY <1>1, <1>2, <1>3, <1>4, <1>5, <1>6, <1>7, <1>8, <1>9, <1>10, <1>11, ZenonT(60) DEF IInv

\* clockintr() starts on a CPU without a lock, and its wakeup() at the first slot.
LEMMA ClockintrStep ==
  ASSUME IInv, clockintr
  PROVE  IInv'
<1> left' \in [Slot -> Nat]
  BY DEF IInv, Types, clockintr
<1>1. Types'
  BY ZenonT(60) DEF IInv, Types, clockintr, acquire, table, local
<1>2. Threads'
  BY ZenonT(60) DEF IInv, Threads, clockintr, table
<1>3. Locks'
  BY DEF IInv, Locks, clockintr, acquire
<1>4. WaitLock'
  BY DEF IInv, WaitLock, HasWait, clockintr, acquire, local
<1>5. TicksLock'
  BY DEF IInv, Types, Threads, TicksLock, HasTicks, Free, ToSleep, Locks, WaitLock, HasWait, Exit, Own,
     Place, clockintr, acquire, local, Held
<1>6. Indices'
  BY ZenonT(60) DEF IInv, Indices, at, clockintr, table, local
<1>7. Forks'
  BY ZenonT(60) DEF IInv, Forks, at, clockintr, table, local
<1>8. Exits'
  BY ZenonT(60) DEF IInv, Exits, at, clockintr, table, local
<1>9. NoOrphans'
  BY ZenonT(60) DEF IInv, NoOrphans, clockintr, table
<1>10. Children'
  BY DEF IInv, Children, Waits, clockintr, table, local
<1>11. Time'
  BY Order DEF Time, clockintr
<1> QED
  BY <1>1, <1>2, <1>3, <1>4, <1>5, <1>6, <1>7, <1>8, <1>9, <1>10, <1>11, ZenonT(60) DEF IInv

\* clockintr(): wakeup(&ticks) reaches every sleeper, which cannot hide on its way into sleep().
LEMMA ClockWakeupStep ==
  ASSUME IInv, clock_wakeup
  PROVE  IInv'
<1> intr \in Slot /\ (intr < NPROC => intr + 1 \in Slot)
  BY Order, ZenonT(60) DEF IInv, Types, clock_wakeup
<1>1. Types'
  BY ZenonT(60) DEF IInv, Types, clock_wakeup, release, local, wakeup
<1>2. Threads'
  BY DEF IInv, Threads, clock_wakeup, wakeup
<1>3. Locks'
  BY DEF IInv, Types, Locks, clock_wakeup, release
<1>4. WaitLock'
  BY ZenonT(60) DEF IInv, Types, WaitLock, HasWait, clock_wakeup, release, local
<1>5. TicksLock'
  BY DEF IInv, Types, TicksLock, HasTicks, Free, ToSleep, clock_wakeup, release, local
<1>6. Indices'
  BY DEF IInv, Indices, at, clock_wakeup, local, wakeup
<1>7. Forks'
  BY DEF IInv, Forks, at, clock_wakeup, local, wakeup
<1>8. Exits'
  BY DEF IInv, Exits, at, clock_wakeup, local, wakeup
<1>9. NoOrphans'
  BY DEF IInv, NoOrphans, clock_wakeup, wakeup
<1>10. Children'
  BY DEF IInv, Children, Waits, clock_wakeup, local, wakeup
<1>11. Time'
  <2>1. SUFFICES ASSUME NEW t \in Slot, Dozes(t)', left[t] = 0
       PROVE  intr' \in 1 .. t
    BY ZenonT(60) DEF Time, clock_wakeup
  <2>2. Dozes(t)
    BY <2>1 DEF Dozes, clock_wakeup, wakeup, local
  <2>3. intr \in 1 .. t
    BY <2>1, <2>2, ZenonT(60) DEF IInv, Time
  <2>4. lock[TICKS] = 1 /\ (cur[1] # 0 => pc[cur[1]] \in Free)
    BY ZenonT(60) DEF IInv, TicksLock
  <2>5. t # intr
    BY <2>1, <2>2, <2>4 DEF IInv, Types, Dozes, Locks, Own, Free, TicksLock, HasTicks, ToSleep, Threads,
       clock_wakeup, wakeup
  <2> QED
    BY <2>3, <2>5, ProcAssumption DEF Slot, clock_wakeup
<1> QED
  BY <1>1, <1>2, <1>3, <1>4, <1>5, <1>6, <1>7, <1>8, <1>9, <1>10, <1>11, ZenonT(60) DEF IInv

\* A step that changes nothing.
LEMMA StutterStep ==
  ASSUME IInv, UNCHANGED vars
  PROVE  IInv'
<1> QED
  BY DEF vars, table, local, clock, IInv, Types, Threads, Locks, WaitLock, TicksLock, HasWait, HasTicks,
     Indices, Forks, at, Exits, NoOrphans, Children, Waits, Time, Dozes

-------------------------------------------------------------------------------
(* The theorems.                                                            *)

\* Every step of the process table, the schedulers and the clock keeps IInv.
LEMMA NextIInv ==
  ASSUME IInv, [Next]_vars
  PROVE  IInv'
<1>1. ASSUME NEW c \in CPU, NEW s \in Slot, Switch(c, s)
      PROVE  IInv'
  BY <1>1, SchedulerStep, ResumeStep, SchedStep, YieldStep, ZenonT(60) DEF Switch
<1>2. ASSUME NEW c \in CPU, NEW s \in Slot, Step(c, s)
      PROVE  IInv'
  BY <1>2, SleepAcquireStep, SleepReleaseStep, SleepStateStep, SleepRelockStep, ForkParentStep,
     ForkRunnableStep, ExitWaitLockStep, ReparentStep, ReparentWakeupStep, ExitWakeupStep, ExitZombieStep,
     ExitReleaseStep, WaitScanStep, WaitDecideStep, TickTestStep, ZenonT(60) DEF Step
<1>3. ASSUME NEW c \in CPU, NEW s \in Slot, Call(c, s)
      PROVE  IInv'
  BY <1>3, ForkStep, ExitStep, WaitStep, SysSleepStep, KillStep, ZenonT(60) DEF Call
<1> QED
  BY <1>1, <1>2, <1>3, ClockintrStep, ClockWakeupStep, StutterStep, ZenonT(60) DEF Next

\* The inductive invariant holds in every reachable state of proc.c's model.
THEOREM ProcIInv == Spec => []IInv
<1>1. Init => IInv
  BY InitIInv, ZenonT(60)
<1>2. IInv /\ [Next]_vars => IInv'
  BY NextIInv, ZenonT(60)
<1> QED
  BY <1>1, <1>2, PTL DEF Spec

\* For any number of slots and CPUs, a kernel stack has one user: scheduler()
\* runs no thread that another CPU is still on, and wait() frees no such slot.
THEOREM StacksHaveOneUser == Spec => []StackHasOneUser
<1>1. IInv => StackHasOneUser
  <2> SUFFICES ASSUME IInv, NEW c \in CPU, cur[c] # 0
               PROVE  /\ \A d \in CPU : cur[d] = cur[c] => d = c
                      /\ state[cur[c]] \notin {"UNUSED", "USED"}
                      /\ state[cur[c]] \in {"RUNNABLE", "SLEEPING", "ZOMBIE"} => lock[cur[c]] = c
    BY ZenonT(60) DEF StackHasOneUser
  <2>1. state[cur[c]] # "RUNNING" => pc[cur[c]] \in {"sched", "exit_release"}
    BY ZenonT(60) DEF IInv, Threads
  <2> QED
    BY <2>1, ZenonT(60) DEF IInv, Threads, Locks, Own
<1> QED
  BY <1>1, ProcIInv, PTL

\* The panics of sched() are unreachable: it is entered with p->lock and no other
\* lock, not RUNNING, and a scheduler holds at most an interrupt's tickslock.
THEOREM SchedNeverPanics == Spec => []SchedDiscipline
<1>1. IInv => TypeOK
  BY ZenonT(60) DEF IInv, Types, TypeOK, Slot0, Index, Chan, CPU0
<1>2. ASSUME IInv, NEW c \in CPU, cur[c] = 0
      PROVE  Held(c) \subseteq {TICKS}
  BY <1>2 DEF IInv, Held, Locks, WaitLock
<1>3. ASSUME IInv, NEW c \in CPU, NEW s \in Slot, cur[c] = s, pc[s] = "sched"
      PROVE  Held(c) = {s} /\ state[s] # "RUNNING"
  <2>1. lock[s] = c /\ \A t \in Slot : lock[t] = c => t = s
    BY <1>3, ZenonT(60) DEF IInv, Locks, Own
  <2>2. lock[WAIT] # c
    BY <1>3, ZenonT(60) DEF IInv, WaitLock, HasWait, Exit, ToSleep
  <2>3. lock[TICKS] # c
    BY <1>3, ZenonT(60) DEF IInv, TicksLock, HasTicks, ToSleep, Free
  <2>4. state[s] # "RUNNING"
    BY <1>3, ZenonT(60) DEF IInv, Threads
  <2> QED
    BY <2>1, <2>2, <2>3, <2>4, ZenonT(60) DEF Held
<1>4. IInv => SchedDiscipline
  BY <1>1, <1>2, <1>3, ZenonT(60) DEF SchedDiscipline
<1> QED
  BY <1>4, ProcIInv, PTL

\* No wakeup is lost between wait() and exit(), and between sys_sleep() and the
\* clock, wherever the sleeper is on its way into sleep().
THEOREM NoWakeupIsLost == Spec => []NoLostWakeup
<1>1. IInv => NoLostWakeup
  BY ZenonT(60) DEF IInv, NoLostWakeup, Children, Waits, Time, Dozes
<1> QED
  BY <1>1, ProcIInv, PTL

\* Nobody is the child of a process that has exited, and every live process but
\* init has a parent: reparent() runs before exit() becomes a ZOMBIE.
THEOREM NobodyIsOrphaned == Spec => []NoOrphans
<1>1. IInv => NoOrphans
  BY ZenonT(60) DEF IInv
<1> QED
  BY <1>1, ProcIInv, PTL

-------------------------------------------------------------------------------
(* kill().                                                                  *)

\* A marked slot has a pid that was passed to kill(); a free slot has none.
Marks ==
  \A t \in Slot : /\ killed[t] => pid[t] \in KillPids
                  /\ state[t] = "UNUSED" => pid[t] = 0

\* fork() takes an unmarked slot, as no free slot has a pid that kill() looks for.
LEMMA ForkMarks ==
  ASSUME 0 \notin KillPids, IInv, Marks, NEW c \in CPU, NEW s \in Slot, fork(c, s)
  PROVE  Marks'
<1>1. \/ UNCHANGED <<state, pid>>
      \/ \E t \in Slot : /\ state[t] = "UNUSED"
                         /\ state' = [state EXCEPT ![t] = "USED"]
                         /\ pid' = [pid EXCEPT ![t] = nextpid]
  BY ZenonT(60) DEF fork
<1>2. killed' = killed
  BY ZenonT(60) DEF fork
<1> QED
  BY <1>1, <1>2, ZenonT(60) DEF IInv, Types, Marks

\* wait() clears the mark of the slot that it frees, with its pid.
LEMMA WaitScanMarks ==
  ASSUME 0 \notin KillPids, IInv, Marks, NEW c \in CPU, NEW s \in Slot, wait_scan(c, s)
  PROVE  Marks'
<1>1. \/ UNCHANGED <<state, killed, pid>>
      \/ freeproc(i[s])
  BY ZenonT(60) DEF wait_scan
<1>2. CASE UNCHANGED <<state, killed, pid>>
  BY <1>2, ZenonT(60) DEF Marks
<1>3. CASE freeproc(i[s])
  BY <1>3, ZenonT(60) DEF freeproc, IInv, Types, Marks
<1> QED
  BY <1>1, <1>2, <1>3, ZenonT(60)

\* kill() marks a slot whose pid it was asked for.
LEMMA KillMarks ==
  ASSUME IInv, Marks, NEW c \in CPU, NEW s \in Slot, kill(c, s)
  PROVE  Marks'
  BY DEF kill, Marks

\* No other step marks a slot, changes a pid or frees a slot.
LEMMA OtherMarks ==
  ASSUME IInv, Marks, UNCHANGED <<killed, pid>>,
         \A t \in Slot : state'[t] = "UNUSED" => state[t] = "UNUSED"
  PROVE  Marks'
  BY ZenonT(60) DEF Marks

\* kill(pid) marks the process with that pid and no other, when no program calls
\* kill(0): freeproc() sets a free slot's pid to 0, which kill(0) would find.
THEOREM KillMarksItsVictim ==
  ASSUME 0 \notin KillPids
  PROVE  Spec => []KilledByPid
<1>1. Init => Marks
  BY DEF Init, Marks
<1>2. ASSUME IInv, Marks, [Next]_vars
      PROVE  Marks'
  <2>1. ASSUME NEW c \in CPU, NEW s \in Slot, Switch(c, s)
        PROVE  Marks'
    <3>1. UNCHANGED <<killed, pid>> /\ \A t \in Slot : state'[t] = "UNUSED" => state[t] = "UNUSED"
      BY <1>2, <2>1, ZenonT(60) DEF IInv, Types, Switch, scheduler, resume, sched, yield, table
    <3> QED
      BY <1>2, <3>1, OtherMarks, ZenonT(60)
  <2>2. ASSUME NEW c \in CPU, NEW s \in Slot, Step(c, s)
        PROVE  Marks'
    <3>1. ASSUME sleep_acquire(c, s) \/ sleep_release(c, s) \/ sleep_state(c, s) \/ sleep_relock(c, s)
          PROVE  UNCHANGED <<killed, pid>> /\ \A t \in Slot : state'[t] = "UNUSED" => state[t] = "UNUSED"
      BY <1>2, <3>1, ZenonT(60) DEF IInv, Types, sleep_acquire, sleep_release, sleep_state, sleep_relock,
         table
    <3>2. ASSUME fork_parent(c, s) \/ fork_runnable(c, s) \/ exit_wait_lock(c, s) \/ exit_zombie(c, s)
          PROVE  UNCHANGED <<killed, pid>> /\ \A t \in Slot : state'[t] = "UNUSED" => state[t] = "UNUSED"
      BY <1>2, <3>2, ZenonT(60) DEF IInv, Types, fork_parent, fork_runnable, exit_wait_lock, exit_zombie,
         table
    <3>3. ASSUME reparent(c, s) \/ reparent_wakeup(c, s) \/ exit_wakeup(c, s)
          PROVE  UNCHANGED <<killed, pid>> /\ \A t \in Slot : state'[t] = "UNUSED" => state[t] = "UNUSED"
      BY <1>2, <3>3, ZenonT(60) DEF IInv, Types, reparent, reparent_wakeup, exit_wakeup, WakeupLoop, wakeup
    <3>4. ASSUME exit_release(c, s) \/ wait_decide(c, s) \/ tick_test(c, s)
          PROVE  UNCHANGED <<killed, pid>> /\ \A t \in Slot : state'[t] = "UNUSED" => state[t] = "UNUSED"
      BY <1>2, <3>4, ZenonT(60) DEF exit_release, wait_decide, tick_test, table
    <3> QED
      BY <1>2, <2>2, <3>1, <3>2, <3>3, <3>4, OtherMarks, WaitScanMarks, ZenonT(60) DEF Step
  <2>3. ASSUME NEW c \in CPU, NEW s \in Slot, Call(c, s)
        PROVE  Marks'
    <3>1. ASSUME exit(c, s) \/ wait(c, s) \/ sys_sleep(c, s)
          PROVE  UNCHANGED <<killed, pid>> /\ \A t \in Slot : state'[t] = "UNUSED" => state[t] = "UNUSED"
      BY <1>2, <3>1, ZenonT(60) DEF exit, wait, sys_sleep, table
    <3> QED
      BY <1>2, <2>3, <3>1, OtherMarks, ForkMarks, KillMarks, ZenonT(60) DEF Call
  <2>4. ASSUME clockintr \/ clock_wakeup \/ UNCHANGED vars
        PROVE  Marks'
    <3>1. UNCHANGED <<killed, pid>> /\ \A t \in Slot : state'[t] = "UNUSED" => state[t] = "UNUSED"
      BY <1>2, <2>4, ZenonT(60) DEF IInv, Types, clockintr, clock_wakeup, wakeup, table, vars
    <3> QED
      BY <1>2, <3>1, OtherMarks, ZenonT(60)
  <2> QED
    BY <1>2, <2>1, <2>2, <2>3, <2>4, ZenonT(60) DEF Next
<1>3. Marks => KilledByPid
  BY ZenonT(60) DEF Marks, KilledByPid
<1> QED
  BY <1>1, <1>2, <1>3, ProcIInv, PTL DEF Spec

===============================================================================

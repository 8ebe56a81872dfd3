--------------------------------- MODULE Pipe ---------------------------------
(***************************************************************************)
(* kernel/pipe.c: one pipe, with the processes that hold its ends.          *)
(*                                                                          *)
(* A step is one pass through a loop of pipewrite() or piperead().  pi->lock *)
(* is held from one pass to the next, but kill() on another CPU can set     *)
(* p->killed in between.  sleep(chan, &pi->lock) is atomic, as module Proc  *)
(* shows.  The counters wrap at W, like the 32-bit ones of the code.        *)
(***************************************************************************)
EXTENDS Integers, Sequences, FiniteSets

CONSTANTS
  Readers, Writers,  \* processes with a descriptor for the read, write end
  Byte,
  PIPESIZE,
  W,                 \* the counters are taken modulo W
  MaxN,              \* bound on the length of a read or write
  Victims            \* processes that kill() may hit

ASSUME PipeAssumption ==
  /\ IsFiniteSet(Readers) /\ IsFiniteSet(Writers) /\ Readers \cap Writers = {}
  /\ "none" \notin Readers \cup Writers
  /\ PIPESIZE \in Nat \ {0}
  /\ W \in Nat /\ W > PIPESIZE /\ W % PIPESIZE = 0
  /\ MaxN \in Nat
  /\ Victims \subseteq Readers \cup Writers

Proc == Readers \cup Writers
None == "none"

VARIABLES
  data, nread, nwrite, readopen, writeopen,  \* struct pipe
  freed,      \* kfree(pi) has been called
  lock,       \* the process that holds pi->lock
  pc,         \* "idle", "read", "write", asleep or woken in them, "closed"
  i, n,       \* bytes done and asked for in the current call
  copied,     \* piperead() has left its first loop
  killed,
  taken       \* the byte last taken out of data

pipe == <<data, nread, nwrite, readopen, writeopen, freed>>
vars == <<pipe, lock, pc, i, n, copied, killed, taken>>

-------------------------------------------------------------------------------
(* Mutations: plausible slips in the code, used to see each property fail.  *)

\* The test for a full pipe is off by one.
FullOffByOne == nwrite = (nread + PIPESIZE + 1) % W

\* pipeclose() frees the pipe when either end is closed.
FreeEarly(r, w) == ~r \/ ~w

\* The counter of bytes written leaves its width.
NextWithoutWrap(k) == k + 1

-------------------------------------------------------------------------------

Full  == nwrite = (nread + PIPESIZE) % W
Empty == nread = nwrite

\* nread++ and nwrite++.
Inc(k) == (k + 1) % W

\* pipeclose(): kfree(pi) when both ends are closed.
Unused(r, w) == ~r /\ ~w

\* wakeup(&pi->nread) wakes "rsleep", wakeup(&pi->nwrite) wakes "wsleep".
wakeup(from, to) == [p \in Proc |-> IF pc[p] = from THEN to ELSE pc[p]]

\* release(&pi->lock) and return from the call.
Return(p, pcs) ==
  /\ lock' = None
  /\ pc' = [pcs EXCEPT ![p] = "idle"]
  /\ i' = [i EXCEPT ![p] = 0]
  /\ n' = [n EXCEPT ![p] = 0]
  /\ copied' = [copied EXCEPT ![p] = FALSE]

\* sleep(chan, &pi->lock)
Sleep(p, pcs, asleep) ==
  /\ lock' = None
  /\ pc' = [pcs EXCEPT ![p] = asleep]
  /\ UNCHANGED <<i, n, copied>>

-------------------------------------------------------------------------------

\* pipewrite(): acquire(&pi->lock).
pipewrite(p) ==
  /\ p \in Writers
  /\ pc[p] = "idle" /\ ~killed[p]
  /\ lock = None
  /\ lock' = p
  /\ pc' = [pc EXCEPT ![p] = "write"]
  /\ \E k \in 1 .. MaxN : n' = [n EXCEPT ![p] = k]
  /\ UNCHANGED <<pipe, i, copied, killed, taken>>

\* pipewrite(): nobody will read, or the caller is killed: return -1.
write_fail(p) ==
  /\ lock = p /\ pc[p] = "write"
  /\ i[p] < n[p]
  /\ ~readopen \/ killed[p]
  /\ Return(p, pc)
  /\ UNCHANGED <<pipe, killed, taken>>

\* pipewrite(): the pipe is full: wake the readers and sleep.
write_full(p) ==
  /\ lock = p /\ pc[p] = "write"
  /\ i[p] < n[p]
  /\ readopen /\ ~killed[p]
  /\ Full
  /\ Sleep(p, wakeup("rsleep", "rwoken"), "wsleep")
  /\ UNCHANGED <<pipe, killed, taken>>

\* pipewrite(): put one byte.
write_byte(p) ==
  /\ lock = p /\ pc[p] = "write"
  /\ i[p] < n[p]
  /\ readopen /\ ~killed[p]
  /\ ~Full
  /\ \E b \in Byte : data' = [data EXCEPT ![nwrite % PIPESIZE] = b]
  /\ nwrite' = Inc(nwrite)
  /\ i' = [i EXCEPT ![p] = @ + 1]
  /\ UNCHANGED <<nread, readopen, writeopen, freed, lock, pc, n, copied, killed, taken>>

\* A pipewrite() that leaves the readers asleep.
WriteDoneSilently(p) ==
  /\ lock = p /\ pc[p] = "write"
  /\ i[p] < n[p] => readopen /\ ~killed[p] /\ ~Full
  /\ Return(p, pc)
  /\ UNCHANGED <<pipe, killed, taken>>

\* A pipewrite() that wakes one reader only.
WriteDoneWakesOne(p) ==
  /\ lock = p /\ pc[p] = "write"
  /\ i[p] < n[p] => readopen /\ ~killed[p] /\ ~Full
  /\ LET asleep == {q \in Readers : pc[q] = "rsleep"}
     IN  Return(p, IF asleep = {} THEN pc
                   ELSE [pc EXCEPT ![CHOOSE q \in asleep : TRUE] = "rwoken"])
  /\ UNCHANGED <<pipe, killed, taken>>

\* pipewrite(): all bytes are in, or copyin() failed: wake the readers, return.
write_done(p) ==
  /\ lock = p /\ pc[p] = "write"
  /\ i[p] < n[p] => readopen /\ ~killed[p] /\ ~Full
  /\ Return(p, wakeup("rsleep", "rwoken"))
  /\ UNCHANGED <<pipe, killed, taken>>

\* piperead(): acquire(&pi->lock).
piperead(p) ==
  /\ p \in Readers
  /\ pc[p] = "idle" /\ ~killed[p]
  /\ lock = None
  /\ lock' = p
  /\ pc' = [pc EXCEPT ![p] = "read"]
  /\ \E k \in 1 .. MaxN : n' = [n EXCEPT ![p] = k]
  /\ UNCHANGED <<pipe, i, copied, killed, taken>>

\* piperead(): nothing to read yet: return -1 if killed, else sleep.
read_empty(p) ==
  /\ lock = p /\ pc[p] = "read" /\ ~copied[p]
  /\ Empty /\ writeopen
  /\ \/ killed[p] /\ Return(p, pc)
     \/ ~killed[p] /\ Sleep(p, pc, "rsleep")
  /\ UNCHANGED <<pipe, killed, taken>>

\* piperead(): take one byte; it is gone even if copyout() then fails.
read_byte(p) ==
  /\ lock = p /\ pc[p] = "read"
  /\ i[p] < n[p] /\ ~Empty
  /\ taken' = data[nread % PIPESIZE]
  /\ nread' = Inc(nread)
  /\ copied' = [copied EXCEPT ![p] = TRUE]
  /\ \/ i' = [i EXCEPT ![p] = @ + 1]
     \/ i' = [i EXCEPT ![p] = n[p]]
  /\ UNCHANGED <<data, nwrite, readopen, writeopen, freed, lock, pc, n, killed>>

\* piperead(): enough, or no more: wake the writers and return.
read_done(p) ==
  /\ lock = p /\ pc[p] = "read"
  /\ i[p] = n[p] \/ (Empty /\ (copied[p] \/ ~writeopen))
  /\ Return(p, wakeup("wsleep", "wwoken"))
  /\ UNCHANGED <<pipe, killed, taken>>

\* sleep() returns with pi->lock, into the loop it was called from.
wake(p) ==
  /\ lock = None
  /\ \/ pc[p] = "wwoken" /\ pc' = [pc EXCEPT ![p] = "write"]
     \/ pc[p] = "rwoken" /\ pc' = [pc EXCEPT ![p] = "read"]
  /\ lock' = p
  /\ UNCHANGED <<pipe, i, n, copied, killed, taken>>

\* fileclose() by a holder of an end; the last one calls pipeclose().
pipeclose(p) ==
  /\ pc[p] = "idle"
  /\ lock = None
  /\ LET end  == IF p \in Writers THEN Writers ELSE Readers
         last == \A q \in end \ {p} : pc[q] = "closed"
     IN  /\ writeopen' = (writeopen /\ ~(last /\ p \in Writers))
         /\ readopen'  = (readopen /\ ~(last /\ p \in Readers))
         /\ pc' = [(IF ~last THEN pc
                    ELSE IF p \in Writers THEN wakeup("rsleep", "rwoken")
                                          ELSE wakeup("wsleep", "wwoken"))
                     EXCEPT ![p] = "closed"]
  /\ freed' = Unused(readopen', writeopen')
  /\ UNCHANGED <<data, nread, nwrite, lock, i, n, copied, killed, taken>>

\* kill() of a process, anywhere.
kill(p) ==
  /\ p \in Victims /\ ~killed[p] /\ pc[p] # "closed"
  /\ killed' = [killed EXCEPT ![p] = TRUE]
  /\ pc' = [pc EXCEPT ![p] = CASE pc[p] = "rsleep" -> "rwoken"
                               [] pc[p] = "wsleep" -> "wwoken"
                               [] OTHER -> pc[p]]
  /\ UNCHANGED <<pipe, lock, i, n, copied, taken>>

-------------------------------------------------------------------------------

\* pipealloc().  The memory comes from kalloc() and is not cleared.
Init ==
  /\ \E b \in Byte : data = [k \in 0 .. PIPESIZE - 1 |-> b] /\ taken = b
  /\ nread = 0 /\ nwrite = 0
  /\ readopen = TRUE /\ writeopen = TRUE
  /\ freed = FALSE
  /\ lock = None
  /\ pc = [p \in Proc |-> "idle"]
  /\ i = [p \in Proc |-> 0]
  /\ n = [p \in Proc |-> 0]
  /\ copied = [p \in Proc |-> FALSE]
  /\ killed = [p \in Proc |-> FALSE]

\* What a process inside the pipe code does.
Step(p) ==
  \/ write_fail(p) \/ write_full(p) \/ write_byte(p) \/ write_done(p)
  \/ read_empty(p) \/ read_byte(p) \/ read_done(p)
  \/ wake(p)

Next ==
  \/ \E p \in Proc : pipewrite(p) \/ piperead(p) \/ Step(p) \/ pipeclose(p) \/ kill(p)
  \/ (\A p \in Proc : pc[p] = "closed") /\ UNCHANGED vars

Spec == Init /\ [][Next]_vars

\* Inside the pipe code a process moves on when it can, and gets pi->lock when
\* it is free again and again; a holder of an end uses it again or closes it;
\* a writer does not pass bad addresses (for which copyin() fails) for ever.
FairSpec ==
  /\ Spec
  /\ \A p \in Proc :
       /\ SF_vars(Step(p))
       /\ SF_vars(pipewrite(p) \/ piperead(p) \/ pipeclose(p))
  /\ \A p \in Writers : SF_vars(write_byte(p))

-------------------------------------------------------------------------------
(* Properties.                                                              *)

\* Types; both counters stay within their width.
TypeOK ==
  /\ data \in [0 .. PIPESIZE - 1 -> Byte]
  /\ nread \in 0 .. W - 1 /\ nwrite \in 0 .. W - 1
  /\ readopen \in BOOLEAN /\ writeopen \in BOOLEAN /\ freed \in BOOLEAN
  /\ lock \in Proc \cup {None}
  /\ pc \in [Proc -> {"idle", "read", "write", "rsleep", "rwoken", "wsleep", "wwoken", "closed"}]
  /\ i \in [Proc -> 0 .. MaxN] /\ n \in [Proc -> 0 .. MaxN]
  /\ copied \in [Proc -> BOOLEAN] /\ killed \in [Proc -> BOOLEAN]
  /\ taken \in Byte

\* The bytes between nread and nwrite.
Contents ==
  [k \in 1 .. (nwrite - nread) % W |-> data[((nread + k - 1) % W) % PIPESIZE]]

F == INSTANCE Fifo WITH queue <- Contents, Capacity <- PIPESIZE

\* The ring buffer is a bounded FIFO queue for any interleaving of readers and
\* writers, also when the counters wrap around.
PipeIsFifo == F!Spec

\* No wakeup is lost (DOC: pipe-empty, pipewrite-full): outside a critical
\* section, a reader is asleep only while the pipe is empty and can be written,
\* a writer only while it is full and can be read.
SleepersHaveReason ==
  lock = None =>
    /\ (\E p \in Proc : pc[p] = "rsleep") => Empty /\ writeopen
    /\ (\E p \in Proc : pc[p] = "wsleep") => Full /\ readopen

\* pipeclose() frees the pipe only when no process is inside piperead() or
\* pipewrite(), asleep or not.
NoUseAfterFree == freed => \A p \in Proc : pc[p] = "closed"

\* Nobody sleeps in the pipe for ever, as long as the other end is used or
\* closed: a sleeper is woken by data, by space, by pipeclose() or by kill().
\* (Its call need not return: another reader may be quicker each time.)
SleepersWake ==
  \A p \in Proc : pc[p] \in {"rsleep", "wsleep"} ~> pc[p] \notin {"rsleep", "wsleep"}

\* What every state of the pipe satisfies, under any interleaving of readers,
\* writers, kill() and close(): the types, no lost wakeup, and no use of the
\* page after pipeclose() has freed it.
PipeInv == TypeOK /\ SleepersHaveReason /\ NoUseAfterFree
===============================================================================

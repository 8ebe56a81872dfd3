-------------------------------- MODULE Log -----------------------------------
(***************************************************************************)
(* kernel/log.c: the redo log under the file system, with crashes.          *)
(*                                                                          *)
(* Every critical section of log.lock is one action (the lock is a spin     *)
(* lock and nothing in a section sleeps).  commit() runs without the lock,  *)
(* so it is cut at every disk write: one action per block copied, one per   *)
(* header written.  Crash may come between any two of them, also during     *)
(* recovery.  A disk block is written atomically.                           *)
(*                                                                          *)
(* The contents of a block are a member of Val.  cache[b] is what bread(b)  *)
(* would return: the buffer if one holds b, else the disk.                  *)
(***************************************************************************)
EXTENDS Integers, Sequences, FiniteSets

CONSTANTS
  Proc,         \* processes that make file-system calls
  Block,        \* home block numbers
  Val,          \* contents of a block
  MAXOPBLOCKS,  \* blocks begin_op() reserves for a call
  LOGSIZE,      \* blocks begin_op() may promise altogether
  nlog,         \* sb.nlog, the on-disk log with its header
  OpBlocks      \* distinct blocks a call really writes, at most

ASSUME LogAssumption ==
  /\ IsFiniteSet(Proc)
  /\ IsFiniteSet(Block)
  /\ MAXOPBLOCKS \in Nat \ {0}
  /\ LOGSIZE \in Nat \ {0}
  /\ nlog \in Nat \ {0}
  /\ OpBlocks \in 0 .. MAXOPBLOCKS

VARIABLES
  outstanding, committing, lh,  \* struct log (lh: the first n entries of lh.block)
  head, logblk, home,           \* disk: log header, log data blocks, home blocks
  cache, pins,                  \* buffer cache: contents, references taken by bpin()
  pc,                           \* where each process is
  wrote,                        \* distinct blocks its current call has logged
  phase, tail                   \* progress of recovery or of commit(), loop index

disk == <<head, logblk, home>>
log  == <<outstanding, committing, lh>>
vars == <<log, disk, cache, pins, pc, wrote, phase, tail>>

Recovering == {"read_head", "recover", "clear"}
Committing == {"write_log", "write_head", "install", "erase", "finish"}
Slot       == 1 .. (nlog - 1)

LoggedIn(h) == {h[i] : i \in 1 .. Len(h)}
InOp        == {p \in Proc : pc[p] = "op"}

-------------------------------------------------------------------------------
(* Mutations: plausible slips in the code, used to see each property fail.  *)

\* end_op() forgets wakeup(&log).
WakeupNobody == pc

\* begin_op() counts the calls before it, but not itself.
BeginOpAdmitsOneTooMany(p) ==
  /\ phase \notin Recovering
  /\ pc[p] \in {"idle", "woken"}
  /\ ~committing
  /\ Len(lh) + outstanding * MAXOPBLOCKS <= LOGSIZE
  /\ outstanding' = outstanding + 1
  /\ pc' = [pc EXCEPT ![p] = "op"]
  /\ UNCHANGED <<committing, lh, disk, cache, pins, wrote, phase, tail>>

\* Log without absorption: a block already in the header is appended again.
NeverAbsorbed(b) == FALSE

\* The loops begin at the header's place in the log instead of after it.
LoopFromZero(next) ==
  IF tail < Len(lh) THEN tail' = tail + 1 /\ UNCHANGED phase
                    ELSE tail' = 0 /\ phase' = next

\* The header is written before the blocks it describes.
HeadBeforeLog == IF lh = <<>> THEN "finish" ELSE "write_head"

-------------------------------------------------------------------------------
(* Locked sections.                                                         *)

\* wakeup(&log)
wakeup == [q \in Proc |-> IF pc[q] = "asleep" THEN "woken" ELSE pc[q]]

\* begin_op(): one pass through its loop, from the acquire or from a wakeup.
begin_op(p) ==
  /\ phase \notin Recovering
  /\ pc[p] \in {"idle", "woken"}
  /\ \/ /\ committing \/ Len(lh) + (outstanding + 1) * MAXOPBLOCKS > LOGSIZE
        /\ pc' = [pc EXCEPT ![p] = "asleep"]
        /\ UNCHANGED outstanding
     \/ /\ ~committing
        /\ Len(lh) + (outstanding + 1) * MAXOPBLOCKS <= LOGSIZE
        /\ outstanding' = outstanding + 1
        /\ pc' = [pc EXCEPT ![p] = "op"]
  /\ UNCHANGED <<committing, lh, disk, cache, pins, wrote, phase, tail>>

\* log absorption: the block is already in the header
Absorbed(b) == b \in LoggedIn(lh)

\* A call modifies a buffer it has read and logs it with log_write(); the
\* contract of MAXOPBLOCKS is the caller's.  A buffer held by a process that
\* panics stays locked, so nobody sees what is in it.
log_write(p, b, v) ==
  /\ pc[p] = "op"
  /\ Cardinality(wrote[p] \cup {b}) <= OpBlocks
  /\ \/ /\ Len(lh) >= LOGSIZE \/ Len(lh) >= nlog - 1 \/ outstanding < 1
        /\ pc' = [pc EXCEPT ![p] = "panic"]
        /\ UNCHANGED <<lh, cache, pins, wrote>>
     \/ /\ Len(lh) < LOGSIZE /\ Len(lh) < nlog - 1 /\ outstanding >= 1
        /\ cache' = [cache EXCEPT ![b] = v]
        /\ wrote' = [wrote EXCEPT ![p] = @ \cup {b}]
        /\ IF Absorbed(b)
             THEN UNCHANGED <<lh, pins>>
             ELSE /\ lh' = Append(lh, b)
                  /\ pins' = [pins EXCEPT ![b] = @ + 1]
        /\ UNCHANGED pc
  /\ UNCHANGED <<outstanding, committing, disk, phase, tail>>

\* Where commit() starts.
CommitEntry == IF lh = <<>> THEN "finish" ELSE "write_log"

\* end_op(), up to the call of commit().
end_op(p) ==
  /\ pc[p] = "op"
  /\ outstanding' = outstanding - 1
  /\ wrote' = [wrote EXCEPT ![p] = {}]
  /\ \/ /\ committing
        /\ pc' = [pc EXCEPT ![p] = "panic"]
        /\ UNCHANGED <<committing, phase>>
     \/ /\ ~committing /\ outstanding = 1
        /\ committing' = TRUE
        /\ pc' = [pc EXCEPT ![p] = "commit"]
        /\ phase' = CommitEntry
     \/ /\ ~committing /\ outstanding # 1
        /\ pc' = [wakeup EXCEPT ![p] = "idle"]
        /\ UNCHANGED <<committing, phase>>
  /\ UNCHANGED <<lh, disk, cache, pins, tail>>

\* end_op(), after commit().
end_commit(p) ==
  /\ pc[p] = "commit"
  /\ phase = "finish"
  /\ committing' = FALSE
  /\ pc' = [wakeup EXCEPT ![p] = "idle"]
  /\ phase' = "running"
  /\ UNCHANGED <<outstanding, lh, disk, cache, pins, wrote, tail>>

\* kill() makes a sleeping process runnable; begin_op() then tests again.
kill(p) ==
  /\ pc[p] = "asleep"
  /\ pc' = [pc EXCEPT ![p] = "woken"]
  /\ UNCHANGED <<log, disk, cache, pins, wrote, phase, tail>>

-------------------------------------------------------------------------------
(* commit() and recovery, one disk write at a time.                         *)

\* The loops over lh run from 1 to Len(lh) and then continue with phase next.
Loop(next) ==
  IF tail < Len(lh) THEN tail' = tail + 1 /\ UNCHANGED phase
                    ELSE tail' = 1 /\ phase' = next

\* write_log(): copy the next modified block from the cache to the log.
write_log ==
  /\ phase = "write_log"
  /\ logblk' = [logblk EXCEPT ![tail] = cache[lh[tail]]]
  /\ Loop("write_head")
  /\ UNCHANGED <<log, head, home, cache, pins, pc, wrote>>

\* write_head() in commit(): the point where the transaction commits.
write_head ==
  /\ phase = "write_head"
  /\ head' = lh
  /\ phase' = "install"
  /\ UNCHANGED <<log, logblk, home, cache, pins, pc, wrote, tail>>

\* install_trans(recovering): copy the next block from the log to its home.
install_trans(recovering) ==
  /\ home'  = [home EXCEPT ![lh[tail]] = logblk[tail]]
  /\ cache' = [cache EXCEPT ![lh[tail]] = logblk[tail]]
  /\ pins'  = IF recovering THEN pins ELSE [pins EXCEPT ![lh[tail]] = @ - 1]

\* install_trans(0) in commit().
install ==
  /\ phase = "install"
  /\ install_trans(FALSE)
  /\ Loop("erase")
  /\ UNCHANGED <<log, head, logblk, pc, wrote>>

\* log.lh.n = 0 and the second write_head() of commit().
erase ==
  /\ phase = "erase"
  /\ lh' = <<>>
  /\ head' = <<>>
  /\ phase' = "finish"
  /\ UNCHANGED <<outstanding, committing, logblk, home, cache, pins, pc, wrote, tail>>

\* recover_from_log(): read_head(), install_trans(1), and the erasing write_head().
read_head ==
  /\ phase = "read_head"
  /\ lh' = head
  /\ phase' = IF head = <<>> THEN "clear" ELSE "recover"
  /\ UNCHANGED <<outstanding, committing, disk, cache, pins, pc, wrote, tail>>

recover ==
  /\ phase = "recover"
  /\ install_trans(TRUE)
  /\ Loop("clear")
  /\ UNCHANGED <<log, head, logblk, pc, wrote>>

clear ==
  /\ phase = "clear"
  /\ lh' = <<>>
  /\ head' = <<>>
  /\ phase' = "running"
  /\ UNCHANGED <<outstanding, committing, logblk, home, cache, pins, pc, wrote, tail>>

-------------------------------------------------------------------------------
(* The environment.                                                         *)

\* bget() recycles a buffer nobody holds; a later bread() reads the disk.
\* Only a running file system reads blocks.
recycle(b) ==
  /\ phase \notin Recovering
  /\ pins[b] = 0
  /\ cache' = [cache EXCEPT ![b] = home[b]]
  /\ UNCHANGED <<log, disk, pins, pc, wrote, phase, tail>>

\* The machine stops anywhere and boots again: the disk is what it was, memory
\* is fresh and the cache is empty.
crash ==
  /\ outstanding' = 0
  /\ committing' = FALSE
  /\ lh' = <<>>
  /\ pins' = [b \in Block |-> 0]
  /\ pc' = [p \in Proc |-> "idle"]
  /\ wrote' = [p \in Proc |-> {}]
  /\ phase' = "read_head"
  /\ tail' = 1
  /\ cache' = home
  /\ UNCHANGED disk

\* mkfs leaves some file system and an empty log; the kernel boots.
Init ==
  /\ outstanding = 0
  /\ committing = FALSE
  /\ lh = <<>>
  /\ head = <<>>
  /\ home \in [Block -> Val]
  /\ \E v \in Val : logblk = [s \in Slot |-> v]
  /\ cache = home
  /\ pins = [b \in Block |-> 0]
  /\ pc = [p \in Proc |-> "idle"]
  /\ wrote = [p \in Proc |-> {}]
  /\ phase = "read_head"
  /\ tail = 1

Next ==
  \/ \E p \in Proc :
       \/ begin_op(p)
       \/ end_op(p)
       \/ end_commit(p)
       \/ kill(p)
       \/ \E b \in Block, v \in Val : log_write(p, b, v)
  \/ write_log \/ write_head \/ install \/ erase
  \/ read_head \/ recover \/ clear
  \/ \E b \in Block : recycle(b)
  \/ crash

Spec == Init /\ [][Next]_vars

\* The scheduler runs every runnable process, every file-system call comes to
\* its end_op(), and the disk answers: commit() always moves on.
Fairness ==
  /\ \A p \in Proc : WF_vars(end_op(p)) /\ WF_vars(end_commit(p))
  /\ WF_vars(write_log \/ write_head \/ install \/ erase)

FairSpec == Spec /\ Fairness
-------------------------------------------------------------------------------
(* Properties.                                                              *)

\* Types; the header on disk and in memory never has more blocks than the log.
TypeOK ==
  /\ outstanding \in Int
  /\ committing \in BOOLEAN
  /\ lh \in Seq(Block) /\ Len(lh) <= nlog - 1
  /\ head \in Seq(Block) /\ Len(head) <= nlog - 1
  /\ logblk \in [Slot -> Val]
  /\ home \in [Block -> Val]
  /\ cache \in [Block -> Val]
  /\ pins \in [Block -> Int]
  /\ pc \in [Proc -> {"idle", "asleep", "woken", "op", "commit", "panic"}]
  /\ wrote \in [Proc -> SUBSET Block]
  /\ phase \in Recovering \cup Committing \cup {"running"}
  /\ tail \in Nat \ {0}

\* What a restart would show: the home blocks, under the log blocks of the
\* header on disk.
IndexIn(h, b) == CHOOSE i \in 1 .. Len(h) : h[i] = b

Durable ==
  [b \in Block |-> IF b \in LoggedIn(head) THEN logblk[IndexIn(head, b)] ELSE home[b]]

\* Blocks read during recovery are not shown to anyone.
Volatile == IF phase \in Recovering THEN Durable ELSE cache

\* Calls that have begun and not ended; one that panics stays in the middle.
Active == {p \in Proc : pc[p] \in {"op", "panic"}}

AD == INSTANCE AtomicDisk WITH
        durable  <- Durable,
        volatile <- Volatile,
        active   <- Active,
        up       <- phase \notin Recovering

\* log.c 12-16: the log is an atomic disk.  Whatever the interleaving of the
\* calls and wherever a crash falls in write_log(), write_head(),
\* install_trans() or in recovery itself, what the disk holds changes only when
\* write_head() commits, and then to the effects of all finished calls at once
\* and of no unfinished one; between commits no update is lost to the cache.
AtomicCommit == AD!Spec

\* None of the panics of log_write() ("too big a transaction", "log_write
\* outside of trans") and end_op() ("log.committing") is reachable: the space
\* that begin_op() reserves is enough for every call it admits.
NoPanic == \A p \in Proc : pc[p] # "panic"

\* Blocks logged and not yet installed by commit().
Waiting ==
  IF phase = "erase" THEN {}
  ELSE {lh[i] : i \in (IF phase = "install" THEN tail ELSE 1) .. Len(lh)}

\* bpin() in log_write() and bunpin() in install_trans() balance, absorbed
\* writes included: a block is pinned exactly once while it waits to be
\* installed, and no pin survives commit().
PinsBalanced ==
  phase \notin Recovering => pins = [b \in Block |-> IF b \in Waiting THEN 1 ELSE 0]

\* A process asleep in begin_op() is woken eventually, whether it waits for
\* a commit or for log space.
SleepersWake == \A p \in Proc : pc[p] = "asleep" ~> pc[p] # "asleep"
===============================================================================

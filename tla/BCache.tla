-------------------------------- MODULE BCache --------------------------------
(***************************************************************************)
(* kernel/bio.c over kernel/sleeplock.c: the buffer cache.                  *)
(*                                                                          *)
(* A step is a critical section of bcache.lock or of the spin lock inside a *)
(* sleep lock, or the completion of a disk transfer.  The callers are the   *)
(* file system and the log: a holder changes b->data only together with     *)
(* log_write(), which pins the buffer, and the log unpins it after bwrite(). *)
(***************************************************************************)
EXTENDS Integers, Sequences, FiniteSets

CONSTANTS
  Proc,
  Block,      \* block numbers on the one device
  Val,        \* contents of a block
  NBUF,
  MaxPinned,  \* blocks the log pins at once, at most
  NoBlock     \* b->blockno (and b->dev) of a buffer never used

None == "none"   \* no process

ASSUME BCacheAssumption ==
  /\ IsFiniteSet(Proc) /\ None \notin Proc
  /\ NBUF \in Nat \ {0}
  /\ MaxPinned \in Nat
  /\ NoBlock \notin Block

Buf == 1 .. NBUF

VARIABLES
  blockno, valid, refcnt, data,  \* struct buf
  locked,    \* its sleep lock: the process holding it, or None
  lru,       \* the list from head.next (most recently used) to head.prev
  disk,
  pc,        \* where each process is in bread(), bwrite(), brelse()
  buf,       \* the buffer it works on
  want,      \* the block it asked for
  pinned,    \* blocks in the log's header
  latest     \* history: the contents last given to each block by a holder

bcache == <<blockno, valid, refcnt, data, locked, lru>>
vars   == <<bcache, disk, pc, buf, want, pinned, latest>>

Goto(p, place) == pc' = [pc EXCEPT ![p] = place]

-------------------------------------------------------------------------------
(* Mutations: plausible slips in the code, used to see each property fail.  *)

\* The block's buffer is linked at the head without being unlinked.
LinkWithoutUnlink(b) == [k \in 1 .. NBUF |-> IF k = 1 THEN b ELSE lru[k - 1]]

\* bget() overlooks a buffer whose contents are still being read.
CachedIfValid(bn) == {b \in Buf : blockno[b] = bn /\ valid[b]}

\* bget() recycles the last buffer of the list, used or not.
RecycleLast(k) == k = NBUF

\* bget() does not clear b->valid.
StaysValid(b) == valid

\* log_write() does not pin, or pins again a block that is in the log.
PinNever(b) == refcnt
PinAgain(b) == [refcnt EXCEPT ![b] = @ + 1]

\* releasesleep() wakes nobody.
WokenNone(b) == pc

-------------------------------------------------------------------------------

\* Move b to the head of the list.
MoveToHead(b) ==
  LET i == CHOOSE k \in Buf : lru[k] = b
  IN  [k \in Buf |-> IF k = 1 THEN b ELSE IF k <= i THEN lru[k - 1] ELSE lru[k]]

-------------------------------------------------------------------------------
(* bread().                                                                 *)

Cached(bn) == {b \in Buf : blockno[b] = bn}

\* bget(): the block is already cached.
bget_hit(p, bn) ==
  /\ pc[p] = "idle"
  /\ \E b \in Cached(bn) :
       /\ refcnt' = [refcnt EXCEPT ![b] = @ + 1]
       /\ buf' = [buf EXCEPT ![p] = b]
  /\ want' = [want EXCEPT ![p] = bn]
  /\ Goto(p, "acquire")
  /\ UNCHANGED <<blockno, valid, data, locked, lru, disk, pinned, latest>>

\* The scan of bget() from the end of the list stops at lru[k].
Recycled(k) == refcnt[lru[k]] = 0 /\ \A m \in k + 1 .. NBUF : refcnt[lru[m]] # 0

Invalidated(b) == [valid EXCEPT ![b] = FALSE]

\* bget(): recycle the least recently used unused buffer.
bget_miss(p, bn) ==
  /\ pc[p] = "idle"
  /\ Cached(bn) = {}
  /\ \E k \in 1 .. NBUF :
       /\ Recycled(k)
       /\ blockno' = [blockno EXCEPT ![lru[k]] = bn]
       /\ valid' = Invalidated(lru[k])
       /\ refcnt' = [refcnt EXCEPT ![lru[k]] = 1]
       /\ buf' = [buf EXCEPT ![p] = lru[k]]
  /\ want' = [want EXCEPT ![p] = bn]
  /\ Goto(p, "acquire")
  /\ UNCHANGED <<data, locked, lru, disk, pinned, latest>>

\* bget(): panic("bget: no buffers").
bget_panic(p, bn) ==
  /\ pc[p] = "idle"
  /\ Cached(bn) = {}
  /\ \A b \in Buf : refcnt[b] # 0
  /\ Goto(p, "panic")
  /\ UNCHANGED <<bcache, disk, buf, want, pinned, latest>>

\* acquiresleep(): take the lock, or sleep on it.
acquiresleep(p) ==
  /\ pc[p] = "acquire"
  /\ \/ /\ locked[buf[p]] = None
        /\ locked' = [locked EXCEPT ![buf[p]] = p]
        /\ Goto(p, IF valid[buf[p]] THEN "held" ELSE "fill")
     \/ /\ locked[buf[p]] # None
        /\ Goto(p, "asleep")
        /\ UNCHANGED locked
  /\ UNCHANGED <<blockno, valid, refcnt, data, lru, disk, buf, want, pinned, latest>>

\* bread(): virtio_disk_rw(b, 0) has completed; b->valid = 1.
fill(p) ==
  /\ pc[p] = "fill"
  /\ data' = [data EXCEPT ![buf[p]] = disk[blockno[buf[p]]]]
  /\ valid' = [valid EXCEPT ![buf[p]] = TRUE]
  /\ Goto(p, "held")
  /\ UNCHANGED <<blockno, refcnt, locked, lru, disk, buf, want, pinned, latest>>

-------------------------------------------------------------------------------
(* What holders of a buffer do.                                             *)

\* log_write(): bpin(b), unless the block is in the log already.
Pinned(b) == IF blockno[b] \in pinned THEN refcnt ELSE [refcnt EXCEPT ![b] = @ + 1]

\* The file system changes b->data and calls log_write().
modify(p) ==
  LET b == buf[p] IN
  /\ pc[p] = "held"
  /\ \E v \in Val :
       /\ data' = [data EXCEPT ![b] = v]
       /\ latest' = [latest EXCEPT ![blockno[b]] = v]
  /\ Cardinality(pinned \cup {blockno[b]}) <= MaxPinned
  /\ pinned' = pinned \cup {blockno[b]}
  /\ refcnt' = Pinned(b)
  /\ UNCHANGED <<blockno, valid, locked, lru, disk, pc, buf, want>>

\* install_trans(): bwrite(dbuf) has completed.  bwrite() panics without the lock.
bwrite(p) ==
  LET b == buf[p] IN
  /\ pc[p] = "held"
  /\ blockno[b] \in pinned
  /\ IF locked[b] # p
       THEN Goto(p, "panic") /\ UNCHANGED disk
       ELSE Goto(p, "written") /\ disk' = [disk EXCEPT ![blockno[b]] = data[b]]
  /\ UNCHANGED <<bcache, buf, want, pinned, latest>>

\* install_trans(): bunpin(dbuf).
bunpin(p) ==
  /\ pc[p] = "written"
  /\ refcnt' = [refcnt EXCEPT ![buf[p]] = @ - 1]
  /\ pinned' = pinned \ {blockno[buf[p]]}
  /\ Goto(p, "held")
  /\ UNCHANGED <<blockno, valid, data, locked, lru, disk, buf, want, latest>>

\* releasesleep(): wakeup(lk) wakes the processes asleep on the lock of b.
Woken(b) == [q \in Proc |-> IF pc[q] = "asleep" /\ buf[q] = b THEN "acquire" ELSE pc[q]]

\* brelse(): releasesleep(&b->lock).  It panics without the lock.
releasesleep(p) ==
  /\ pc[p] = "held"
  /\ IF locked[buf[p]] # p
       THEN Goto(p, "panic") /\ UNCHANGED locked
       ELSE /\ locked' = [locked EXCEPT ![buf[p]] = None]
            /\ pc' = [Woken(buf[p]) EXCEPT ![p] = "release"]
  /\ UNCHANGED <<blockno, valid, refcnt, data, lru, disk, buf, want, pinned, latest>>

\* brelse(): drop the reference; the last one moves the buffer to the head.
brelse(p) ==
  LET b == buf[p] IN
  /\ pc[p] = "release"
  /\ refcnt' = [refcnt EXCEPT ![b] = @ - 1]
  /\ lru' = IF refcnt[b] = 1 THEN MoveToHead(b) ELSE lru
  /\ want' = [want EXCEPT ![p] = NoBlock]
  /\ buf' = [buf EXCEPT ![p] = 1]
  /\ Goto(p, "idle")
  /\ UNCHANGED <<blockno, valid, data, locked, disk, pinned, latest>>

\* kill() makes a sleeper runnable; acquiresleep() tests lk->locked again.
kill(p) ==
  /\ pc[p] = "asleep"
  /\ Goto(p, "acquire")
  /\ UNCHANGED <<bcache, disk, buf, want, pinned, latest>>

-------------------------------------------------------------------------------

\* binit() puts each buffer at the head of the list in turn.
Init ==
  /\ blockno = [b \in Buf |-> NoBlock]
  /\ valid = [b \in Buf |-> FALSE]
  /\ refcnt = [b \in Buf |-> 0]
  /\ locked = [b \in Buf |-> None]
  /\ lru = [k \in Buf |-> NBUF + 1 - k]
  /\ \E v \in Val :
       /\ data = [b \in Buf |-> v]
       /\ disk = [bn \in Block |-> v]
  /\ latest = disk
  /\ pc = [p \in Proc |-> "idle"]
  /\ buf = [p \in Proc |-> 1]
  /\ want = [p \in Proc |-> NoBlock]
  /\ pinned = {}

Next ==
  \E p \in Proc :
    \/ \E bn \in Block : bget_hit(p, bn) \/ bget_miss(p, bn) \/ bget_panic(p, bn)
    \/ acquiresleep(p) \/ fill(p) \/ modify(p) \/ bwrite(p) \/ bunpin(p)
    \/ releasesleep(p) \/ brelse(p) \/ kill(p)

Spec == Init /\ [][Next]_vars

-------------------------------------------------------------------------------
(* Properties.                                                              *)

Places == {"idle", "acquire", "asleep", "fill", "held", "written", "release", "panic"}

\* Types; in particular no reference count goes below zero.
TypeOK ==
  /\ blockno \in [Buf -> Block \cup {NoBlock}]
  /\ valid \in [Buf -> BOOLEAN]
  /\ refcnt \in [Buf -> Nat]
  /\ data \in [Buf -> Val]
  /\ locked \in [Buf -> Proc \cup {None}]
  /\ lru \in [Buf -> Buf]
  /\ disk \in [Block -> Val]
  /\ pc \in [Proc -> Places]
  /\ buf \in [Proc -> Buf]
  /\ want \in [Proc -> Block \cup {NoBlock}]
  /\ pinned \subseteq Block
  /\ latest \in [Block -> Val]

Using(b)  == {p \in Proc : pc[p] \notin {"idle", "panic"} /\ buf[p] = b}
Holders   == {p \in Proc : pc[p] \in {"fill", "held", "written"}}

\* A block is in at most one buffer, so that the sleep lock of the buffer is a
\* lock on the block: two processes never hold the same block at once.
OneBufferPerBlock ==
  /\ \A a, b \in Buf : blockno[a] = blockno[b] /\ blockno[a] # NoBlock => a = b
  /\ \A p, q \in Holders : want[p] = want[q] => p = q

\* refcnt counts the processes that use or wait for the buffer, and the log's
\* pin: bget(), brelse(), bpin() and bunpin() balance.
RefcntCounts ==
  \A b \in Buf : refcnt[b] = Cardinality(Using(b)) + (IF blockno[b] \in pinned THEN 1 ELSE 0)

\* A buffer is not recycled under a process that uses it or waits for its lock.
NotRecycledInUse ==
  \A p \in Proc : pc[p] \notin {"idle", "panic"} => blockno[buf[p]] = want[p]

\* A process that has read a block sees what was last put in it, whether the
\* buffer stayed, was recycled and read again, or is pinned by the log.
ReadsLatest ==
  \A p \in Proc : pc[p] \in {"held", "written"} => data[buf[p]] = latest[want[p]]

\* The list holds every buffer exactly once, so the scan of bget() sees all.
ListComplete == \A b \in Buf : \E k \in Buf : lru[k] = b

\* A process asleep on a buffer's lock has a holder to wake it, or is awake in
\* a moment: no wakeup is lost between acquiresleep() and releasesleep().
SleeperHasHolder ==
  \A p \in Proc : pc[p] = "asleep" => \E q \in Holders : buf[q] = buf[p] /\ locked[buf[p]] = q

\* What every state of the buffer cache satisfies: bget(), brelse(), bpin() and
\* the sleep locks keep one current copy of each block under any interleaving.
CacheInv ==
  /\ TypeOK /\ OneBufferPerBlock /\ RefcntCounts /\ NotRecycledInUse
  /\ ReadsLatest /\ ListComplete /\ SleeperHasHolder

-------------------------------------------------------------------------------
(* The inductive invariant behind CacheInv (see BCacheProofs).              *)

Out == {"idle", "panic"}

\* A block is in one buffer, and a process works on the buffer of the block it
\* asked for.
Names ==
  /\ \A a, b \in Buf : blockno[a] = blockno[b] /\ blockno[a] # NoBlock => a = b
  /\ \A p \in Proc : pc[p] \notin Out => want[p] \in Block /\ blockno[buf[p]] = want[p]

\* Sleep locks: a holder has the lock of its buffer, only a holder has one, and
\* nobody sleeps on a lock that is free.
Locks ==
  /\ \A p \in Holders : locked[buf[p]] = p
  /\ \A b \in Buf : locked[b] # None => locked[b] \in Holders /\ buf[locked[b]] = b
  /\ \A p \in Proc : pc[p] = "asleep" => locked[buf[p]] # None

\* A valid buffer holds the latest contents of its block; so does the disk for a
\* block that is not pinned, or was just written; a pinned block is cached.
Contents ==
  /\ \A b \in Buf : valid[b] => blockno[b] \in Block /\ data[b] = latest[blockno[b]]
  /\ \A p \in Proc : pc[p] \in {"held", "written"} => valid[buf[p]]
  /\ \A p \in Proc : pc[p] = "fill" => ~ valid[buf[p]]
  /\ \A bn \in Block \ pinned : disk[bn] = latest[bn]
  /\ \A bn \in pinned : \E b \in Buf : blockno[b] = bn /\ valid[b]
  /\ \A p \in Proc : pc[p] = "written" => want[p] \in pinned /\ disk[want[p]] = latest[want[p]]

Core == TypeOK /\ Names /\ Locks /\ Contents /\ ListComplete

\* A buffer with reference count 0 is not pinned and nobody works on it.
Unused ==
  \A b \in Buf : refcnt[b] = 0 =>
    blockno[b] \notin pinned /\ \A p \in Proc : pc[p] \notin Out => buf[p] # b

\* The inductive invariant.
IInv == Core /\ RefcntCounts
===============================================================================

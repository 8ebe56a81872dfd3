------------------------------ MODULE VirtioDisk ------------------------------
(***************************************************************************)
(* kernel/virtio_disk.c under the buffer cache of BCache.                   *)
(*                                                                          *)
(* BCache takes a disk transfer as one step; here it is what                *)
(* virtio_disk_rw(), the device and virtio_disk_intr() do together.  pc[p]  *)
(* keeps BCache's place ("fill" in bread(), "held" in bwrite()) while io[p] *)
(* says where p is in virtio_disk_rw().  A step is a critical section of    *)
(* vdisk_lock, except that the handler, which holds the lock from ackn on,  *)
(* interleaves with the device.  The device is external: it finishes the    *)
(* requests of the avail ring in any order, and may fail one.               *)
(* panic() in the handler ends the run of the system.                       *)
(* A ring with its free-running index stands for the entries that the other *)
(* side has not dealt with yet.                                             *)
(***************************************************************************)
EXTENDS BCache, FiniteSetsExt

CONSTANT Sizes  \* numbers of descriptors to start from

ASSUME VirtioAssumption == \A n \in Sizes : n \in Nat /\ n >= 3

End  == 0          \* a descriptor without VRING_DESC_F_NEXT

VARIABLES
  NUM,             \* descriptors, fixed at the start
  free,            \* the descriptors with disk.free[i] = 1
  desc,            \* desc[i].next, or End
  ops,             \* by first descriptor: what the device is asked to do
  info, status,    \* by first descriptor: info[i].b (0 for none), info[i].status
  b_disk,          \* b->disk
  avail, used,     \* the requests the device has, and those it has finished
  irq,             \* the interrupt line
  intr,            \* virtio_disk_intr(): "idle", "loop" (lock held) or "panic"
  io,              \* virtio_disk_rw() of each process
  idx              \* its idx[0]

rings  == <<NUM, free, desc, ops, info, b_disk, avail>>
device == <<used, status, irq>>
vvars  == <<vars, rings, device, intr, io, idx>>

Desc    == 1 .. NUM
NoReq   == [write |-> FALSE, sector |-> NoBlock, addr |-> 0]
LockFree == intr = "idle"

Enter(p, place) == io' = [io EXCEPT ![p] = place]

-------------------------------------------------------------------------------
(* Mutations.                                                               *)

\* free_chain() frees the head alone.
FreeHead(h) == {h}

\* virtio_disk_rw() does not look at b->disk again after sleep().
DoneAtWakeup(p) == TRUE

\* virtio_disk_intr() takes an answer without looking at the status.
AnyStatus(h) == TRUE

\* virtio_disk_intr() takes one entry of the used ring per interrupt.
OneEntry == "idle"

-------------------------------------------------------------------------------
(* Descriptors.                                                             *)

\* The chain that starts at h.
Chain(h) == {h, desc[h], IF desc[h] = End THEN End ELSE desc[desc[h]]} \ {End}

\* free_chain() follows the chain and frees every descriptor of it.
free_chain(h) == Chain(h)

\* sleep() returns into the loop around alloc3_desc(), or around b->disk.
Runnable(place) == IF place = "nodesc" THEN "alloc" ELSE "test"

\* wakeup(): the processes of S at place become runnable.
wakeup(place, S) == [p \in Proc |-> IF io[p] = place /\ p \in S THEN Runnable(place) ELSE io[p]]

\* alloc3_desc() finds three.
Three == Cardinality(free) >= 3

-------------------------------------------------------------------------------
(* virtio_disk_rw().                                                        *)

Writes(p) == pc[p] # "fill"

\* bread() of a buffer that is not valid, or bwrite() of one that the log
\* holds, calls virtio_disk_rw().  bwrite() panics without the lock.
rw_call(p) ==
  /\ io[p] = "none" /\ intr # "panic"
  /\ \/ pc[p] = "fill"
     \/ pc[p] = "held" /\ blockno[buf[p]] \in pinned
  /\ IF pc[p] = "held" /\ locked[buf[p]] # p
       THEN Goto(p, "panic") /\ UNCHANGED io
       ELSE Enter(p, "alloc") /\ UNCHANGED pc
  /\ UNCHANGED <<bcache, disk, buf, want, pinned, latest, rings, device, intr, idx>>

\* alloc3_desc() fails: free_desc() of those it took wakes the others that
\* wait, and this process sleeps.
rw_nodesc(p) ==
  /\ io[p] = "alloc"
  /\ LockFree
  /\ ~ Three
  /\ io' = [wakeup("nodesc", IF free = {} THEN {} ELSE Proc) EXCEPT ![p] = "nodesc"]
  /\ UNCHANGED <<vars, rings, device, intr, idx>>

\* alloc3_desc() succeeds: format the three descriptors, publish the first in
\* the avail ring and sleep on b.
rw_submit(p) ==
  LET b  == buf[p]
      i0 == Min(free)
      i1 == Min(free \ {i0})
      i2 == IF free = {i0, i1} THEN i1 ELSE Min(free \ {i0, i1})
  IN
  /\ io[p] = "alloc"
  /\ LockFree
  /\ Three
  /\ free' = free \ {i0, i1, i2}
  /\ desc' = [desc EXCEPT ![i0] = i1, ![i1] = i2, ![i2] = End]
  /\ ops' = [ops EXCEPT ![i0] = [write |-> Writes(p), sector |-> blockno[b], addr |-> b]]
  /\ info' = [info EXCEPT ![i0] = b]
  /\ status' = [status EXCEPT ![i0] = "pending"]
  /\ b_disk' = [b_disk EXCEPT ![b] = TRUE]
  /\ avail' = avail \cup {i0}
  /\ idx' = [idx EXCEPT ![p] = i0]
  /\ Enter(p, "asleep")
  /\ UNCHANGED <<vars, NUM, used, irq, intr>>

Done(p) == ~ b_disk[buf[p]]

\* while(b->disk == 1) sleep(b): woken too early.
rw_again(p) ==
  /\ io[p] = "test"
  /\ LockFree
  /\ ~ Done(p)
  /\ Enter(p, "asleep")
  /\ UNCHANGED <<vars, rings, device, intr, idx>>

\* The request has finished: free_chain(), and bread() sets b->valid.  What is
\* left in ops[h] and status[h] is written again before it is read.
\* free_desc() panics at a descriptor that is free.
rw_return(p) ==
  LET h == idx[p] IN
  /\ io[p] = "test"
  /\ LockFree
  /\ Done(p)
  /\ info' = [info EXCEPT ![h] = 0]
  /\ ops' = [ops EXCEPT ![h] = NoReq]
  /\ status' = [status EXCEPT ![h] = "pending"]
  /\ free' = free \cup free_chain(h)
  /\ desc' = [i \in Desc |-> IF i \in free_chain(h) THEN End ELSE desc[i]]
  /\ io' = [wakeup("nodesc", Proc) EXCEPT ![p] = "none"]
  /\ idx' = [idx EXCEPT ![p] = End]
  /\ IF free_chain(h) \cap free # {}
       THEN Goto(p, "panic") /\ UNCHANGED valid
       ELSE /\ Goto(p, IF Writes(p) THEN "written" ELSE "held")
            /\ valid' = [valid EXCEPT ![buf[p]] = TRUE]
  /\ UNCHANGED <<blockno, refcnt, data, locked, lru, disk, buf, want, pinned, latest,
                 NUM, b_disk, avail, used, irq, intr>>

\* kill() makes the sleeper runnable; both loops test again.
rw_kill(p) ==
  /\ io[p] \in {"nodesc", "asleep"}
  /\ intr # "panic"
  /\ Enter(p, Runnable(io[p]))
  /\ UNCHANGED <<vars, rings, device, intr, idx>>

-------------------------------------------------------------------------------
(* The device.                                                              *)

\* It transfers the block, or fails, tells so in the status byte and in the
\* used ring, and raises its interrupt.
dev_finish(h) ==
  LET r == ops[h] IN
  /\ h \in avail /\ intr # "panic"
  /\ \/ /\ status' = [status EXCEPT ![h] = "ok"]
        /\ IF r.write
             THEN disk' = [disk EXCEPT ![r.sector] = data[r.addr]] /\ UNCHANGED data
             ELSE data' = [data EXCEPT ![r.addr] = disk[r.sector]] /\ UNCHANGED disk
     \/ /\ status' = [status EXCEPT ![h] = "error"]
        /\ UNCHANGED <<disk, data>>
  /\ avail' = avail \ {h}
  /\ used' = Append(used, h)
  /\ irq' = TRUE
  /\ UNCHANGED <<blockno, valid, refcnt, locked, lru, pc, buf, want, pinned, latest,
                 NUM, free, desc, ops, info, b_disk, intr, io, idx>>

-------------------------------------------------------------------------------
(* virtio_disk_intr().                                                      *)

\* acquire(&vdisk_lock) and VIRTIO_MMIO_INTERRUPT_ACK.
intr_ack ==
  /\ irq
  /\ LockFree
  /\ intr' = "loop"
  /\ irq' = FALSE
  /\ UNCHANGED <<vars, rings, used, status, io, idx>>

StatusOk(h) == status[h] = "ok"

\* used_idx += 1, and the loop goes on until it meets used->idx.
AfterEntry == "loop"

\* An entry of the used ring: its buffer is done with, and its sleeper woken.
intr_used ==
  LET h == Head(used) IN
  /\ intr = "loop"
  /\ used # <<>>
  /\ IF StatusOk(h)
       THEN /\ b_disk' = [b_disk EXCEPT ![info[h]] = FALSE]
            /\ io' = wakeup("asleep", {p \in Proc : buf[p] = info[h]})
            /\ used' = Tail(used)
            /\ intr' = AfterEntry
       ELSE /\ intr' = "panic"
            /\ UNCHANGED <<b_disk, io, used>>
  /\ UNCHANGED <<vars, NUM, free, desc, ops, info, avail, status, irq, idx>>

\* used_idx == used->idx: release(&vdisk_lock).
intr_done ==
  /\ intr = "loop"
  /\ used = <<>>
  /\ intr' = "idle"
  /\ UNCHANGED <<vars, rings, device, io, idx>>

-------------------------------------------------------------------------------

\* virtio_disk_init() marks every descriptor free.
VInit ==
  /\ Init
  /\ NUM \in Sizes
  /\ free = Desc
  /\ desc = [i \in Desc |-> End]
  /\ ops = [i \in Desc |-> NoReq]
  /\ info = [i \in Desc |-> 0]
  /\ status = [i \in Desc |-> "pending"]
  /\ b_disk = [b \in Buf |-> FALSE]
  /\ avail = {} /\ used = <<>>
  /\ irq = FALSE
  /\ intr = "idle"
  /\ io = [p \in Proc |-> "none"]
  /\ idx = [p \in Proc |-> End]

\* A step of BCache is taken outside virtio_disk_rw() and leaves the driver alone.
Cache(p) == io[p] = "none" /\ intr # "panic" /\ UNCHANGED <<rings, device, intr, io, idx>>

VNext ==
  \/ \E p \in Proc :
       \/ \E bn \in Block : bget_hit(p, bn) /\ Cache(p)
       \/ \E bn \in Block : bget_miss(p, bn) /\ Cache(p)
       \/ \E bn \in Block : bget_panic(p, bn) /\ Cache(p)
       \/ acquiresleep(p) /\ Cache(p)
       \/ modify(p) /\ Cache(p)
       \/ bunpin(p) /\ Cache(p)
       \/ releasesleep(p) /\ Cache(p)
       \/ brelse(p) /\ Cache(p)
       \/ kill(p) /\ Cache(p)
       \/ rw_call(p) \/ rw_nodesc(p) \/ rw_submit(p) \/ rw_again(p)
       \/ rw_return(p) \/ rw_kill(p)
  \/ \E h \in Desc : dev_finish(h)
  \/ intr_ack \/ intr_used \/ intr_done

VSpec == VInit /\ [][VNext]_vvars

-------------------------------------------------------------------------------
(* Properties.                                                              *)

Submitted(p) == idx[p] # End
Transferred(p) == Submitted(p) /\ status[idx[p]] = "ok"

\* The cache as it looks when a transfer is the one step in which the device
\* moves the data: the process has returned, and the buffer it read is valid.
pcBar == [p \in Proc |-> IF ~ Transferred(p) THEN pc[p]
                         ELSE IF Writes(p) THEN "written" ELSE "held"]
validBar == [b \in Buf |-> valid[b] \/ \E p \in Proc : Transferred(p) /\ buf[p] = b]

\* virtio_disk_rw(), the rings and the interrupt handler make of a disk transfer
\* the one step that the buffer cache takes it for, at the moment the device
\* moves the data: nothing is read or written twice, late or elsewhere, and a
\* transfer that failed is never taken for one that was done.
Atomic == INSTANCE BCache WITH pc <- pcBar, valid <- validBar
TransfersAreAtomic == Atomic!Spec

\* A descriptor is free or belongs to the chain of exactly one process in
\* virtio_disk_rw(), whatever alloc3_desc() gives back half way.
DescriptorsExact ==
  /\ free = Desc \ UNION {Chain(idx[p]) : p \in {q \in Proc : Submitted(q)}}
  /\ \A p, q \in Proc : p # q /\ Submitted(p) /\ Submitted(q) => Chain(idx[p]) \cap Chain(idx[q]) = {}

\* While the device may touch a buffer, its process holds the buffer's lock and
\* the buffer stands for the block of the request.
DeviceHasBuffer ==
  \A h \in avail :
    \E p \in Proc : /\ idx[p] = h /\ locked[ops[h].addr] = p
                    /\ blockno[ops[h].addr] = ops[h].sector
                    /\ b_disk[ops[h].addr]

\* A process asleep in virtio_disk_rw() waits for something that will come: for
\* descriptors that are in use, or for a request that the device has, or whose
\* entry in the used ring a pending interrupt or the running handler will see.
\* Acknowledging the interrupt before reading the ring loses no completion.
SleeperIsServed ==
  \A p \in Proc :
    /\ io[p] = "nodesc" => Cardinality(free) < 3
    /\ io[p] = "asleep" =>
         \/ idx[p] \in avail
         \/ idx[p] \in Range(used) /\ (irq \/ intr # "idle")

\* What every state of the driver satisfies while requests, completions and
\* interrupts overlap: no descriptor is lost or shared, the device touches only
\* buffers that are locked for it, and every sleeper is served.
DriverInv == DescriptorsExact /\ DeviceHasBuffer /\ SleeperIsServed
===============================================================================

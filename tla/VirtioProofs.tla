----------------------------- MODULE VirtioProofs -----------------------------
(***************************************************************************)
(* The theorems about module VirtioDisk.  First the steps of the device and *)
(* of the interrupt handler.  With those of VirtioSteps, every step keeps   *)
(* the driver's part of the invariant and is, through the refinement         *)
(* mapping, a step of BCache or none; BCacheProofs, read through the same    *)
(* mapping, shows that it keeps the cache's part.                            *)
(***************************************************************************)
EXTENDS VirtioSteps

-------------------------------------------------------------------------------
(* The device and the interrupt handler.                                    *)

\* The device finishes a request: that is the moment of the transfer for the
\* cache, fill() or bwrite() of the process that waits, unless it failed.
LEMMA FinishStep ==
  ASSUME Joint, NEW h \in Desc, dev_finish(h)
  PROVE  Driver' /\ (UNCHANGED Atomic!vars \/ \E p \in Proc : Atomic!fill(p) \/ Atomic!bwrite(p))
<1>1. Driver /\ Atomic!IInv
  BY ZenonT(60) DEF Joint
<1>2. /\ h \in avail /\ avail' = avail \ {h} /\ used' = Append(used, h) /\ irq' = TRUE
      /\ UNCHANGED <<blockno, valid, refcnt, locked, lru, pc, buf, want, pinned, latest,
                     NUM, free, desc, ops, info, b_disk, intr, io, idx>>
  BY ZenonT(60) DEF dev_finish
<1>3. PICK x \in {"ok", "error"} :
        /\ status' = [status EXCEPT ![h] = x]
        /\ x = "error" => UNCHANGED <<disk, data>>
        /\ x = "ok" /\ ops[h].write => disk' = [disk EXCEPT ![ops[h].sector] = data[ops[h].addr]] /\ UNCHANGED data
        /\ x = "ok" /\ ~ ops[h].write => data' = [data EXCEPT ![ops[h].addr] = disk[ops[h].sector]] /\ UNCHANGED disk
  BY ZenonT(60) DEF dev_finish
<1>4. PICK p \in Proc : idx[p] = h
  BY ZenonT(60), <1>1, <1>2 DEF Driver, Rings
<1>5. Submitted(p)
  BY ZenonT(60), <1>4, EndIsNone DEF Submitted
<1>6. /\ AtDevice(p)
      /\ ops[h] = [write |-> Writes(p), sector |-> blockno[buf[p]], addr |-> buf[p]]
  BY ZenonT(60), <1>1, <1>2, <1>4, <1>5 DEF Driver, Requests, InRing, Served
<1>7. h \notin Range(used) /\ status[h] = "pending" /\ b_disk[buf[p]] /\ pc[p] \in {"fill", "held"} /\ buf[p] \in Buf
  BY ZenonT(60), <1>1, <1>4, <1>5, <1>6, Submits, CacheTypes DEF AtDevice
<1>8. used \in Seq(Desc) /\ \A i, j \in DOMAIN used : used[i] = used[j] => i = j
  BY ZenonT(60), <1>1 DEF Driver, VTypes, Rings
<1>9. /\ used' \in Seq(Desc) /\ Range(used') = Range(used) \cup {h}
      /\ \A i, j \in DOMAIN used' : used'[i] = used'[j] => i = j
  <2>1. /\ Append(used, h) \in Seq(Desc) /\ Range(Append(used, h)) = Range(used) \cup {h}
        /\ \A i, j \in DOMAIN Append(used, h) : Append(used, h)[i] = Append(used, h)[j] => i = j
    BY ZenonT(60), <1>7, <1>8, AppendEntry
  <2> QED
    BY ZenonT(60), <1>2, <2>1
<1>10. status'[h] = x /\ status' \in [Desc -> Status] /\ \A i \in Desc : i # h => status'[i] = status[i]
  BY ZenonT(60), <1>1, <1>3 DEF Driver, VTypes, Status
<1>11. \A q \in Proc : Submitted(q)' <=> Submitted(q)
  BY ZenonT(60), <1>2 DEF Submitted
<1>12. \A q \in Proc : q # p /\ Submitted(q) => idx[q] # h /\ idx[q] \in Desc
  BY ZenonT(60), <1>1, <1>4, <1>5, RequestsDiffer, Submits
<1>13. Desc' = Desc
  BY ZenonT(60), <1>2 DEF Desc
<1>14. VTypes'
  BY ZenonT(60), <1>1, <1>2, <1>9, <1>10, <1>13 DEF Driver, VTypes
<1>15. Callers' /\ Waiting'
  BY ZenonT(60), <1>1, <1>2 DEF Driver, Callers, Waiting, InRw, Submitted, Three
<1>16. Requests'
  <2> SUFFICES ASSUME NEW q \in Proc, Submitted(q) PROVE AtDevice(q)' \/ InRing(q)' \/ Served(q)'
    BY ZenonT(60), <1>1, <1>2, <1>11 DEF Driver, Requests, Writes
  <2>1. CASE q = p
    <3>1. InRing(p)'
      BY ZenonT(60), <1>2, <1>4, <1>7, <1>9, <1>10 DEF InRing
    <3> QED
      BY ZenonT(60), <2>1, <3>1
  <2>2. CASE q # p
    <3>1. AtDevice(q) \/ InRing(q) \/ Served(q)
      BY ZenonT(60), <1>1 DEF Driver, Requests
    <3>2. /\ idx[q] \in avail' <=> idx[q] \in avail
          /\ idx[q] \in Range(used') <=> idx[q] \in Range(used)
          /\ status'[idx[q]] = status[idx[q]]
      BY ZenonT(60), <1>2, <1>9, <1>10, <1>12, <2>2
    <3> QED
      BY ZenonT(60), <1>2, <3>1, <3>2 DEF AtDevice, InRing, Served
  <2> QED
    BY ZenonT(60), <2>1, <2>2
<1>17. Rings'
  BY ZenonT(60), <1>1, <1>2, <1>4, <1>9 DEF Driver, Rings
<1>18. DescriptorsExact'
  BY ZenonT(60), <1>1, <1>2, ExactStays DEF Driver
<1>19. Driver'
  BY ZenonT(60), <1>14, <1>15, <1>16, <1>17, <1>18 DEF Driver
<1>20. ~ Transferred(p) /\ (Transferred(p)' <=> x = "ok")
  BY ZenonT(60), <1>2, <1>4, <1>5, <1>7, <1>10, <1>11 DEF Transferred
<1>21. \A q \in Proc : q # p => (Transferred(q)' <=> Transferred(q))
  BY ZenonT(60), <1>2, <1>10, <1>11, <1>12 DEF Transferred
<1>22. CASE x = "error"
  <2>1. UNCHANGED vars
    BY ZenonT(60), <1>2, <1>3, <1>22 DEF vars, bcache
  <2>2. \A q \in Proc : Transferred(q)' <=> Transferred(q)
    BY ZenonT(60), <1>20, <1>21, <1>22
  <2> QED
    BY ZenonT(60), <1>19, <2>1, <2>2, BarStays
<1>23. CASE x = "ok"
  <2>1. pcBar[p] = pc[p]
    BY ZenonT(60), <1>20 DEF pcBar
  <2>2. ASSUME NEW y, Writes(p) => y = "written", ~ Writes(p) => y = "held"
        PROVE  pcBar' = [pcBar EXCEPT ![p] = y]
    <3>1. pcBar'[p] = y
      BY ZenonT(60), <1>2, <1>20, <1>23, <2>2 DEF pcBar, Writes
    <3>2. \A q \in Proc : q # p => pcBar'[q] = pcBar[q]
      BY ZenonT(60), <1>2, <1>21 DEF pcBar, Writes
    <3>3. pcBar' = [q \in Proc |-> pcBar'[q]]
      BY DEF pcBar
    <3>4. pcBar = [q \in Proc |-> pcBar[q]]
      BY ZenonT(60) DEF pcBar
    <3> QED
      BY ZenonT(60), <3>1, <3>2, <3>3, <3>4
  <2>3. validBar' = [validBar EXCEPT ![buf[p]] = TRUE]
    <3>1. ASSUME NEW b \in Buf
          PROVE  (valid[b] \/ \E q \in Proc : Transferred(q) /\ buf[q] = b)' =
                 IF b = buf[p] THEN TRUE ELSE (valid[b] \/ \E q \in Proc : Transferred(q) /\ buf[q] = b)
      <4>1. CASE b = buf[p]
        BY ZenonT(60), <1>2, <1>20, <1>23, <4>1
      <4>2. CASE b # buf[p]
        BY ZenonT(60), <1>2, <1>21, <4>2
      <4> QED
        BY ZenonT(60), <4>1, <4>2
    <3> QED
      BY ZenonT(60), <3>1 DEF validBar
  <2>4. ops[h].write = Writes(p) /\ ops[h].sector = blockno[buf[p]] /\ ops[h].addr = buf[p]
    BY <1>6
  <2>5. CASE ~ Writes(p)
    <3>1. pc[p] = "fill" /\ pcBar' = [pcBar EXCEPT ![p] = "held"]
      BY ZenonT(60), <2>2, <2>5 DEF Writes
    <3>2. data' = [data EXCEPT ![buf[p]] = disk[blockno[buf[p]]]] /\ UNCHANGED disk
      BY ZenonT(60), <1>3, <1>23, <2>4, <2>5
    <3>3. Atomic!fill(p)
      BY ZenonT(60), <1>2, <2>1, <2>3, <3>1, <3>2 DEF Atomic!fill, Atomic!Goto
    <3> QED
      BY ZenonT(60), <1>19, <3>3
  <2>6. CASE Writes(p)
    <3>1. pc[p] = "held" /\ pcBar' = [pcBar EXCEPT ![p] = "written"]
      BY ZenonT(60), <1>7, <2>2, <2>6 DEF Writes
    <3>2. disk' = [disk EXCEPT ![blockno[buf[p]]] = data[buf[p]]] /\ UNCHANGED data
      BY ZenonT(60), <1>3, <1>23, <2>4, <2>6
    <3>3. locked[buf[p]] = p /\ blockno[buf[p]] \in pinned
      <4>1. InRw(p)
        BY ZenonT(60), <1>1, <1>5, Submits
      <4> QED
        BY ZenonT(60), <1>1, <3>1, <4>1, Holding DEF Driver, Callers
    <3>4. validBar' = validBar
      <4>1. validBar[buf[p]]
        BY ZenonT(60), <1>1, <2>1, <3>1, CacheFacts
      <4>2. validBar[buf[p]] = TRUE
        BY ZenonT(60), <1>7, <4>1 DEF validBar
      <4>3. validBar = [b \in Buf |-> validBar[b]]
        BY ZenonT(60) DEF validBar
      <4> QED
        BY ZenonT(60), <2>3, <4>2, <4>3
    <3>5. Atomic!bwrite(p)
      BY ZenonT(60), <1>2, <2>1, <3>1, <3>2, <3>3, <3>4 DEF Atomic!bwrite, Atomic!Goto, Atomic!bcache
    <3> QED
      BY ZenonT(60), <1>19, <3>5
  <2> QED
    BY ZenonT(60), <2>5, <2>6
<1> QED
  BY ZenonT(60), <1>22, <1>23

\* The handler acknowledges the interrupt before it looks at the ring, or has
\* seen the whole ring and releases the lock.
LEMMA AckStep ==
  ASSUME Joint, intr_ack \/ intr_done PROVE Driver' /\ UNCHANGED Atomic!vars
<1>1. Driver
  BY ZenonT(60) DEF Joint
<1>2. UNCHANGED <<vars, rings, used, status, io, idx>>
  BY ZenonT(60) DEF intr_ack, intr_done, device
<1>3. used' # <<>> => irq' \/ intr' # "idle"
  BY ZenonT(60) DEF intr_ack, intr_done, device
<1>4. UNCHANGED <<NUM, free, desc, ops, info, b_disk, avail, pc, valid, buf, blockno, pinned>> /\ Desc' = Desc
  BY ZenonT(60), <1>2 DEF rings, vars, bcache, Desc
<1>5. VTypes' /\ Callers' /\ Waiting'
  BY ZenonT(60), <1>1, <1>2, <1>4 DEF Driver, VTypes, Callers, Waiting, InRw, Submitted, Three
<1>6. Requests' /\ Rings'
  BY ZenonT(60), <1>1, <1>2, <1>3, <1>4 DEF Driver, Requests, Rings, Submitted, Writes, AtDevice, InRing,
     Served
<1>7. DescriptorsExact'
  BY ZenonT(60), <1>1, <1>2, <1>4, ExactStays DEF Driver
<1> QED
  BY ZenonT(60), <1>2, <1>5, <1>6, <1>7, BarIdle DEF Driver

\* The handler takes an entry of the used ring: its process finds b->disk clear,
\* and no other process is disturbed.  For the cache nothing happens.
LEMMA UsedStep == ASSUME Joint, intr_used PROVE Driver' /\ UNCHANGED Atomic!vars
<1>1. Driver /\ Atomic!IInv
  BY ZenonT(60) DEF Joint
<1>2. /\ intr = "loop" /\ used # <<>>
      /\ UNCHANGED <<vars, NUM, free, desc, ops, info, avail, status, irq, idx>>
  BY ZenonT(60) DEF intr_used
<1>3. UNCHANGED <<pc, valid, buf, blockno, pinned>> /\ Desc' = Desc
  BY ZenonT(60), <1>2 DEF vars, bcache, Desc
<1>4. UNCHANGED Atomic!vars
  BY ZenonT(60), <1>2, BarIdle
<1>5. DescriptorsExact'
  BY ZenonT(60), <1>1, <1>2, ExactStays DEF Driver
<1>6. CASE ~ StatusOk(Head(used))
  <2>1. intr' = "panic" /\ UNCHANGED <<b_disk, io, used>>
    BY ZenonT(60), <1>6 DEF intr_used
  <2>2. VTypes' /\ Callers' /\ Waiting'
    BY ZenonT(60), <1>1, <1>2, <1>3, <2>1 DEF Driver, VTypes, Callers, Waiting, InRw, Submitted, Three
  <2>3. Requests' /\ Rings'
    BY ZenonT(60), <1>1, <1>2, <1>3, <2>1 DEF Driver, Requests, Rings, Submitted, Writes, AtDevice, InRing,
       Served
  <2> QED
    BY ZenonT(60), <1>4, <1>5, <2>2, <2>3 DEF Driver
<1>7. CASE StatusOk(Head(used))
  <2>1. used \in Seq(Desc) /\ \A i, j \in DOMAIN used : used[i] = used[j] => i = j
    BY ZenonT(60), <1>1 DEF Driver, VTypes, Rings
  <2>2. /\ Head(used) \in Range(used) /\ Head(used) \in Desc /\ Tail(used) \in Seq(Desc)
        /\ Range(Tail(used)) = Range(used) \ {Head(used)}
        /\ \A i, j \in DOMAIN Tail(used) : Tail(used)[i] = Tail(used)[j] => i = j
    BY ZenonT(60), <1>2, <2>1, TakeEntry
  <2>3. PICK h \in Desc : h = Head(used)
    BY ZenonT(60), <2>2
  <2>4. used' = Tail(used) /\ intr' = "loop"
    BY ZenonT(60), <1>7 DEF intr_used, AfterEntry
  <2>5. /\ used' \in Seq(Desc) /\ Range(used') = Range(used) \ {h} /\ h \in Range(used)
        /\ \A i, j \in DOMAIN used' : used'[i] = used'[j] => i = j
    BY ZenonT(60), <2>2, <2>3, <2>4
  <2>6. PICK p \in Proc : idx[p] = h
    BY ZenonT(60), <1>1, <2>5 DEF Driver, Rings
  <2>7. Submitted(p)
    BY ZenonT(60), <2>6, EndIsNone DEF Submitted
  <2>8. InRing(p) /\ info[h] = buf[p] /\ status[h] = "ok"
    <3>1. info[h] = buf[p] /\ (AtDevice(p) \/ InRing(p) \/ Served(p))
      BY ZenonT(60), <1>1, <2>6, <2>7 DEF Driver, Requests
    <3> QED
      BY ZenonT(60), <1>7, <2>3, <2>5, <2>6, <3>1 DEF AtDevice, Served, StatusOk
  <2>9. /\ b_disk' = [b_disk EXCEPT ![buf[p]] = FALSE]
        /\ io' = wakeup("asleep", {q \in Proc : buf[q] = buf[p]})
    BY ZenonT(60), <1>7, <2>3, <2>8 DEF intr_used
  <2>10. buf[p] \in Buf /\ io[p] \in {"asleep", "test"} /\ pc[p] \in {"fill", "held"}
    BY ZenonT(60), <1>1, <2>7, Submits, CacheTypes
  <2>11. b_disk' \in [Buf -> BOOLEAN] /\ ~ b_disk'[buf[p]] /\ \A b \in Buf : b # buf[p] => b_disk'[b] = b_disk[b]
    <3>1. b_disk \in [Buf -> BOOLEAN]
      BY ZenonT(60), <1>1 DEF Driver, VTypes
    <3> QED
      BY ZenonT(60), <2>9, <2>10, <3>1
  <2>12. ASSUME NEW q \in Proc
         PROVE  io'[q] \in Ios /\ (io'[q] = io[q] \/ (io[q] = "asleep" /\ io'[q] = "test"))
    <3> DEFINE S == {r \in Proc : buf[r] = buf[p]}
    <3>1. io' = wakeup("asleep", S)
      BY ZenonT(60), <2>9
    <3> HIDE DEF S
    <3>2. wakeup("asleep", S)[q] \in Ios
      BY ZenonT(60), <1>1, WakeupMoves
    <3>3. wakeup("asleep", S)[q] = io[q] \/ (io[q] = "asleep" /\ wakeup("asleep", S)[q] = "test")
      BY ZenonT(60), <1>1, WakeupMoves
    <3> QED
      BY ZenonT(60), <3>1, <3>2, <3>3
  <2>13. io'[p] = "test"
    BY ZenonT(60), <2>9, <2>10 DEF wakeup, Runnable
  <2>14. io' \in [Proc -> Ios]
    <3>1. io' = [q \in Proc |-> io'[q]]
      BY ZenonT(60), <2>9 DEF wakeup
    <3> QED
      BY ZenonT(60), <2>12, <3>1
  <2>15. VTypes'
    BY ZenonT(60), <1>1, <1>2, <1>3, <2>5, <2>11, <2>14 DEF Driver, VTypes
  <2>16. Callers'
    <3> SUFFICES ASSUME NEW q \in Proc
                 PROVE  /\ io'[q] # "none" => pc[q] = "fill" \/ (pc[q] = "held" /\ blockno[buf[q]] \in pinned)
                        /\ Submitted(q)' <=> io'[q] \in {"asleep", "test"}
      BY ZenonT(60), <1>3 DEF Callers, InRw
    <3>1. Submitted(q)' <=> Submitted(q)
      BY ZenonT(60), <1>2 DEF Submitted
    <3>2. /\ io[q] # "none" => pc[q] = "fill" \/ (pc[q] = "held" /\ blockno[buf[q]] \in pinned)
          /\ Submitted(q) <=> io[q] \in {"asleep", "test"}
      BY ZenonT(60), <1>1 DEF Driver, Callers, InRw
    <3> QED
      BY ZenonT(60), <2>12, <3>1, <3>2
  <2>17. Waiting'
    <3>1. \A q \in Proc : io'[q] = "nodesc" => io[q] = "nodesc"
      BY ZenonT(60), <2>12
    <3> QED
      BY ZenonT(60), <1>1, <1>2, <3>1 DEF Driver, Waiting, Three
  <2>18. Requests'
    <3> SUFFICES ASSUME NEW q \in Proc, Submitted(q) PROVE AtDevice(q)' \/ InRing(q)' \/ Served(q)'
      BY ZenonT(60), <1>1, <1>2, <1>3 DEF Driver, Requests, Writes, Submitted
    <3>1. CASE q = p
      <4>1. Served(p)'
        BY ZenonT(60), <1>2, <1>3, <2>5, <2>6, <2>8, <2>11, <2>13 DEF Served, InRing
      <4> QED
        BY ZenonT(60), <3>1, <4>1
    <3>2. CASE q # p
      <4>1. AtDevice(q) \/ InRing(q) \/ Served(q)
        BY ZenonT(60), <1>1 DEF Driver, Requests
      <4>2. idx[q] # h /\ pc[q] \in {"fill", "held"} /\ buf[q] \in Buf
        BY ZenonT(60), <1>1, <2>6, <2>7, <3>2, RequestsDiffer, Submits, CacheTypes
      <4>3. buf[q] # buf[p]
        BY ZenonT(60), <2>10, <3>2, <4>2, Apart
      <4>4. b_disk'[buf[q]] = b_disk[buf[q]] /\ (idx[q] \in Range(used') <=> idx[q] \in Range(used))
        BY ZenonT(60), <2>5, <2>11, <4>2, <4>3
      <4>5. io[q] = "test" => io'[q] = "test"
        BY ZenonT(60), <2>12
      <4> QED
        BY ZenonT(60), <1>2, <1>3, <4>1, <4>4, <4>5 DEF AtDevice, InRing, Served
    <3> QED
      BY ZenonT(60), <3>1, <3>2
  <2>19. Rings'
    BY ZenonT(60), <1>1, <1>2, <2>4, <2>5 DEF Driver, Rings
  <2> QED
    BY ZenonT(60), <1>4, <1>5, <2>15, <2>16, <2>17, <2>18, <2>19 DEF Driver
<1> QED
  BY ZenonT(60), <1>6, <1>7

-------------------------------------------------------------------------------
(* The inductive invariant.                                                 *)

\* virtio_disk_init() and binit() leave nothing in transfer.
LEMMA InitSteps == VInit => Atomic!Init /\ Driver
<1> SUFFICES ASSUME VInit PROVE Atomic!Init /\ Driver
  OBVIOUS
<1>1. \A p \in Proc : ~ Submitted(p) /\ ~ Transferred(p)
  BY ZenonT(60) DEF VInit, Submitted, Transferred
<1>2. pcBar = [p \in Proc |-> "idle"]
  BY ZenonT(60), <1>1 DEF pcBar, VInit, Init
<1>3. \A b \in Buf : valid[b] = FALSE
  BY ZenonT(60) DEF VInit, Init
<1>4. validBar = [b \in Buf |-> FALSE]
  BY ZenonT(60), <1>1, <1>3 DEF validBar
<1>5. Atomic!Init
  BY ZenonT(60), <1>2, <1>4 DEF VInit, Init, Atomic!Init, Atomic!Buf, Buf, Atomic!None, None
<1>7. NUM \in Nat
  BY ZenonT(60), VirtioAssumption DEF VInit
<1>8. VTypes
  <2>1. used \in Seq(Desc)
    BY DEF VInit
  <2>2. pc \in [Proc -> Places]
    BY ZenonT(60) DEF VInit, Init, Places
  <2>3. io \in [Proc -> Ios] /\ status \in [Desc -> Status]
    BY ZenonT(60) DEF VInit, Ios, Status
  <2>4. /\ desc \in [Desc -> Desc \cup {End}] /\ info \in [Desc -> Buf \cup {0}] /\ DOMAIN ops = Desc
        /\ b_disk \in [Buf -> BOOLEAN] /\ valid \in [Buf -> BOOLEAN] /\ idx \in [Proc -> Desc \cup {End}]
    BY ZenonT(60) DEF VInit, Init
  <2> QED
    BY ZenonT(60), <1>7, <2>1, <2>2, <2>3, <2>4 DEF VTypes, VInit
<1>9. Callers /\ Requests /\ Waiting
  BY ZenonT(60), <1>1 DEF VInit, Callers, Requests, Waiting, InRw
<1>10. Rings
  <2>1. DOMAIN used = {} /\ avail = {}
    BY DEF VInit
  <2> QED
    BY ZenonT(60), <2>1 DEF Rings, Range, VInit
<1>11. DescriptorsExact
  BY ZenonT(60), <1>1 DEF DescriptorsExact, VInit
<1> QED
  BY ZenonT(60), <1>5, <1>8, <1>9, <1>10, <1>11 DEF Driver

\* Every step keeps the driver right, and is a step of the cache or none.
LEMMA NextSteps == ASSUME Joint, [VNext]_vvars PROVE Driver' /\ [Atomic!Next]_(Atomic!vars)
<1>1. CASE UNCHANGED vvars
  <2>1. UNCHANGED <<vars, rings, used, status, irq, intr, io, idx>>
    BY ZenonT(60), <1>1 DEF vvars, device
  <2>2. Kept /\ Still
    BY ZenonT(60), <2>1 DEF Kept, Still, device, Joint, Driver, VTypes, vars, bcache
  <2> QED
    BY ZenonT(60), <2>1, <2>2, KeptDriver, BarIdle
<1>2. ASSUME NEW p \in Proc, NEW bn \in Block, Cache(p), bget_hit(p, bn) \/ bget_miss(p, bn) \/ bget_panic(p, bn)
      PROVE  Driver' /\ Atomic!Next
  <2>1. Still
    BY ZenonT(60), <1>2 DEF Cache, Still
  <2>2. Kept /\ (Atomic!bget_hit(p, bn) \/ Atomic!bget_miss(p, bn) \/ Atomic!bget_panic(p, bn))
    BY ZenonT(60), <1>2, GetHit, GetMiss, GetPanic
  <2> QED
    BY ZenonT(60), <2>1, <2>2, KeptDriver DEF Atomic!Next
<1>3. ASSUME NEW p \in Proc, Cache(p),
             acquiresleep(p) \/ modify(p) \/ bunpin(p) \/ releasesleep(p) \/ brelse(p) \/ kill(p)
      PROVE  Driver' /\ Atomic!Next
  <2>1. Still
    BY ZenonT(60), <1>3 DEF Cache, Still
  <2>2. /\ Kept
        /\ Atomic!acquiresleep(p) \/ Atomic!modify(p) \/ Atomic!bunpin(p)
                \/ Atomic!releasesleep(p) \/ Atomic!brelse(p) \/ Atomic!kill(p)
    BY ZenonT(60), <1>3, Acquire, Modify, Unpin, Release, Brelse, Kill
  <2> QED
    BY ZenonT(60), <2>1, <2>2, KeptDriver DEF Atomic!Next
<1>4. ASSUME NEW p \in Proc,
             rw_call(p) \/ rw_nodesc(p) \/ rw_submit(p) \/ rw_again(p) \/ rw_return(p) \/ rw_kill(p)
      PROVE  Driver' /\ UNCHANGED Atomic!vars
  BY ZenonT(60), <1>4, CallStep, NodescStep, SubmitStep, AgainStep, ReturnStep
<1>5. ASSUME NEW h \in Desc, dev_finish(h) PROVE Driver' /\ (UNCHANGED Atomic!vars \/ Atomic!Next)
  BY ZenonT(60), <1>5, FinishStep DEF Atomic!Next
<1>6. ASSUME intr_ack \/ intr_used \/ intr_done PROVE Driver' /\ UNCHANGED Atomic!vars
  BY ZenonT(60), <1>6, AckStep, UsedStep
<1> QED
  BY ZenonT(60), <1>1, <1>2, <1>3, <1>4, <1>5, <1>6 DEF VNext

-------------------------------------------------------------------------------
(* What the invariant says of the driver and of the cache.                  *)

\* The driver's part of the invariant is what DriverInv states of the
\* descriptors, of the device's requests and of the sleepers.
LEMMA JointDriver == Joint => DriverInv
<1> SUFFICES ASSUME Joint PROVE DriverInv
  OBVIOUS
<1>1. Driver
  BY ZenonT(60) DEF Joint
<1>2. DescriptorsExact
  BY ZenonT(60), <1>1 DEF Driver
<1>3. DeviceHasBuffer
  <2> SUFFICES ASSUME NEW h \in avail
               PROVE  \E p \in Proc : /\ idx[p] = h /\ locked[ops[h].addr] = p
                                      /\ blockno[ops[h].addr] = ops[h].sector
                                      /\ b_disk[ops[h].addr]
    BY ZenonT(60) DEF DeviceHasBuffer
  <2>1. PICK p \in Proc : idx[p] = h
    BY ZenonT(60), <1>1 DEF Driver, Rings
  <2>2. h \in Desc
    BY ZenonT(60), <1>1 DEF Driver, VTypes
  <2>3. Submitted(p)
    BY ZenonT(60), <2>1, <2>2, EndIsNone DEF Submitted
  <2>4. /\ ops[h] = [write |-> Writes(p), sector |-> blockno[buf[p]], addr |-> buf[p]]
        /\ b_disk[buf[p]]
    BY ZenonT(60), <1>1, <2>1, <2>3 DEF Driver, Requests, AtDevice, InRing, Served
  <2>5. ops[h].sector = blockno[buf[p]] /\ ops[h].addr = buf[p]
    BY <2>4
  <2>6. locked[buf[p]] = p
    BY ZenonT(60), <1>1, <2>3, Submits, Holding
  <2> QED
    BY ZenonT(60), <2>1, <2>4, <2>5, <2>6
<1>4. SleeperIsServed
  <2>1. ASSUME NEW p \in Proc, io[p] = "nodesc" PROVE Cardinality(free) < 3
    <3>1. ~ Three
      BY ZenonT(60), <1>1, <2>1 DEF Driver, Waiting
    <3>2. NUM \in Nat /\ free \subseteq 1 .. NUM
      BY ZenonT(60), <1>1 DEF Driver, VTypes, Desc
    <3>3. IsFiniteSet(1 .. NUM)
      BY <3>2, FS_Interval
    <3>4. IsFiniteSet(free)
      BY ZenonT(60), <3>2, <3>3, FS_Subset
    <3>5. Cardinality(free) \in Nat
      BY ZenonT(60), <3>4, FS_CardinalityType
    <3> QED
      BY <3>1, <3>5 DEF Three
  <2>2. ASSUME NEW p \in Proc, io[p] = "asleep"
        PROVE  idx[p] \in avail \/ (idx[p] \in Range(used) /\ (irq \/ intr # "idle"))
    <3>1. Submitted(p)
      BY ZenonT(60), <1>1, <2>2 DEF Driver, Callers
    <3>2. AtDevice(p) \/ InRing(p)
      BY ZenonT(60), <1>1, <2>2, <3>1 DEF Driver, Requests, Served
    <3>3. ASSUME idx[p] \in Range(used) PROVE irq \/ intr # "idle"
      <4>1. used # <<>>
        BY <3>3 DEF Range
      <4> QED
        BY ZenonT(60), <1>1, <4>1 DEF Driver, Rings
    <3> QED
      BY ZenonT(60), <3>2, <3>3 DEF AtDevice, InRing
  <2> QED
    BY ZenonT(60), <2>1, <2>2 DEF SleeperIsServed
<1> QED
  BY ZenonT(60), <1>2, <1>3, <1>4 DEF DriverInv

\* The cache's invariant holds of the real places and flags too, where a process
\* is still in virtio_disk_rw() after the device has moved its data.
LEMMA JointCache == Joint => CacheInv
<1> SUFFICES ASSUME Joint PROVE CacheInv
  OBVIOUS
<1>1. Driver /\ Atomic!IInv
  BY ZenonT(60) DEF Joint
<1>2. TypeOK
  BY ZenonT(60), <1>1, CacheTypes DEF TypeOK, Driver, VTypes
<1>3. ASSUME NEW p \in Proc
      PROVE  /\ pc[p] \in {"idle", "panic"} <=> pcBar[p] \in {"idle", "panic"}
             /\ pc[p] = "asleep" <=> pcBar[p] = "asleep"
             /\ pc[p] \in {"fill", "held", "written"} <=> pcBar[p] \in {"fill", "held", "written"}
             /\ pc[p] \in {"held", "written"} => pcBar[p] \in {"held", "written"}
  <2>1. CASE Transferred(p)
    BY ZenonT(60), <1>1, <2>1, Bar DEF Writes
  <2>2. CASE ~ Transferred(p)
    BY ZenonT(60), <1>1, <2>2, Bar
  <2> QED
    BY ZenonT(60), <2>1, <2>2
<1>4. Holders = Atomic!Holders
  BY ZenonT(60), <1>3 DEF Holders, Atomic!Holders
<1>5. \A b : Using(b) = Atomic!Using(b)
  BY ZenonT(60), <1>3 DEF Using, Atomic!Using
<1>6. \A p \in Proc : pc[p] \notin {"idle", "panic"} => blockno[buf[p]] = want[p]
  BY ZenonT(60), <1>1, <1>3 DEF Atomic!IInv, Atomic!Core, Atomic!Names, Atomic!Out
<1>7. OneBufferPerBlock
  <2>1. ASSUME NEW p \in Holders, NEW q \in Holders, want[p] = want[q] PROVE p = q
    <3>1. /\ p \in Proc /\ pc[p] \in {"fill", "held", "written"} /\ blockno[buf[p]] = want[p]
          /\ q \in Proc /\ pc[q] \in {"fill", "held", "written"} /\ blockno[buf[q]] = want[q]
      BY ZenonT(60), <1>6 DEF Holders
    <3> QED
      BY ZenonT(60), <2>1, <3>1, Apart
  <2> QED
    BY ZenonT(60), <1>1, <2>1, OneBuffer DEF OneBufferPerBlock
<1>8. RefcntCounts
  <2>1. \A S : Atomic!Cardinality(S) = Cardinality(S)
    BY ZenonT(60) DEF Atomic!Cardinality, Cardinality, Atomic!IsFiniteSet, IsFiniteSet
  <2>2. \A b \in Buf : refcnt[b] = Cardinality(Atomic!Using(b)) + (IF blockno[b] \in pinned THEN 1 ELSE 0)
    BY ZenonT(60), <1>1, <2>1 DEF Atomic!IInv, Atomic!RefcntCounts, Atomic!Buf, Buf
  <2> QED
    BY ZenonT(60), <1>5, <2>2 DEF RefcntCounts
<1>9. ReadsLatest
  <2> SUFFICES ASSUME NEW p \in Proc, pc[p] \in {"held", "written"} PROVE data[buf[p]] = latest[want[p]]
    BY ZenonT(60) DEF ReadsLatest
  <2>1. validBar[buf[p]] /\ blockno[buf[p]] = want[p] /\ buf[p] \in Buf
    BY ZenonT(60), <1>1, <1>3, <1>6, CacheFacts, CacheTypes
  <2> QED
    BY ZenonT(60), <1>1, <2>1 DEF Atomic!IInv, Atomic!Core, Atomic!Contents, Atomic!Buf, Buf
<1>10. ListComplete
  BY ZenonT(60), <1>1 DEF Atomic!IInv, Atomic!Core, Atomic!ListComplete, ListComplete, Atomic!Buf, Buf
<1>11. SleeperHasHolder
  <2> SUFFICES ASSUME NEW p \in Proc, pc[p] = "asleep"
               PROVE  \E q \in Holders : buf[q] = buf[p] /\ locked[buf[p]] = q
    BY ZenonT(60) DEF SleeperHasHolder
  <2>1. locked[buf[p]] # None /\ buf[p] \in Buf
    BY ZenonT(60), <1>1, <1>3, CacheTypes DEF Atomic!IInv, Atomic!Core, Atomic!Locks, Atomic!None, None
  <2>2. locked[buf[p]] \in Atomic!Holders /\ buf[locked[buf[p]]] = buf[p]
    BY ZenonT(60), <1>1, <2>1 DEF Atomic!IInv, Atomic!Core, Atomic!Locks, Atomic!None, None, Atomic!Buf, Buf
  <2> QED
    BY ZenonT(60), <1>4, <2>2
<1>12. NotRecycledInUse
  BY ZenonT(60), <1>6 DEF NotRecycledInUse
<1> QED
  BY ZenonT(60), <1>2, <1>7, <1>8, <1>9, <1>10, <1>11, <1>12 DEF CacheInv

-------------------------------------------------------------------------------
(* The theorems of BCacheProofs, of the cache seen through the mapping.     *)

P == INSTANCE BCacheProofs WITH pc <- pcBar, valid <- validBar

\* bget() and acquiresleep() are the same in both views.
LEMMA SameGets ==
  ASSUME NEW p, NEW bn
  PROVE  /\ P!bget_hit(p, bn) = Atomic!bget_hit(p, bn)
         /\ P!bget_miss(p, bn) = Atomic!bget_miss(p, bn)
         /\ P!bget_panic(p, bn) = Atomic!bget_panic(p, bn)
         /\ P!acquiresleep(p) = Atomic!acquiresleep(p)
<1>1. P!bget_hit(p, bn) = Atomic!bget_hit(p, bn)
  BY ZenonT(60) DEF P!bget_hit, Atomic!bget_hit, P!Goto, Atomic!Goto, P!Cached, Atomic!Cached,
    P!Buf, Atomic!Buf
<1>2. P!bget_miss(p, bn) = Atomic!bget_miss(p, bn)
  BY ZenonT(60) DEF P!bget_miss, Atomic!bget_miss, P!Goto, Atomic!Goto, P!Cached, Atomic!Cached,
    P!Buf, Atomic!Buf, P!Recycled, Atomic!Recycled, P!Invalidated, Atomic!Invalidated
<1>3. P!bget_panic(p, bn) = Atomic!bget_panic(p, bn)
  BY ZenonT(60) DEF P!bget_panic, Atomic!bget_panic, P!Goto, Atomic!Goto, P!Cached, Atomic!Cached,
    P!Buf, Atomic!Buf, P!bcache, Atomic!bcache
<1>4. P!acquiresleep(p) = Atomic!acquiresleep(p)
  BY ZenonT(60) DEF P!acquiresleep, Atomic!acquiresleep, P!Goto, Atomic!Goto, P!None, Atomic!None
<1> QED
  BY ZenonT(60), <1>1, <1>2, <1>3, <1>4

\* The transfers, and the file system and the log with a buffer.
LEMMA SameHolds ==
  ASSUME NEW p
  PROVE  /\ P!fill(p) = Atomic!fill(p)
         /\ P!modify(p) = Atomic!modify(p)
         /\ P!bwrite(p) = Atomic!bwrite(p)
         /\ P!bunpin(p) = Atomic!bunpin(p)
<1>1. P!fill(p) = Atomic!fill(p)
  BY ZenonT(60) DEF P!fill, Atomic!fill, P!Goto, Atomic!Goto
<1>2. P!modify(p) = Atomic!modify(p)
  BY ZenonT(60) DEF P!modify, Atomic!modify, P!Pinned, Atomic!Pinned, P!Cardinality, Atomic!Cardinality,
    P!IsFiniteSet, Atomic!IsFiniteSet
<1>3. P!bwrite(p) = Atomic!bwrite(p)
  BY ZenonT(60) DEF P!bwrite, Atomic!bwrite, P!Goto, Atomic!Goto, P!bcache, Atomic!bcache
<1>4. P!bunpin(p) = Atomic!bunpin(p)
  BY ZenonT(60) DEF P!bunpin, Atomic!bunpin, P!Goto, Atomic!Goto
<1> QED
  BY ZenonT(60), <1>1, <1>2, <1>3, <1>4

\* releasesleep(), brelse() and kill() of both views.
LEMMA SameReleases ==
  ASSUME NEW p
  PROVE  /\ P!releasesleep(p) = Atomic!releasesleep(p)
         /\ P!brelse(p) = Atomic!brelse(p)
         /\ P!kill(p) = Atomic!kill(p)
<1>1. P!releasesleep(p) = Atomic!releasesleep(p)
  BY ZenonT(60) DEF P!releasesleep, Atomic!releasesleep, P!Goto, Atomic!Goto, P!Woken, Atomic!Woken,
    P!None, Atomic!None
<1>2. P!brelse(p) = Atomic!brelse(p)
  BY ZenonT(60) DEF P!brelse, Atomic!brelse, P!Goto, Atomic!Goto, P!MoveToHead, Atomic!MoveToHead,
    P!Buf, Atomic!Buf
<1>3. P!kill(p) = Atomic!kill(p)
  BY ZenonT(60) DEF P!kill, Atomic!kill, P!Goto, Atomic!Goto, P!bcache, Atomic!bcache
<1> QED
  BY ZenonT(60), <1>1, <1>2, <1>3

\* So is the invariant of the cache.
LEMMA SameIInv == P!IInv <=> Atomic!IInv
<1>1. P!TypeOK = Atomic!TypeOK
  BY ZenonT(60) DEF P!TypeOK, Atomic!TypeOK, P!Buf, Atomic!Buf, P!None, Atomic!None, P!Places, Atomic!Places
<1>2. P!Names = Atomic!Names /\ P!Contents = Atomic!Contents /\ P!ListComplete = Atomic!ListComplete
  BY ZenonT(60) DEF P!Names, Atomic!Names, P!Contents, Atomic!Contents, P!ListComplete, Atomic!ListComplete,
    P!Buf, Atomic!Buf, P!Out, Atomic!Out
<1>3. P!Locks = Atomic!Locks
  BY ZenonT(60) DEF P!Locks, Atomic!Locks, P!Buf, Atomic!Buf, P!None, Atomic!None, P!Holders, Atomic!Holders
<1>4. P!RefcntCounts = Atomic!RefcntCounts
  BY ZenonT(60) DEF P!RefcntCounts, Atomic!RefcntCounts, P!Buf, Atomic!Buf, P!Using, Atomic!Using,
    P!Cardinality, Atomic!Cardinality, P!IsFiniteSet, Atomic!IsFiniteSet
<1> QED
  BY ZenonT(60), <1>1, <1>2, <1>3, <1>4 DEF P!IInv, Atomic!IInv, P!Core, Atomic!Core

\* So are the initial states and the steps as a whole.
LEMMA SameCache ==
  /\ P!Init = Atomic!Init
  /\ [Atomic!Next]_(Atomic!vars) => [P!Next]_(P!vars)
<1>1. P!Init = Atomic!Init
  BY ZenonT(60) DEF P!Init, Atomic!Init, P!Buf, Atomic!Buf, P!None, Atomic!None
<1>2. Atomic!Next => P!Next
  BY ZenonT(60), SameGets, SameHolds, SameReleases DEF P!Next, Atomic!Next
<1>3. UNCHANGED Atomic!vars => UNCHANGED P!vars
  BY ZenonT(60) DEF P!vars, Atomic!vars, P!bcache, Atomic!bcache
<1> QED
  BY ZenonT(60), <1>1, <1>2, <1>3

-------------------------------------------------------------------------------
(* The theorems.                                                            *)

\* The driver and the cache keep each other right: the invariant of both holds
\* in every reachable state of the driver under the cache.
THEOREM JointInvariant == VSpec => []Joint
<1>1. VInit => Joint
  <2> SUFFICES ASSUME VInit PROVE Joint
    OBVIOUS
  <2>1. P!Init /\ Driver
    BY ZenonT(60), InitSteps, SameCache
  <2>2. P!IInv
    BY ZenonT(60), <2>1, P!InitIInv, BCacheAssumption DEF None, P!None, IsFiniteSet, P!IsFiniteSet
  <2> QED
    BY ZenonT(60), <2>1, <2>2, SameIInv DEF Joint
<1>2. Joint /\ [VNext]_vvars => Joint'
  <2> SUFFICES ASSUME Joint, [VNext]_vvars PROVE Joint'
    OBVIOUS
  <2>1. Driver' /\ [P!Next]_(P!vars) /\ P!IInv
    BY ZenonT(60), NextSteps, SameCache, SameIInv DEF Joint
  <2>2. P!IInv'
    BY ZenonT(60), <2>1, P!NextIInv, BCacheAssumption DEF None, P!None, IsFiniteSet, P!IsFiniteSet
  <2>3. P!IInv' => Atomic!IInv'
    BY SameIInv, PTL
  <2> QED
    BY ZenonT(60), <2>1, <2>2, <2>3 DEF Joint
<1> QED
  BY <1>1, <1>2, PTL DEF VSpec

\* virtio_disk_rw(), alloc3_desc(), free_chain() and virtio_disk_intr() lose and
\* share no descriptor, let the device touch only buffers that are locked for
\* it, and leave no sleeper behind, for any number of requests in flight.
THEOREM DriverIsCorrect == VSpec => []DriverInv
  BY JointInvariant, JointDriver, PTL

\* The buffer cache stays correct on top of the driver, with requests, device and
\* interrupts interleaved: bget(), brelse() and the sleep locks keep one current
\* copy of each block while virtio_disk_rw() sleeps inside bread() and bwrite().
THEOREM CacheOverDisk == VSpec => []CacheInv
  BY JointInvariant, JointCache, PTL

\* virtio_disk_rw(), however its requests, the device and the interrupt
\* interleave, is to bread() and bwrite() one step that moves the block: the
\* driver under the cache implements the cache with atomic transfers.
THEOREM TransfersRefine == VSpec => TransfersAreAtomic
<1>1. VInit => Atomic!Init
  BY ZenonT(60), InitSteps
<1>2. Joint /\ [VNext]_vvars => [Atomic!Next]_(Atomic!vars)
  BY ZenonT(60), NextSteps
<1> QED
  BY <1>1, <1>2, JointInvariant, PTL DEF VSpec, TransfersAreAtomic, Atomic!Spec
===============================================================================

----------------------------- MODULE VirtioSteps ------------------------------
(***************************************************************************)
(* Proofs about module VirtioDisk, for any number of processes, blocks,     *)
(* buffers and descriptors.  The driver needs what the cache promises (the  *)
(* buffer of a request keeps its block and its lock), and the cache what the *)
(* driver promises (a transfer is one step).  So the two are shown together: *)
(* a step of the driver that keeps both is a step of BCache, or none, as     *)
(* seen through the refinement mapping, where BCacheProofs applies.          *)
(*                                                                          *)
(* Here are the invariant, the steps of the cache outside virtio_disk_rw()  *)
(* and those inside it.  VirtioProofs has the device, the interrupt handler *)
(* and the theorems.                                                        *)
(***************************************************************************)
EXTENDS VirtioDisk, FiniteSetTheorems, WellFoundedInduction, TLAPS

\* The provers of a leaf, in turn, and their time.
USE SMTT(60), ZenonT(60)

-------------------------------------------------------------------------------
(* The inductive invariant.                                                 *)

Ios    == {"none", "alloc", "nodesc", "asleep", "test"}
Status == {"pending", "ok", "error"}
InRw(p) == io[p] # "none"

\* The types of the driver's state, and of what a transfer changes in BCache's.
VTypes ==
  /\ NUM \in Nat
  /\ free \subseteq Desc /\ avail \subseteq Desc
  /\ desc \in [Desc -> Desc \cup {End}]
  /\ info \in [Desc -> Buf \cup {0}]
  /\ status \in [Desc -> Status]
  /\ b_disk \in [Buf -> BOOLEAN]
  /\ used \in Seq(Desc)
  /\ io \in [Proc -> Ios]
  /\ idx \in [Proc -> Desc \cup {End}]
  /\ DOMAIN ops = Desc
  /\ pc \in [Proc -> Places] /\ valid \in [Buf -> BOOLEAN]

\* A process in virtio_disk_rw() reads a buffer for bread(), or writes one of a
\* pinned block for bwrite().
Callers ==
  \A p \in Proc :
    /\ InRw(p) => \/ pc[p] = "fill"
                  \/ pc[p] = "held" /\ blockno[buf[p]] \in pinned
    /\ Submitted(p) <=> io[p] \in {"asleep", "test"}

\* Where a request is: with the device, in the used ring, or done with.
AtDevice(p) ==
  /\ idx[p] \in avail /\ idx[p] \notin Range(used)
  /\ status[idx[p]] = "pending" /\ b_disk[buf[p]]
InRing(p) ==
  /\ idx[p] \notin avail /\ idx[p] \in Range(used)
  /\ status[idx[p]] # "pending" /\ b_disk[buf[p]]
Served(p) ==
  /\ idx[p] \notin avail /\ idx[p] \notin Range(used)
  /\ status[idx[p]] = "ok" /\ ~ b_disk[buf[p]] /\ io[p] = "test"

\* A request is the one that its process made, and is in one place.
Requests ==
  \A p \in Proc : Submitted(p) =>
    /\ ops[idx[p]] = [write |-> Writes(p), sector |-> blockno[buf[p]], addr |-> buf[p]]
    /\ info[idx[p]] = buf[p]
    /\ AtDevice(p) \/ InRing(p) \/ Served(p)

\* The rings hold requests of processes, each once, and somebody will look at
\* the used ring while it is not empty.
Rings ==
  /\ \A h \in avail \cup Range(used) : \E p \in Proc : idx[p] = h
  /\ \A i, j \in DOMAIN used : used[i] = used[j] => i = j
  /\ used # <<>> => irq \/ intr # "idle"

\* Nobody waits for descriptors while there are three.
Waiting == \A p \in Proc : io[p] = "nodesc" => ~ Three

Driver ==
  VTypes /\ Callers /\ Requests /\ Rings /\ DescriptorsExact /\ Waiting
Joint == Atomic!IInv /\ Driver

-------------------------------------------------------------------------------
(* Sets and sequences.                                                      *)

\* alloc_desc() finds the first free descriptor when there is one.
LEMMA MinInSet == ASSUME NEW S, S \subseteq Nat, S # {} PROVE Min(S) \in S
<1>1. PICK x \in S : \A y \in S : ~ (<<y, x>> \in OpToRel(<, Nat))
  BY NatLessThanWellFounded, WFMin, ZenonT(60)
<1>2. \A y \in S : ~ (y < x)
  BY ZenonT(60), <1>1 DEF OpToRel
<1>3. \A y \in S : x <= y
  BY <1>2
<1> QED
  BY <1>3, ZenonT(60) DEF Min

\* The device adds an entry to the used ring.
LEMMA AppendEntry ==
  ASSUME NEW D, NEW s \in Seq(D), NEW h \in D
  PROVE  /\ Append(s, h) \in Seq(D) /\ Append(s, h) # <<>>
         /\ Range(Append(s, h)) = Range(s) \cup {h}
         /\ (\A i, j \in DOMAIN s : s[i] = s[j] => i = j) /\ h \notin Range(s) =>
              \A i, j \in DOMAIN Append(s, h) : Append(s, h)[i] = Append(s, h)[j] => i = j
<1> DEFINE t == Append(s, h)
<1>1. t \in Seq(D) /\ Len(t) = Len(s) + 1 /\ Len(s) \in Nat /\ DOMAIN s = 1 .. Len(s)
  OBVIOUS
<1>2. \A i \in 1 .. Len(s) : t[i] = s[i]
  OBVIOUS
<1>3. t[Len(s) + 1] = h
  OBVIOUS
<1>4. DOMAIN t = (1 .. Len(s)) \cup {Len(s) + 1} /\ Len(s) + 1 \notin 1 .. Len(s)
  BY <1>1
<1> HIDE DEF t
<1>5. Range(t) = Range(s) \cup {h}
  BY ZenonT(60), <1>1, <1>2, <1>3, <1>4 DEF Range
<1>6. ASSUME \A i, j \in DOMAIN s : s[i] = s[j] => i = j, h \notin Range(s)
      PROVE  \A i, j \in DOMAIN t : t[i] = t[j] => i = j
  <2>1. \A i \in 1 .. Len(s) : s[i] # h
    BY ZenonT(60), <1>1, <1>6 DEF Range
  <2> QED
    BY ZenonT(60), <1>1, <1>2, <1>3, <1>4, <1>6, <2>1
<1>7. t # <<>>
  BY <1>1
<1> QED
  BY ZenonT(60), <1>1, <1>5, <1>6, <1>7 DEF t

\* The handler takes the first entry from the used ring.
LEMMA TakeEntry ==
  ASSUME NEW D, NEW s \in Seq(D), s # <<>>, \A i, j \in DOMAIN s : s[i] = s[j] => i = j
  PROVE  /\ Head(s) \in Range(s) /\ Head(s) \in D /\ Tail(s) \in Seq(D)
         /\ Range(Tail(s)) = Range(s) \ {Head(s)}
         /\ \A i, j \in DOMAIN Tail(s) : Tail(s)[i] = Tail(s)[j] => i = j
<1> DEFINE t == Tail(s)
<1>1. t \in Seq(D) /\ Len(t) = Len(s) - 1 /\ Len(s) \in Nat /\ Len(s) # 0
      /\ DOMAIN s = 1 .. Len(s) /\ DOMAIN t = 1 .. Len(t) /\ Head(s) = s[1] /\ Head(s) \in D
  OBVIOUS
<1>2. \A i \in 1 .. Len(t) : t[i] = s[i + 1]
  BY <1>1
<1> HIDE DEF t
<1>3. \A i \in DOMAIN t : i + 1 \in DOMAIN s /\ i + 1 # 1 /\ t[i] = s[i + 1]
  BY <1>1, <1>2
<1>4. \A k \in DOMAIN s : k = 1 \/ \E i \in DOMAIN t : k = i + 1
  <2> SUFFICES ASSUME NEW k \in DOMAIN s, k # 1 PROVE k - 1 \in DOMAIN t /\ k = (k - 1) + 1
    OBVIOUS
  <2> QED
    BY <1>1
<1>5. \A i, j \in DOMAIN t : i + 1 = j + 1 => i = j
  BY <1>1
<1>6. 1 \in DOMAIN s
  BY <1>1
<1>7. Range(t) \subseteq Range(s) \ {Head(s)}
  <2> SUFFICES ASSUME NEW i \in DOMAIN t PROVE t[i] \in Range(s) /\ t[i] # Head(s)
    BY ZenonT(60) DEF Range
  <2>1. PICK k \in DOMAIN s : k # 1 /\ t[i] = s[k]
    BY ZenonT(60), <1>3
  <2> QED
    BY ZenonT(60), <2>1, <1>1, <1>6 DEF Range
<1>8. Range(s) \ {Head(s)} \subseteq Range(t)
  <2> SUFFICES ASSUME NEW k \in DOMAIN s, s[k] # Head(s) PROVE \E i \in DOMAIN t : s[k] = t[i]
    BY ZenonT(60) DEF Range
  <2>1. k # 1
    BY ZenonT(60), <1>1
  <2>2. PICK i \in DOMAIN t : k = i + 1
    BY ZenonT(60), <1>4, <2>1
  <2> QED
    BY ZenonT(60), <2>2, <1>3
<1>9. \A i, j \in DOMAIN t : t[i] = t[j] => i = j
  BY ZenonT(60), <1>3, <1>5
<1>10. Head(s) \in Range(s)
  BY ZenonT(60), <1>1, <1>6 DEF Range
<1> QED
  BY ZenonT(60), <1>1, <1>7, <1>8, <1>9, <1>10 DEF t

-------------------------------------------------------------------------------
(* What the cache promises to the driver.                                   *)

\* The types of the cache's state, seen through the mapping.
LEMMA CacheTypes ==
  ASSUME Atomic!IInv
  PROVE  /\ blockno \in [Buf -> Block \cup {NoBlock}] /\ refcnt \in [Buf -> Nat]
         /\ data \in [Buf -> Val] /\ locked \in [Buf -> Proc \cup {None}] /\ lru \in [Buf -> Buf]
         /\ disk \in [Block -> Val] /\ buf \in [Proc -> Buf]
         /\ want \in [Proc -> Block \cup {NoBlock}] /\ pinned \subseteq Block
         /\ latest \in [Block -> Val]
  BY ZenonT(60) DEF Atomic!IInv, Atomic!Core, Atomic!TypeOK, Atomic!Buf, Atomic!None, Buf, None

\* A process keeps the block it asked for, and a holder its lock; a buffer that
\* is read is not valid before, and one that is held is.
LEMMA CacheFacts ==
  ASSUME Atomic!IInv, NEW p \in Proc
  PROVE  /\ pcBar[p] \notin {"idle", "panic"} => blockno[buf[p]] \in Block /\ refcnt[buf[p]] # 0
         /\ pcBar[p] \in {"fill", "held", "written"} => locked[buf[p]] = p
         /\ pcBar[p] = "fill" => ~ validBar[buf[p]]
         /\ pcBar[p] \in {"held", "written"} => validBar[buf[p]]
<1>1. buf[p] \in Buf
  BY ZenonT(60), CacheTypes
<1>2. Atomic!RefcntCounts
  BY ZenonT(60) DEF Atomic!IInv
<1>3. \A S : Atomic!Cardinality(S) = Cardinality(S)
  BY ZenonT(60) DEF Atomic!Cardinality, Cardinality, Atomic!IsFiniteSet, IsFiniteSet
<1>4. ASSUME pcBar[p] \notin {"idle", "panic"} PROVE refcnt[buf[p]] # 0
  <2>1. p \in Atomic!Using(buf[p]) /\ Atomic!Using(buf[p]) \subseteq Proc
    BY ZenonT(60), <1>4 DEF Atomic!Using
  <2>2. IsFiniteSet(Atomic!Using(buf[p]))
    BY ZenonT(60), <2>1, BCacheAssumption, FS_Subset
  <2>3. Cardinality(Atomic!Using(buf[p])) \in Nat /\ Cardinality(Atomic!Using(buf[p])) # 0
    BY ZenonT(60), <2>1, <2>2, FS_CardinalityType, FS_EmptySet
  <2>4. refcnt[buf[p]] = Cardinality(Atomic!Using(buf[p])) + (IF blockno[buf[p]] \in pinned THEN 1 ELSE 0)
    BY ZenonT(60), <1>1, <1>2, <1>3 DEF Atomic!RefcntCounts, Atomic!Buf, Buf
  <2> QED
    BY <2>3, <2>4
<1>5. pcBar[p] \notin {"idle", "panic"} => blockno[buf[p]] \in Block
  BY ZenonT(60) DEF Atomic!IInv, Atomic!Core, Atomic!Names, Atomic!Out
<1>6. pcBar[p] \in {"fill", "held", "written"} => locked[buf[p]] = p
  BY ZenonT(60) DEF Atomic!IInv, Atomic!Core, Atomic!Locks, Atomic!Holders
<1>7. /\ pcBar[p] = "fill" => ~ validBar[buf[p]]
      /\ pcBar[p] \in {"held", "written"} => validBar[buf[p]]
  BY ZenonT(60) DEF Atomic!IInv, Atomic!Core, Atomic!Contents
<1> QED
  BY ZenonT(60), <1>4, <1>5, <1>6, <1>7

\* A block is in one buffer.
LEMMA OneBuffer ==
  ASSUME Atomic!IInv, NEW a \in Buf, NEW b \in Buf, blockno[a] = blockno[b], blockno[a] # NoBlock
  PROVE  a = b
  BY ZenonT(60) DEF Atomic!IInv, Atomic!Core, Atomic!Names, Atomic!Buf, Buf

\* The mapping changes the place of a process only between its transfer and its
\* return from virtio_disk_rw().
LEMMA Bar ==
  ASSUME Driver, NEW p \in Proc
  PROVE  /\ ~ Transferred(p) => pcBar[p] = pc[p]
         /\ Transferred(p) => /\ InRw(p) /\ io[p] \in {"asleep", "test"}
                              /\ Writes(p) => pcBar[p] = "written"
                              /\ ~ Writes(p) => pcBar[p] = "held"
         /\ InRw(p) => pc[p] \in {"fill", "held"} /\ pcBar[p] \in {"fill", "held", "written"}
         /\ \A x \in {"idle", "acquire", "asleep", "release", "panic"} : pcBar[p] = x <=> pc[p] = x
<1>1. /\ ~ Transferred(p) => pcBar[p] = pc[p]
      /\ Transferred(p) /\ Writes(p) => pcBar[p] = "written"
      /\ Transferred(p) /\ ~ Writes(p) => pcBar[p] = "held"
  BY ZenonT(60) DEF pcBar
<1>2. Transferred(p) => InRw(p) /\ io[p] \in {"asleep", "test"}
  BY ZenonT(60) DEF Driver, Callers, Transferred, InRw
<1>3. InRw(p) => pc[p] \in {"fill", "held"}
  BY ZenonT(60) DEF Driver, Callers
<1>4. InRw(p) => pcBar[p] \in {"fill", "held", "written"}
  BY ZenonT(60), <1>1, <1>3
<1>5. ASSUME NEW x \in {"idle", "acquire", "asleep", "release", "panic"}
      PROVE  pcBar[p] = x <=> pc[p] = x
  BY ZenonT(60), <1>1, <1>2, <1>3, <1>5
<1> QED
  BY ZenonT(60), <1>1, <1>2, <1>3, <1>4, <1>5

\* A process at a place of a holder has its buffer locked, in use and named.
LEMMA Holding ==
  ASSUME Joint, NEW p \in Proc, pc[p] \in {"fill", "held", "written"}
  PROVE  /\ buf[p] \in Buf /\ locked[buf[p]] = p
         /\ blockno[buf[p]] \in Block /\ refcnt[buf[p]] # 0
<1>1. pcBar[p] \in {"fill", "held", "written"}
  BY ZenonT(60), Bar DEF Joint
<1> QED
  BY ZenonT(60), <1>1, CacheTypes, CacheFacts DEF Joint

\* Two such processes have different buffers, of different blocks.
LEMMA Apart ==
  ASSUME Joint, NEW p \in Proc, NEW q \in Proc, p # q,
         pc[p] \in {"fill", "held", "written"}, pc[q] \in {"fill", "held", "written"}
  PROVE  buf[p] # buf[q] /\ blockno[buf[p]] # blockno[buf[q]]
<1>1. buf[p] # buf[q]
  BY ZenonT(60), Holding
<1>2. blockno[buf[p]] # NoBlock
  BY ZenonT(60), Holding, BCacheAssumption
<1> QED
  BY ZenonT(60), <1>1, <1>2, Holding, OneBuffer DEF Joint

-------------------------------------------------------------------------------
(* Steps of the cache outside virtio_disk_rw().                             *)

\* What such a step leaves to the processes in virtio_disk_rw().
Kept ==
  /\ pc' \in [Proc -> Places] /\ valid' \in [Buf -> BOOLEAN]
  /\ \A q \in Proc : InRw(q) =>
       /\ pc'[q] = pc[q] /\ buf'[q] = buf[q] /\ blockno'[buf[q]] = blockno[buf[q]]
       /\ pc[q] = "held" /\ blockno[buf[q]] \in pinned => blockno[buf[q]] \in pinned'

Still == UNCHANGED <<rings, device, intr, io, idx>>

\* The descriptors stay as exact as they are when nothing is allocated or freed.
LEMMA ExactStays ==
  ASSUME DescriptorsExact, UNCHANGED <<NUM, free, desc, idx>> PROVE DescriptorsExact'
<1>1. Desc' = Desc
  BY ZenonT(60) DEF Desc
<1>2. \A p \in Proc : Chain(idx[p])' = Chain(idx[p])
  BY ZenonT(60) DEF Chain
<1>3. \A p \in Proc : Submitted(p)' <=> Submitted(p)
  BY ZenonT(60) DEF Submitted
<1>4. {q \in Proc : Submitted(q)}' = {q \in Proc : Submitted(q)}
  BY ZenonT(60), <1>3
<1>5. (UNION {Chain(idx[p]) : p \in {q \in Proc : Submitted(q)}})'
        = UNION {Chain(idx[p]) : p \in {q \in Proc : Submitted(q)}}
  BY ZenonT(60), <1>2, <1>4
<1> QED
  BY ZenonT(60), <1>1, <1>2, <1>3, <1>5 DEF DescriptorsExact

\* So the driver's state stays right.
LEMMA KeptDriver == ASSUME Joint, Still, Kept PROVE Driver'
<1>1. UNCHANGED <<NUM, free, desc, ops, info, b_disk, avail, used, status, irq, intr, io, idx>>
  BY ZenonT(60) DEF Still, rings, device
<1>2. Driver
  BY ZenonT(60) DEF Joint
<1>3. Desc' = Desc
  BY ZenonT(60), <1>1 DEF Desc
<1>4. VTypes'
  BY ZenonT(60), <1>1, <1>2, <1>3 DEF Driver, VTypes, Kept
<1>5. \A p \in Proc : Submitted(p)' <=> Submitted(p)
  BY ZenonT(60), <1>1 DEF Submitted
<1>6. Callers'
  <2> SUFFICES ASSUME NEW p \in Proc
               PROVE  /\ io'[p] # "none" => \/ pc'[p] = "fill"
                                            \/ pc'[p] = "held" /\ blockno'[buf'[p]] \in pinned'
                      /\ Submitted(p)' <=> io'[p] \in {"asleep", "test"}
    BY ZenonT(60) DEF Callers, InRw
  <2>1. Submitted(p) <=> io[p] \in {"asleep", "test"}
    BY ZenonT(60), <1>2 DEF Driver, Callers
  <2>2. ASSUME io'[p] # "none"
        PROVE  pc'[p] = "fill" \/ (pc'[p] = "held" /\ blockno'[buf'[p]] \in pinned')
    <3>1. InRw(p)
      BY ZenonT(60), <1>1, <2>2 DEF InRw
    <3>2. pc[p] = "fill" \/ (pc[p] = "held" /\ blockno[buf[p]] \in pinned)
      BY ZenonT(60), <1>2, <3>1 DEF Driver, Callers
    <3> QED
      BY ZenonT(60), <3>1, <3>2 DEF Kept
  <2> QED
    BY ZenonT(60), <1>1, <1>5, <2>1, <2>2
<1>7. Requests'
  <2> SUFFICES ASSUME NEW p \in Proc, Submitted(p)
               PROVE  /\ ops'[idx'[p]] = [write |-> Writes(p), sector |-> blockno[buf[p]], addr |-> buf[p]]'
                      /\ info'[idx'[p]] = buf'[p]
                      /\ AtDevice(p)' \/ InRing(p)' \/ Served(p)'
    BY ZenonT(60), <1>5 DEF Requests
  <2>1. InRw(p)
    BY ZenonT(60), <1>2 DEF Driver, Callers, InRw
  <2>2. (Writes(p)' <=> Writes(p)) /\ buf'[p] = buf[p] /\ blockno'[buf[p]] = blockno[buf[p]]
    BY ZenonT(60), <2>1 DEF Kept, Writes
  <2>3. /\ ops[idx[p]] = [write |-> Writes(p), sector |-> blockno[buf[p]], addr |-> buf[p]]
        /\ info[idx[p]] = buf[p]
        /\ AtDevice(p) \/ InRing(p) \/ Served(p)
    BY ZenonT(60), <1>2 DEF Driver, Requests
  <2>4. AtDevice(p)' \/ InRing(p)' \/ Served(p)'
    BY ZenonT(60), <1>1, <2>2, <2>3 DEF AtDevice, InRing, Served
  <2>5. Writes(p)' = Writes(p)
    BY ZenonT(60), <2>1 DEF Kept, Writes
  <2> QED
    BY ZenonT(60), <1>1, <2>2, <2>3, <2>4, <2>5
<1>8. Rings' /\ Waiting'
  BY ZenonT(60), <1>1, <1>2 DEF Driver, Rings, Waiting, Three
<1>9. DescriptorsExact'
  BY ZenonT(60), <1>1, <1>2, ExactStays DEF Driver
<1> QED
  BY ZenonT(60), <1>4, <1>6, <1>7, <1>8, <1>9 DEF Driver

\* The mapping follows a process that moves outside virtio_disk_rw().
LEMMA BarGoto ==
  ASSUME Driver, Still, NEW p \in Proc, io[p] = "none", NEW x, pc' = [pc EXCEPT ![p] = x]
  PROVE  pcBar' = [pcBar EXCEPT ![p] = x]
<1>1. pc \in [Proc -> Places] /\ ~ Transferred(p)
  BY ZenonT(60), Bar DEF Driver, VTypes, InRw
<1>2. \A q \in Proc : Transferred(q)' <=> Transferred(q)
  BY ZenonT(60) DEF Still, device, Transferred, Submitted
<1>3. \A q \in Proc : q # p => pc'[q] = pc[q]
  BY ZenonT(60), <1>1
<1>4. pc'[p] = x
  BY ZenonT(60), <1>1
<1>5. \A q \in Proc : pcBar'[q] = IF q = p THEN x ELSE pcBar[q]
  BY ZenonT(60), <1>1, <1>2, <1>3, <1>4 DEF pcBar, Writes
<1>6. pcBar' = [q \in Proc |-> pcBar'[q]]
  BY DEF pcBar
<1>7. pcBar = [q \in Proc |-> pcBar[q]]
  BY ZenonT(60) DEF pcBar
<1> HIDE DEF pcBar
<1> QED
  BY ZenonT(60), <1>5, <1>6, <1>7

\* The mapped flags follow the flags when no transferred buffer changes hands.
LEMMA BarValid ==
  ASSUME Still, UNCHANGED valid, \A q \in Proc : Transferred(q) => buf'[q] = buf[q]
  PROVE  validBar' = validBar
<1>1. \A q \in Proc : Transferred(q)' <=> Transferred(q)
  BY ZenonT(60) DEF Still, device, Transferred, Submitted
<1>2. \A b \in Buf : (\E q \in Proc : Transferred(q)' /\ buf'[q] = b)
        <=> \E q \in Proc : Transferred(q) /\ buf[q] = b
  BY ZenonT(60), <1>1
<1>3. \A b \in Buf : (valid[b] \/ \E q \in Proc : Transferred(q) /\ buf[q] = b)'
        = (valid[b] \/ \E q \in Proc : Transferred(q) /\ buf[q] = b)
  BY ZenonT(60), <1>2
<1> QED
  BY ZenonT(60), <1>3 DEF validBar

\* The process of such a step is where the mapping shows it.
LEMMA Outside ==
  ASSUME Driver, NEW p \in Proc, Cache(p)
  PROVE  /\ io[p] = "none" /\ Still /\ pcBar[p] = pc[p] /\ ~ Transferred(p)
         /\ \A q \in Proc : InRw(q) \/ Transferred(q) => q # p
<1>1. io[p] = "none" /\ Still
  BY ZenonT(60) DEF Cache, Still
<1> QED
  BY ZenonT(60), <1>1, Bar DEF InRw

\* It moves alone.
LEMMA Moves ==
  ASSUME Driver, NEW p \in Proc, NEW x \in Places, pc' = [pc EXCEPT ![p] = x]
  PROVE  pc' \in [Proc -> Places] /\ \A q \in Proc : q # p => pc'[q] = pc[q]
  BY ZenonT(60) DEF Driver, VTypes

\* An update of one entry leaves the others alone.
LEMMA SetOne ==
  ASSUME NEW S, NEW T, NEW f \in [S -> T], NEW p \in S, NEW x
  PROVE  \A q \in S : q # p => [f EXCEPT ![p] = x][q] = f[q]
  BY ZenonT(60)

\* bget() of a cached block.
LEMMA GetHit ==
  ASSUME Joint, NEW p \in Proc, NEW bn \in Block, bget_hit(p, bn), Cache(p)
  PROVE  Atomic!bget_hit(p, bn) /\ Kept
<1>1. Driver /\ Atomic!IInv
  BY ZenonT(60) DEF Joint
<1>2. PICK b \in Buf : /\ blockno[b] = bn
                       /\ refcnt' = [refcnt EXCEPT ![b] = @ + 1]
                       /\ buf' = [buf EXCEPT ![p] = b]
  BY ZenonT(60) DEF bget_hit, Cached
<1>3. /\ pc[p] = "idle" /\ pc' = [pc EXCEPT ![p] = "acquire"]
      /\ want' = [want EXCEPT ![p] = bn]
      /\ UNCHANGED <<blockno, valid, data, locked, lru, disk, pinned, latest>>
  BY ZenonT(60) DEF bget_hit, Goto
<1>4. pcBar[p] = "idle" /\ pcBar' = [pcBar EXCEPT ![p] = "acquire"]
  BY ZenonT(60), <1>1, <1>3, Outside, BarGoto
<1>5. \A q \in Proc : q # p => buf'[q] = buf[q]
  BY ZenonT(60), <1>1, <1>2, CacheTypes, SetOne
<1>6. validBar' = validBar
  BY ZenonT(60), <1>1, <1>3, <1>5, Outside, BarValid
<1>7. Atomic!bget_hit(p, bn)
  BY ZenonT(60), <1>2, <1>3, <1>4, <1>6 DEF Atomic!bget_hit, Atomic!Cached, Atomic!Goto, Atomic!Buf, Buf
<1>8. pc' \in [Proc -> Places] /\ \A q \in Proc : q # p => pc'[q] = pc[q]
  BY ZenonT(60), <1>1, <1>3, Moves DEF Places
<1>9. Kept
  BY ZenonT(60), <1>1, <1>3, <1>5, <1>8, Outside DEF Kept, Driver, VTypes
<1> QED
  BY ZenonT(60), <1>7, <1>9

\* bget() recycles a buffer, which nobody in virtio_disk_rw() uses.
LEMMA GetMiss ==
  ASSUME Joint, NEW p \in Proc, NEW bn \in Block, bget_miss(p, bn), Cache(p)
  PROVE  Atomic!bget_miss(p, bn) /\ Kept
<1>1. Driver /\ Atomic!IInv
  BY ZenonT(60) DEF Joint
<1>2. PICK k \in Buf : /\ Recycled(k)
                       /\ blockno' = [blockno EXCEPT ![lru[k]] = bn]
                       /\ valid' = [valid EXCEPT ![lru[k]] = FALSE]
                       /\ refcnt' = [refcnt EXCEPT ![lru[k]] = 1]
                       /\ buf' = [buf EXCEPT ![p] = lru[k]]
  BY ZenonT(60) DEF bget_miss, Invalidated, Buf
<1>3. /\ pc[p] = "idle" /\ pc' = [pc EXCEPT ![p] = "acquire"] /\ Cached(bn) = {}
      /\ want' = [want EXCEPT ![p] = bn]
      /\ UNCHANGED <<data, locked, lru, disk, pinned, latest>>
  BY ZenonT(60) DEF bget_miss, Goto
<1>4. pcBar[p] = "idle" /\ pcBar' = [pcBar EXCEPT ![p] = "acquire"]
  BY ZenonT(60), <1>1, <1>3, Outside, BarGoto
<1>5. \A q \in Proc : q # p => buf'[q] = buf[q]
  BY ZenonT(60), <1>1, <1>2, CacheTypes, SetOne
<1>6. lru[k] \in Buf /\ refcnt[lru[k]] = 0
  BY ZenonT(60), <1>1, <1>2, CacheTypes DEF Recycled
<1>7. \A q \in Proc : InRw(q) => buf[q] # lru[k] /\ buf[q] \in Buf
  BY ZenonT(60), <1>1, <1>6, Bar, Holding
<1>8. validBar' = [validBar EXCEPT ![lru[k]] = FALSE]
  <2>1. \A q \in Proc : Transferred(q)' <=> Transferred(q)
    BY ZenonT(60), <1>1, Outside DEF Still, device, Transferred, Submitted
  <2>2. \A b \in Buf : (\E q \in Proc : Transferred(q)' /\ buf'[q] = b)
          <=> \E q \in Proc : Transferred(q) /\ buf[q] = b
    BY ZenonT(60), <1>1, <1>5, <2>1, Outside
  <2>3. ~ \E q \in Proc : Transferred(q) /\ buf[q] = lru[k]
    BY ZenonT(60), <1>1, <1>7, Bar
  <2>4. \A b \in Buf : valid'[b] = IF b = lru[k] THEN FALSE ELSE valid[b]
    BY ZenonT(60), <1>1, <1>2 DEF Driver, VTypes
  <2>5. \A b \in Buf : (valid[b] \/ \E q \in Proc : Transferred(q) /\ buf[q] = b)'
                       = IF b = lru[k] THEN FALSE ELSE (valid[b] \/ \E q \in Proc : Transferred(q) /\ buf[q] = b)
    BY ZenonT(60), <2>2, <2>3, <2>4
  <2> QED
    BY ZenonT(60), <2>5 DEF validBar
<1>9. Atomic!bget_miss(p, bn)
  BY ZenonT(60), <1>2, <1>3, <1>4, <1>8
     DEF Atomic!bget_miss, Atomic!Cached, Cached, Atomic!Goto, Atomic!Recycled, Recycled,
             Atomic!Invalidated, Atomic!Buf, Buf
<1>10. pc' \in [Proc -> Places] /\ \A q \in Proc : q # p => pc'[q] = pc[q]
  BY ZenonT(60), <1>1, <1>3, Moves DEF Places
<1>11. \A b \in Buf : b # lru[k] => blockno'[b] = blockno[b]
  BY ZenonT(60), <1>1, <1>2, <1>6, CacheTypes, SetOne
<1>12. valid' \in [Buf -> BOOLEAN]
  BY ZenonT(60), <1>1, <1>2 DEF Driver, VTypes
<1>13. Kept
  BY ZenonT(60), <1>1, <1>3, <1>5, <1>7, <1>10, <1>11, <1>12, Outside DEF Kept
<1> QED
  BY ZenonT(60), <1>9, <1>13

\* bget() without a buffer to recycle.
LEMMA GetPanic ==
  ASSUME Joint, NEW p \in Proc, NEW bn \in Block, bget_panic(p, bn), Cache(p)
  PROVE  Atomic!bget_panic(p, bn) /\ Kept
<1>1. Driver /\ Atomic!IInv
  BY ZenonT(60) DEF Joint
<1>2. /\ pc[p] = "idle" /\ pc' = [pc EXCEPT ![p] = "panic"] /\ Cached(bn) = {}
      /\ \A b \in Buf : refcnt[b] # 0
      /\ UNCHANGED <<blockno, valid, refcnt, data, locked, lru, disk, buf, want, pinned, latest>>
  BY ZenonT(60) DEF bget_panic, Goto, bcache
<1>3. pcBar[p] = "idle" /\ pcBar' = [pcBar EXCEPT ![p] = "panic"]
  BY ZenonT(60), <1>1, <1>2, Outside, BarGoto
<1>4. validBar' = validBar
  BY ZenonT(60), <1>1, <1>2, Outside, BarValid
<1>5. Atomic!bget_panic(p, bn)
  BY ZenonT(60), <1>2, <1>3, <1>4 DEF Atomic!bget_panic, Atomic!Cached, Cached, Atomic!Goto, Atomic!bcache,
     Atomic!Buf, Buf
<1>6. pc' \in [Proc -> Places] /\ \A q \in Proc : q # p => pc'[q] = pc[q]
  BY ZenonT(60), <1>1, <1>2, Moves DEF Places
<1>7. Kept
  BY ZenonT(60), <1>1, <1>2, <1>6, Outside DEF Kept, Driver, VTypes
<1> QED
  BY ZenonT(60), <1>5, <1>7

\* acquiresleep(): a buffer whose lock is free is in no transfer.
LEMMA Acquire ==
  ASSUME Joint, NEW p \in Proc, acquiresleep(p), Cache(p)
  PROVE  Atomic!acquiresleep(p) /\ Kept
<1>1. Driver /\ Atomic!IInv
  BY ZenonT(60) DEF Joint
<1>2. /\ pc[p] = "acquire"
      /\ UNCHANGED <<blockno, valid, refcnt, data, lru, disk, buf, want, pinned, latest>>
  BY ZenonT(60) DEF acquiresleep
<1>3. pcBar[p] = "acquire"
  BY ZenonT(60), <1>1, <1>2, Outside
<1>4. validBar' = validBar
  BY ZenonT(60), <1>1, <1>2, Outside, BarValid
<1>5. ASSUME NEW x \in Places, pc' = [pc EXCEPT ![p] = x] PROVE Kept
  <2>1. pc' \in [Proc -> Places] /\ \A q \in Proc : q # p => pc'[q] = pc[q]
    BY ZenonT(60), <1>1, <1>5, Moves
  <2> QED
    BY ZenonT(60), <1>1, <1>2, <2>1, Outside DEF Kept, Driver, VTypes
<1>6. CASE /\ locked[buf[p]] = None /\ locked' = [locked EXCEPT ![buf[p]] = p]
           /\ Goto(p, IF valid[buf[p]] THEN "held" ELSE "fill")
  <2>1. \A q \in Proc : Transferred(q) => buf[q] # buf[p]
    <3> SUFFICES ASSUME NEW q \in Proc, Transferred(q) PROVE buf[q] # buf[p]
      OBVIOUS
    <3>1. locked[buf[q]] = q /\ q # None
      BY ZenonT(60), <1>1, Bar, Holding, BCacheAssumption
    <3> QED
      BY ZenonT(60), <3>1, <1>6
  <2>2. validBar[buf[p]] <=> valid[buf[p]]
    BY ZenonT(60), <1>1, <2>1, CacheTypes DEF validBar
  <2>3. CASE valid[buf[p]]
    <3>1. pc' = [pc EXCEPT ![p] = "held"]
      BY ZenonT(60), <1>6, <2>3 DEF Goto
    <3>2. pcBar' = [pcBar EXCEPT ![p] = "held"]
      BY ZenonT(60), <1>1, <3>1, Outside, BarGoto
    <3>3. Atomic!acquiresleep(p)
      BY ZenonT(60), <1>2, <1>3, <1>4, <1>6, <2>2, <2>3, <3>2 DEF Atomic!acquiresleep, Atomic!Goto,
         Atomic!None, None
    <3> QED
      BY ZenonT(60), <1>5, <3>1, <3>3 DEF Places
  <2>4. CASE ~ valid[buf[p]]
    <3>1. pc' = [pc EXCEPT ![p] = "fill"]
      BY ZenonT(60), <1>6, <2>4 DEF Goto
    <3>2. pcBar' = [pcBar EXCEPT ![p] = "fill"]
      BY ZenonT(60), <1>1, <3>1, Outside, BarGoto
    <3>3. Atomic!acquiresleep(p)
      BY ZenonT(60), <1>2, <1>3, <1>4, <1>6, <2>2, <2>4, <3>2 DEF Atomic!acquiresleep, Atomic!Goto,
         Atomic!None, None
    <3> QED
      BY ZenonT(60), <1>5, <3>1, <3>3 DEF Places
  <2> QED
    BY ZenonT(60), <2>3, <2>4
<1>7. CASE locked[buf[p]] # None /\ Goto(p, "asleep") /\ UNCHANGED locked
  <2>1. pc' = [pc EXCEPT ![p] = "asleep"]
    BY ZenonT(60), <1>7 DEF Goto
  <2>2. pcBar' = [pcBar EXCEPT ![p] = "asleep"]
    BY ZenonT(60), <1>1, <2>1, Outside, BarGoto
  <2>3. Atomic!acquiresleep(p)
    BY ZenonT(60), <1>2, <1>3, <1>4, <1>7, <2>2 DEF Atomic!acquiresleep, Atomic!Goto, Atomic!None, None
  <2> QED
    BY ZenonT(60), <1>5, <2>1, <2>3 DEF Places
<1> QED
  BY ZenonT(60), <1>6, <1>7 DEF acquiresleep

\* The file system changes a buffer it holds outside virtio_disk_rw().
LEMMA Modify ==
  ASSUME Joint, NEW p \in Proc, modify(p), Cache(p)
  PROVE  Atomic!modify(p) /\ Kept
<1>1. Driver /\ Atomic!IInv
  BY ZenonT(60) DEF Joint
<1>2. /\ pc[p] = "held" /\ pinned' = pinned \cup {blockno[buf[p]]}
      /\ UNCHANGED <<blockno, valid, locked, lru, disk, pc, buf, want>>
  BY ZenonT(60) DEF modify
<1>3. Still /\ pcBar[p] = "held"
  BY ZenonT(60), <1>1, <1>2, Outside
<1>4. validBar' = validBar
  BY ZenonT(60), <1>2, <1>3, BarValid
<1>5. pcBar' = pcBar
  BY ZenonT(60), <1>2, <1>3 DEF pcBar, Still, device, Transferred, Submitted, Writes
<1>6. \A S : Atomic!Cardinality(S) = Cardinality(S)
  BY ZenonT(60) DEF Atomic!Cardinality, Cardinality, Atomic!IsFiniteSet, IsFiniteSet
<1>7. Atomic!modify(p)
  BY ZenonT(60), <1>2, <1>3, <1>4, <1>5, <1>6 DEF modify, Atomic!modify, Pinned, Atomic!Pinned
<1>8. Kept
  BY ZenonT(60), <1>1, <1>2 DEF Kept, Driver, VTypes
<1> QED
  BY ZenonT(60), <1>7, <1>8

\* The log unpins a block that it has written: no other transfer is of it.
LEMMA Unpin ==
  ASSUME Joint, NEW p \in Proc, bunpin(p), Cache(p)
  PROVE  Atomic!bunpin(p) /\ Kept
<1>1. Driver /\ Atomic!IInv
  BY ZenonT(60) DEF Joint
<1>2. /\ pc[p] = "written" /\ pc' = [pc EXCEPT ![p] = "held"]
      /\ refcnt' = [refcnt EXCEPT ![buf[p]] = @ - 1]
      /\ pinned' = pinned \ {blockno[buf[p]]}
      /\ UNCHANGED <<blockno, valid, data, locked, lru, disk, buf, want, latest>>
  BY ZenonT(60) DEF bunpin, Goto
<1>3. pcBar[p] = "written" /\ pcBar' = [pcBar EXCEPT ![p] = "held"]
  BY ZenonT(60), <1>1, <1>2, Outside, BarGoto
<1>4. validBar' = validBar
  BY ZenonT(60), <1>1, <1>2, Outside, BarValid
<1>5. Atomic!bunpin(p)
  BY ZenonT(60), <1>2, <1>3, <1>4 DEF Atomic!bunpin, Atomic!Goto
<1>6. pc' \in [Proc -> Places] /\ \A q \in Proc : q # p => pc'[q] = pc[q]
  BY ZenonT(60), <1>1, <1>2, Moves DEF Places
<1>7. \A q \in Proc : InRw(q) => blockno[buf[q]] # blockno[buf[p]]
  BY ZenonT(60), <1>1, <1>2, Outside, Bar, Apart
<1>8. Kept
  BY ZenonT(60), <1>1, <1>2, <1>6, <1>7, Outside DEF Kept, Driver, VTypes
<1> QED
  BY ZenonT(60), <1>5, <1>8

\* brelse() gives up the lock it has; those in virtio_disk_rw() wait for no lock.
LEMMA Release ==
  ASSUME Joint, NEW p \in Proc, releasesleep(p), Cache(p)
  PROVE  Atomic!releasesleep(p) /\ Kept
<1>1. Driver /\ Atomic!IInv
  BY ZenonT(60) DEF Joint
<1>2. /\ pc[p] = "held"
      /\ UNCHANGED <<blockno, valid, refcnt, data, lru, disk, buf, want, pinned, latest>>
  BY ZenonT(60) DEF releasesleep
<1>3. locked[buf[p]] = p
  BY ZenonT(60), <1>2, Holding
<1>4. /\ locked' = [locked EXCEPT ![buf[p]] = None]
      /\ pc' = [Woken(buf[p]) EXCEPT ![p] = "release"]
  BY ZenonT(60), <1>3 DEF releasesleep
<1>5. pcBar[p] = "held" /\ Still /\ ~ Transferred(p) /\ \A q \in Proc : InRw(q) => q # p
  BY ZenonT(60), <1>1, <1>2, Outside
<1>6. validBar' = validBar
  BY ZenonT(60), <1>2, <1>5, BarValid
<1>7. pc'[p] = "release"
  BY ZenonT(60), <1>4 DEF Woken
<1>8. ASSUME NEW q \in Proc, q # p
      PROVE  pc'[q] = IF pc[q] = "asleep" /\ buf[q] = buf[p] THEN "acquire" ELSE pc[q]
  BY ZenonT(60), <1>4, <1>8 DEF Woken
<1>9. pcBar' = [Atomic!Woken(buf[p]) EXCEPT ![p] = "release"]
  <2>1. \A q \in Proc : Transferred(q)' <=> Transferred(q)
    BY ZenonT(60), <1>5 DEF Still, device, Transferred, Submitted
  <2>2. pcBar'[p] = "release"
    BY ZenonT(60), <1>5, <1>7, <2>1 DEF pcBar
  <2>3. ASSUME NEW q \in Proc, q # p
        PROVE  pcBar'[q] = IF pcBar[q] = "asleep" /\ buf[q] = buf[p] THEN "acquire" ELSE pcBar[q]
    <3>1. CASE Transferred(q)
      <4>1. pc[q] \in {"fill", "held"} /\ pcBar[q] # "asleep"
        BY ZenonT(60), <1>1, <3>1, Bar
      <4>2. pc'[q] = pc[q]
        BY ZenonT(60), <4>1, <1>8, <2>3
      <4>3. pcBar'[q] = pcBar[q]
        BY ZenonT(60), <2>1, <3>1, <4>2 DEF pcBar, Writes
      <4> QED
        BY ZenonT(60), <4>1, <4>3
    <3>2. CASE ~ Transferred(q)
      <4>1. pcBar[q] = pc[q] /\ pcBar'[q] = pc'[q]
        BY ZenonT(60), <2>1, <3>2 DEF pcBar
      <4> QED
        BY ZenonT(60), <4>1, <1>8, <2>3
    <3> QED
      BY ZenonT(60), <3>1, <3>2
  <2>4. \A q \in Proc : pcBar'[q] = [Atomic!Woken(buf[p]) EXCEPT ![p] = "release"][q]
    BY ZenonT(60), <2>2, <2>3 DEF Atomic!Woken
  <2>5. pcBar' = [q \in Proc |-> pcBar'[q]]
    BY DEF pcBar
  <2>6. [Atomic!Woken(buf[p]) EXCEPT ![p] = "release"]
          = [q \in Proc |-> [Atomic!Woken(buf[p]) EXCEPT ![p] = "release"][q]]
    BY ZenonT(60) DEF Atomic!Woken
  <2> QED
    BY ZenonT(60), <2>4, <2>5, <2>6
<1>10. Atomic!releasesleep(p)
  BY ZenonT(60), <1>2, <1>3, <1>4, <1>5, <1>6, <1>9 DEF Atomic!releasesleep, Atomic!None, None
<1>11. ASSUME NEW q \in Proc PROVE pc'[q] \in Places /\ (InRw(q) => pc'[q] = pc[q])
  <2>1. pc[q] \in Places /\ (InRw(q) => pc[q] # "asleep" /\ q # p)
    BY ZenonT(60), <1>1, <1>5, Bar DEF Driver, VTypes
  <2>2. pc'[q] \in {"release", "acquire", pc[q]}
    BY ZenonT(60), <1>7, <1>8
  <2>3. pc'[q] \in Places
    BY ZenonT(60), <2>1, <2>2 DEF Places
  <2> QED
    BY ZenonT(60), <2>1, <2>3, <1>8
<1>12. pc' = [q \in Proc |-> pc'[q]]
  BY ZenonT(60), <1>4 DEF Woken
<1>13. pc' \in [Proc -> Places]
  BY ZenonT(60), <1>11, <1>12
<1>14. Kept
  BY ZenonT(60), <1>1, <1>2, <1>11, <1>13 DEF Kept, Driver, VTypes
<1> QED
  BY ZenonT(60), <1>10, <1>14

\* brelse() drops its reference.
LEMMA Brelse ==
  ASSUME Joint, NEW p \in Proc, brelse(p), Cache(p)
  PROVE  Atomic!brelse(p) /\ Kept
<1>1. Driver /\ Atomic!IInv
  BY ZenonT(60) DEF Joint
<1>2. /\ pc[p] = "release" /\ pc' = [pc EXCEPT ![p] = "idle"]
      /\ buf' = [buf EXCEPT ![p] = 1]
      /\ UNCHANGED <<blockno, valid, data, locked, disk, pinned, latest>>
  BY ZenonT(60) DEF brelse, Goto
<1>3. pcBar[p] = "release" /\ pcBar' = [pcBar EXCEPT ![p] = "idle"]
  BY ZenonT(60), <1>1, <1>2, Outside, BarGoto
<1>4. \A q \in Proc : q # p => buf'[q] = buf[q]
  BY ZenonT(60), <1>1, <1>2, CacheTypes, SetOne
<1>5. validBar' = validBar
  BY ZenonT(60), <1>1, <1>2, <1>4, Outside, BarValid
<1>6. Atomic!brelse(p)
  BY ZenonT(60), <1>2, <1>3, <1>5
     DEF brelse, Atomic!brelse, Atomic!Goto, MoveToHead, Atomic!MoveToHead, Atomic!Buf, Buf
<1>7. pc' \in [Proc -> Places] /\ \A q \in Proc : q # p => pc'[q] = pc[q]
  BY ZenonT(60), <1>1, <1>2, Moves DEF Places
<1>8. Kept
  BY ZenonT(60), <1>1, <1>2, <1>4, <1>7, Outside DEF Kept, Driver, VTypes
<1> QED
  BY ZenonT(60), <1>6, <1>8

\* kill() of a process asleep on a buffer's lock.
LEMMA Kill ==
  ASSUME Joint, NEW p \in Proc, kill(p), Cache(p)
  PROVE  Atomic!kill(p) /\ Kept
<1>1. Driver /\ Atomic!IInv
  BY ZenonT(60) DEF Joint
<1>2. /\ pc[p] = "asleep" /\ pc' = [pc EXCEPT ![p] = "acquire"]
      /\ UNCHANGED <<blockno, valid, refcnt, data, locked, lru, disk, buf, want, pinned, latest>>
  BY ZenonT(60) DEF kill, Goto, bcache
<1>3. pcBar[p] = "asleep" /\ pcBar' = [pcBar EXCEPT ![p] = "acquire"]
  BY ZenonT(60), <1>1, <1>2, Outside, BarGoto
<1>4. validBar' = validBar
  BY ZenonT(60), <1>1, <1>2, Outside, BarValid
<1>5. Atomic!kill(p)
  BY ZenonT(60), <1>2, <1>3, <1>4 DEF Atomic!kill, Atomic!Goto, Atomic!bcache
<1>6. pc' \in [Proc -> Places] /\ \A q \in Proc : q # p => pc'[q] = pc[q]
  BY ZenonT(60), <1>1, <1>2, Moves DEF Places
<1>7. Kept
  BY ZenonT(60), <1>1, <1>2, <1>6, Outside DEF Kept, Driver, VTypes
<1> QED
  BY ZenonT(60), <1>5, <1>7

-------------------------------------------------------------------------------
(* Steps in virtio_disk_rw() that only move processes.                      *)

\* The mapped cache stays when the cache and the transferred requests do.
LEMMA BarStays ==
  ASSUME UNCHANGED vars, \A q \in Proc : Transferred(q)' <=> Transferred(q)
  PROVE  UNCHANGED Atomic!vars
<1>1. UNCHANGED <<blockno, valid, refcnt, data, locked, lru, disk, pc, buf, want, pinned, latest>>
  BY ZenonT(60) DEF vars, bcache
<1>2. pcBar' = pcBar
  BY ZenonT(60), <1>1 DEF pcBar, Writes
<1>3. \A b \in Buf : (valid[b] \/ \E q \in Proc : Transferred(q) /\ buf[q] = b)'
        = (valid[b] \/ \E q \in Proc : Transferred(q) /\ buf[q] = b)
  BY ZenonT(60), <1>1
<1>4. validBar' = validBar
  BY ZenonT(60), <1>3 DEF validBar
<1> QED
  BY ZenonT(60), <1>1, <1>2, <1>4 DEF Atomic!vars, Atomic!bcache

\* So it does when no request changes.
LEMMA BarIdle == ASSUME UNCHANGED <<vars, idx, status>> PROVE UNCHANGED Atomic!vars
<1>1. \A q \in Proc : Transferred(q)' <=> Transferred(q)
  BY ZenonT(60) DEF Transferred, Submitted
<1> QED
  BY ZenonT(60), <1>1, BarStays

\* A step that moves processes between the places around a request.
Moved(q) ==
  /\ io'[q] # "none" => InRw(q) \/ pc[q] = "fill" \/ (pc[q] = "held" /\ blockno[buf[q]] \in pinned)
  /\ io'[q] \in {"asleep", "test"} <=> io[q] \in {"asleep", "test"}
  /\ Served(q) => io'[q] = "test"
  /\ io'[q] = "nodesc" => ~ Three

\* Such a step keeps the driver's state right.
LEMMA MovedDriver ==
  ASSUME Driver, UNCHANGED <<vars, rings, device, intr, idx>>, io' \in [Proc -> Ios],
         \A q \in Proc : Moved(q)
  PROVE  Driver'
<1>1. /\ UNCHANGED <<NUM, free, desc, ops, info, b_disk, avail, used, status, irq, intr, idx>>
      /\ UNCHANGED <<pc, valid, buf, blockno, pinned>>
  BY ZenonT(60) DEF rings, device, vars, bcache
<1>2. Desc' = Desc
  BY ZenonT(60), <1>1 DEF Desc
<1>3. VTypes'
  BY ZenonT(60), <1>1, <1>2 DEF Driver, VTypes
<1>4. Callers'
  BY ZenonT(60), <1>1 DEF Driver, Callers, Moved, InRw, Submitted
<1>5. ASSUME NEW p \in Proc, Submitted(p)' PROVE Submitted(p) /\ (AtDevice(p)' \/ InRing(p)' \/ Served(p)')
  <2>1. Submitted(p)
    BY ZenonT(60), <1>1, <1>5 DEF Submitted
  <2>2. AtDevice(p) \/ InRing(p) \/ Served(p)
    BY ZenonT(60), <2>1 DEF Driver, Requests
  <2> QED
    BY ZenonT(60), <1>1, <2>1, <2>2 DEF AtDevice, InRing, Served, Moved
<1>6. Requests'
  BY ZenonT(60), <1>1, <1>5 DEF Driver, Requests, Writes
<1>7. Rings' /\ Waiting'
  BY ZenonT(60), <1>1 DEF Driver, Rings, Waiting, Moved, Three
<1>8. DescriptorsExact'
  BY ZenonT(60), <1>1, ExactStays DEF Driver
<1> QED
  BY ZenonT(60), <1>3, <1>4, <1>6, <1>7, <1>8 DEF Driver

\* One process moves.
LEMMA EnterMoves ==
  ASSUME Driver, NEW p \in Proc, NEW x \in Ios, Enter(p, x)
  PROVE  io' \in [Proc -> Ios] /\ io'[p] = x /\ \A q \in Proc : q # p => io'[q] = io[q]
<1>1. io \in [Proc -> Ios] /\ io' = [io EXCEPT ![p] = x]
  BY ZenonT(60) DEF Driver, VTypes, Enter
<1> QED
  BY ZenonT(60), <1>1

\* A process that does not move in virtio_disk_rw().
LEMMA StaysPut == ASSUME Driver, NEW q \in Proc, io'[q] = io[q] PROVE Moved(q)
  BY ZenonT(60) DEF Driver, Waiting, Moved, Served, InRw

\* virtio_disk_rw() is called with the lock of the buffer.
LEMMA CallStep ==
  ASSUME Joint, NEW p \in Proc, rw_call(p) PROVE Driver' /\ UNCHANGED Atomic!vars
<1>1. Driver
  BY ZenonT(60) DEF Joint
<1>2. /\ io[p] = "none"
      /\ pc[p] = "fill" \/ (pc[p] = "held" /\ blockno[buf[p]] \in pinned)
      /\ UNCHANGED <<bcache, disk, buf, want, pinned, latest, rings, device, intr, idx>>
  BY ZenonT(60) DEF rw_call
<1>3. locked[buf[p]] = p
  BY ZenonT(60), <1>2, Holding
<1>4. Enter(p, "alloc") /\ UNCHANGED pc
  BY ZenonT(60), <1>3 DEF rw_call
<1>5. UNCHANGED vars /\ UNCHANGED status
  BY ZenonT(60), <1>2, <1>4 DEF vars, device
<1>6. io' \in [Proc -> Ios] /\ io'[p] = "alloc" /\ \A q \in Proc : q # p => io'[q] = io[q]
  BY ZenonT(60), <1>1, <1>4, EnterMoves DEF Ios
<1>7. Moved(p)
  BY ZenonT(60), <1>2, <1>6 DEF Moved, Served
<1>8. \A q \in Proc : Moved(q)
  BY ZenonT(60), <1>1, <1>6, <1>7, StaysPut
<1>9. Driver'
  BY ZenonT(60), <1>1, <1>2, <1>5, <1>6, <1>8, MovedDriver
<1> QED
  BY ZenonT(60), <1>2, <1>5, <1>9, BarIdle

\* wakeup() makes sleepers runnable.
LEMMA WakeupMoves ==
  ASSUME Driver, NEW place \in {"nodesc", "asleep"}, NEW S, NEW q \in Proc
  PROVE  /\ wakeup(place, S)[q] \in Ios
         /\ io[q] = place /\ q \in S => wakeup(place, S)[q] = Runnable(place)
         /\ ~ (io[q] = place /\ q \in S) => wakeup(place, S)[q] = io[q]
         /\ Runnable("nodesc") = "alloc" /\ Runnable("asleep") = "test"
<1>1. io[q] \in Ios
  BY ZenonT(60) DEF Driver, VTypes
<1>2. Runnable("nodesc") = "alloc" /\ Runnable("asleep") = "test"
  BY ZenonT(60) DEF Runnable
<1>3. /\ io[q] = place /\ q \in S => wakeup(place, S)[q] = Runnable(place)
      /\ ~ (io[q] = place /\ q \in S) => wakeup(place, S)[q] = io[q]
  BY ZenonT(60) DEF wakeup
<1>4. wakeup(place, S)[q] \in {io[q], "alloc", "test"}
  BY ZenonT(60), <1>2, <1>3
<1>5. wakeup(place, S)[q] \in Ios
  BY ZenonT(60), <1>1, <1>4 DEF Ios
<1> QED
  BY ZenonT(60), <1>2, <1>3, <1>5

\* alloc3_desc() fails: the process sleeps, those that waited try again.
LEMMA NodescStep ==
  ASSUME Joint, NEW p \in Proc, rw_nodesc(p) PROVE Driver' /\ UNCHANGED Atomic!vars
<1>1. Driver
  BY ZenonT(60) DEF Joint
<1>2. PICK S : io' = [wakeup("nodesc", S) EXCEPT ![p] = "nodesc"]
  BY ZenonT(60) DEF rw_nodesc
<1>3. io[p] = "alloc" /\ ~ Three /\ UNCHANGED <<vars, rings, device, intr, idx>>
  BY ZenonT(60) DEF rw_nodesc
<1>4. io'[p] = "nodesc" /\ \A q \in Proc : q # p => io'[q] = wakeup("nodesc", S)[q]
  BY ZenonT(60), <1>2 DEF wakeup
<1>5. ASSUME NEW q \in Proc
      PROVE  /\ io'[q] \in Ios
             /\ io'[q] = io[q] \/ (io[q] \in {"alloc", "nodesc"} /\ io'[q] \in {"alloc", "nodesc"})
  <2>1. CASE q = p
    BY ZenonT(60), <1>3, <1>4, <2>1 DEF Ios
  <2>2. CASE q # p
    <3>1. io'[q] = wakeup("nodesc", S)[q] /\ wakeup("nodesc", S)[q] \in Ios
      BY ZenonT(60), <1>1, <1>4, <2>2, WakeupMoves
    <3>2. wakeup("nodesc", S)[q] = io[q] \/ (io[q] = "nodesc" /\ wakeup("nodesc", S)[q] = "alloc")
      BY ZenonT(60), <1>1, WakeupMoves
    <3> QED
      BY ZenonT(60), <3>1, <3>2
  <2> QED
    BY ZenonT(60), <2>1, <2>2
<1>6. io' = [q \in Proc |-> io'[q]]
  BY ZenonT(60), <1>2 DEF wakeup
<1>7. io' \in [Proc -> Ios]
  BY ZenonT(60), <1>5, <1>6
<1>8. ASSUME NEW q \in Proc PROVE Moved(q)
  <2>1. CASE io'[q] = io[q]
    BY ZenonT(60), <1>1, <2>1, StaysPut
  <2>2. CASE io[q] \in {"alloc", "nodesc"} /\ io'[q] \in {"alloc", "nodesc"}
    BY ZenonT(60), <1>3, <2>2 DEF Moved, Served, InRw
  <2> QED
    BY ZenonT(60), <1>5, <2>1, <2>2
<1>9. Driver'
  BY ZenonT(60), <1>1, <1>3, <1>7, <1>8, MovedDriver
<1> QED
  BY ZenonT(60), <1>3, <1>9, BarIdle DEF device

\* The process was woken too early and sleeps again, or a sleeper is killed.
LEMMA AgainStep ==
  ASSUME Joint, NEW p \in Proc, rw_again(p) \/ rw_kill(p) PROVE Driver' /\ UNCHANGED Atomic!vars
<1>1. Driver
  BY ZenonT(60) DEF Joint
<1>2. UNCHANGED <<vars, rings, device, intr, idx>>
  BY ZenonT(60) DEF rw_again, rw_kill
<1>3. \/ io[p] = "test" /\ b_disk[buf[p]] /\ Enter(p, "asleep")
      \/ io[p] = "nodesc" /\ Enter(p, "alloc")
      \/ io[p] = "asleep" /\ Enter(p, "test")
  BY ZenonT(60) DEF rw_again, rw_kill, Done, Runnable
<1>4. PICK x \in {"asleep", "alloc", "test"} : /\ Enter(p, x)
                                               /\ x = "asleep" => io[p] = "test" /\ b_disk[buf[p]]
                                               /\ x = "alloc" => io[p] = "nodesc"
                                               /\ x = "test" => io[p] = "asleep"
  BY ZenonT(60), <1>3
<1>5. io' \in [Proc -> Ios] /\ io'[p] = x /\ \A q \in Proc : q # p => io'[q] = io[q]
  BY ZenonT(60), <1>1, <1>4, EnterMoves DEF Ios
<1>6. Moved(p)
  BY ZenonT(60), <1>4, <1>5 DEF Moved, Served, InRw
<1>7. \A q \in Proc : Moved(q)
  BY ZenonT(60), <1>1, <1>5, <1>6, StaysPut
<1>8. Driver'
  BY ZenonT(60), <1>1, <1>2, <1>5, <1>7, MovedDriver
<1> QED
  BY ZenonT(60), <1>2, <1>8, BarIdle DEF device

-------------------------------------------------------------------------------
(* Descriptors are allocated and freed.                                     *)

\* End is no descriptor.
LEMMA EndIsNone == End \notin Desc
  BY DEF End, Desc

\* The request of a process that has submitted one.
LEMMA Submits ==
  ASSUME Driver, NEW p \in Proc, Submitted(p)
  PROVE  /\ idx[p] \in Desc /\ idx[p] \in Chain(idx[p]) /\ Chain(idx[p]) \subseteq Desc
         /\ Chain(idx[p]) \cap free = {}
         /\ InRw(p) /\ io[p] \in {"asleep", "test"} /\ pc[p] \in {"fill", "held"}
<1>1. idx[p] \in Desc /\ idx[p] # End /\ desc \in [Desc -> Desc \cup {End}]
  BY ZenonT(60) DEF Driver, VTypes, Submitted
<1>2. idx[p] \in Chain(idx[p]) /\ Chain(idx[p]) \subseteq Desc
  BY ZenonT(60), <1>1 DEF Chain
<1>3. Chain(idx[p]) \cap free = {}
  BY ZenonT(60) DEF Driver, DescriptorsExact
<1>4. InRw(p) /\ io[p] \in {"asleep", "test"}
  BY ZenonT(60) DEF Driver, Callers, InRw
<1> QED
  BY ZenonT(60), <1>1, <1>2, <1>3, <1>4, Bar

\* Two processes have different requests.
LEMMA RequestsDiffer ==
  ASSUME Driver, NEW p \in Proc, NEW q \in Proc, p # q, Submitted(p), Submitted(q)
  PROVE  idx[p] # idx[q] /\ Chain(idx[p]) \cap Chain(idx[q]) = {}
<1>1. Chain(idx[p]) \cap Chain(idx[q]) = {}
  BY ZenonT(60) DEF Driver, DescriptorsExact
<1> QED
  BY ZenonT(60), <1>1, Submits

\* A chain none of whose descriptors changes stays.
LEMMA ChainKept ==
  ASSUME NEW q \in Proc, idx'[q] = idx[q], idx[q] # End,
         \A i \in Chain(idx[q]) : desc'[i] = desc[i]
  PROVE  Chain(idx[q])' = Chain(idx[q])
<1>1. desc'[idx[q]] = desc[idx[q]]
  BY ZenonT(60) DEF Chain
<1>2. desc[idx[q]] # End => desc'[desc[idx[q]]] = desc[desc[idx[q]]]
  BY ZenonT(60) DEF Chain
<1> QED
  BY ZenonT(60), <1>1, <1>2 DEF Chain

\* What is free, put for each descriptor.
LEMMA ExactMeans ==
  ASSUME DescriptorsExact
  PROVE  /\ free \subseteq Desc
         /\ \A i \in Desc : i \in free <=> \A q \in Proc : Submitted(q) => i \notin Chain(idx[q])
  BY ZenonT(60) DEF DescriptorsExact

\* And the other way, after a step.
LEMMA ExactAfter ==
  ASSUME (free \subseteq Desc)',
         (\A i \in Desc : i \in free <=> \A q \in Proc : Submitted(q) => i \notin Chain(idx[q]))',
         (\A p, q \in Proc : p # q /\ Submitted(p) /\ Submitted(q) => Chain(idx[p]) \cap Chain(idx[q]) = {})'
  PROVE  DescriptorsExact'
<1> DEFINE U == UNION {Chain(idx[p]) : p \in {q \in Proc : Submitted(q)}}
<1>1. \A i : i \in U' <=> \E q \in Proc : Submitted(q)' /\ i \in Chain(idx[q])'
  BY ZenonT(60)
<1>2. free' = Desc' \ U'
  <2> HIDE DEF U
  <2> QED
    BY ZenonT(60), <1>1
<1> QED
  BY ZenonT(60), <1>2 DEF DescriptorsExact

\* alloc3_desc() finds three descriptors when there are three.
LEMMA Allocated ==
  ASSUME Driver, Three
  PROVE  LET i0 == Min(free)
             i1 == Min(free \ {i0})
             i2 == IF free = {i0, i1} THEN i1 ELSE Min(free \ {i0, i1})
         IN  i0 \in free /\ i1 \in free /\ i2 \in free /\ i1 # i0 /\ i2 # i0
<1> DEFINE i0 == Min(free)
           i1 == Min(free \ {i0})
           i2 == IF free = {i0, i1} THEN i1 ELSE Min(free \ {i0, i1})
<1>1. free \subseteq Nat
  BY DEF Driver, VTypes, Desc
<1>2. free # {}
  BY FS_EmptySet DEF Three
<1>3. i0 \in free
  BY ZenonT(60), <1>1, <1>2, MinInSet
<1>4. free # {i0}
  <2>1. Cardinality({i0}) = 1
    BY ZenonT(60), FS_Singleton
  <2> HIDE DEF i0
  <2> QED
    BY <2>1 DEF Three
<1> HIDE DEF i0
<1>5. i1 \in free \ {i0}
  BY ZenonT(60), <1>1, <1>3, <1>4, MinInSet
<1> HIDE DEF i1
<1>6. i2 \in free /\ i2 # i0
  <2>1. CASE free = {i0, i1}
    BY ZenonT(60), <1>5, <2>1
  <2>2. CASE free # {i0, i1}
    <3>1. free \ {i0, i1} # {} /\ free \ {i0, i1} \subseteq Nat
      BY ZenonT(60), <1>1, <1>3, <1>5, <2>2
    <3>2. Min(free \ {i0, i1}) \in free \ {i0, i1}
      BY ZenonT(60), <3>1, MinInSet
    <3> QED
      BY ZenonT(60), <2>2, <3>2
  <2> QED
    BY ZenonT(60), <2>1, <2>2
<1> HIDE DEF i2
<1>7. i0 \in free /\ i1 \in free /\ i2 \in free /\ i1 # i0 /\ i2 # i0
  BY ZenonT(60), <1>3, <1>5, <1>6
<1> USE DEF i0, i1, i2
<1> QED
  BY ZenonT(60), <1>7

\* virtio_disk_rw() publishes a request: for the cache nothing has happened yet.
LEMMA SubmitStep ==
  ASSUME Joint, NEW p \in Proc, rw_submit(p) PROVE Driver' /\ UNCHANGED Atomic!vars
<1>1. Driver /\ Atomic!IInv
  BY ZenonT(60) DEF Joint
<1>2. PICK i0 \in free, i1 \in free, i2 \in free :
        /\ i1 # i0 /\ i2 # i0
        /\ free' = free \ {i0, i1, i2}
        /\ desc' = [desc EXCEPT ![i0] = i1, ![i1] = i2, ![i2] = End]
        /\ ops' = [ops EXCEPT ![i0] = [write |-> Writes(p), sector |-> blockno[buf[p]], addr |-> buf[p]]]
        /\ info' = [info EXCEPT ![i0] = buf[p]]
        /\ status' = [status EXCEPT ![i0] = "pending"]
        /\ b_disk' = [b_disk EXCEPT ![buf[p]] = TRUE]
        /\ avail' = avail \cup {i0}
        /\ idx' = [idx EXCEPT ![p] = i0]
  BY ZenonT(60), <1>1, Allocated DEF rw_submit
<1>3. io[p] = "alloc" /\ Three /\ Enter(p, "asleep") /\ UNCHANGED <<vars, NUM, used, irq, intr>>
  BY ZenonT(60) DEF rw_submit
<1>4. UNCHANGED <<blockno, valid, pc, buf, pinned>> /\ Desc' = Desc
  BY ZenonT(60), <1>3 DEF vars, bcache, Desc
<1>5. /\ i0 \in Desc /\ i1 \in Desc /\ i2 \in Desc /\ i0 # End
      /\ ~ Submitted(p) /\ idx[p] = End /\ InRw(p) /\ pc[p] \in {"fill", "held"} /\ buf[p] \in Buf
  <2>1. i0 \in Desc /\ i1 \in Desc /\ i2 \in Desc /\ i0 # End
    BY ZenonT(60), <1>1, EndIsNone DEF Driver, VTypes
  <2>2. ~ Submitted(p) /\ InRw(p)
    BY ZenonT(60), <1>1, <1>3 DEF Driver, Callers, InRw
  <2> QED
    BY ZenonT(60), <1>1, <2>1, <2>2, Bar, CacheTypes DEF Submitted
<1>6. /\ idx'[p] = i0 /\ io'[p] = "asleep" /\ io' \in [Proc -> Ios] /\ idx' \in [Proc -> Desc \cup {End}]
      /\ \A q \in Proc : q # p => idx'[q] = idx[q] /\ io'[q] = io[q]
  <2>1. io' \in [Proc -> Ios] /\ io'[p] = "asleep" /\ \A q \in Proc : q # p => io'[q] = io[q]
    BY ZenonT(60), <1>1, <1>3, EnterMoves DEF Ios
  <2>2. idx \in [Proc -> Desc \cup {End}]
    BY ZenonT(60), <1>1 DEF Driver, VTypes
  <2> QED
    BY ZenonT(60), <1>2, <1>5, <2>1, <2>2
<1>7. Submitted(p)' /\ \A q \in Proc : q # p => (Submitted(q)' <=> Submitted(q))
  BY ZenonT(60), <1>5, <1>6 DEF Submitted
<1>8. /\ Chain(idx[p])' = {i0, i1, i2} /\ desc' \in [Desc -> Desc \cup {End}]
      /\ \A i \in Desc : i \notin {i0, i1, i2} => desc'[i] = desc[i]
  <2>1. desc \in [Desc -> Desc \cup {End}]
    BY ZenonT(60), <1>1 DEF Driver, VTypes
  <2>2. desc' \in [Desc -> Desc \cup {End}]
    BY ZenonT(60), <1>2, <1>5, <2>1
  <2>3. \A i \in Desc : i \notin {i0, i1, i2} => desc'[i] = desc[i]
    BY ZenonT(60), <1>2, <1>5, <2>1
  <2>4. desc'[i0] = i1 /\ desc'[i2] = End /\ (i1 # i2 => desc'[i1] = i2)
    BY ZenonT(60), <1>2, <1>5, <2>1
  <2>5. Chain(idx[p])' = {i0, i1, i2}
    <3>1. i0 # End /\ i1 # End /\ i2 # End
      BY ZenonT(60), <1>5, EndIsNone
    <3>2. Chain(idx[p])' = {i0, i1, desc'[i1]} \ {End}
      BY ZenonT(60), <1>6, <2>4, <3>1 DEF Chain
    <3>3. CASE i1 = i2
      BY ZenonT(60), <2>4, <3>1, <3>2, <3>3
    <3>4. CASE i1 # i2
      BY ZenonT(60), <2>4, <3>1, <3>2, <3>4
    <3> QED
      BY ZenonT(60), <3>3, <3>4
  <2> QED
    BY ZenonT(60), <2>2, <2>3, <2>5
<1>9. ASSUME NEW q \in Proc, q # p, Submitted(q)
      PROVE  /\ Chain(idx[q])' = Chain(idx[q]) /\ Chain(idx[q]) \cap {i0, i1, i2} = {}
             /\ idx[q] # i0 /\ idx[q] \in Desc /\ buf[q] # buf[p] /\ buf[q] \in Buf
  <2>1. idx[q] \in Desc /\ idx[q] \in Chain(idx[q]) /\ Chain(idx[q]) \subseteq Desc /\ Chain(idx[q]) \cap free = {}
    BY ZenonT(60), <1>1, <1>9, Submits
  <2>2. Chain(idx[q]) \cap {i0, i1, i2} = {} /\ idx[q] # i0
    BY ZenonT(60), <2>1
  <2>3. Chain(idx[q])' = Chain(idx[q])
    BY ZenonT(60), <1>6, <1>8, <1>9, <2>1, <2>2, ChainKept DEF Submitted
  <2>4. pc[q] \in {"fill", "held"}
    BY ZenonT(60), <1>1, <1>9, Submits
  <2> QED
    BY ZenonT(60), <1>1, <1>5, <1>9, <2>1, <2>2, <2>3, <2>4, Apart, CacheTypes
<1>10. VTypes'
  <2>1. free' \subseteq Desc /\ avail' \subseteq Desc
    BY ZenonT(60), <1>1, <1>2, <1>5 DEF Driver, VTypes
  <2>2. info' \in [Desc -> Buf \cup {0}] /\ status' \in [Desc -> Status] /\ b_disk' \in [Buf -> BOOLEAN]
    BY ZenonT(60), <1>1, <1>2, <1>5 DEF Driver, VTypes, Status
  <2>3. DOMAIN ops' = Desc
    BY ZenonT(60), <1>1, <1>2 DEF Driver, VTypes
  <2> QED
    BY ZenonT(60), <1>1, <1>3, <1>4, <1>6, <1>8, <2>1, <2>2, <2>3 DEF Driver, VTypes
<1>11. Callers'
  <2> SUFFICES ASSUME NEW q \in Proc
               PROVE  /\ io'[q] # "none" => pc[q] = "fill" \/ (pc[q] = "held" /\ blockno[buf[q]] \in pinned)
                      /\ Submitted(q)' <=> io'[q] \in {"asleep", "test"}
    BY ZenonT(60), <1>4 DEF Callers, InRw
  <2>1. CASE q = p
    BY ZenonT(60), <1>1, <1>5, <1>6, <1>7, <2>1 DEF Driver, Callers
  <2>2. CASE q # p
    BY ZenonT(60), <1>1, <1>6, <1>7, <2>2 DEF Driver, Callers, InRw
  <2> QED
    BY ZenonT(60), <2>1, <2>2
<1>12. i0 \notin avail /\ i0 \notin Range(used)
  <2>1. \A q \in Proc : idx[q] # i0
    BY ZenonT(60), <1>5, <1>9 DEF Submitted
  <2> QED
    BY ZenonT(60), <1>1, <2>1 DEF Driver, Rings
<1>13. Requests'
  <2> SUFFICES ASSUME NEW q \in Proc, Submitted(q)'
               PROVE  /\ ops'[idx'[q]] = [write |-> Writes(q), sector |-> blockno[buf[q]], addr |-> buf[q]]
                      /\ info'[idx'[q]] = buf[q]
                      /\ AtDevice(q)' \/ InRing(q)' \/ Served(q)'
    BY ZenonT(60), <1>4 DEF Requests, Writes
  <2>1. CASE q = p
    <3>1. ops'[i0] = [write |-> Writes(p), sector |-> blockno[buf[p]], addr |-> buf[p]] /\ info'[i0] = buf[p]
      BY ZenonT(60), <1>1, <1>2, <1>5 DEF Driver, VTypes
    <3>2. status'[i0] = "pending" /\ b_disk'[buf[p]]
      BY ZenonT(60), <1>1, <1>2, <1>5 DEF Driver, VTypes
    <3>3. AtDevice(p)'
      BY ZenonT(60), <1>2, <1>3, <1>4, <1>6, <1>12, <3>2 DEF AtDevice
    <3> QED
      BY ZenonT(60), <1>6, <2>1, <3>1, <3>3
  <2>2. CASE q # p
    <3>1. Submitted(q)
      BY ZenonT(60), <1>7, <2>2
    <3>2. /\ ops'[idx[q]] = ops[idx[q]] /\ info'[idx[q]] = info[idx[q]]
          /\ status'[idx[q]] = status[idx[q]] /\ b_disk'[buf[q]] = b_disk[buf[q]]
          /\ idx[q] \in avail' <=> idx[q] \in avail
      <4>1. idx[q] # i0 /\ idx[q] \in Desc /\ buf[q] # buf[p] /\ buf[q] \in Buf
        BY ZenonT(60), <1>9, <2>2, <3>1
      <4>2. ops'[idx[q]] = ops[idx[q]] /\ info'[idx[q]] = info[idx[q]] /\ status'[idx[q]] = status[idx[q]]
        BY ZenonT(60), <1>1, <1>2, <1>5, <4>1 DEF Driver, VTypes
      <4>3. b_disk'[buf[q]] = b_disk[buf[q]]
        BY ZenonT(60), <1>1, <1>2, <1>5, <4>1 DEF Driver, VTypes
      <4> QED
        BY ZenonT(60), <1>2, <4>1, <4>2, <4>3
    <3>3. /\ ops[idx[q]] = [write |-> Writes(q), sector |-> blockno[buf[q]], addr |-> buf[q]]
          /\ info[idx[q]] = buf[q]
          /\ AtDevice(q) \/ InRing(q) \/ Served(q)
      BY ZenonT(60), <1>1, <3>1 DEF Driver, Requests
    <3>4. AtDevice(q)' \/ InRing(q)' \/ Served(q)'
      BY ZenonT(60), <1>3, <1>4, <1>6, <2>2, <3>2, <3>3 DEF AtDevice, InRing, Served
    <3> QED
      BY ZenonT(60), <1>6, <2>2, <3>2, <3>3, <3>4
  <2> QED
    BY ZenonT(60), <2>1, <2>2
<1>14. Rings'
  <2>1. \A h \in avail' \cup Range(used') : \E q \in Proc : idx'[q] = h
    <3> SUFFICES ASSUME NEW h \in avail \cup Range(used) PROVE \E q \in Proc : idx'[q] = h
      BY ZenonT(60), <1>2, <1>3, <1>6
    <3>1. PICK q \in Proc : idx[q] = h
      BY ZenonT(60), <1>1 DEF Driver, Rings
    <3>2. h \in Desc
      BY <1>1 DEF Driver, VTypes, Range
    <3>3. q # p
      BY ZenonT(60), <1>5, <3>1, <3>2, EndIsNone
    <3> QED
      BY ZenonT(60), <1>6, <3>1, <3>3
  <2> QED
    BY ZenonT(60), <1>1, <1>3, <2>1 DEF Driver, Rings
<1>15. Waiting'
  BY ZenonT(60), <1>1, <1>3, <1>6 DEF Driver, Waiting
<1>16. DescriptorsExact'
  <2>1. ASSUME NEW i \in Desc
        PROVE  i \in free' <=> \A q \in Proc : Submitted(q)' => i \notin Chain(idx[q])'
    <3>1. i \in free <=> \A q \in Proc : Submitted(q) => i \notin Chain(idx[q])
      BY ZenonT(60), <1>1, ExactMeans DEF Driver
    <3>2. i \in free' <=> i \in free /\ i \notin {i0, i1, i2}
      BY ZenonT(60), <1>2
    <3>3. \A q \in Proc : q # p => ((Submitted(q)' => i \notin Chain(idx[q])')
            <=> (Submitted(q) => i \notin Chain(idx[q])))
      BY ZenonT(60), <1>7, <1>9
    <3> QED
      BY ZenonT(60), <1>5, <1>7, <1>8, <3>1, <3>2, <3>3
  <2>2. ASSUME NEW q \in Proc, NEW r \in Proc, q # r, Submitted(q)', Submitted(r)'
        PROVE  Chain(idx[q])' \cap Chain(idx[r])' = {}
    <3>1. CASE q = p
      BY ZenonT(60), <1>7, <1>8, <1>9, <2>2, <3>1
    <3>2. CASE r = p
      BY ZenonT(60), <1>7, <1>8, <1>9, <2>2, <3>2
    <3>3. CASE q # p /\ r # p
      BY ZenonT(60), <1>1, <1>7, <1>9, <2>2, <3>3, RequestsDiffer
    <3> QED
      BY ZenonT(60), <3>1, <3>2, <3>3
  <2>3. free' \subseteq Desc'
    BY ZenonT(60), <1>10 DEF VTypes
  <2> QED
    BY ZenonT(60), <1>4, <2>1, <2>2, <2>3, ExactAfter
<1>17. UNCHANGED Atomic!vars
  <2>1. \A q \in Proc : q # p /\ Submitted(q) => status'[idx[q]] = status[idx[q]]
    BY ZenonT(60), <1>1, <1>2, <1>5, <1>9 DEF Driver, VTypes
  <2>2. status'[i0] = "pending"
    BY ZenonT(60), <1>1, <1>2, <1>5 DEF Driver, VTypes
  <2>3. \A q \in Proc : Transferred(q)' <=> Transferred(q)
    BY ZenonT(60), <1>5, <1>6, <1>7, <2>1, <2>2 DEF Transferred
  <2> QED
    BY ZenonT(60), <1>3, <2>3, BarStays
<1> QED
  BY ZenonT(60), <1>10, <1>11, <1>13, <1>14, <1>15, <1>16, <1>17 DEF Driver

\* virtio_disk_rw() returns: for the cache the transfer was done before, and the
\* descriptors of the request go back.  free_desc() meets no free descriptor.
LEMMA ReturnStep ==
  ASSUME Joint, NEW p \in Proc, rw_return(p) PROVE Driver' /\ UNCHANGED Atomic!vars
<1>1. Driver /\ Atomic!IInv
  BY ZenonT(60) DEF Joint
<1>2. io[p] = "test" /\ ~ b_disk[buf[p]]
  BY ZenonT(60) DEF rw_return, Done
<1>3. Submitted(p)
  BY ZenonT(60), <1>1, <1>2 DEF Driver, Callers
<1>4. Served(p)
  BY ZenonT(60), <1>1, <1>2, <1>3 DEF Driver, Requests, AtDevice, InRing
<1>5. PICK h \in Desc : h = idx[p] /\ h \in Chain(h) /\ Chain(h) \subseteq Desc /\ Chain(h) \cap free = {}
  BY ZenonT(60), <1>1, <1>3, Submits
<1>6. PICK C \in SUBSET Desc : C = Chain(h) /\ C \cap free = {}
  BY ZenonT(60), <1>5
<1>7. /\ info' = [info EXCEPT ![h] = 0] /\ ops' = [ops EXCEPT ![h] = NoReq]
      /\ status' = [status EXCEPT ![h] = "pending"]
      /\ free' = free \cup C
      /\ desc' = [i \in Desc |-> IF i \in C THEN End ELSE desc[i]]
      /\ io' = [wakeup("nodesc", Proc) EXCEPT ![p] = "none"]
      /\ idx' = [idx EXCEPT ![p] = End]
      /\ UNCHANGED <<blockno, refcnt, data, locked, lru, disk, buf, want, pinned, latest,
                     NUM, b_disk, avail, used, irq, intr>>
  BY ZenonT(60), <1>5, <1>6 DEF rw_return, free_chain
<1>8. Goto(p, IF Writes(p) THEN "written" ELSE "held") /\ valid' = [valid EXCEPT ![buf[p]] = TRUE]
  BY ZenonT(60), <1>5, <1>6 DEF rw_return, free_chain
<1>9. /\ pc[p] \in {"fill", "held"} /\ buf[p] \in Buf /\ Desc' = Desc
      /\ idx \in [Proc -> Desc \cup {End}] /\ desc \in [Desc -> Desc \cup {End}]
  BY ZenonT(60), <1>1, <1>3, <1>7, Submits, CacheTypes DEF Desc, Driver, VTypes
<1>10. /\ idx'[p] = End /\ idx' \in [Proc -> Desc \cup {End}]
       /\ \A q \in Proc : q # p => idx'[q] = idx[q]
  BY ZenonT(60), <1>7, <1>9
<1>11. ~ Submitted(p)' /\ \A q \in Proc : q # p => (Submitted(q)' <=> Submitted(q))
  BY ZenonT(60), <1>10 DEF Submitted
<1>12. io'[p] = "none" /\ \A q \in Proc : q # p => io'[q] = wakeup("nodesc", Proc)[q]
  BY ZenonT(60), <1>7 DEF wakeup
<1>13. ASSUME NEW q \in Proc, q # p
       PROVE  /\ io'[q] \in Ios /\ io'[q] # "nodesc"
              /\ io'[q] = io[q] \/ (io[q] = "nodesc" /\ io'[q] = "alloc")
  <2>1. wakeup("nodesc", Proc)[q] \in Ios
    BY ZenonT(60), <1>1, WakeupMoves
  <2>2. (wakeup("nodesc", Proc)[q] = io[q] /\ io[q] # "nodesc")
          \/ (io[q] = "nodesc" /\ wakeup("nodesc", Proc)[q] = "alloc")
    BY ZenonT(60), <1>1, WakeupMoves
  <2> QED
    BY ZenonT(60), <1>12, <1>13, <2>1, <2>2
<1>14. io' \in [Proc -> Ios]
  <2>1. io' = [q \in Proc |-> io'[q]]
    BY ZenonT(60), <1>7 DEF wakeup
  <2>2. \A q \in Proc : io'[q] \in Ios
    BY ZenonT(60), <1>12, <1>13 DEF Ios
  <2> QED
    BY ZenonT(60), <2>1, <2>2
<1>15. ASSUME NEW q \in Proc, q # p, Submitted(q)
       PROVE  /\ Chain(idx[q])' = Chain(idx[q]) /\ Chain(idx[q]) \cap C = {}
              /\ idx[q] # h /\ idx[q] \in Desc /\ buf[q] # buf[p] /\ buf[q] \in Buf
  <2>1. idx[q] \in Desc /\ idx[q] \in Chain(idx[q]) /\ Chain(idx[q]) \subseteq Desc /\ pc[q] \in {"fill", "held"}
    BY ZenonT(60), <1>1, <1>15, Submits
  <2>2. Chain(idx[q]) \cap C = {} /\ idx[q] # h
    BY ZenonT(60), <1>1, <1>3, <1>5, <1>6, <1>15, RequestsDiffer
  <2>3. \A i \in Chain(idx[q]) : desc'[i] = desc[i]
    BY ZenonT(60), <1>7, <2>1, <2>2
  <2>4. Chain(idx[q])' = Chain(idx[q])
    BY ZenonT(60), <1>10, <1>15, <2>3, ChainKept DEF Submitted
  <2> QED
    BY ZenonT(60), <1>1, <1>9, <1>15, <2>1, <2>2, <2>4, Apart, CacheTypes
<1>16. ASSUME NEW q \in Proc, q # p, Submitted(q)
       PROVE  ops'[idx[q]] = ops[idx[q]] /\ info'[idx[q]] = info[idx[q]] /\ status'[idx[q]] = status[idx[q]]
  BY ZenonT(60), <1>1, <1>7, <1>15, <1>16 DEF Driver, VTypes
<1>17. /\ pc' \in [Proc -> Places] /\ \A q \in Proc : q # p => pc'[q] = pc[q]
       /\ Writes(p) => pc'[p] = "written"
       /\ ~ Writes(p) => pc'[p] = "held"
  <2>1. CASE Writes(p)
    <3>1. pc' = [pc EXCEPT ![p] = "written"]
      BY ZenonT(60), <1>8, <2>1 DEF Goto
    <3> QED
      BY ZenonT(60), <1>1, <2>1, <3>1, Moves DEF Places, Driver, VTypes
  <2>2. CASE ~ Writes(p)
    <3>1. pc' = [pc EXCEPT ![p] = "held"]
      BY ZenonT(60), <1>8, <2>2 DEF Goto
    <3> QED
      BY ZenonT(60), <1>1, <2>2, <3>1, Moves DEF Places, Driver, VTypes
  <2> QED
    BY ZenonT(60), <2>1, <2>2
<1>18. VTypes'
  <2>1. free' \subseteq Desc /\ desc' \in [Desc -> Desc \cup {End}] /\ DOMAIN ops' = Desc
    BY ZenonT(60), <1>1, <1>7, <1>9 DEF Driver, VTypes
  <2>2. info' \in [Desc -> Buf \cup {0}] /\ status' \in [Desc -> Status] /\ valid' \in [Buf -> BOOLEAN]
    BY ZenonT(60), <1>1, <1>7, <1>8 DEF Driver, VTypes, Status
  <2> QED
    BY ZenonT(60), <1>1, <1>7, <1>9, <1>10, <1>14, <1>17, <2>1, <2>2 DEF Driver, VTypes
<1>19. Callers'
  <2> SUFFICES ASSUME NEW q \in Proc
               PROVE  /\ io'[q] # "none" => pc'[q] = "fill" \/ (pc'[q] = "held" /\ blockno[buf[q]] \in pinned)
                      /\ Submitted(q)' <=> io'[q] \in {"asleep", "test"}
    BY ZenonT(60), <1>7 DEF Callers, InRw
  <2>1. CASE q = p
    BY ZenonT(60), <1>11, <1>12, <2>1
  <2>2. CASE q # p
    <3>1. /\ io[q] # "none" => pc[q] = "fill" \/ (pc[q] = "held" /\ blockno[buf[q]] \in pinned)
          /\ Submitted(q) <=> io[q] \in {"asleep", "test"}
      BY ZenonT(60), <1>1 DEF Driver, Callers, InRw
    <3> QED
      BY ZenonT(60), <1>11, <1>13, <1>17, <2>2, <3>1
  <2> QED
    BY ZenonT(60), <2>1, <2>2
<1>20. Requests'
  <2> SUFFICES ASSUME NEW q \in Proc, Submitted(q)'
               PROVE  /\ ops'[idx'[q]] = [write |-> pc'[q] # "fill", sector |-> blockno[buf[q]], addr |-> buf[q]]
                      /\ info'[idx'[q]] = buf[q]
                      /\ AtDevice(q)' \/ InRing(q)' \/ Served(q)'
    BY ZenonT(60), <1>7 DEF Requests, Writes
  <2>1. q # p /\ Submitted(q)
    BY ZenonT(60), <1>11
  <2>2. /\ ops[idx[q]] = [write |-> pc[q] # "fill", sector |-> blockno[buf[q]], addr |-> buf[q]]
        /\ info[idx[q]] = buf[q]
        /\ AtDevice(q) \/ InRing(q) \/ Served(q)
    BY ZenonT(60), <1>1, <2>1 DEF Driver, Requests, Writes
  <2>3. Served(q) => io'[q] = "test"
    BY ZenonT(60), <1>13, <2>1 DEF Served
  <2>4. AtDevice(q)' \/ InRing(q)' \/ Served(q)'
    BY ZenonT(60), <1>7, <1>10, <1>16, <2>1, <2>2, <2>3 DEF AtDevice, InRing, Served
  <2> QED
    BY ZenonT(60), <1>10, <1>16, <1>17, <2>1, <2>2, <2>4
<1>21. Rings'
  <2>1. \A x \in avail \cup Range(used) : \E q \in Proc : idx'[q] = x
    <3> SUFFICES ASSUME NEW x \in avail \cup Range(used) PROVE \E q \in Proc : idx'[q] = x
      BY ZenonT(60)
    <3>1. PICK q \in Proc : idx[q] = x
      BY ZenonT(60), <1>1 DEF Driver, Rings
    <3>2. q # p
      BY ZenonT(60), <1>4, <3>1 DEF Served
    <3> QED
      BY ZenonT(60), <1>10, <3>1, <3>2
  <2> QED
    BY ZenonT(60), <1>1, <1>7, <2>1 DEF Driver, Rings
<1>22. Waiting'
  BY ZenonT(60), <1>12, <1>13 DEF Waiting
<1>23. DescriptorsExact'
  <2>1. ASSUME NEW i \in Desc
        PROVE  i \in free' <=> \A q \in Proc : Submitted(q)' => i \notin Chain(idx[q])'
    <3>1. i \in free <=> \A q \in Proc : Submitted(q) => i \notin Chain(idx[q])
      BY ZenonT(60), <1>1, ExactMeans DEF Driver
    <3>2. \A q \in Proc : q # p => ((Submitted(q)' => i \notin Chain(idx[q])')
            <=> (Submitted(q) => i \notin Chain(idx[q])))
      BY ZenonT(60), <1>11, <1>15
    <3>3. CASE i \in C
      <4>1. \A q \in Proc : q # p /\ Submitted(q) => i \notin Chain(idx[q])
        BY ZenonT(60), <1>15, <3>3
      <4> QED
        BY ZenonT(60), <1>7, <1>11, <3>2, <3>3, <4>1
    <3>4. CASE i \notin C
      <4>1. i \notin Chain(idx[p])
        BY ZenonT(60), <1>5, <1>6, <3>4
      <4>2. i \in free' <=> i \in free
        BY ZenonT(60), <1>7, <3>4
      <4> QED
        BY ZenonT(60), <1>11, <3>1, <3>2, <4>1, <4>2
    <3> QED
      BY ZenonT(60), <3>3, <3>4
  <2>2. ASSUME NEW q \in Proc, NEW r \in Proc, q # r, Submitted(q)', Submitted(r)'
        PROVE  Chain(idx[q])' \cap Chain(idx[r])' = {}
    <3>1. q # p /\ r # p /\ Submitted(q) /\ Submitted(r)
      BY ZenonT(60), <1>11, <2>2
    <3> QED
      BY ZenonT(60), <1>1, <1>15, <2>2, <3>1, RequestsDiffer
  <2>3. free' \subseteq Desc'
    BY ZenonT(60), <1>18 DEF VTypes
  <2> QED
    BY ZenonT(60), <1>9, <2>1, <2>2, <2>3, ExactAfter
<1>24. Transferred(p) /\ ~ Transferred(p)'
  BY ZenonT(60), <1>3, <1>4, <1>11 DEF Transferred, Served
<1>25. \A q \in Proc : q # p => (Transferred(q)' <=> Transferred(q))
  BY ZenonT(60), <1>10, <1>11, <1>16 DEF Transferred
<1>26. pcBar' = pcBar
  <2>1. pcBar'[p] = pcBar[p]
    BY ZenonT(60), <1>17, <1>24 DEF pcBar
  <2>2. \A q \in Proc : q # p => pcBar'[q] = pcBar[q]
    BY ZenonT(60), <1>17, <1>25 DEF pcBar, Writes
  <2>3. pcBar' = [q \in Proc |-> pcBar'[q]]
    BY DEF pcBar
  <2>4. pcBar = [q \in Proc |-> pcBar[q]]
    BY ZenonT(60) DEF pcBar
  <2> QED
    BY ZenonT(60), <2>1, <2>2, <2>3, <2>4
<1>27. validBar' = validBar
  <2>1. ASSUME NEW b \in Buf
        PROVE  (valid[b] \/ \E q \in Proc : Transferred(q) /\ buf[q] = b)'
                = (valid[b] \/ \E q \in Proc : Transferred(q) /\ buf[q] = b)
    <3>1. valid'[b] = IF b = buf[p] THEN TRUE ELSE valid[b]
      BY ZenonT(60), <1>1, <1>8 DEF Driver, VTypes
    <3>2. CASE b = buf[p]
      BY ZenonT(60), <1>24, <3>1, <3>2
    <3>3. CASE b # buf[p]
      BY ZenonT(60), <1>7, <1>25, <3>1, <3>3
    <3> QED
      BY ZenonT(60), <3>2, <3>3
  <2> QED
    BY ZenonT(60), <2>1 DEF validBar
<1>28. UNCHANGED Atomic!vars
  BY ZenonT(60), <1>7, <1>26, <1>27 DEF Atomic!vars, Atomic!bcache
<1> QED
  BY ZenonT(60), <1>18, <1>19, <1>20, <1>21, <1>22, <1>23, <1>28 DEF Driver
===============================================================================

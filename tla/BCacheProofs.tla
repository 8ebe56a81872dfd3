----------------------------- MODULE BCacheProofs -----------------------------
(***************************************************************************)
(* Proofs about module BCache, for any number of processes, blocks and      *)
(* buffers.  First what every step preserves of the names, the sleep locks, *)
(* the contents and the list; of the reference counts these steps need only *)
(* that a buffer with count 0 is unused.  Then the counts are shown exact,   *)
(* so that this is true; hence a block has one buffer, a reader sees what    *)
(* was written last, and nobody sleeps on a free lock.                       *)
(***************************************************************************)
EXTENDS BCache, FiniteSetTheorems, TLAPS

\* The provers of a leaf, in turn, and their time.
USE SMTT(60), ZenonT(60)

-------------------------------------------------------------------------------
(* Frames: what a step that leaves some variables alone preserves.          *)

\* Names stay when a step changes neither names nor wishes and starts no process.
LEMMA NamesFrame ==
  ASSUME Names, UNCHANGED <<blockno, buf, want>>,
         \A q \in Proc : pc'[q] \notin Out => pc[q] \notin Out
  PROVE  Names'
  BY ZenonT(60) DEF Names, Out

\* Locks stay when a process moves between places that hold no lock and where it
\* does not sleep.
LEMMA LocksFrame ==
  ASSUME TypeOK, Locks, UNCHANGED locked, NEW p \in Proc, NEW c \in Buf, NEW place,
         pc[p] \notin {"fill", "held", "written"},
         place \notin {"fill", "held", "written", "asleep"},
         pc' = [pc EXCEPT ![p] = place],
         buf' = [buf EXCEPT ![p] = c]
  PROVE  Locks'
<1>1. pc \in [Proc -> Places] /\ buf \in [Proc -> Buf] /\ locked \in [Buf -> Proc \cup {None}]
  BY ZenonT(60) DEF TypeOK
<1>2. \A q \in Proc : q # p => pc'[q] = pc[q] /\ buf'[q] = buf[q]
  BY <1>1, ZenonT(60)
<1>3. pc'[p] = place
  BY <1>1, ZenonT(60)
<1>4. Holders' = Holders /\ p \notin Holders
  BY <1>2, <1>3, ZenonT(60) DEF Holders
<1>5. \A q \in Holders' : locked'[buf'[q]] = q
  BY <1>2, <1>4 DEF Locks, Holders
<1>6. ASSUME NEW b \in Buf, locked'[b] # None
      PROVE  locked'[b] \in Holders' /\ buf'[locked'[b]] = b
  <2>1. locked[b] \in Holders /\ buf[locked[b]] = b
    BY <1>6, ZenonT(60) DEF Locks
  <2>2. locked[b] \in Proc /\ locked[b] # p
    BY <2>1, <1>4, ZenonT(60) DEF Holders
  <2> QED
    BY <2>1, <2>2, <1>2, <1>4, ZenonT(60)
<1>7. \A q \in Proc : pc'[q] = "asleep" => locked'[buf'[q]] # None
  BY <1>2, <1>3, ZenonT(60) DEF Locks
<1> QED
  BY <1>5, <1>6, <1>7, ZenonT(60) DEF Locks

\* A holder moves between the places of a holder: locks stay.
LEMMA HolderMoves ==
  ASSUME Locks, UNCHANGED <<locked, buf>>, NEW p \in Proc, pc[p] \in {"fill", "held", "written"},
         \A q \in Proc : q # p => pc'[q] = pc[q], pc'[p] \in {"fill", "held", "written"}
  PROVE  Locks'
<1>1. Holders' = Holders
  BY ZenonT(60) DEF Holders
<1> QED
  BY <1>1, ZenonT(60) DEF Locks

\* Two holders have different buffers, of different blocks.
LEMMA HoldersDiffer ==
  ASSUME TypeOK, Names, Locks, NEW p \in Holders, NEW q \in Holders, p # q
  PROVE  buf[p] # buf[q] /\ blockno[buf[p]] # blockno[buf[q]]
<1>1. buf[p] \in Buf /\ buf[q] \in Buf
  BY ZenonT(60) DEF TypeOK, Holders
<1>2. buf[p] # buf[q]
  BY ZenonT(60) DEF Locks
<1>3. blockno[buf[p]] \in Block /\ blockno[buf[p]] # NoBlock
  BY BCacheAssumption, ZenonT(60) DEF Names, Holders, Out
<1> QED
  BY <1>1, <1>2, <1>3, ZenonT(60) DEF Names

-------------------------------------------------------------------------------
(* Every step preserves the core: one lemma per action.                     *)

\* binit() leaves all buffers free and listed.
LEMMA InitCore == Init => Core
<1> SUFFICES ASSUME Init PROVE Core
  BY ZenonT(60)
<1>1. TypeOK
  <2>1. blockno \in [Buf -> Block \cup {NoBlock}] /\ refcnt \in [Buf -> Nat]
        /\ locked \in [Buf -> Proc \cup {None}] /\ want \in [Proc -> Block \cup {NoBlock}]
    BY ZenonT(60) DEF Init
  <2>2. valid \in [Buf -> BOOLEAN]
    BY ZenonT(60) DEF Init
  <2>3. lru \in [Buf -> Buf] /\ buf \in [Proc -> Buf]
    BY BCacheAssumption DEF Init, Buf
  <2>4. pc \in [Proc -> Places]
    BY ZenonT(60) DEF Init, Places
  <2>5. data \in [Buf -> Val] /\ disk \in [Block -> Val] /\ latest \in [Block -> Val] /\ pinned = {}
    BY ZenonT(60) DEF Init
  <2> QED
    BY <2>1, <2>2, <2>3, <2>4, <2>5, ZenonT(60) DEF TypeOK
<1>2. Names /\ Locks
  BY ZenonT(60) DEF Init, Names, Locks, Holders, Out
<1>3. Contents
  BY ZenonT(60) DEF Init, Contents
<1>4. ListComplete
  <2> SUFFICES ASSUME NEW b \in Buf PROVE \E k \in Buf : lru[k] = b
    BY ZenonT(60) DEF ListComplete
  <2>1. NBUF + 1 - b \in Buf /\ NBUF + 1 - (NBUF + 1 - b) = b
    BY BCacheAssumption DEF Buf
  <2> QED
    BY <2>1, ZenonT(60) DEF Init
<1> QED
  BY <1>1, <1>2, <1>3, <1>4, ZenonT(60) DEF Core

\* bget() of a cached block.
LEMMA GetHitStep == ASSUME Core, NEW p \in Proc, NEW bn \in Block, bget_hit(p, bn) PROVE Core'
<1>1. PICK c \in Buf : /\ blockno[c] = bn
                       /\ refcnt' = [refcnt EXCEPT ![c] = @ + 1]
                       /\ buf' = [buf EXCEPT ![p] = c]
  BY ZenonT(60) DEF bget_hit, Cached
<1>2. /\ pc[p] = "idle" /\ pc' = [pc EXCEPT ![p] = "acquire"]
      /\ want' = [want EXCEPT ![p] = bn]
      /\ UNCHANGED <<blockno, valid, data, locked, lru, disk, pinned, latest>>
  BY ZenonT(60) DEF bget_hit, Goto
<1>3. TypeOK
  BY ZenonT(60) DEF Core
<1>4. TypeOK'
  <2>1. refcnt' \in [Buf -> Nat] /\ buf' \in [Proc -> Buf] /\ want' \in [Proc -> Block \cup {NoBlock}]
    BY <1>1, <1>2, <1>3 DEF TypeOK
  <2>2. pc' \in [Proc -> Places]
    BY <1>2, <1>3, ZenonT(60) DEF TypeOK, Places
  <2> QED
    BY <1>2, <1>3, <2>1, <2>2, ZenonT(60) DEF TypeOK
<1>5. Names'
  BY <1>1, <1>2, <1>3, ZenonT(60) DEF Core, Names, TypeOK, Out
<1>6. Locks'
  BY ZenonT(60), <1>1, <1>2, <1>3, LocksFrame DEF Core
<1>7. Contents'
  BY <1>1, <1>2, <1>3, ZenonT(60) DEF Core, Contents, TypeOK
<1>8. ListComplete'
  BY <1>2, ZenonT(60) DEF Core, ListComplete
<1> QED
  BY <1>4, <1>5, <1>6, <1>7, <1>8, ZenonT(60) DEF Core

\* bget() recycles a buffer that has no user and no pin: nothing is lost with it.
LEMMA GetMissStep == ASSUME Core, Unused, NEW p \in Proc, NEW bn \in Block, bget_miss(p, bn) PROVE Core'
<1>1. TypeOK
  BY ZenonT(60) DEF Core
<1>2. PICK k \in 1 .. NBUF : /\ refcnt[lru[k]] = 0
                             /\ blockno' = [blockno EXCEPT ![lru[k]] = bn]
                             /\ valid' = [valid EXCEPT ![lru[k]] = FALSE]
                             /\ refcnt' = [refcnt EXCEPT ![lru[k]] = 1]
                             /\ buf' = [buf EXCEPT ![p] = lru[k]]
  BY ZenonT(60) DEF bget_miss, Recycled, Invalidated
<1>3. PICK c \in Buf : c = lru[k]
  BY ZenonT(60), <1>1 DEF TypeOK, Buf
<1>4. /\ pc[p] = "idle" /\ pc' = [pc EXCEPT ![p] = "acquire"]
      /\ want' = [want EXCEPT ![p] = bn]
      /\ \A b \in Buf : blockno[b] # bn
      /\ UNCHANGED <<data, locked, lru, disk, pinned, latest>>
  BY ZenonT(60) DEF bget_miss, Goto, Cached
<1>5. blockno[c] \notin pinned
  BY <1>2, <1>3, ZenonT(60) DEF Unused
<1>6. bn \notin pinned
  BY <1>4, ZenonT(60) DEF Core, Contents
<1>7. \A q \in Proc : pc[q] \notin Out => buf[q] # c
  BY <1>2, <1>3, ZenonT(60) DEF Unused
<1>8. TypeOK'
  <2>1. blockno' \in [Buf -> Block \cup {NoBlock}] /\ refcnt' \in [Buf -> Nat]
        /\ buf' \in [Proc -> Buf] /\ want' \in [Proc -> Block \cup {NoBlock}]
    BY <1>1, <1>2, <1>3, <1>4, ZenonT(60) DEF TypeOK
  <2>2. valid' \in [Buf -> BOOLEAN]
    BY ZenonT(60), <1>1, <1>2 DEF TypeOK
  <2>3. pc' \in [Proc -> Places]
    BY <1>1, <1>4, ZenonT(60) DEF TypeOK, Places
  <2> QED
    BY <1>1, <1>4, <2>1, <2>2, <2>3, ZenonT(60) DEF TypeOK
<1>9. Names'
  <2>1. \A b \in Buf : b # c => blockno'[b] = blockno[b]
    BY <1>1, <1>2, <1>3, ZenonT(60) DEF TypeOK
  <2>2. blockno'[c] = bn
    BY <1>1, <1>2, <1>3, ZenonT(60) DEF TypeOK
  <2>3. \A a, b \in Buf : blockno'[a] = blockno'[b] /\ blockno'[a] # NoBlock => a = b
    BY <1>4, <2>1, <2>2 DEF Core, Names
  <2>4. \A q \in Proc : q # p => pc'[q] = pc[q] /\ buf'[q] = buf[q] /\ want'[q] = want[q]
    BY <1>1, <1>2, <1>4, ZenonT(60) DEF TypeOK
  <2>5. want'[p] = bn /\ buf'[p] = c
    BY <1>1, <1>2, <1>3, <1>4, ZenonT(60) DEF TypeOK
  <2>6. ASSUME NEW q \in Proc, pc'[q] \notin Out PROVE want'[q] \in Block /\ blockno'[buf'[q]] = want'[q]
    <3>1. CASE q = p
      BY <3>1, <2>2, <2>5, ZenonT(60)
    <3>2. CASE q # p
      <4>1. buf[q] \in Buf /\ buf[q] # c
        BY <3>2, <2>4, <2>6, <1>1, <1>7, ZenonT(60) DEF TypeOK
      <4> QED
        BY <3>2, <4>1, <2>1, <2>4, <2>6 DEF Core, Names
    <3> QED
      BY <3>1, <3>2, ZenonT(60)
  <2> QED
    BY <2>3, <2>6, ZenonT(60) DEF Names
<1>10. Locks'
  BY ZenonT(60), <1>1, <1>2, <1>3, <1>4, LocksFrame DEF Core
<1>11. Contents'
  <2>1. \A b \in Buf : b # c => blockno'[b] = blockno[b] /\ (valid'[b] <=> valid[b])
    BY <1>1, <1>2, <1>3, ZenonT(60) DEF TypeOK
  <2>2. ~ valid'[c]
    BY <1>1, <1>2, <1>3, ZenonT(60) DEF TypeOK
  <2>3. \A q \in Proc : q # p => pc'[q] = pc[q] /\ buf'[q] = buf[q] /\ want'[q] = want[q]
    BY <1>1, <1>2, <1>4, ZenonT(60) DEF TypeOK
  <2>4. pc'[p] = "acquire"
    BY <1>1, <1>4, ZenonT(60) DEF TypeOK
  <2>5. \A q \in Proc : pc[q] \notin Out => buf[q] \in Buf /\ buf[q] # c
    BY <1>1, <1>7, ZenonT(60) DEF TypeOK
  <2> QED
    BY <1>4, <1>5, <2>1, <2>2, <2>3, <2>4, <2>5 DEF Core, Contents, Out
<1>12. ListComplete'
  BY <1>4, ZenonT(60) DEF Core, ListComplete
<1> QED
  BY <1>8, <1>9, <1>10, <1>11, <1>12, ZenonT(60) DEF Core

\* bget() panics: the process stops, and used no buffer.
LEMMA GetPanicStep == ASSUME Core, NEW p \in Proc, NEW bn \in Block, bget_panic(p, bn) PROVE Core'
<1>1. /\ pc[p] = "idle" /\ pc' = [pc EXCEPT ![p] = "panic"]
      /\ UNCHANGED <<blockno, valid, refcnt, data, locked, lru, disk, buf, want, pinned, latest>>
  BY ZenonT(60) DEF bget_panic, Goto, bcache
<1>2. TypeOK /\ pc \in [Proc -> Places]
  BY ZenonT(60) DEF Core, TypeOK
<1>3. TypeOK'
  BY <1>1, <1>2, ZenonT(60) DEF TypeOK, Places
<1>4. Names'
  BY <1>1, <1>2, NamesFrame, ZenonT(60) DEF Core, Out
<1>5. Locks'
  <2>1. buf' = [buf EXCEPT ![p] = buf[p]] /\ buf[p] \in Buf
    BY <1>1, <1>2, ZenonT(60) DEF TypeOK
  <2> QED
    BY ZenonT(60), <1>1, <1>2, <2>1, LocksFrame DEF Core
<1>6. Contents'
  BY <1>1, <1>2, ZenonT(60) DEF Core, Contents
<1>7. ListComplete'
  BY <1>1, ZenonT(60) DEF Core, ListComplete
<1> QED
  BY <1>3, <1>4, <1>5, <1>6, <1>7, ZenonT(60) DEF Core

\* acquiresleep() takes a lock that nobody has, or sleeps on one that somebody has.
LEMMA AcquireStep == ASSUME Core, NEW p \in Proc, acquiresleep(p) PROVE Core'
<1>1. /\ pc[p] = "acquire"
      /\ UNCHANGED <<blockno, valid, refcnt, data, lru, disk, buf, want, pinned, latest>>
  BY ZenonT(60) DEF acquiresleep
<1>2. /\ TypeOK /\ pc \in [Proc -> Places] /\ buf \in [Proc -> Buf]
      /\ locked \in [Buf -> Proc \cup {None}]
  BY ZenonT(60) DEF Core, TypeOK
<1>3. PICK place \in {"held", "fill", "asleep"} : pc' = [pc EXCEPT ![p] = place]
  BY ZenonT(60) DEF acquiresleep, Goto
<1>4. \A q \in Proc : q # p => pc'[q] = pc[q]
  BY <1>2, <1>3, ZenonT(60)
<1>5. pc'[p] = place
  BY <1>2, <1>3, ZenonT(60)
<1>6. \/ /\ locked[buf[p]] = None /\ locked' = [locked EXCEPT ![buf[p]] = p]
         /\ place = IF valid[buf[p]] THEN "held" ELSE "fill"
      \/ /\ locked[buf[p]] # None /\ place = "asleep" /\ UNCHANGED locked
  BY <1>2, <1>5, ZenonT(60) DEF acquiresleep, Goto
<1>7. TypeOK'
  <2>1. locked' \in [Buf -> Proc \cup {None}]
    BY <1>2, <1>6, ZenonT(60)
  <2>2. pc' \in [Proc -> Places]
    BY <1>2, <1>3, ZenonT(60) DEF Places
  <2> QED
    BY <1>1, <1>2, <2>1, <2>2, ZenonT(60) DEF TypeOK
<1>8. Names'
  BY <1>1, <1>4, <1>5, NamesFrame, ZenonT(60) DEF Core, Out
<1>9. Locks'
  <2>1. CASE locked[buf[p]] = None
    <3>1. locked' = [locked EXCEPT ![buf[p]] = p] /\ place \in {"held", "fill"}
      BY <2>1, <1>6, ZenonT(60)
    <3>2. Holders' = Holders \cup {p}
      BY <1>4, <1>5, <3>1, ZenonT(60) DEF Holders
    <3>3. \A q \in Holders : buf[q] # buf[p]
      BY <2>1, BCacheAssumption DEF Core, Locks, Holders
    <3>4. locked'[buf[p]] = p /\ \A b \in Buf : b # buf[p] => locked'[b] = locked[b]
      BY <1>2, <3>1, ZenonT(60)
    <3>5. \A q \in Holders' : locked'[buf'[q]] = q
      BY <1>1, <1>2, <3>2, <3>3, <3>4, ZenonT(60) DEF Core, Locks, Holders
    <3>6. \A b \in Buf : locked'[b] # None => locked'[b] \in Holders' /\ buf'[locked'[b]] = b
      BY <1>1, <3>2, <3>4, ZenonT(60) DEF Core, Locks
    <3>7. \A q \in Proc : pc'[q] = "asleep" => locked'[buf'[q]] # None
      BY <1>1, <1>2, <1>4, <1>5, <3>1, <3>4, BCacheAssumption, ZenonT(60) DEF Core, Locks
    <3> QED
      BY <3>5, <3>6, <3>7, ZenonT(60) DEF Locks
  <2>2. CASE locked[buf[p]] # None
    <3>1. Holders' = Holders
      BY <2>2, <1>1, <1>4, <1>5, <1>6, ZenonT(60) DEF Holders
    <3> QED
      BY <2>2, <3>1, <1>1, <1>4, <1>5, <1>6, ZenonT(60) DEF Core, Locks
  <2> QED
    BY <2>1, <2>2, ZenonT(60)
<1>10. Contents'
  BY <1>1, <1>4, <1>5, <1>6, ZenonT(60) DEF Core, Contents
<1>11. ListComplete'
  BY <1>1, ZenonT(60) DEF Core, ListComplete
<1> QED
  BY <1>7, <1>8, <1>9, <1>10, <1>11, ZenonT(60) DEF Core

\* bread() reads a block that is not pinned, so the disk has its latest contents.
LEMMA FillStep == ASSUME Core, NEW p \in Proc, fill(p) PROVE Core'
<1>1. TypeOK /\ pc \in [Proc -> Places]
  BY ZenonT(60) DEF Core, TypeOK
<1>2. PICK c \in Buf : c = buf[p]
  BY <1>1, ZenonT(60) DEF TypeOK
<1>3. /\ pc[p] = "fill" /\ pc' = [pc EXCEPT ![p] = "held"]
      /\ data' = [data EXCEPT ![c] = disk[blockno[c]]]
      /\ valid' = [valid EXCEPT ![c] = TRUE]
      /\ UNCHANGED <<blockno, refcnt, locked, lru, disk, buf, want, pinned, latest>>
  BY <1>2, ZenonT(60) DEF fill, Goto
<1>4. \A q \in Proc : q # p => pc'[q] = pc[q]
  BY <1>1, <1>3, ZenonT(60)
<1>5. pc'[p] = "held"
  BY <1>1, <1>3, ZenonT(60)
<1>6. blockno[c] \in Block /\ ~ valid[c]
  BY <1>2, <1>3, ZenonT(60) DEF Core, Names, Contents, Out
<1>7. TypeOK'
  <2>1. data' \in [Buf -> Val]
    BY <1>1, <1>3, <1>6, ZenonT(60) DEF TypeOK
  <2>2. valid' \in [Buf -> BOOLEAN]
    BY <1>1, <1>3, ZenonT(60) DEF TypeOK
  <2>3. pc' \in [Proc -> Places]
    BY <1>1, <1>3, ZenonT(60) DEF Places
  <2> QED
    BY <1>1, <1>3, <2>1, <2>2, <2>3, ZenonT(60) DEF TypeOK
<1>8. Names' /\ Locks'
  BY <1>3, <1>4, <1>5, NamesFrame, HolderMoves, ZenonT(60) DEF Core, Out
<1>9. Contents'
  <2>1. blockno[c] \notin pinned
    <3>1. blockno[c] # NoBlock
      BY <1>6, BCacheAssumption, ZenonT(60)
    <3>2. \A a, b \in Buf : blockno[a] = blockno[b] /\ blockno[a] # NoBlock => a = b
      BY ZenonT(60) DEF Core, Names
    <3>3. \A bn \in pinned : \E b \in Buf : blockno[b] = bn /\ valid[b]
      BY ZenonT(60) DEF Core, Contents
    <3> QED
      BY <1>6, <3>1, <3>2, <3>3, ZenonT(60)
  <2>2. disk[blockno[c]] = latest[blockno[c]]
    BY <1>6, <2>1, ZenonT(60) DEF Core, Contents
  <2>3. \A b \in Buf : b # c => data'[b] = data[b] /\ (valid'[b] <=> valid[b])
    BY <1>1, <1>3, ZenonT(60) DEF TypeOK
  <2>4. data'[c] = latest[blockno[c]] /\ valid'[c]
    BY <1>1, <1>3, <2>2, ZenonT(60) DEF TypeOK
  <2>7. ASSUME NEW q \in Proc, pc'[q] = "fill" PROVE ~ valid'[buf'[q]]
    <3>1. q # p /\ pc[q] = "fill" /\ p \in Holders /\ q \in Holders
      BY <2>7, <1>3, <1>4, <1>5, ZenonT(60) DEF Holders
    <3>2. buf[q] # c /\ buf[q] \in Buf
      BY <1>1, <1>2, <3>1, HoldersDiffer, ZenonT(60) DEF Core, TypeOK
    <3> QED
      BY <1>3, <2>3, <3>1, <3>2, ZenonT(60) DEF Core, Contents
  <2> QED
    BY <1>1, <1>2, <1>3, <1>4, <1>5, <1>6, <2>3, <2>4, <2>7 DEF Core, Contents, TypeOK
<1>10. ListComplete'
  BY <1>3, ZenonT(60) DEF Core, ListComplete
<1> QED
  BY <1>7, <1>8, <1>9, <1>10, ZenonT(60) DEF Core

\* A holder changes its block, and log_write() pins it once.
LEMMA ModifyStep == ASSUME Core, NEW p \in Proc, modify(p) PROVE Core'
<1>1. TypeOK
  BY ZenonT(60) DEF Core
<1>2. PICK c \in Buf : c = buf[p]
  BY <1>1, ZenonT(60) DEF TypeOK
<1>3. PICK v \in Val : data' = [data EXCEPT ![c] = v] /\ latest' = [latest EXCEPT ![blockno[c]] = v]
  BY ZenonT(60), <1>2 DEF modify
<1>4. /\ pc[p] = "held"
      /\ pinned' = pinned \cup {blockno[c]}
      /\ refcnt' = IF blockno[c] \in pinned THEN refcnt ELSE [refcnt EXCEPT ![c] = @ + 1]
      /\ UNCHANGED <<blockno, valid, locked, lru, disk, pc, buf, want>>
  BY <1>2, ZenonT(60) DEF modify, Pinned
<1>5. blockno[c] \in Block /\ blockno[c] # NoBlock /\ valid[c] /\ want[p] = blockno[c] /\ p \in Holders
  <2>1. p \in Holders
    BY <1>4, ZenonT(60) DEF Holders
  <2>2. want[p] \in Block /\ blockno[c] = want[p]
    BY <1>2, <1>4, ZenonT(60) DEF Core, Names, Out
  <2>3. valid[c]
    BY <1>2, <1>4, ZenonT(60) DEF Core, Contents
  <2> QED
    BY <2>1, <2>2, <2>3, BCacheAssumption, ZenonT(60)
<1>6. TypeOK'
  <2>1. data' \in [Buf -> Val] /\ latest' \in [Block -> Val] /\ refcnt' \in [Buf -> Nat]
        /\ pinned' \subseteq Block
    BY <1>1, <1>3, <1>4, <1>5 DEF TypeOK
  <2> QED
    BY <1>1, <1>4, <2>1, ZenonT(60) DEF TypeOK
<1>7. Names' /\ Locks'
  <2>1. Names'
    BY <1>4, ZenonT(60) DEF Core, Names
  <2>2. Holders' = Holders
    BY <1>4, ZenonT(60) DEF Holders
  <2>3. Locks'
    BY <1>4, <2>2, ZenonT(60) DEF Core, Locks
  <2> QED
    BY <2>1, <2>3, ZenonT(60)
<1>8. Contents'
  <2>1. \A b \in Buf : b # c => data'[b] = data[b] /\ blockno[b] # blockno[c]
    BY <1>1, <1>3, <1>5, ZenonT(60) DEF Core, Names, TypeOK
  <2>2. data'[c] = v /\ latest'[blockno[c]] = v
    BY <1>1, <1>3, <1>5, ZenonT(60) DEF TypeOK
  <2>3. \A m \in Block : m # blockno[c] => latest'[m] = latest[m]
    BY <1>1, <1>3, ZenonT(60) DEF TypeOK
  <2>8. ASSUME NEW q \in Proc, pc'[q] = "written"
        PROVE  want'[q] \in pinned' /\ disk'[want'[q]] = latest'[want'[q]]
    <3>1. q \in Holders /\ q # p /\ want[q] \in Block /\ blockno[buf[q]] = want[q]
      BY <2>8, <1>4, ZenonT(60) DEF Core, Names, Holders, Out
    <3>2. want[q] # blockno[c]
      BY <1>1, <1>2, <1>5, <3>1, HoldersDiffer, ZenonT(60) DEF Core
    <3> QED
      BY <2>8, <1>4, <2>3, <3>1, <3>2, ZenonT(60) DEF Core, Contents
  <2> QED
    BY <1>4, <1>5, <2>1, <2>2, <2>3, <2>8 DEF Core, Contents
<1>9. ListComplete'
  BY <1>4, ZenonT(60) DEF Core, ListComplete
<1> QED
  BY <1>6, <1>7, <1>8, <1>9, ZenonT(60) DEF Core

\* bwrite() is called with the lock held, and brings the disk up to date.
LEMMA WriteStep == ASSUME Core, NEW p \in Proc, bwrite(p) PROVE Core'
<1>1. TypeOK /\ pc \in [Proc -> Places]
  BY ZenonT(60) DEF Core, TypeOK
<1>2. PICK c \in Buf : c = buf[p]
  BY <1>1, ZenonT(60) DEF TypeOK
<1>3. /\ pc[p] = "held" /\ blockno[c] \in pinned
      /\ UNCHANGED <<blockno, valid, refcnt, data, locked, lru, buf, want, pinned, latest>>
  BY <1>2, ZenonT(60) DEF bwrite, bcache
<1>4. locked[c] = p
  BY <1>2, <1>3, ZenonT(60) DEF Core, Locks, Holders
<1>5. pc' = [pc EXCEPT ![p] = "written"] /\ disk' = [disk EXCEPT ![blockno[c]] = data[c]]
  BY <1>2, <1>4, ZenonT(60) DEF bwrite, Goto
<1>6. \A q \in Proc : q # p => pc'[q] = pc[q]
  BY <1>1, <1>5, ZenonT(60)
<1>7. pc'[p] = "written"
  BY <1>1, <1>5, ZenonT(60)
<1>8. blockno[c] \in Block /\ valid[c] /\ want[p] = blockno[c] /\ data[c] = latest[blockno[c]]
  BY <1>2, <1>3, ZenonT(60) DEF Core, Names, Contents, Out
<1>9. TypeOK'
  <2>1. disk' \in [Block -> Val]
    BY ZenonT(60), <1>1, <1>5 DEF TypeOK
  <2>2. pc' \in [Proc -> Places]
    BY <1>1, <1>5, ZenonT(60) DEF Places
  <2> QED
    BY <1>1, <1>3, <2>1, <2>2, ZenonT(60) DEF TypeOK
<1>10. Names' /\ Locks'
  BY <1>3, <1>6, <1>7, NamesFrame, HolderMoves, ZenonT(60) DEF Core, Out
<1>11. Contents'
  <2>1. \A m \in Block : m # blockno[c] => disk'[m] = disk[m]
    BY <1>1, <1>5, ZenonT(60) DEF TypeOK
  <2>2. disk'[blockno[c]] = latest[blockno[c]]
    BY <1>1, <1>5, <1>8, ZenonT(60) DEF TypeOK
  <2> QED
    BY <1>1, <1>2, <1>3, <1>6, <1>7, <1>8, <2>1, <2>2 DEF Core, Contents, TypeOK
<1>12. ListComplete'
  BY <1>3, ZenonT(60) DEF Core, ListComplete
<1> QED
  BY <1>9, <1>10, <1>11, <1>12, ZenonT(60) DEF Core

\* bunpin() drops the log's pin, once the disk has the block.
LEMMA UnpinStep == ASSUME Core, NEW p \in Proc, refcnt[buf[p]] # 0, bunpin(p) PROVE Core'
<1>1. TypeOK /\ pc \in [Proc -> Places]
  BY ZenonT(60) DEF Core, TypeOK
<1>2. PICK c \in Buf : c = buf[p]
  BY <1>1, ZenonT(60) DEF TypeOK
<1>3. /\ pc[p] = "written" /\ pc' = [pc EXCEPT ![p] = "held"]
      /\ refcnt' = [refcnt EXCEPT ![c] = @ - 1]
      /\ pinned' = pinned \ {blockno[c]}
      /\ UNCHANGED <<blockno, valid, data, locked, lru, disk, buf, want, latest>>
  BY ZenonT(60), <1>2 DEF bunpin, Goto
<1>4. \A q \in Proc : q # p => pc'[q] = pc[q]
  BY ZenonT(60), <1>1, <1>3
<1>5. pc'[p] = "held"
  BY <1>1, <1>3, ZenonT(60)
<1>6. /\ blockno[c] \in pinned /\ blockno[c] \in Block /\ blockno[c] # NoBlock
      /\ valid[c] /\ want[p] = blockno[c] /\ disk[blockno[c]] = latest[blockno[c]]
  <2>1. want[p] \in Block /\ blockno[c] = want[p]
    BY <1>2, <1>3, ZenonT(60) DEF Core, Names, Out
  <2>2. valid[c]
    BY <1>2, <1>3, ZenonT(60) DEF Core, Contents
  <2>3. want[p] \in pinned /\ disk[want[p]] = latest[want[p]]
    BY <1>3, ZenonT(60) DEF Core, Contents
  <2> QED
    BY <2>1, <2>2, <2>3, BCacheAssumption, ZenonT(60)
<1>7. \A b \in Buf : b # c => blockno[b] # blockno[c]
  BY <1>6, ZenonT(60) DEF Core, Names
<1>8. TypeOK'
  <2>1. refcnt' \in [Buf -> Nat]
    <3>1. refcnt \in [Buf -> Nat] /\ refcnt[c] - 1 \in Nat
      BY <1>1, <1>2 DEF TypeOK
    <3> QED
      BY <1>3, <3>1, ZenonT(60)
  <2>2. pc' \in [Proc -> Places]
    BY ZenonT(60), <1>1, <1>3 DEF Places
  <2> QED
    BY <1>1, <1>3, <2>1, <2>2, ZenonT(60) DEF TypeOK
<1>9. Names' /\ Locks'
  BY <1>3, <1>4, <1>5, NamesFrame, HolderMoves, ZenonT(60) DEF Core, Out
<1>10. Contents'
  <2>4. ASSUME NEW q \in Proc, pc'[q] = "written"
        PROVE  want'[q] \in pinned' /\ disk'[want'[q]] = latest'[want'[q]]
    <3>1. q # p /\ pc[q] = "written" /\ q \in Holders /\ p \in Holders
      BY <2>4, <1>3, <1>4, <1>5, ZenonT(60) DEF Holders
    <3>2. want[q] # blockno[c]
      BY <1>1, <1>2, <3>1, HoldersDiffer DEF Core, Names, Out
    <3> QED
      BY <1>3, <3>1, <3>2, ZenonT(60) DEF Core, Contents
  <2> QED
    BY <1>2, <1>3, <1>4, <1>5, <1>6, <2>4 DEF Core, Contents
<1>11. ListComplete'
  BY <1>3, ZenonT(60) DEF Core, ListComplete
<1> QED
  BY <1>8, <1>9, <1>10, <1>11, ZenonT(60) DEF Core

\* releasesleep() is called with the lock held, and wakes all its sleepers.
LEMMA ReleaseStep == ASSUME Core, NEW p \in Proc, releasesleep(p) PROVE Core'
<1>1. /\ TypeOK /\ pc \in [Proc -> Places] /\ buf \in [Proc -> Buf]
      /\ locked \in [Buf -> Proc \cup {None}]
  BY ZenonT(60) DEF Core, TypeOK
<1>2. PICK c \in Buf : c = buf[p]
  BY <1>1, ZenonT(60)
<1>3. /\ pc[p] = "held" /\ p \in Holders
      /\ UNCHANGED <<blockno, valid, refcnt, data, lru, disk, buf, want, pinned, latest>>
  BY ZenonT(60) DEF releasesleep, Holders
<1>4. locked[c] = p
  BY <1>2, <1>3, ZenonT(60) DEF Core, Locks
<1>5. locked' = [locked EXCEPT ![c] = None] /\ pc' = [Woken(c) EXCEPT ![p] = "release"]
  BY <1>2, <1>4, ZenonT(60) DEF releasesleep
<1>6. \A q \in Proc : q # p => pc'[q] = IF pc[q] = "asleep" /\ buf[q] = c THEN "acquire" ELSE pc[q]
  BY <1>5, ZenonT(60) DEF Woken
<1>7. pc'[p] = "release"
  BY <1>5, ZenonT(60) DEF Woken
<1>8. TypeOK'
  <2>1. locked' \in [Buf -> Proc \cup {None}]
    BY <1>1, <1>5, ZenonT(60)
  <2>2. Woken(c) \in [Proc -> Places]
    BY <1>1, ZenonT(60) DEF Woken, Places
  <2>3. pc' \in [Proc -> Places]
    BY <1>5, <2>2, ZenonT(60) DEF Places
  <2> QED
    BY <1>1, <1>3, <2>1, <2>3, ZenonT(60) DEF TypeOK
<1>9. Names'
  BY ZenonT(60), <1>3, <1>6, <1>7, NamesFrame DEF Core, Out
<1>10. Locks'
  <2>1. Holders' = Holders \ {p}
    BY <1>6, <1>7, ZenonT(60) DEF Holders
  <2>2. \A q \in Holders : q # p => buf[q] # c
    BY <1>1, <1>2, <1>3, HoldersDiffer, ZenonT(60) DEF Core
  <2>3. locked'[c] = None /\ \A b \in Buf : b # c => locked'[b] = locked[b]
    BY <1>1, <1>5, ZenonT(60)
  <2>4. \A q \in Holders' : locked'[buf'[q]] = q
    BY <1>1, <1>3, <2>1, <2>2, <2>3 DEF Core, Locks, Holders
  <2>5. ASSUME NEW b \in Buf, locked'[b] # None
        PROVE  locked'[b] \in Holders' /\ buf'[locked'[b]] = b
    <3>1. b # c /\ locked'[b] = locked[b]
      BY <2>3, <2>5, ZenonT(60)
    <3>2. locked[b] \in Holders /\ buf[locked[b]] = b
      BY <2>5, <3>1, ZenonT(60) DEF Core, Locks
    <3> QED
      BY <1>2, <1>3, <2>1, <3>1, <3>2, ZenonT(60)
  <2>6. \A q \in Proc : pc'[q] = "asleep" => locked'[buf'[q]] # None
    BY <1>1, <1>3, <1>6, <1>7, <2>3 DEF Core, Locks
  <2> QED
    BY <2>4, <2>5, <2>6, ZenonT(60) DEF Locks
<1>11. Contents'
  BY ZenonT(60), <1>3, <1>6, <1>7 DEF Core, Contents
<1>12. ListComplete'
  BY <1>3, ZenonT(60) DEF Core, ListComplete
<1> QED
  BY <1>8, <1>9, <1>10, <1>11, <1>12, ZenonT(60) DEF Core

\* Moving a buffer to the head of the list keeps every buffer on it.
LEMMA MoveKeepsAll ==
  ASSUME TypeOK, ListComplete, NEW b \in Buf
  PROVE  /\ MoveToHead(b) \in [Buf -> Buf]
         /\ \A a \in Buf : \E k \in Buf : MoveToHead(b)[k] = a
<1>1. lru \in [Buf -> Buf] /\ 1 \in Buf /\ NBUF \in Nat
  <2>1. 1 \in Buf /\ NBUF \in Nat
    BY BCacheAssumption DEF Buf
  <2> QED
    BY <2>1, ZenonT(60) DEF TypeOK
<1> DEFINE i == CHOOSE k \in Buf : lru[k] = b
<1>2. i \in Buf /\ lru[i] = b
  BY ZenonT(60) DEF ListComplete
<1> HIDE DEF i
<1>3. MoveToHead(b) = [k \in Buf |-> IF k = 1 THEN b ELSE IF k <= i THEN lru[k - 1] ELSE lru[k]]
  BY ZenonT(60) DEF MoveToHead, i
<1>4. \A k \in Buf : k # 1 => k - 1 \in Buf
  BY <1>1 DEF Buf
<1>5. MoveToHead(b) \in [Buf -> Buf]
  BY <1>1, <1>3, <1>4, ZenonT(60)
<1>6. ASSUME NEW a \in Buf PROVE \E k \in Buf : MoveToHead(b)[k] = a
  <2>1. PICK j \in Buf : lru[j] = a
    BY ZenonT(60) DEF ListComplete
  <2>2. CASE j = i
    BY <2>1, <2>2, <1>1, <1>2, <1>3, ZenonT(60)
  <2>3. CASE j < i
    <3>1. j + 1 \in Buf /\ j + 1 # 1 /\ j + 1 <= i /\ (j + 1) - 1 = j
      BY <2>3, <1>1, <1>2 DEF Buf
    <3> QED
      BY <2>1, <3>1, <1>3, ZenonT(60)
  <2>4. CASE j > i
    <3>1. j # 1 /\ ~ (j <= i)
      BY <2>4, <1>1, <1>2 DEF Buf
    <3> QED
      BY <2>1, <3>1, <1>3, ZenonT(60)
  <2>5. j \in Int /\ i \in Int
    BY <1>1, <1>2 DEF Buf
  <2> QED
    BY <2>2, <2>3, <2>4, <2>5
<1> QED
  BY <1>5, <1>6, ZenonT(60)

\* brelse() drops one reference; the buffer may move in the list.
LEMMA BrelseStep == ASSUME Core, NEW p \in Proc, refcnt[buf[p]] # 0, brelse(p) PROVE Core'
<1>1. TypeOK /\ pc \in [Proc -> Places] /\ 1 \in Buf
  <2>1. 1 \in Buf
    BY BCacheAssumption DEF Buf
  <2> QED
    BY <2>1, ZenonT(60) DEF Core, TypeOK
<1>2. PICK c \in Buf : c = buf[p]
  BY <1>1, ZenonT(60) DEF TypeOK
<1>3. /\ pc[p] = "release" /\ pc' = [pc EXCEPT ![p] = "idle"]
      /\ refcnt' = [refcnt EXCEPT ![c] = @ - 1]
      /\ lru' = (IF refcnt[c] = 1 THEN MoveToHead(c) ELSE lru)
      /\ want' = [want EXCEPT ![p] = NoBlock]
      /\ buf' = [buf EXCEPT ![p] = 1]
      /\ UNCHANGED <<blockno, valid, data, locked, disk, pinned, latest>>
  BY <1>2, ZenonT(60) DEF brelse, Goto
<1>4. TypeOK'
  <2>1. refcnt' \in [Buf -> Nat]
    <3>1. refcnt \in [Buf -> Nat] /\ refcnt[c] - 1 \in Nat
      BY <1>1, <1>2 DEF TypeOK
    <3> QED
      BY <1>3, <3>1, ZenonT(60)
  <2>2. pc' \in [Proc -> Places]
    BY <1>1, <1>3, ZenonT(60) DEF Places
  <2>3. lru' \in [Buf -> Buf]
    BY ZenonT(60), <1>1, <1>3, MoveKeepsAll DEF Core, TypeOK
  <2>4. buf' \in [Proc -> Buf] /\ want' \in [Proc -> Block \cup {NoBlock}]
    BY <1>1, <1>3, ZenonT(60) DEF TypeOK
  <2> QED
    BY <1>1, <1>3, <2>1, <2>2, <2>3, <2>4, ZenonT(60) DEF TypeOK
<1>5. \A q \in Proc : q # p => pc'[q] = pc[q] /\ buf'[q] = buf[q] /\ want'[q] = want[q]
  BY <1>1, <1>3, ZenonT(60) DEF TypeOK
<1>6. pc'[p] = "idle"
  BY <1>1, <1>3, ZenonT(60)
<1>7. Names'
  BY <1>3, <1>5, <1>6 DEF Core, Names, Out
<1>8. Locks'
  BY ZenonT(60), <1>1, <1>3, LocksFrame DEF Core
<1>9. Contents'
  BY <1>3, <1>5, <1>6 DEF Core, Contents
<1>10. ListComplete'
  BY <1>1, <1>3, MoveKeepsAll DEF Core, ListComplete
<1> QED
  BY <1>4, <1>7, <1>8, <1>9, <1>10, ZenonT(60) DEF Core

\* kill() sends a sleeper back to the test of the lock.
LEMMA KillStep == ASSUME Core, NEW p \in Proc, kill(p) PROVE Core'
<1>1. /\ pc[p] = "asleep" /\ pc' = [pc EXCEPT ![p] = "acquire"]
      /\ UNCHANGED <<blockno, valid, refcnt, data, locked, lru, disk, buf, want, pinned, latest>>
  BY ZenonT(60) DEF kill, Goto, bcache
<1>2. TypeOK /\ pc \in [Proc -> Places]
  BY ZenonT(60) DEF Core, TypeOK
<1>3. TypeOK'
  BY <1>1, <1>2, ZenonT(60) DEF TypeOK, Places
<1>4. Names'
  BY <1>1, <1>2, NamesFrame, ZenonT(60) DEF Core, Out
<1>5. Locks'
  <2>1. buf' = [buf EXCEPT ![p] = buf[p]] /\ buf[p] \in Buf
    BY <1>1, <1>2, ZenonT(60) DEF TypeOK
  <2> QED
    BY ZenonT(60), <1>1, <1>2, <2>1, LocksFrame DEF Core
<1>6. Contents'
  BY <1>1, <1>2, ZenonT(60) DEF Core, Contents
<1>7. ListComplete'
  BY <1>1, ZenonT(60) DEF Core, ListComplete
<1> QED
  BY <1>3, <1>4, <1>5, <1>6, <1>7, ZenonT(60) DEF Core

-------------------------------------------------------------------------------
(* The reference counts: the users of a buffer.                             *)

\* The users of a buffer are finitely many.
LEMMA UsingFinite ==
  \A b : IsFiniteSet(Using(b)) /\ Cardinality(Using(b)) \in Nat
<1> SUFFICES ASSUME NEW b PROVE IsFiniteSet(Using(b)) /\ Cardinality(Using(b)) \in Nat
  BY ZenonT(60)
<1>1. Using(b) \subseteq Proc
  BY ZenonT(60) DEF Using
<1>2. IsFiniteSet(Using(b))
  BY <1>1, FS_Subset, BCacheAssumption, ZenonT(60)
<1> QED
  BY <1>2, FS_CardinalityType, ZenonT(60)

\* A step inside bread(), bwrite() or brelse() leaves the users as they are.
LEMMA UsingSame ==
  ASSUME UNCHANGED buf, \A q \in Proc : pc'[q] \in Out <=> pc[q] \in Out
  PROVE  \A b : Using(b)' = Using(b)
  BY ZenonT(60) DEF Using, Out

\* bget() adds a user.
LEMMA UsingJoin ==
  ASSUME TypeOK, NEW p \in Proc, NEW c \in Buf, pc[p] = "idle",
         pc' = [pc EXCEPT ![p] = "acquire"], buf' = [buf EXCEPT ![p] = c]
  PROVE  \A b : Cardinality(Using(b)') = Cardinality(Using(b)) + (IF b = c THEN 1 ELSE 0)
<1>1. pc \in [Proc -> Places] /\ buf \in [Proc -> Buf]
  BY ZenonT(60) DEF TypeOK
<1>2. \A b : b # c => Using(b)' = Using(b)
  BY <1>1, ZenonT(60) DEF Using
<1>3. Using(c)' = Using(c) \cup {p} /\ p \notin Using(c)
  BY <1>1, ZenonT(60) DEF Using
<1>4. Cardinality(Using(c)') = Cardinality(Using(c)) + 1
  BY ZenonT(60), <1>3, UsingFinite, FS_AddElement
<1> QED
  BY <1>2, <1>4, UsingFinite

\* brelse() removes one.
LEMMA UsingLeave ==
  ASSUME TypeOK, NEW p \in Proc, pc[p] = "release",
         pc' = [pc EXCEPT ![p] = "idle"], buf' = [buf EXCEPT ![p] = 1]
  PROVE  \A b : Cardinality(Using(b)') = Cardinality(Using(b)) - (IF b = buf[p] THEN 1 ELSE 0)
<1>1. pc \in [Proc -> Places] /\ buf \in [Proc -> Buf]
  BY ZenonT(60) DEF TypeOK
<1>2. PICK c \in Buf : c = buf[p]
  BY <1>1, ZenonT(60)
<1>3. \A b : b # c => Using(b)' = Using(b)
  BY <1>1, <1>2, ZenonT(60) DEF Using
<1>4. Using(c)' = Using(c) \ {p} /\ p \in Using(c)
  BY <1>1, <1>2, ZenonT(60) DEF Using
<1>5. Cardinality(Using(c)') = Cardinality(Using(c)) - 1
  BY ZenonT(60), <1>4, UsingFinite, FS_RemoveElement
<1> QED
  BY <1>2, <1>3, <1>5, UsingFinite

\* A buffer with reference count 0 has no user and no pin.
LEMMA ZeroIsUnused == ASSUME RefcntCounts PROVE Unused
<1> SUFFICES ASSUME NEW b \in Buf, refcnt[b] = 0
             PROVE  blockno[b] \notin pinned /\ \A p \in Proc : pc[p] \notin Out => buf[p] # b
  BY ZenonT(60) DEF Unused
<1>1. refcnt[b] = Cardinality(Using(b)) + (IF blockno[b] \in pinned THEN 1 ELSE 0)
  BY ZenonT(60) DEF RefcntCounts
<1>2. Cardinality(Using(b)) = 0 /\ blockno[b] \notin pinned
  BY <1>1, UsingFinite
<1>3. Using(b) = {}
  BY <1>2, UsingFinite, FS_EmptySet, ZenonT(60)
<1> QED
  BY <1>2, <1>3, ZenonT(60) DEF Using, Out

\* A process that works on a buffer finds its reference count above 0.
LEMMA UserIsCounted ==
  ASSUME TypeOK, RefcntCounts, NEW p \in Proc, pc[p] \notin Out
  PROVE  refcnt[buf[p]] # 0
<1>1. buf[p] \in Buf
  BY ZenonT(60) DEF TypeOK
<1> QED
  BY <1>1, ZeroIsUnused, ZenonT(60) DEF Unused

-------------------------------------------------------------------------------
(* The counts stay exact: one lemma per kind of step.                       *)

\* RefcntCounts needs only the users, the names, the counts and the pins.
LEMMA CountsFrame ==
  ASSUME RefcntCounts, UNCHANGED <<refcnt, blockno, pinned, buf>>,
         \A q \in Proc : pc'[q] \in Out <=> pc[q] \in Out
  PROVE  RefcntCounts'
  BY UsingSame, ZenonT(60) DEF RefcntCounts

\* bget() of a cached block adds a user and a reference.
LEMMA GetHitCounts ==
  ASSUME IInv, NEW p \in Proc, NEW bn \in Block, bget_hit(p, bn) PROVE RefcntCounts'
<1>1. PICK c \in Buf : /\ refcnt' = [refcnt EXCEPT ![c] = @ + 1]
                       /\ buf' = [buf EXCEPT ![p] = c]
  BY ZenonT(60) DEF bget_hit, Cached
<1>2. /\ pc[p] = "idle" /\ pc' = [pc EXCEPT ![p] = "acquire"]
      /\ UNCHANGED <<blockno, pinned>>
  BY ZenonT(60) DEF bget_hit, Goto
<1>3. TypeOK
  BY ZenonT(60) DEF IInv, Core
<1>4. \A b \in Buf : Cardinality(Using(b)') = Cardinality(Using(b)) + (IF b = c THEN 1 ELSE 0)
  BY ZenonT(60), <1>1, <1>2, <1>3, UsingJoin
<1>5. \A b \in Buf : refcnt'[b] = refcnt[b] + (IF b = c THEN 1 ELSE 0) /\ refcnt[b] \in Nat
  BY <1>1, <1>3 DEF TypeOK
<1> QED
  BY <1>2, <1>4, <1>5, UsingFinite DEF IInv, RefcntCounts

\* bget() recycles an unused buffer for its first user; the new block is not pinned.
LEMMA GetMissCounts ==
  ASSUME IInv, NEW p \in Proc, NEW bn \in Block, bget_miss(p, bn) PROVE RefcntCounts'
<1>1. TypeOK /\ RefcntCounts
  BY ZenonT(60) DEF IInv, Core
<1>2. PICK k \in Buf : /\ refcnt[lru[k]] = 0
                       /\ blockno' = [blockno EXCEPT ![lru[k]] = bn]
                       /\ refcnt' = [refcnt EXCEPT ![lru[k]] = 1]
                       /\ buf' = [buf EXCEPT ![p] = lru[k]]
  BY ZenonT(60) DEF bget_miss, Recycled, Buf
<1>3. PICK c \in Buf : c = lru[k]
  BY ZenonT(60), <1>1 DEF TypeOK
<1>4. /\ pc[p] = "idle" /\ pc' = [pc EXCEPT ![p] = "acquire"]
      /\ \A b \in Buf : blockno[b] # bn
      /\ pinned' = pinned
  BY ZenonT(60) DEF bget_miss, Goto, Cached
<1>5. bn \notin pinned
  BY <1>4, ZenonT(60) DEF IInv, Core, Contents
<1>6. \A b \in Buf : refcnt[b] = Cardinality(Using(b)) + (IF blockno[b] \in pinned THEN 1 ELSE 0)
  BY <1>1, ZenonT(60) DEF RefcntCounts
<1>7. \A b \in Buf : Cardinality(Using(b)) \in Nat
  BY UsingFinite, ZenonT(60)
<1>8. \A b \in Buf : Cardinality(Using(b)') = Cardinality(Using(b)) + (IF b = c THEN 1 ELSE 0)
  BY ZenonT(60), <1>1, <1>2, <1>3, <1>4, UsingJoin
<1>9. \A b \in Buf : b # c => refcnt'[b] = refcnt[b] /\ blockno'[b] = blockno[b]
  BY <1>1, <1>2, <1>3, ZenonT(60) DEF TypeOK
<1>10. refcnt'[c] = 1 /\ blockno'[c] = bn
  BY <1>1, <1>2, <1>3, ZenonT(60) DEF TypeOK
<1>11. Cardinality(Using(c)) = 0
  BY <1>2, <1>3, <1>6, <1>7
<1>12. ASSUME NEW b \in Buf
       PROVE  refcnt'[b] = Cardinality(Using(b)') + (IF blockno'[b] \in pinned' THEN 1 ELSE 0)
  BY <1>4, <1>5, <1>6, <1>7, <1>8, <1>9, <1>10, <1>11
<1> QED
  BY <1>12, ZenonT(60) DEF RefcntCounts

\* log_write() pins a block that was not in the log, and counts the pin.
LEMMA ModifyCounts == ASSUME IInv, NEW p \in Proc, modify(p) PROVE RefcntCounts'
<1>1. TypeOK
  BY ZenonT(60) DEF IInv, Core
<1>2. PICK c \in Buf : c = buf[p]
  BY <1>1, ZenonT(60) DEF TypeOK
<1>3. /\ pc[p] = "held"
      /\ pinned' = pinned \cup {blockno[c]}
      /\ refcnt' = IF blockno[c] \in pinned THEN refcnt ELSE [refcnt EXCEPT ![c] = @ + 1]
      /\ UNCHANGED <<blockno, pc, buf>>
  BY <1>2, ZenonT(60) DEF modify, Pinned
<1>4. \A b \in Buf : b # c => blockno[b] # blockno[c]
  <2>1. want[p] \in Block /\ blockno[c] = want[p]
    BY <1>2, <1>3, ZenonT(60) DEF IInv, Core, Names, Out
  <2> QED
    BY <2>1, BCacheAssumption, ZenonT(60) DEF IInv, Core, Names
<1>5. \A b \in Buf : refcnt[b] = Cardinality(Using(b)) + (IF blockno[b] \in pinned THEN 1 ELSE 0)
  BY ZenonT(60) DEF IInv, RefcntCounts
<1>6. \A b \in Buf : Cardinality(Using(b)) \in Nat /\ Cardinality(Using(b)') = Cardinality(Using(b))
  BY <1>3, UsingFinite, UsingSame, ZenonT(60)
<1>7. \A b \in Buf : b # c => refcnt'[b] = refcnt[b]
  BY <1>1, <1>3, ZenonT(60) DEF TypeOK
<1>8. refcnt'[c] = refcnt[c] + (IF blockno[c] \in pinned THEN 0 ELSE 1)
  BY <1>1, <1>3 DEF TypeOK
<1>9. ASSUME NEW b \in Buf
      PROVE  refcnt'[b] = Cardinality(Using(b)') + (IF blockno'[b] \in pinned' THEN 1 ELSE 0)
  BY <1>3, <1>4, <1>5, <1>6, <1>7, <1>8
<1> QED
  BY <1>9, ZenonT(60) DEF RefcntCounts

\* bunpin() drops the pin and its reference.
LEMMA UnpinCounts == ASSUME IInv, NEW p \in Proc, bunpin(p) PROVE RefcntCounts'
<1>1. TypeOK
  BY ZenonT(60) DEF IInv, Core
<1>2. PICK c \in Buf : c = buf[p]
  BY <1>1, ZenonT(60) DEF TypeOK
<1>3. /\ pc[p] = "written" /\ pc' = [pc EXCEPT ![p] = "held"]
      /\ refcnt' = [refcnt EXCEPT ![c] = @ - 1]
      /\ pinned' = pinned \ {blockno[c]}
      /\ UNCHANGED <<blockno, buf>>
  BY ZenonT(60), <1>2 DEF bunpin, Goto
<1>4. blockno[c] \in pinned /\ blockno[c] # NoBlock
  <2>1. want[p] \in Block /\ blockno[c] = want[p]
    BY <1>2, <1>3, ZenonT(60) DEF IInv, Core, Names, Out
  <2> QED
    BY <1>3, <2>1, BCacheAssumption DEF IInv, Core, Contents
<1>5. \A b \in Buf : b # c => blockno[b] # blockno[c]
  BY <1>4, ZenonT(60) DEF IInv, Core, Names
<1>6. \A b \in Buf : refcnt[b] = Cardinality(Using(b)) + (IF blockno[b] \in pinned THEN 1 ELSE 0)
  BY ZenonT(60) DEF IInv, RefcntCounts
<1>7. \A b \in Buf : Cardinality(Using(b)) \in Nat /\ Cardinality(Using(b)') = Cardinality(Using(b))
  <2>1. \A q \in Proc : pc'[q] \in Out <=> pc[q] \in Out
    BY <1>1, <1>3, ZenonT(60) DEF TypeOK, Out
  <2> QED
    BY <1>3, <2>1, UsingFinite, UsingSame, ZenonT(60)
<1>8. refcnt'[c] = refcnt[c] - 1 /\ \A b \in Buf : b # c => refcnt'[b] = refcnt[b]
  BY <1>1, <1>3, ZenonT(60) DEF TypeOK
<1>9. ASSUME NEW b \in Buf
      PROVE  refcnt'[b] = Cardinality(Using(b)') + (IF blockno'[b] \in pinned' THEN 1 ELSE 0)
  BY <1>3, <1>4, <1>5, <1>6, <1>7, <1>8
<1> QED
  BY <1>9, ZenonT(60) DEF RefcntCounts

\* brelse() drops a user and its reference.
LEMMA BrelseCounts == ASSUME IInv, NEW p \in Proc, brelse(p) PROVE RefcntCounts'
<1>1. TypeOK
  BY ZenonT(60) DEF IInv, Core
<1>2. PICK c \in Buf : c = buf[p]
  BY <1>1, ZenonT(60) DEF TypeOK
<1>3. /\ pc[p] = "release" /\ pc' = [pc EXCEPT ![p] = "idle"]
      /\ refcnt' = [refcnt EXCEPT ![c] = @ - 1]
      /\ buf' = [buf EXCEPT ![p] = 1]
      /\ UNCHANGED <<blockno, pinned>>
  BY <1>2, ZenonT(60) DEF brelse, Goto
<1>4. \A b \in Buf : Cardinality(Using(b)') = Cardinality(Using(b)) - (IF b = c THEN 1 ELSE 0)
  BY ZenonT(60), <1>1, <1>2, <1>3, UsingLeave
<1>5. \A b \in Buf : refcnt'[b] = refcnt[b] - (IF b = c THEN 1 ELSE 0)
  BY <1>1, <1>3 DEF TypeOK
<1>6. \A b \in Buf : /\ refcnt[b] = Cardinality(Using(b)) + (IF blockno[b] \in pinned THEN 1 ELSE 0)
                     /\ Cardinality(Using(b)) \in Nat
  BY UsingFinite, ZenonT(60) DEF IInv, RefcntCounts
<1>7. ASSUME NEW b \in Buf
      PROVE  refcnt'[b] = Cardinality(Using(b)') + (IF blockno'[b] \in pinned' THEN 1 ELSE 0)
  BY <1>3, <1>4, <1>5, <1>6
<1> QED
  BY <1>7, ZenonT(60) DEF RefcntCounts

\* The other steps leave the names, the counts, the pins and the users alone.
Same ==
  /\ UNCHANGED <<refcnt, blockno, pinned, buf>>
  /\ \A q \in Proc : pc'[q] \in Out <=> pc[q] \in Out

\* So the counts stay exact.
LEMMA SameCounts == ASSUME IInv, Same PROVE RefcntCounts'
  BY CountsFrame, ZenonT(60) DEF IInv, Same

\* bget() without a buffer: the process used none, and panics.
LEMMA PanicSame ==
  ASSUME TypeOK, NEW p \in Proc, NEW bn \in Block, bget_panic(p, bn) PROVE Same
<1>1. pc \in [Proc -> Places]
  BY ZenonT(60) DEF TypeOK
<1> QED
  BY <1>1, ZenonT(60) DEF bget_panic, bcache, Goto, Out, Same

\* acquiresleep(), fill() and kill() move a user of a buffer.
LEMMA AcquireSame ==
  ASSUME TypeOK, NEW p \in Proc, acquiresleep(p) \/ fill(p) \/ kill(p) PROVE Same
<1>1. pc \in [Proc -> Places]
  BY ZenonT(60) DEF TypeOK
<1>2. CASE acquiresleep(p)
  BY <1>1, <1>2, ZenonT(60) DEF acquiresleep, Goto, Out, Same
<1>3. CASE fill(p) \/ kill(p)
  BY <1>1, <1>3, ZenonT(60) DEF fill, kill, bcache, Goto, Out, Same
<1> QED
  BY <1>2, <1>3, ZenonT(60)

\* bwrite() does not panic: its caller has the lock.
LEMMA WriteSame == ASSUME TypeOK, Locks, NEW p \in Proc, bwrite(p) PROVE Same
<1>1. pc \in [Proc -> Places]
  BY ZenonT(60) DEF TypeOK
<1>2. pc[p] = "held"
  BY ZenonT(60) DEF bwrite
<1>3. locked[buf[p]] = p
  BY <1>2, ZenonT(60) DEF Locks, Holders
<1> QED
  BY <1>1, <1>3, ZenonT(60) DEF bwrite, bcache, Goto, Out, Same

\* Nor does releasesleep(), and it moves the sleepers back to acquiresleep().
LEMMA ReleaseSame == ASSUME TypeOK, Locks, NEW p \in Proc, releasesleep(p) PROVE Same
<1>1. pc[p] = "held"
  BY ZenonT(60) DEF releasesleep
<1>2. locked[buf[p]] = p
  BY <1>1, ZenonT(60) DEF Locks, Holders
<1>3. UNCHANGED <<refcnt, blockno, pinned, buf>> /\ pc' = [Woken(buf[p]) EXCEPT ![p] = "release"]
  BY <1>2, ZenonT(60) DEF releasesleep
<1>4. \A q \in Proc : pc'[q] \in {pc[q], "release", "acquire"} /\ (pc'[q] # pc[q] => pc[q] \in {"held", "asleep"})
  BY <1>1, <1>3, ZenonT(60) DEF Woken
<1> QED
  BY <1>3, <1>4, ZenonT(60) DEF Same, Out

-------------------------------------------------------------------------------
(* The inductive invariant.                                                 *)

\* binit() leaves all buffers free and listed.
LEMMA InitIInv == Init => IInv
<1> SUFFICES ASSUME Init PROVE IInv
  BY ZenonT(60)
<1>1. \A b : Using(b) = {}
  BY ZenonT(60) DEF Init, Using
<1>2. RefcntCounts
  BY <1>1, FS_EmptySet DEF Init, RefcntCounts
<1> QED
  BY <1>2, InitCore, ZenonT(60) DEF IInv

\* Every step preserves the invariant.
LEMMA NextIInv == IInv /\ [Next]_vars => IInv'
<1> SUFFICES ASSUME IInv, [Next]_vars PROVE IInv'
  BY ZenonT(60)
<1>1. Core /\ TypeOK /\ RefcntCounts /\ Unused
  BY ZeroIsUnused, ZenonT(60) DEF IInv, Core
<1>2. CASE UNCHANGED vars
  <2>1. UNCHANGED <<blockno, valid, refcnt, data, locked, lru, disk, pc, buf, want, pinned, latest>>
    BY <1>2, ZenonT(60) DEF vars, bcache
  <2>2. RefcntCounts'
    BY <1>1, <2>1, CountsFrame, ZenonT(60)
  <2>3. TypeOK' /\ Names' /\ ListComplete'
    BY <1>1, <2>1, ZenonT(60) DEF Core, TypeOK, Names, ListComplete
  <2>4. Locks' /\ Contents'
    BY <1>1, <2>1, ZenonT(60) DEF Core, Locks, Holders, Contents
  <2> QED
    BY <2>2, <2>3, <2>4, ZenonT(60) DEF IInv, Core
<1>3. ASSUME NEW p \in Proc, NEW bn \in Block, bget_hit(p, bn) \/ bget_miss(p, bn) \/ bget_panic(p, bn)
      PROVE  IInv'
  BY <1>1, <1>3, GetHitStep, GetMissStep, GetPanicStep, GetHitCounts, GetMissCounts, PanicSame, SameCounts,
     ZenonT(60) DEF IInv
<1>4. ASSUME NEW p \in Proc, acquiresleep(p) \/ fill(p) \/ bwrite(p) \/ releasesleep(p) \/ kill(p)
      PROVE  IInv'
  <2>1. Same
    BY <1>1, <1>4, AcquireSame, WriteSame, ReleaseSame, ZenonT(60) DEF Core
  <2> QED
    BY <1>1, <1>4, <2>1, AcquireStep, FillStep, WriteStep, ReleaseStep, KillStep, SameCounts,
       ZenonT(60) DEF IInv
<1>5. ASSUME NEW p \in Proc, modify(p) PROVE IInv'
  BY <1>1, <1>5, ModifyStep, ModifyCounts, ZenonT(60) DEF IInv
<1>6. ASSUME NEW p \in Proc, bunpin(p) PROVE IInv'
  <2>1. refcnt[buf[p]] # 0
    BY <1>1, <1>6, UserIsCounted, ZenonT(60) DEF bunpin, Out
  <2> QED
    BY <1>1, <1>6, <2>1, UnpinStep, UnpinCounts, ZenonT(60) DEF IInv
<1>7. ASSUME NEW p \in Proc, brelse(p) PROVE IInv'
  <2>1. refcnt[buf[p]] # 0
    BY <1>1, <1>7, UserIsCounted, ZenonT(60) DEF brelse, Out
  <2> QED
    BY <1>1, <1>7, <2>1, BrelseStep, BrelseCounts, ZenonT(60) DEF IInv
<1> QED
  BY <1>2, <1>3, <1>4, <1>5, <1>6, <1>7, ZenonT(60) DEF Next

\* The invariant holds in every reachable state.
LEMMA Invariance == Spec => []IInv
  BY InitIInv, NextIInv, PTL DEF Spec

-------------------------------------------------------------------------------
(* The theorems.                                                            *)

\* bget() never gives a block two buffers, so no two processes hold one block.
THEOREM BlockHasOneBuffer == Spec => []OneBufferPerBlock
<1>1. IInv => OneBufferPerBlock
  <2> SUFFICES ASSUME IInv PROVE OneBufferPerBlock
    BY ZenonT(60)
  <2>1. \A a, b \in Buf : blockno[a] = blockno[b] /\ blockno[a] # NoBlock => a = b
    BY ZenonT(60) DEF IInv, Core, Names
  <2>2. \A p \in Holders : blockno[buf[p]] = want[p]
    BY ZenonT(60) DEF IInv, Core, Names, Holders, Out
  <2>3. \A p, q \in Holders : want[p] = want[q] => p = q
    BY <2>2, HoldersDiffer, ZenonT(60) DEF IInv, Core
  <2> QED
    BY <2>1, <2>3, ZenonT(60) DEF OneBufferPerBlock
<1> QED
  BY <1>1, Invariance, PTL

\* bget(), brelse(), bpin() and bunpin() balance: refcnt is exact.
THEOREM RefcntIsExact == Spec => []RefcntCounts
<1>1. IInv => RefcntCounts
  BY ZenonT(60) DEF IInv
<1> QED
  BY <1>1, Invariance, PTL

\* bget() recycles no buffer that somebody uses or waits for.
THEOREM UsersKeepTheirBlock == Spec => []NotRecycledInUse
<1>1. IInv => NotRecycledInUse
  BY ZenonT(60) DEF IInv, Core, NotRecycledInUse, Names, Out
<1> QED
  BY <1>1, Invariance, PTL

\* bread() returns what was last put in the block.
THEOREM ReadersSeeLatest == Spec => []ReadsLatest
<1>1. IInv => ReadsLatest
  BY ZenonT(60) DEF IInv, Core, ReadsLatest, Names, Contents, Out, TypeOK
<1> QED
  BY <1>1, Invariance, PTL

\* acquiresleep() and releasesleep() lose no wakeup, and the list of bget() stays
\* complete.
THEOREM NoSleeperForgotten == Spec => [](SleeperHasHolder /\ ListComplete)
<1>1. IInv => SleeperHasHolder /\ ListComplete
  BY ZenonT(60) DEF IInv, Core, SleeperHasHolder, Locks, TypeOK
<1> QED
  BY <1>1, Invariance, PTL

\* Together: bget(), bread(), bwrite(), brelse() and the sleep locks keep one
\* current copy of every block, for any number of buffers and processes.
THEOREM CacheIsCorrect == Spec => []CacheInv
<1>1. IInv => TypeOK
  BY ZenonT(60) DEF IInv, Core
<1>2. Spec => []TypeOK
  BY <1>1, Invariance, PTL
<1>3. OneBufferPerBlock /\ RefcntCounts /\ NotRecycledInUse /\ ReadsLatest
        /\ SleeperHasHolder /\ ListComplete /\ TypeOK => CacheInv
  BY ZenonT(60) DEF CacheInv
<1> QED
  BY <1>2, <1>3, BlockHasOneBuffer, RefcntIsExact, UsersKeepTheirBlock, ReadersSeeLatest,
     NoSleeperForgotten, PTL
===============================================================================

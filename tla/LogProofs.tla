------------------------------- MODULE LogProofs ------------------------------
(***************************************************************************)
(* Proofs about module Log: for any number of processes and blocks and any  *)
(* size of the log, the log is an atomic disk (AtomicCommit), across any    *)
(* sequence of crashes, and its pins balance (PinsBalanced).                *)
(***************************************************************************)
EXTENDS Log, FiniteSetTheorems, TLAPS

\* The provers of a leaf, in turn, and their time.
USE SMTT(60), ZenonT(60)

-------------------------------------------------------------------------------
(* The inductive invariant.                                                 *)

Distinct(h) == \A i, j \in 1 .. Len(h) : h[i] = h[j] => i = j

\* Headers name a block once; that is what absorption is for.
HeadersDistinct == Distinct(lh) /\ Distinct(head)

\* What the header on disk and the loop index are in each phase.
PhaseOK ==
  /\ phase \in {"running", "write_log", "write_head", "finish"} => head = <<>>
  /\ phase \in {"install", "erase", "recover", "clear"} => lh = head
  /\ phase \in {"read_head", "finish"} => lh = <<>>
  /\ IF phase \in {"write_log", "install", "recover"} THEN tail \in 1 .. Len(lh) ELSE tail = 1
  /\ phase = "write_head" => lh # <<>>

\* Calls are active only while the log runs and does not commit; outstanding
\* counts them.
CallsOK ==
  /\ phase \in Committing <=> committing
  /\ phase # "running" => Active = {}
  /\ Cardinality(Active) <= outstanding

\* A block that is not waiting to be installed is the same in cache and at home;
\* recovery pins nothing.
CleanOK ==
  /\ phase \notin Recovering => \A b \in Block \ Waiting : cache[b] = home[b]
  /\ phase \in Recovering => cache = home /\ pins = [b \in Block |-> 0]

\* What write_log() and install_trans() have copied.
CopiedOK ==
  /\ phase = "write_log" => \A i \in 1 .. tail - 1 : logblk[i] = cache[lh[i]]
  /\ phase \in {"write_head", "install", "erase"} =>
       \A i \in 1 .. Len(lh) : logblk[i] = cache[lh[i]]
  /\ phase = "recover" => \A i \in 1 .. tail - 1 : home[lh[i]] = logblk[i]
  /\ phase = "clear" => \A i \in 1 .. Len(lh) : home[lh[i]] = logblk[i]

DiskOK == HeadersDistinct /\ PhaseOK /\ PinsBalanced /\ CleanOK /\ CopiedOK
IInv   == TypeOK /\ CallsOK /\ DiskOK

-------------------------------------------------------------------------------
(* Facts about headers and about the set of active calls.                   *)

PC == {"idle", "asleep", "woken", "op", "commit", "panic"}

\* IndexIn finds a block that a header names.
LEMMA IndexFound ==
  ASSUME NEW h, NEW b \in LoggedIn(h)
  PROVE  IndexIn(h, b) \in 1 .. Len(h) /\ h[IndexIn(h, b)] = b
<1>1. \E i \in 1 .. Len(h) : h[i] = b
  BY DEF LoggedIn
<1> QED
  BY <1>1 DEF IndexIn

\* Appending a block adds it to what the header names.
LEMMA LoggedAppend ==
  ASSUME NEW h \in Seq(Block), NEW b \in Block
  PROVE  LoggedIn(Append(h, b)) = LoggedIn(h) \cup {b}
<1>1. ASSUME NEW x \in LoggedIn(Append(h, b)) PROVE x \in LoggedIn(h) \cup {b}
  BY <1>1 DEF LoggedIn
<1>2. ASSUME NEW x \in LoggedIn(h) PROVE x \in LoggedIn(Append(h, b))
  <2>1. PICK i \in 1 .. Len(h) : x = h[i]
    BY <1>2 DEF LoggedIn
  <2>2. i \in 1 .. Len(Append(h, b)) /\ x = Append(h, b)[i]
    BY <2>1
  <2> QED
    BY <2>2 DEF LoggedIn
<1>3. b \in LoggedIn(Append(h, b))
  <2>1. Len(h) + 1 \in 1 .. Len(Append(h, b)) /\ b = Append(h, b)[Len(h) + 1]
    OBVIOUS
  <2> QED
    BY <2>1 DEF LoggedIn
<1> QED
  BY <1>1, <1>2, <1>3

\* The active calls are finitely many, and the last one leaves none behind.
LEMMA ActiveFinite ==
  /\ IsFiniteSet(Active) /\ Cardinality(Active) \in Nat
  /\ \A p \in Active : Cardinality(Active \ {p}) = Cardinality(Active) - 1
  /\ \A p \in Active : Cardinality(Active) <= 1 => Active \ {p} = {}
<1>1. IsFiniteSet(Active) /\ Cardinality(Active) \in Nat
  BY FS_Subset, FS_CardinalityType, LogAssumption DEF Active
<1>2. ASSUME NEW p \in Active
      PROVE  /\ IsFiniteSet(Active \ {p})
             /\ Cardinality(Active \ {p}) = Cardinality(Active) - 1
  BY <1>1, FS_RemoveElement
<1>3. ASSUME NEW p \in Active, Cardinality(Active) <= 1 PROVE Active \ {p} = {}
  <2>1. Cardinality(Active \ {p}) \in Nat
    BY <1>2, FS_CardinalityType
  <2>2. Cardinality(Active \ {p}) = 0
    BY <1>1, <1>2, <1>3, <2>1
  <2> QED
    BY <1>2, <2>2, FS_EmptySet
<1> QED
  BY <1>1, <1>2, <1>3

\* A step that touches neither the blocks nor the header keeps DiskOK.
LEMMA DiskFrame ==
  ASSUME DiskOK, UNCHANGED <<lh, head, logblk, home, cache, pins, phase, tail>>
  PROVE  DiskOK'
  BY DEF DiskOK, HeadersDistinct, PhaseOK, PinsBalanced, CleanOK, CopiedOK, Waiting

-------------------------------------------------------------------------------
(* Every step preserves the invariant: one lemma per action.                *)

\* Initially nothing is logged and the kernel is about to read the header.
LEMMA InitIInv == Init => IInv
<1> SUFFICES ASSUME Init PROVE IInv
  OBVIOUS
<1>1. TypeOK
  <2>1. logblk \in [Slot -> Val]
    BY DEF Init
  <2>2. wrote \in [Proc -> SUBSET Block]
    BY DEF Init
  <2>3. pc \in [Proc -> PC] /\ pins \in [Block -> Int]
    BY DEF Init, PC
  <2>4. lh \in Seq(Block) /\ Len(lh) <= nlog - 1 /\ head = lh
    BY LogAssumption DEF Init
  <2>5. phase \in Recovering /\ committing \in BOOLEAN
    BY ZenonT(60) DEF Init, Recovering
  <2> QED
    BY <2>1, <2>2, <2>3, <2>4, <2>5 DEF Init, TypeOK, PC
<1>2. Active = {} /\ Cardinality(Active) = 0
  BY ZenonT(60), FS_EmptySet DEF Init, Active
<1>3. CallsOK
  BY <1>2 DEF Init, CallsOK, Committing
<1>4. DiskOK
  BY DEF Init, DiskOK, HeadersDistinct, Distinct, PhaseOK, PinsBalanced, CleanOK, CopiedOK,
         Recovering
<1> QED
  BY <1>1, <1>3, <1>4 DEF IInv

\* begin_op() admits a call only while nobody commits.
LEMMA BeginOpStep == ASSUME IInv, NEW p \in Proc, begin_op(p) PROVE IInv'
<1>1. UNCHANGED <<committing, lh, head, logblk, home, cache, pins, wrote, phase, tail>>
  BY DEF begin_op, disk
<1>2. pc \in [Proc -> PC] /\ outstanding \in Int
  BY DEF IInv, TypeOK, PC
<1>3. \/ pc' = [pc EXCEPT ![p] = "asleep"] /\ outstanding' = outstanding
      \/ pc' = [pc EXCEPT ![p] = "op"] /\ outstanding' = outstanding + 1 /\ ~committing
  BY DEF begin_op
<1>4. TypeOK'
  <2>1. pc' \in [Proc -> PC]
    BY <1>2, <1>3 DEF PC
  <2> QED
    BY <1>1, <1>2, <1>3, <2>1 DEF IInv, TypeOK, PC
<1>5. CallsOK'
  <2>1. CASE pc' = [pc EXCEPT ![p] = "asleep"] /\ outstanding' = outstanding
    <3>1. Active' = Active
      BY <1>2, <2>1 DEF begin_op, Active
    <3> QED
      BY <1>1, <2>1, <3>1 DEF IInv, CallsOK
  <2>2. CASE pc' = [pc EXCEPT ![p] = "op"] /\ outstanding' = outstanding + 1 /\ ~committing
    <3>1. Active' = Active \cup {p} /\ p \notin Active
      BY <1>2, <2>2 DEF begin_op, Active
    <3>2. Cardinality(Active') = Cardinality(Active) + 1
      BY <3>1, ActiveFinite, FS_AddElement
    <3>3. phase = "running"
      BY <2>2 DEF begin_op, IInv, CallsOK, TypeOK
    <3> QED
      BY <1>1, <1>2, <2>2, <3>2, <3>3, ActiveFinite DEF IInv, CallsOK
  <2> QED
    BY <1>3, <2>1, <2>2
<1>6. DiskOK'
  BY <1>1, DiskFrame DEF IInv
<1> QED
  BY <1>4, <1>5, <1>6 DEF IInv

\* kill() only lets a process test again.
LEMMA KillStep == ASSUME IInv, NEW p \in Proc, kill(p) PROVE IInv'
<1>1. UNCHANGED <<outstanding, committing, lh, head, logblk, home, cache, pins, wrote, phase, tail>>
  BY DEF kill, disk, log
<1>2. pc \in [Proc -> PC] /\ pc[p] = "asleep" /\ pc' = [pc EXCEPT ![p] = "woken"]
  BY DEF IInv, TypeOK, PC, kill
<1>3. Active' = Active /\ pc' \in [Proc -> PC]
  BY <1>2 DEF Active, PC
<1>4. TypeOK'
  BY <1>1, <1>3 DEF IInv, TypeOK, PC
<1>5. CallsOK'
  BY <1>1, <1>3 DEF IInv, CallsOK
<1>6. DiskOK'
  BY <1>1, DiskFrame DEF IInv
<1> QED
  BY <1>4, <1>5, <1>6 DEF IInv

\* The last end_op() starts the commit, when no call is active any more.
LEMMA EndOpStep == ASSUME IInv, NEW p \in Proc, end_op(p) PROVE IInv'
<1>1. /\ UNCHANGED <<lh, head, logblk, home, cache, pins, tail>>
      /\ outstanding' = outstanding - 1
      /\ wrote' = [wrote EXCEPT ![p] = {}]
  BY DEF end_op, disk
<1>2. /\ pc \in [Proc -> PC] /\ outstanding \in Int
      /\ wrote \in [Proc -> SUBSET Block]
  BY DEF IInv, TypeOK, PC
<1>3. p \in Active
  BY DEF Active, end_op
<1>4. phase = "running" /\ ~committing
  BY <1>3 DEF IInv, CallsOK, Committing
<1>5. \/ /\ outstanding = 1
         /\ committing' = TRUE /\ phase' = CommitEntry
         /\ pc' = [pc EXCEPT ![p] = "commit"]
      \/ /\ UNCHANGED <<committing, phase>>
         /\ pc' = [wakeup EXCEPT ![p] = "idle"]
  BY <1>4 DEF end_op
<1>6. pc' \in [Proc -> PC] /\ Active' = Active \ {p}
  BY ZenonT(60), <1>2, <1>3, <1>5 DEF PC, wakeup, Active
<1>7. TypeOK'
  <2>1. wrote' \in [Proc -> SUBSET Block]
    BY <1>1, <1>2
  <2>2. committing' \in BOOLEAN
    BY ZenonT(60), <1>5 DEF IInv, TypeOK
  <2>3. phase' \in Recovering \cup Committing \cup {"running"}
    BY <1>4, <1>5 DEF CommitEntry, Committing
  <2> QED
    BY <1>1, <1>2, <1>6, <2>1, <2>2, <2>3 DEF IInv, TypeOK, PC
<1>8. CallsOK'
  <2>1. Cardinality(Active') <= outstanding'
    BY <1>1, <1>2, <1>3, <1>6, ActiveFinite DEF IInv, CallsOK
  <2>2. outstanding = 1 => Active' = {}
    BY <1>3, <1>6, ActiveFinite DEF IInv, CallsOK
  <2>3. phase' # "running" => Active' = {}
    BY <1>4, <1>5, <2>2
  <2>4. phase' \in Committing <=> committing'
    BY <1>4, <1>5 DEF CommitEntry, Committing
  <2> QED
    BY <2>1, <2>3, <2>4 DEF CallsOK
<1>9. DiskOK'
  <2>1. CASE phase' = phase
    BY <1>1, <2>1, DiskFrame DEF IInv
  <2>2. CASE phase' = CommitEntry
    <3>1. Waiting' = Waiting
      BY <1>1, <1>4, <2>2 DEF CommitEntry, Waiting
    <3>2. lh \in Seq(Block) /\ (lh = <<>> \/ 1 \in 1 .. Len(lh))
      BY DEF IInv, TypeOK
    <3>3. PhaseOK'
      BY <1>1, <1>4, <2>2, <3>2 DEF CommitEntry, IInv, DiskOK, PhaseOK
    <3>4. PinsBalanced' /\ CleanOK'
      BY <1>1, <1>4, <2>2, <3>1 DEF CommitEntry, IInv, DiskOK, PinsBalanced, CleanOK, Recovering
    <3>5. CopiedOK'
      BY <1>1, <1>4, <2>2 DEF CommitEntry, IInv, DiskOK, PhaseOK, CopiedOK
    <3> QED
      BY <1>1, <3>3, <3>4, <3>5 DEF IInv, DiskOK, HeadersDistinct
  <2> QED
    BY <1>5, <2>1, <2>2
<1> QED
  BY <1>7, <1>8, <1>9 DEF IInv

\* After commit() the log is empty and calls are admitted again.
LEMMA EndCommitStep == ASSUME IInv, NEW p \in Proc, end_commit(p) PROVE IInv'
<1>1. /\ UNCHANGED <<outstanding, lh, head, logblk, home, cache, pins, wrote, tail>>
      /\ phase = "finish" /\ phase' = "running"
      /\ committing' = FALSE
      /\ pc' = [wakeup EXCEPT ![p] = "idle"]
  BY DEF end_commit, disk
<1>2. pc \in [Proc -> PC] /\ pc[p] = "commit"
  BY DEF IInv, TypeOK, PC, end_commit
<1>3. pc' \in [Proc -> PC] /\ Active' = Active
  BY <1>1, <1>2 DEF PC, wakeup, Active
<1>4. TypeOK'
  <2>1. committing' \in BOOLEAN
    BY ZenonT(60), <1>1
  <2> QED
    BY <1>1, <1>3, <2>1 DEF IInv, TypeOK, PC
<1>5. CallsOK'
  <2>1. Cardinality(Active') <= outstanding' /\ phase' = "running"
    BY <1>1, <1>3 DEF IInv, CallsOK
  <2>2. ~committing' /\ phase' \notin Committing
    BY <1>1 DEF Committing
  <2> QED
    BY <2>1, <2>2 DEF CallsOK
<1>6. DiskOK'
  <2>1. Waiting' = Waiting
    BY <1>1 DEF Waiting
  <2> QED
    BY <1>1, <2>1 DEF IInv, DiskOK, HeadersDistinct, PhaseOK, PinsBalanced, CleanOK, CopiedOK,
                      Recovering
<1> QED
  BY <1>4, <1>5, <1>6 DEF IInv

\* log_write() pins a block when it enters the header and only then.
LEMMA LogWriteStep ==
  ASSUME IInv, NEW p \in Proc, NEW b \in Block, NEW v \in Val, log_write(p, b, v)
  PROVE  IInv'
<1>1. UNCHANGED <<outstanding, committing, head, logblk, home, phase, tail>>
  BY DEF log_write, disk
<1>2. /\ pc \in [Proc -> PC] /\ wrote \in [Proc -> SUBSET Block]
      /\ lh \in Seq(Block) /\ Len(lh) <= nlog - 1
      /\ cache \in [Block -> Val] /\ pins \in [Block -> Int]
  BY DEF IInv, TypeOK, PC
<1>3. pc' = [pc EXCEPT ![p] = "panic"] \/ pc' = pc
  BY DEF log_write
<1>4. pc' \in [Proc -> PC] /\ Active' = Active /\ p \in Active
  BY ZenonT(60), <1>2, <1>3 DEF PC, Active, log_write
<1>5. phase = "running"
  BY <1>4 DEF IInv, CallsOK
<1>6. CallsOK'
  BY <1>1, <1>4 DEF IInv, CallsOK
<1>7. Waiting = LoggedIn(lh) /\ Waiting' = LoggedIn(lh')
  BY <1>1, <1>5 DEF Waiting, LoggedIn
<1>8. CASE UNCHANGED <<lh, cache, pins, wrote>>
  <2>1. TypeOK'
    BY <1>1, <1>4, <1>8 DEF IInv, TypeOK, PC
  <2> QED
    BY <1>1, <1>6, <1>8, <2>1, DiskFrame DEF IInv
<1>9. ASSUME cache' = [cache EXCEPT ![b] = v], wrote' = [wrote EXCEPT ![p] = @ \cup {b}],
             Absorbed(b), UNCHANGED <<lh, pins>>
      PROVE  IInv'
  <2>1. wrote' \in [Proc -> SUBSET Block] /\ cache' \in [Block -> Val]
    BY <1>2, <1>9
  <2>2. TypeOK'
    BY <1>1, <1>4, <1>9, <2>1 DEF IInv, TypeOK, PC
  <2>3. Waiting' = Waiting /\ b \in Waiting
    BY <1>7, <1>9 DEF Absorbed
  <2>4. CleanOK'
    <3>1. \A x \in Block \ Waiting : cache'[x] = cache[x] /\ cache[x] = home[x]
      BY <1>2, <1>5, <1>9, <2>3 DEF IInv, DiskOK, CleanOK, Recovering
    <3> QED
      BY <1>1, <1>5, <2>3, <3>1 DEF CleanOK, Recovering
  <2>5. HeadersDistinct' /\ PhaseOK' /\ PinsBalanced' /\ CopiedOK'
    BY <1>1, <1>5, <1>9, <2>3 DEF IInv, DiskOK, HeadersDistinct, PhaseOK, PinsBalanced, CopiedOK
  <2> QED
    BY <1>6, <2>2, <2>4, <2>5 DEF IInv, DiskOK
<1>10. ASSUME cache' = [cache EXCEPT ![b] = v], wrote' = [wrote EXCEPT ![p] = @ \cup {b}],
              ~Absorbed(b), Len(lh) < nlog - 1,
              lh' = Append(lh, b), pins' = [pins EXCEPT ![b] = @ + 1]
       PROVE  IInv'
  <2>1. wrote' \in [Proc -> SUBSET Block] /\ cache' \in [Block -> Val] /\ pins' \in [Block -> Int]
    BY <1>2, <1>10
  <2>2. lh' \in Seq(Block) /\ Len(lh') <= nlog - 1
    BY <1>2, <1>10, LogAssumption
  <2>3. TypeOK'
    BY <1>1, <1>4, <2>1, <2>2 DEF IInv, TypeOK, PC
  <2>4. Waiting' = Waiting \cup {b} /\ b \notin Waiting
    BY <1>2, <1>7, <1>10, LoggedAppend DEF Absorbed
  <2>5. CleanOK'
    BY <1>1, <1>2, <1>5, <1>10, <2>4 DEF IInv, DiskOK, CleanOK, Recovering
  <2>6. PinsBalanced'
    <3>1. pins = [x \in Block |-> IF x \in Waiting THEN 1 ELSE 0]
      BY <1>5 DEF IInv, DiskOK, PinsBalanced, Recovering
    <3>2. pins' = [x \in Block |-> IF x \in Waiting \cup {b} THEN 1 ELSE 0]
      BY <1>10, <2>4, <3>1
    <3> QED
      BY <2>4, <3>2 DEF PinsBalanced
  <2>7. Distinct(lh')
    <3>1. \A i \in 1 .. Len(lh) : lh[i] # b
      BY <1>10 DEF Absorbed, LoggedIn
    <3>2. Distinct(lh)
      BY DEF IInv, DiskOK, HeadersDistinct
    <3>3. /\ Len(lh') = Len(lh) + 1 /\ lh'[Len(lh) + 1] = b
          /\ \A i \in 1 .. Len(lh) : lh'[i] = lh[i]
      BY <1>2, <1>10
    <3> SUFFICES ASSUME NEW i \in 1 .. Len(lh'), NEW j \in 1 .. Len(lh'), lh'[i] = lh'[j]
                 PROVE  i = j
      BY DEF Distinct
    <3>4. Len(lh) \in Nat /\ i \in 1 .. Len(lh) + 1 /\ j \in 1 .. Len(lh) + 1
      BY <1>2, <3>3
    <3>5. CASE i \in 1 .. Len(lh) /\ j \in 1 .. Len(lh)
      BY <3>2, <3>3, <3>5 DEF Distinct
    <3>6. CASE i = Len(lh) + 1 \/ j = Len(lh) + 1
      BY <3>1, <3>3, <3>4, <3>6
    <3> QED
      BY <3>4, <3>5, <3>6
  <2>8. HeadersDistinct' /\ PhaseOK' /\ CopiedOK'
    BY <1>1, <1>5, <2>7 DEF IInv, DiskOK, HeadersDistinct, PhaseOK, CopiedOK
  <2> QED
    BY <1>6, <2>3, <2>5, <2>6, <2>8 DEF IInv, DiskOK
<1> QED
  BY <1>8, <1>9, <1>10 DEF log_write

\* Steps of commit() and of recovery leave the calls alone.
LEMMA CallsFrame ==
  ASSUME CallsOK, phase # "running", UNCHANGED <<outstanding, committing, pc>>,
         phase' \in Committing <=> phase \in Committing
  PROVE  CallsOK'
  BY DEF CallsOK, Active

\* write_log() copies the next block of the header.
LEMMA WriteLogStep == ASSUME IInv, write_log PROVE IInv'
<1>1. /\ UNCHANGED <<outstanding, committing, lh, head, home, cache, pins, pc, wrote>>
      /\ phase = "write_log"
      /\ logblk' = [logblk EXCEPT ![tail] = cache[lh[tail]]]
      /\ \/ tail < Len(lh) /\ tail' = tail + 1 /\ phase' = "write_log"
         \/ tail >= Len(lh) /\ tail' = 1 /\ phase' = "write_head"
  BY DEF write_log, log, Loop, IInv, TypeOK
<1>2. /\ lh \in Seq(Block) /\ Len(lh) <= nlog - 1
      /\ tail \in 1 .. Len(lh) /\ tail \in Slot
      /\ cache \in [Block -> Val] /\ logblk \in [Slot -> Val]
  BY <1>1, LogAssumption DEF IInv, TypeOK, DiskOK, PhaseOK, Slot
<1>3. TypeOK'
  <2>1. logblk' \in [Slot -> Val]
    BY <1>1, <1>2
  <2> QED
    BY <1>1, <1>2, <2>1 DEF IInv, TypeOK, Committing
<1>4. CallsOK'
  BY <1>1, CallsFrame DEF IInv, Committing
<1>5. Waiting' = Waiting
  BY <1>1 DEF Waiting
<1>6. PinsBalanced' /\ CleanOK' /\ HeadersDistinct'
  BY <1>1, <1>5 DEF IInv, DiskOK, PinsBalanced, CleanOK, HeadersDistinct, Recovering
<1>7. PhaseOK'
  BY <1>1, <1>2 DEF IInv, DiskOK, PhaseOK
<1>8. \A i \in 1 .. tail : logblk'[i] = cache[lh[i]]
  BY <1>1, <1>2 DEF IInv, DiskOK, CopiedOK, Slot
<1>9. CopiedOK'
  BY <1>1, <1>2, <1>8 DEF CopiedOK
<1> QED
  BY <1>3, <1>4, <1>6, <1>7, <1>9 DEF IInv, DiskOK

\* write_head() writes the header when every block it names is in the log.
LEMMA WriteHeadStep == ASSUME IInv, write_head PROVE IInv'
<1>1. /\ UNCHANGED <<outstanding, committing, lh, logblk, home, cache, pins, pc, wrote, tail>>
      /\ phase = "write_head" /\ phase' = "install" /\ head' = lh
  BY DEF write_head, log
<1>2. lh \in Seq(Block) /\ lh # <<>> /\ tail = 1
  BY <1>1 DEF IInv, DiskOK, TypeOK, PhaseOK
<1>3. TypeOK'
  BY <1>1 DEF IInv, TypeOK, Committing
<1>4. CallsOK'
  BY <1>1, CallsFrame DEF IInv, Committing
<1>5. Waiting' = Waiting
  BY <1>1, <1>2 DEF Waiting
<1>6. PhaseOK'
  BY <1>1, <1>2 DEF PhaseOK
<1> QED
  BY <1>1, <1>3, <1>4, <1>5, <1>6 DEF IInv, DiskOK, PinsBalanced, CleanOK, HeadersDistinct,
                                      CopiedOK, Recovering

\* install_trans() in commit() installs the next block and takes its pin away.
LEMMA InstallStep == ASSUME IInv, install PROVE IInv'
<1> DEFINE a == lh[tail]
<1>1. /\ UNCHANGED <<outstanding, committing, lh, head, logblk, pc, wrote>>
      /\ phase = "install"
      /\ home' = [home EXCEPT ![a] = logblk[tail]]
      /\ cache' = [cache EXCEPT ![a] = logblk[tail]]
      /\ pins' = [pins EXCEPT ![a] = @ - 1]
      /\ \/ tail < Len(lh) /\ tail' = tail + 1 /\ phase' = "install"
         \/ tail >= Len(lh) /\ tail' = 1 /\ phase' = "erase"
  BY DEF install, install_trans, log, Loop, IInv, TypeOK
<1>2. /\ lh \in Seq(Block) /\ Len(lh) <= nlog - 1
      /\ tail \in 1 .. Len(lh) /\ tail \in Slot /\ a \in Block
      /\ cache \in [Block -> Val] /\ logblk \in [Slot -> Val]
      /\ home \in [Block -> Val] /\ pins \in [Block -> Int]
  BY <1>1, LogAssumption DEF IInv, TypeOK, DiskOK, PhaseOK, Slot
<1>3. logblk[tail] = cache[a] /\ cache' = cache
  BY <1>1, <1>2 DEF IInv, DiskOK, CopiedOK
<1>4. TypeOK'
  <2>1. home' \in [Block -> Val] /\ pins' \in [Block -> Int]
    BY <1>1, <1>2
  <2>2. phase' \in Committing /\ tail' \in Nat \ {0}
    BY <1>1, <1>2 DEF Committing
  <2> QED
    BY <1>1, <1>3, <2>1, <2>2 DEF IInv, TypeOK
<1>5. CallsOK'
  BY <1>1, CallsFrame DEF IInv, Committing
<1>6. Waiting' = Waiting \ {a} /\ a \in Waiting
  <2>1. \A i \in 1 .. Len(lh) : lh[i] = a => i = tail
    BY <1>2 DEF IInv, DiskOK, HeadersDistinct, Distinct
  <2>2. Waiting = {lh[i] : i \in tail .. Len(lh)}
    BY <1>1 DEF Waiting
  <2>3. Waiting' = {lh[i] : i \in tail + 1 .. Len(lh)}
    BY <1>1, <1>2 DEF Waiting
  <2> QED
    BY <1>2, <2>1, <2>2, <2>3
<1>7. PinsBalanced'
  <2>1. pins = [x \in Block |-> IF x \in Waiting THEN 1 ELSE 0]
    BY <1>1 DEF IInv, DiskOK, PinsBalanced, Recovering
  <2>2. pins' = [x \in Block |-> IF x \in Waiting \ {a} THEN 1 ELSE 0]
    BY <1>1, <1>2, <1>6, <2>1
  <2> QED
    BY <1>6, <2>2 DEF PinsBalanced
<1>8. CleanOK'
  BY <1>1, <1>2, <1>3, <1>6 DEF IInv, DiskOK, CleanOK, Recovering
<1>9. PhaseOK'
  BY <1>1, <1>2 DEF IInv, DiskOK, PhaseOK
<1>10. CopiedOK' /\ HeadersDistinct'
  BY <1>1, <1>3 DEF IInv, DiskOK, CopiedOK, HeadersDistinct
<1> QED
  BY <1>4, <1>5, <1>7, <1>8, <1>9, <1>10 DEF IInv, DiskOK

\* The second write_head() of commit() forgets blocks that are all installed.
LEMMA EraseStep == ASSUME IInv, erase PROVE IInv'
<1>1. /\ UNCHANGED <<outstanding, committing, logblk, home, cache, pins, pc, wrote, tail>>
      /\ phase = "erase" /\ phase' = "finish" /\ lh' = <<>> /\ head' = <<>>
  BY DEF erase
<1>2. TypeOK'
  <2>1. lh' \in Seq(Block) /\ Len(lh') <= nlog - 1
    BY <1>1, LogAssumption
  <2> QED
    BY <1>1, <2>1 DEF IInv, TypeOK, Committing
<1>3. CallsOK'
  BY <1>1, CallsFrame DEF IInv, Committing
<1>4. Waiting = {} /\ Waiting' = {}
  BY <1>1 DEF Waiting
<1> QED
  BY <1>1, <1>2, <1>3, <1>4 DEF IInv, DiskOK, PinsBalanced, CleanOK, HeadersDistinct, Distinct,
                                PhaseOK, CopiedOK, Recovering

\* read_head() takes the header of the disk.
LEMMA ReadHeadStep == ASSUME IInv, read_head PROVE IInv'
<1>1. /\ UNCHANGED <<outstanding, committing, head, logblk, home, cache, pins, pc, wrote, tail>>
      /\ phase = "read_head" /\ lh' = head
      /\ \/ head = <<>> /\ phase' = "clear"
         \/ head # <<>> /\ phase' = "recover"
  BY DEF read_head, disk
<1>2. head \in Seq(Block) /\ tail = 1
  BY <1>1 DEF IInv, DiskOK, TypeOK, PhaseOK
<1>3. TypeOK'
  BY <1>1 DEF IInv, TypeOK, Recovering
<1>4. CallsOK'
  BY <1>1, CallsFrame DEF IInv, Committing
<1>5. PhaseOK'
  BY <1>1, <1>2 DEF PhaseOK
<1>6. PinsBalanced' /\ CleanOK' /\ HeadersDistinct'
  BY <1>1 DEF IInv, DiskOK, PinsBalanced, CleanOK, HeadersDistinct, Recovering
<1>7. CopiedOK'
  BY <1>1, <1>2 DEF CopiedOK
<1> QED
  BY <1>3, <1>4, <1>5, <1>6, <1>7 DEF IInv, DiskOK

\* install_trans() in recovery installs the next block.
LEMMA RecoverStep == ASSUME IInv, recover PROVE IInv'
<1> DEFINE a == lh[tail]
<1>1. /\ UNCHANGED <<outstanding, committing, lh, head, logblk, pins, pc, wrote>>
      /\ phase = "recover"
      /\ home' = [home EXCEPT ![a] = logblk[tail]]
      /\ cache' = [cache EXCEPT ![a] = logblk[tail]]
      /\ \/ tail < Len(lh) /\ tail' = tail + 1 /\ phase' = "recover"
         \/ tail >= Len(lh) /\ tail' = 1 /\ phase' = "clear"
  BY DEF recover, install_trans, log, Loop, IInv, TypeOK
<1>2. /\ lh \in Seq(Block) /\ Len(lh) <= nlog - 1
      /\ tail \in 1 .. Len(lh) /\ tail \in Slot /\ a \in Block
      /\ logblk \in [Slot -> Val] /\ home \in [Block -> Val]
      /\ cache = home
  BY <1>1, LogAssumption DEF IInv, TypeOK, DiskOK, PhaseOK, CleanOK, Slot, Recovering
<1>3. TypeOK'
  <2>1. home' \in [Block -> Val] /\ cache' = home'
    BY <1>1, <1>2
  <2> QED
    BY <1>1, <1>2, <2>1 DEF IInv, TypeOK, Recovering
<1>4. CallsOK'
  BY <1>1, CallsFrame DEF IInv, Committing
<1>5. PinsBalanced' /\ CleanOK' /\ HeadersDistinct'
  BY <1>1, <1>2 DEF IInv, DiskOK, PinsBalanced, CleanOK, HeadersDistinct, Recovering
<1>6. PhaseOK'
  BY <1>1, <1>2 DEF IInv, DiskOK, PhaseOK
<1>7. \A i \in 1 .. tail : home'[lh[i]] = logblk[i]
  <2>1. \A i \in 1 .. tail - 1 : home[lh[i]] = logblk[i] /\ lh[i] # a
    BY <1>1, <1>2 DEF IInv, DiskOK, CopiedOK, HeadersDistinct, Distinct
  <2> QED
    BY <1>1, <1>2, <2>1
<1>8. CopiedOK'
  BY <1>1, <1>2, <1>7 DEF CopiedOK
<1> QED
  BY <1>3, <1>4, <1>5, <1>6, <1>8 DEF IInv, DiskOK

\* The write_head() of recovery forgets blocks that are all installed.
LEMMA ClearStep == ASSUME IInv, clear PROVE IInv'
<1>1. /\ UNCHANGED <<outstanding, committing, logblk, home, cache, pins, pc, wrote, tail>>
      /\ phase = "clear" /\ phase' = "running" /\ lh' = <<>> /\ head' = <<>>
  BY DEF clear
<1>2. TypeOK'
  <2>1. lh' \in Seq(Block) /\ Len(lh') <= nlog - 1
    BY <1>1, LogAssumption
  <2> QED
    BY <1>1, <2>1 DEF IInv, TypeOK
<1>3. CallsOK'
  BY <1>1 DEF IInv, CallsOK, Active, Committing
<1>4. Waiting' = {}
  BY <1>1 DEF Waiting
<1> QED
  BY <1>1, <1>2, <1>3, <1>4 DEF IInv, DiskOK, PinsBalanced, CleanOK, HeadersDistinct, Distinct,
                                PhaseOK, CopiedOK, Recovering

\* A buffer that can be recycled holds what the disk holds.
LEMMA RecycleStep == ASSUME IInv, NEW b \in Block, recycle(b) PROVE IInv' /\ cache' = cache
<1>1. /\ UNCHANGED <<outstanding, committing, lh, head, logblk, home, pins, pc, wrote, phase, tail>>
      /\ cache' = [cache EXCEPT ![b] = home[b]]
  BY DEF recycle, log, disk
<1>2. phase \notin Recovering /\ b \notin Waiting
  BY DEF recycle, IInv, DiskOK, PinsBalanced
<1>3. cache' = cache
  BY <1>1, <1>2 DEF IInv, TypeOK, DiskOK, CleanOK
<1>4. TypeOK'
  BY <1>1, <1>3 DEF IInv, TypeOK
<1>5. CallsOK'
  BY <1>1 DEF IInv, CallsOK, Active
<1>6. DiskOK'
  BY <1>1, <1>3, DiskFrame DEF IInv
<1> QED
  BY <1>3, <1>4, <1>5, <1>6 DEF IInv

\* A crash leaves the disk, on which the header names every block once.
LEMMA CrashStep == ASSUME IInv, crash PROVE IInv'
<1>1. /\ UNCHANGED <<head, logblk, home>>
      /\ outstanding' = 0 /\ committing' = FALSE /\ lh' = <<>>
      /\ pins' = [b \in Block |-> 0] /\ pc' = [p \in Proc |-> "idle"]
      /\ wrote' = [p \in Proc |-> {}] /\ phase' = "read_head" /\ tail' = 1 /\ cache' = home
  BY DEF crash, disk
<1>2. TypeOK'
  <2>1. lh' \in Seq(Block) /\ Len(lh') <= nlog - 1
    BY <1>1, LogAssumption
  <2>2. wrote' \in [Proc -> SUBSET Block] /\ pc' \in [Proc -> PC] /\ pins' \in [Block -> Int]
    BY <1>1 DEF PC
  <2>3. committing' \in BOOLEAN /\ phase' \in Recovering
    BY ZenonT(60), <1>1 DEF Recovering
  <2> QED
    BY <1>1, <2>1, <2>2, <2>3 DEF IInv, TypeOK, PC
<1>3. CallsOK'
  <2>1. Active' = {} /\ Cardinality(Active') = 0
    BY ZenonT(60), <1>1, FS_EmptySet DEF Active
  <2> QED
    BY <1>1, <2>1 DEF CallsOK, Committing
<1>4. DiskOK'
  BY <1>1 DEF IInv, DiskOK, PinsBalanced, CleanOK, HeadersDistinct, Distinct, PhaseOK, CopiedOK,
              Recovering
<1> QED
  BY <1>2, <1>3, <1>4 DEF IInv

\* Every step of the log preserves the invariant.
LEMMA NextIInv == IInv /\ [Next]_vars => IInv'
<1> SUFFICES ASSUME IInv, [Next]_vars PROVE IInv'
  OBVIOUS
<1>1. CASE UNCHANGED vars
  <2>1. /\ UNCHANGED <<lh, head, logblk, home, cache, pins, phase, tail>>
        /\ UNCHANGED <<outstanding, committing, pc, wrote>>
    BY <1>1 DEF vars, log, disk
  <2>2. TypeOK' /\ CallsOK'
    BY <2>1 DEF IInv, TypeOK, CallsOK, Active
  <2> QED
    BY <2>1, <2>2, DiskFrame DEF IInv
<1>2. CASE Next
  BY <1>2, BeginOpStep, LogWriteStep, EndOpStep, EndCommitStep, KillStep, WriteLogStep,
     WriteHeadStep, InstallStep, EraseStep, ReadHeadStep, RecoverStep, ClearStep, RecycleStep,
     CrashStep DEF Next
<1> QED
  BY <1>1, <1>2

\* The invariant holds in every reachable state.
LEMMA Invariance == Spec => []IInv
  BY InitIInv, NextIInv, PTL DEF Spec

-------------------------------------------------------------------------------
(* The log implements the atomic disk.                                      *)

\* What a restart shows depends on the disk only.
LEMMA DurableFrame == ASSUME UNCHANGED <<head, logblk, home>> PROVE Durable' = Durable
  BY DEF Durable

\* With an empty header a restart shows the home blocks, before a step and after.
LEMMA DurableHome ==
  /\ home \in [Block -> Val] /\ head = <<>> => Durable = home
  /\ home' \in [Block -> Val] /\ head' = <<>> => Durable' = home'
<1>1. LoggedIn(<<>>) = {}
  BY DEF LoggedIn
<1> QED
  BY <1>1 DEF Durable

\* Once every logged block is at home a restart shows the home blocks.
LEMMA DurableInstalled ==
  ASSUME home \in [Block -> Val], \A i \in 1 .. Len(head) : home[head[i]] = logblk[i]
  PROVE  Durable = home
<1>1. \A b \in LoggedIn(head) : logblk[IndexIn(head, b)] = home[b]
  BY IndexFound
<1> QED
  BY <1>1 DEF Durable

\* install_trans() changes home blocks only where the header covers them.
LEMMA DurableInstalling ==
  ASSUME NEW i \in 1 .. Len(head), NEW v, UNCHANGED <<head, logblk>>,
         home \in [Block -> Val], home' = [home EXCEPT ![head[i]] = v]
  PROVE  Durable' = Durable
<1>1. head[i] \in LoggedIn(head)
  BY DEF LoggedIn
<1>2. \A b \in Block \ LoggedIn(head) : home'[b] = home[b]
  BY <1>1
<1> QED
  BY <1>2 DEF Durable

\* The initial states of the log are initial states of the atomic disk.
LEMMA RefinesInit == Init => AD!Init
<1> SUFFICES ASSUME Init PROVE AD!Init
  OBVIOUS
<1>1. Durable = home /\ home \in [Block -> Val]
  BY DurableHome DEF Init
<1>2. phase \in Recovering /\ Active = {}
  BY DEF Init, Recovering, Active
<1> QED
  BY <1>1, <1>2 DEF AD!Init, Volatile

\* A step that changes neither the disk nor the cache, and does not leave or
\* enter recovery, changes the atomic disk in its set of active calls only.
LEMMA SameImage ==
  ASSUME UNCHANGED <<head, logblk, home, cache>>,
         phase' \in Recovering <=> phase \in Recovering
  PROVE  UNCHANGED <<Durable, Volatile, phase \notin Recovering>>
<1>1. Durable' = Durable
  BY DurableFrame
<1> QED
  BY <1>1 DEF Volatile, Recovering

\* Every step of the log is a step of the atomic disk or a stutter.
LEMMA RefinesNext == IInv /\ [Next]_vars => [AD!Next]_(AD!vars)
<1> SUFFICES ASSUME IInv, [Next]_vars PROVE [AD!Next]_(AD!vars)
  OBVIOUS
<1>1. ASSUME NEW p \in Proc, begin_op(p) PROVE AD!Begin(p) \/ UNCHANGED AD!vars
  <2>1. UNCHANGED <<Durable, Volatile, phase \notin Recovering>> /\ phase \notin Recovering
    BY <1>1, SameImage DEF begin_op, disk
  <2>2. pc \in [Proc -> PC]
    BY DEF IInv, TypeOK, PC
  <2>3. CASE pc' = [pc EXCEPT ![p] = "asleep"]
    <3>1. Active' = Active
      BY <1>1, <2>2, <2>3 DEF begin_op, Active
    <3> QED
      BY <2>1, <3>1 DEF AD!vars
  <2>4. CASE pc' = [pc EXCEPT ![p] = "op"]
    <3>1. Active' = Active \cup {p} /\ p \notin Active
      BY <1>1, <2>2, <2>4 DEF begin_op, Active
    <3> QED
      BY <2>1, <3>1 DEF AD!Begin
  <2> QED
    BY <1>1, <2>3, <2>4 DEF begin_op
<1>2. ASSUME NEW p \in Proc, NEW b \in Block, NEW v \in Val, log_write(p, b, v)
      PROVE  AD!Write(p, b, v) \/ UNCHANGED AD!vars
  <2>1. UNCHANGED <<head, logblk, home, phase>>
    BY <1>2 DEF log_write, disk
  <2>2. pc \in [Proc -> PC] /\ (pc' = [pc EXCEPT ![p] = "panic"] \/ pc' = pc)
    BY <1>2 DEF IInv, TypeOK, PC, log_write
  <2>3. Active' = Active /\ p \in Active
    BY <1>2, <2>2 DEF Active, PC, log_write
  <2>4. phase = "running" /\ phase' \notin Recovering /\ phase \notin Recovering
    BY <2>1, <2>3 DEF IInv, CallsOK, Recovering
  <2>5. Durable' = Durable /\ Volatile = cache /\ Volatile' = cache'
    BY <2>1, <2>4, DurableFrame DEF Volatile
  <2>6. CASE cache' = cache
    BY <2>3, <2>4, <2>5, <2>6 DEF AD!vars
  <2>7. CASE cache' = [cache EXCEPT ![b] = v]
    BY <2>3, <2>4, <2>5, <2>7 DEF AD!Write
  <2> QED
    BY <1>2, <2>6, <2>7 DEF log_write
<1>3. ASSUME NEW p \in Proc, end_op(p) PROVE AD!End(p)
  <2>1. p \in Active /\ pc \in [Proc -> PC]
    BY <1>3 DEF Active, end_op, IInv, TypeOK, PC
  <2>2. phase = "running" /\ ~committing
    BY <2>1 DEF IInv, CallsOK, Committing
  <2>3. /\ UNCHANGED <<head, logblk, home, cache>>
        /\ phase' \notin Recovering /\ phase \notin Recovering
    BY <1>3, <2>2 DEF end_op, disk, CommitEntry, Recovering
  <2>4. pc' = [pc EXCEPT ![p] = "commit"] \/ pc' = [wakeup EXCEPT ![p] = "idle"]
    BY <1>3, <2>2 DEF end_op
  <2>5. Active' = Active \ {p}
    BY ZenonT(60), <2>1, <2>4 DEF Active, wakeup
  <2> QED
    BY <2>1, <2>3, <2>5, SameImage DEF AD!End
<1>4. ASSUME NEW p \in Proc, end_commit(p) PROVE UNCHANGED AD!vars
  <2>1. /\ UNCHANGED <<head, logblk, home, cache>>
        /\ phase' \notin Recovering /\ phase \notin Recovering
    BY <1>4 DEF end_commit, disk, Recovering
  <2>2. Active' = Active
    BY <1>4 DEF end_commit, Active, wakeup, IInv, TypeOK
  <2> QED
    BY <2>1, <2>2, SameImage DEF AD!vars
<1>5. ASSUME NEW p \in Proc, kill(p) PROVE UNCHANGED AD!vars
  <2>1. UNCHANGED <<head, logblk, home, cache, phase>>
    BY <1>5 DEF kill, disk
  <2>2. Active' = Active
    BY <1>5 DEF kill, Active, IInv, TypeOK
  <2> QED
    BY <2>1, <2>2, SameImage DEF AD!vars
<1>6. CASE write_log
  <2>1. /\ UNCHANGED <<head, home, cache, pc>>
        /\ phase = "write_log" /\ phase' \in {"write_log", "write_head"}
    BY <1>6 DEF write_log, Loop
  <2>2. Durable = home /\ Durable' = home'
    BY <2>1, DurableHome DEF IInv, TypeOK, DiskOK, PhaseOK
  <2>3. /\ Volatile = cache /\ Volatile' = cache'
        /\ phase \notin Recovering /\ phase' \notin Recovering
    BY <2>1 DEF Volatile, Recovering
  <2> QED
    BY <2>1, <2>2, <2>3 DEF AD!vars, Active
<1>7. CASE write_head
  <2>1. /\ UNCHANGED <<logblk, home, cache, pc>> /\ head' = lh
        /\ phase = "write_head" /\ phase' = "install"
    BY <1>7 DEF write_head
  <2>2. Active = {} /\ Active' = {}
    BY <2>1 DEF IInv, CallsOK, Active
  <2>3. /\ Volatile = cache /\ Volatile' = cache'
        /\ phase \notin Recovering /\ phase' \notin Recovering
    BY <2>1 DEF Volatile, Recovering
  <2>4. Waiting = LoggedIn(lh)
    BY <2>1 DEF Waiting, LoggedIn
  <2>5. \A b \in LoggedIn(lh) : logblk[IndexIn(lh, b)] = cache[b]
    BY <2>1, IndexFound DEF IInv, DiskOK, CopiedOK
  <2>6. \A b \in Block \ LoggedIn(lh) : home[b] = cache[b]
    BY <2>3, <2>4 DEF IInv, DiskOK, CleanOK
  <2>7. Durable' = [b \in Block |-> IF b \in LoggedIn(lh) THEN logblk[IndexIn(lh, b)] ELSE home[b]]
    BY <2>1 DEF Durable
  <2>8. Durable' = cache
    BY <2>5, <2>6, <2>7 DEF IInv, TypeOK
  <2>9. AD!Commit
    BY <2>1, <2>2, <2>3, <2>8 DEF AD!Commit
  <2> QED
    BY <2>9 DEF AD!Next
<1>8. CASE install
  <2>1. /\ UNCHANGED <<head, logblk, pc>>
        /\ phase = "install" /\ phase' \in {"install", "erase"}
        /\ home' = [home EXCEPT ![lh[tail]] = logblk[tail]]
        /\ cache' = [cache EXCEPT ![lh[tail]] = logblk[tail]]
    BY <1>8 DEF install, install_trans, Loop
  <2>2. /\ lh = head /\ tail \in 1 .. Len(head) /\ logblk[tail] = cache[lh[tail]]
        /\ home \in [Block -> Val] /\ cache \in [Block -> Val]
    BY <2>1 DEF IInv, DiskOK, PhaseOK, CopiedOK, TypeOK
  <2>3. Durable' = Durable
    BY ZenonT(60), <2>1, <2>2, DurableInstalling
  <2>4. cache' = cache
    BY <2>1, <2>2
  <2>5. /\ Volatile = cache /\ Volatile' = cache'
        /\ phase \notin Recovering /\ phase' \notin Recovering
    BY <2>1 DEF Volatile, Recovering
  <2> QED
    BY <2>1, <2>3, <2>4, <2>5 DEF AD!vars, Active
<1>9. CASE erase
  <2>1. /\ UNCHANGED <<home, cache, pc>> /\ head' = <<>>
        /\ phase = "erase" /\ phase' = "finish"
    BY <1>9 DEF erase
  <2>2. /\ Volatile = cache /\ Volatile' = cache'
        /\ phase \notin Recovering /\ phase' \notin Recovering
    BY <2>1 DEF Volatile, Recovering
  <2>3. \A b \in Block : cache[b] = home[b]
    BY <2>1, <2>2 DEF IInv, DiskOK, CleanOK, Waiting
  <2>4. \A i \in 1 .. Len(head) : home[head[i]] = logblk[i]
    BY <2>1, <2>3 DEF IInv, DiskOK, PhaseOK, CopiedOK, TypeOK
  <2>5. Durable = home /\ Durable' = home'
    BY <2>1, <2>4, DurableInstalled, DurableHome DEF IInv, TypeOK
  <2> QED
    BY <2>1, <2>2, <2>5 DEF AD!vars, Active
<1>10. CASE read_head
  <2>1. /\ UNCHANGED <<head, logblk, home, cache, pc>>
        /\ phase \in Recovering /\ phase' \in Recovering
    BY <1>10 DEF read_head, disk, Recovering
  <2> QED
    BY <2>1, SameImage DEF AD!vars, Active
<1>11. CASE recover
  <2>1. /\ UNCHANGED <<head, logblk, pc>>
        /\ phase = "recover" /\ phase' \in {"recover", "clear"}
        /\ home' = [home EXCEPT ![lh[tail]] = logblk[tail]]
    BY <1>11 DEF recover, install_trans, Loop
  <2>2. lh = head /\ tail \in 1 .. Len(head) /\ home \in [Block -> Val]
    BY <2>1 DEF IInv, DiskOK, PhaseOK, TypeOK
  <2>3. Durable' = Durable
    BY ZenonT(60), <2>1, <2>2, DurableInstalling
  <2>4. Volatile = Durable /\ Volatile' = Durable' /\ phase \in Recovering /\ phase' \in Recovering
    BY <2>1 DEF Volatile, Recovering
  <2> QED
    BY <2>1, <2>3, <2>4 DEF AD!vars, Active
<1>12. CASE clear
  <2>1. /\ UNCHANGED <<home, cache, pc>> /\ head' = <<>>
        /\ phase = "clear" /\ phase' = "running"
    BY <1>12 DEF clear
  <2>2. \A i \in 1 .. Len(head) : home[head[i]] = logblk[i]
    BY <2>1 DEF IInv, DiskOK, PhaseOK, CopiedOK
  <2>3. Durable = home /\ Durable' = home' /\ cache = home
    BY <2>1, <2>2, DurableInstalled, DurableHome DEF IInv, TypeOK, DiskOK, CleanOK, Recovering
  <2>4. Volatile = Durable /\ Volatile' = cache' /\ phase' \notin Recovering
    BY <2>1 DEF Volatile, Recovering
  <2>5. AD!Recover
    BY <2>1, <2>3, <2>4 DEF AD!Recover, Active
  <2> QED
    BY <2>5 DEF AD!Next
<1>13. ASSUME NEW b \in Block, recycle(b) PROVE UNCHANGED AD!vars
  <2>1. UNCHANGED <<head, logblk, home, cache, pc, phase>>
    BY ZenonT(60), <1>13, RecycleStep DEF recycle, disk
  <2>2. UNCHANGED <<Durable, Volatile, phase \notin Recovering>>
    BY <2>1, SameImage
  <2> QED
    BY <2>1, <2>2 DEF AD!vars, Active
<1>14. CASE crash
  <2>1. Durable' = Durable /\ Active' = {}
    BY <1>14, DurableFrame DEF crash, disk, Active
  <2>2. Volatile' = Durable' /\ phase' \in Recovering
    BY <1>14 DEF crash, Volatile, Recovering
  <2>3. AD!Crash
    BY <2>1, <2>2 DEF AD!Crash
  <2> QED
    BY <2>3 DEF AD!Next
<1>15. CASE UNCHANGED vars
  <2>1. UNCHANGED <<head, logblk, home, cache, pc, phase>>
    BY <1>15 DEF vars, disk
  <2> QED
    BY <2>1, SameImage DEF AD!vars, Active
<1> QED
  BY <1>1, <1>2, <1>3, <1>4, <1>5, <1>6, <1>7, <1>8, <1>9, <1>10, <1>11, <1>12, <1>13, <1>14,
     <1>15 DEF Next, AD!Next

-------------------------------------------------------------------------------
(* The theorems.                                                            *)

\* The variables of log.c keep their types, for every number of processes and
\* blocks: no header, in memory or on disk, outgrows the log.
THEOREM TypeCorrect == Spec => []TypeOK
<1>1. IInv => TypeOK
  BY DEF IInv
<1> QED
  BY <1>1, Invariance, PTL

\* bpin() in log_write() and bunpin() in install_trans() balance: a block is
\* pinned once while it waits to be installed and not at all otherwise.
THEOREM PinsAreBalanced == Spec => []PinsBalanced
<1>1. IInv => PinsBalanced
  BY DEF IInv, DiskOK
<1> QED
  BY <1>1, Invariance, PTL

\* log.c implements an atomic disk, whatever calls interleave and wherever
\* crashes fall, in commit() or in recover_from_log().
THEOREM LogIsAtomic == Spec => AtomicCommit
<1>1. Spec => AD!Init /\ [][AD!Next]_(AD!vars)
  BY RefinesInit, RefinesNext, Invariance, PTL DEF Spec
<1> QED
  BY <1>1 DEF AtomicCommit, AD!Spec
===============================================================================

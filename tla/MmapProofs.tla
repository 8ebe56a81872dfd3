------------------------------ MODULE MmapProofs ------------------------------
(***************************************************************************)
(* Proofs about module Mmap, for any number of processes, files, entries    *)
(* and pages: every mapping has a reference to its file, and no page lies   *)
(* above the size of its process.                                           *)
(***************************************************************************)
EXTENDS Mmap, FiniteSetTheorems, NaturalsInduction, WellFoundedInduction, TLAPS

\* The provers of a leaf, in turn, and their time.
USE SMTT(60), ZenonT(60)

-------------------------------------------------------------------------------
(* The inductive invariant.                                                 *)

\* An entry of vma_table: it has a file once it was mapped, and its range ends
\* below the bound on p->sz, whatever munmap() made of addr and len.
Entry ==
  {v \in [mapped : BOOLEAN, addr : 0 .. MaxPage, len : Int, write : BOOLEAN,
          flags : {"none", "SHARED", "PRIVATE"}, f : File \cup {NoFile}] :
     /\ v.mapped => v.f \in File
     /\ v.addr + v.len \in 0 .. MaxPage}

\* The state of a process; its loop in exit() starts at the first entry.
Procs ==
  /\ st \in [Proc -> {"UNUSED", "run", "exit", "ZOMBIE", "panic"}]
  /\ k \in [Proc -> 0 .. MAXVMA + 1]
  /\ \A p \in Proc : st[p] = "exit" => k[p] # 0

\* What a process maps and what refers to a file.
Tables ==
  /\ sz \in [Proc -> 0 .. MaxPage]
  /\ vma \in [Proc -> [Vma -> Entry]]
  /\ ofile \in [Proc -> SUBSET File]
  /\ ref \in [File -> Int]

\* Pages in memory and in the files.
Pages ==
  /\ mem \in [Proc -> [Page -> Val \cup {Absent}]]
  /\ wr \in [Proc -> SUBSET Page]
  /\ file \in [File -> [Page -> Val]]
  /\ fsize \in [File -> 0 .. MaxPage]
  /\ ilocked \in SUBSET File

\* The descriptors and the mapped entries of a file.
Opens(f) == {p \in Proc : f \in ofile[p]}
Maps(f)  == {pi \in Proc \X Vma : vma[pi[1]][pi[2]].mapped /\ vma[pi[1]][pi[2]].f = f}

Counted == \A f \in File : ref[f] >= Cardinality(Opens(f)) + Cardinality(Maps(f))

IInv == Procs /\ Tables /\ Pages /\ Counted /\ PagesBelowSz

-------------------------------------------------------------------------------
(* Sets.                                                                    *)

\* A non-empty set of entries has a first one, which the loops stop at.
LEMMA MinInSet ==
  ASSUME NEW S, S \subseteq Vma, S # {}
  PROVE  Min(S) \in S
<1>1. S \subseteq Nat
  BY MmapAssumption DEF Vma
<1>2. PICK x \in S : \A y \in S : ~ (<<y, x>> \in OpToRel(<, Nat))
  BY <1>1, NatLessThanWellFounded, WFMin, ZenonT(60)
<1>3. \A y \in S : ~ (y < x)
  BY ZenonT(60), <1>1, <1>2 DEF OpToRel
<1>4. \A y \in S : x <= y
  BY <1>1, <1>3
<1> QED
  BY <1>4, ZenonT(60) DEF Min

\* So does writei() find the larger of two file sizes.
LEMMA MaxInSet ==
  ASSUME NEW S, S \subseteq 0 .. MaxPage, S # {}
  PROVE  Max(S) \in S
<1> DEFINE T == {MaxPage - x : x \in S}
<1>1. T \subseteq Nat /\ T # {}
  <2>1. \A x \in S : MaxPage - x \in Nat
    BY MmapAssumption
  <2> QED
    BY ZenonT(60), <2>1
<1>2. PICK t \in T : \A y \in T : ~ (<<y, t>> \in OpToRel(<, Nat))
  <2> HIDE DEF T
  <2> QED
    BY <1>1, NatLessThanWellFounded, WFMin, ZenonT(60)
<1>3. \A y \in T : ~ (y < t)
  <2> HIDE DEF T
  <2> QED
    BY ZenonT(60), <1>1, <1>2 DEF OpToRel
<1>4. PICK x \in S : t = MaxPage - x
  OBVIOUS
<1>5. \A y \in S : x >= y
  <2> SUFFICES ASSUME NEW y \in S PROVE x >= y
    OBVIOUS
  <2>1. ~ (MaxPage - y < MaxPage - x)
    BY <1>3, <1>4
  <2>2. x \in Int /\ y \in Int
    OBVIOUS
  <2> QED
    BY <2>1, <2>2, MmapAssumption
<1> QED
  BY <1>5, ZenonT(60) DEF Max

\* vma_table is finite.
LEMMA VmaFinite == IsFiniteSet(Vma)
  BY FS_Interval, MmapAssumption DEF Vma

\* The descriptors and the entries of a file are finitely many.
LEMMA CountedSets ==
  \A f : /\ IsFiniteSet(Opens(f)) /\ Cardinality(Opens(f)) \in Nat
         /\ IsFiniteSet(Maps(f)) /\ Cardinality(Maps(f)) \in Nat
<1> SUFFICES ASSUME NEW f
             PROVE  /\ IsFiniteSet(Opens(f)) /\ Cardinality(Opens(f)) \in Nat
                    /\ IsFiniteSet(Maps(f)) /\ Cardinality(Maps(f)) \in Nat
  OBVIOUS
<1>2. IsFiniteSet(Proc \X Vma)
  BY VmaFinite, FS_Product, MmapAssumption
<1>3. Opens(f) \subseteq Proc /\ Maps(f) \subseteq Proc \X Vma
  BY DEF Opens, Maps
<1>4. IsFiniteSet(Opens(f)) /\ IsFiniteSet(Maps(f))
  BY <1>2, <1>3, FS_Subset, MmapAssumption
<1> QED
  BY <1>4, FS_CardinalityType

\* The set of files a process has open, or of entries, that does not grow.
LEMMA CardShrinks ==
  ASSUME NEW S, NEW T, IsFiniteSet(S), T \subseteq S
  PROVE  IsFiniteSet(T) /\ Cardinality(T) <= Cardinality(S) /\ Cardinality(T) \in Nat /\ Cardinality(S) \in Nat
  BY FS_Subset, FS_CardinalityType

\* Adding an element adds at most one.
LEMMA CardAdds ==
  ASSUME NEW S, NEW T, NEW x, IsFiniteSet(S), T \subseteq S \cup {x}
  PROVE  IsFiniteSet(T) /\ Cardinality(T) <= Cardinality(S) + 1
<1>1. Cardinality(S) \in Nat
  BY FS_CardinalityType
<1>2. /\ IsFiniteSet(S \cup {x})
      /\ \/ Cardinality(S \cup {x}) = Cardinality(S)
         \/ Cardinality(S \cup {x}) = Cardinality(S) + 1
  BY FS_AddElement
<1>3. IsFiniteSet(T) /\ Cardinality(T) <= Cardinality(S \cup {x})
  BY <1>2, FS_Subset
<1>4. Cardinality(T) \in Nat
  BY <1>3, FS_CardinalityType
<1> QED
  BY <1>1, <1>2, <1>3, <1>4

\* Taking an element away takes one.
LEMMA CardDrops ==
  ASSUME NEW S, NEW T, NEW x \in S, IsFiniteSet(S), T \subseteq S \ {x}
  PROVE  Cardinality(T) <= Cardinality(S) - 1
<1>1. IsFiniteSet(S \ {x}) /\ Cardinality(S \ {x}) = Cardinality(S) - 1
  BY FS_RemoveElement
<1> QED
  BY <1>1, FS_Subset, FS_CardinalityType

\* A machine that starts satisfies the invariant.
LEMMA InitIInv == Init => IInv
<1> SUFFICES ASSUME Init PROVE IInv
  OBVIOUS
<1>1. PICK first \in Proc :
        /\ st = [p \in Proc |-> IF p = first THEN "run" ELSE "UNUSED"]
        /\ sz = [p \in Proc |-> 0]
        /\ vma = [p \in Proc |-> [i \in Vma |-> Unmapped]]
        /\ ofile = [p \in Proc |-> IF p = first THEN File ELSE {}]
        /\ mem = [p \in Proc |-> [x \in Page |-> Absent]]
        /\ wr = [p \in Proc |-> {}]
        /\ ref = [f \in File |-> 1]
        /\ file \in [File -> {[o \in Page |-> IF o < FileSize THEN x ELSE 0] : x \in Val}]
        /\ fsize = [f \in File |-> FileSize]
        /\ ilocked = {}
        /\ k = [p \in Proc |-> 0]
  BY DEF Init
<1>2. Unmapped \in Entry
  BY MmapAssumption DEF Unmapped, Entry
<1>3. Procs
  BY <1>1, MmapAssumption DEF Procs
<1>4. Tables
  BY <1>1, <1>2, MmapAssumption DEF Tables
<1>5. Pages
  <2>1. \A f \in File : file[f] \in [Page -> Val]
    BY <1>1, MmapAssumption
  <2>2. file \in [File -> [Page -> Val]]
    BY <1>1, <2>1
  <2> QED
    BY <1>1, <2>2, MmapAssumption DEF Pages
<1>6. ASSUME NEW f \in File
      PROVE  ref[f] >= Cardinality(Opens(f)) + Cardinality(Maps(f))
  <2>1. Opens(f) = {first}
    BY <1>1 DEF Opens
  <2>2. Maps(f) = {}
    BY <1>1 DEF Maps, Unmapped
  <2>3. Cardinality({first}) = 1 /\ Cardinality(Maps(f)) = 0
    BY <2>2, FS_Singleton, FS_EmptySet
  <2> QED
    BY <1>1, <2>1, <2>3
<1>7. PagesBelowSz
  BY <1>1 DEF PagesBelowSz
<1> QED
  BY <1>3, <1>4, <1>5, <1>6, <1>7 DEF IInv, Counted

-------------------------------------------------------------------------------
(* Counting references.                                                     *)

\* Counted holds after a step in which no file gets more descriptors and entries
\* than references.
LEMMA CountedStep ==
  ASSUME Tables, Counted, ref' \in [File -> Int],
         \A f \in File :
           ref'[f] - ref[f] >= Cardinality(Opens(f)') - Cardinality(Opens(f))
                               + Cardinality(Maps(f)') - Cardinality(Maps(f)),
         \A f \in File : Cardinality(Opens(f)') \in Int /\ Cardinality(Maps(f)') \in Int
  PROVE  Counted'
<1> SUFFICES ASSUME NEW f \in File
             PROVE  ref'[f] >= Cardinality(Opens(f)') + Cardinality(Maps(f)')
  BY DEF Counted
<1>1. ref[f] \in Int /\ ref'[f] \in Int
  BY DEF Tables
<1>2. Cardinality(Opens(f)) \in Int /\ Cardinality(Maps(f)) \in Int
  BY CountedSets
<1>3. ref[f] >= Cardinality(Opens(f)) + Cardinality(Maps(f))
  BY DEF Counted
<1> QED
  BY <1>1, <1>2, <1>3

\* Steps that change neither descriptors, entries nor references.
LEMMA CountedSame ==
  ASSUME Counted, UNCHANGED <<vma, ofile, ref>>
  PROVE  Counted'
  BY DEF Counted, Opens, Maps

\* mmap() adds an entry with its reference.
LEMMA AddEntry ==
  ASSUME Tables, Counted, NEW p \in Proc, NEW i \in Vma, NEW e \in Entry, e.mapped,
         vma' = [vma EXCEPT ![p][i] = e],
         ref' = [ref EXCEPT ![e.f] = @ + 1], UNCHANGED ofile
  PROVE  vma' \in [Proc -> [Vma -> Entry]] /\ ref' \in [File -> Int] /\ Counted'
<1>1. vma' \in [Proc -> [Vma -> Entry]]
  BY DEF Tables
<1>2. e.f \in File
  BY DEF Entry
<1>3. ref' \in [File -> Int]
  BY <1>2 DEF Tables
<1>4. ASSUME NEW f \in File
      PROVE  /\ Opens(f)' = Opens(f)
             /\ IF f = e.f THEN Maps(f)' \subseteq Maps(f) \cup {<<p, i>>}
                           ELSE Maps(f)' \subseteq Maps(f)
  <2>1. Opens(f)' = Opens(f)
    BY DEF Opens
  <2>2. ASSUME NEW q \in Proc, NEW j \in Vma
        PROVE  vma'[q][j] = IF q = p /\ j = i THEN e ELSE vma[q][j]
    BY DEF Tables
  <2>3. ASSUME NEW pi \in Maps(f)', pi \notin Maps(f)
        PROVE  pi = <<p, i>> /\ f = e.f
    <3>1. PICK q \in Proc, j \in Vma : pi = <<q, j>>
      BY <2>3 DEF Maps
    <3>2. vma'[q][j].mapped /\ vma'[q][j].f = f
      BY <2>3, <3>1 DEF Maps
    <3>3. ~(vma[q][j].mapped /\ vma[q][j].f = f)
      BY <2>3, <3>1 DEF Maps
    <3> QED
      BY <2>2, <3>1, <3>2, <3>3
  <2> QED
    BY <2>1, <2>3
<1>5. ASSUME NEW f \in File
      PROVE  /\ Cardinality(Opens(f)') \in Int /\ Cardinality(Maps(f)') \in Int
             /\ ref'[f] - ref[f] >= Cardinality(Opens(f)') - Cardinality(Opens(f))
                                    + Cardinality(Maps(f)') - Cardinality(Maps(f))
  <2>1. /\ IsFiniteSet(Opens(f)) /\ Cardinality(Opens(f)) \in Nat
        /\ IsFiniteSet(Maps(f)) /\ Cardinality(Maps(f)) \in Nat
    BY CountedSets
  <2>2. IsFiniteSet(Maps(f)') /\ Cardinality(Maps(f)') <= Cardinality(Maps(f)) + (IF f = e.f THEN 1 ELSE 0)
    <3>1. CASE f = e.f
      BY ZenonT(60), <1>4, <2>1, <3>1, CardAdds
    <3>2. CASE f # e.f
      BY <1>4, <2>1, <3>2, CardShrinks
    <3> QED
      BY <3>1, <3>2
  <2>3. Cardinality(Maps(f)') \in Nat
    BY <2>2, FS_CardinalityType
  <2>4. ref[f] \in Int /\ ref'[f] = ref[f] + (IF f = e.f THEN 1 ELSE 0)
    BY <1>2 DEF Tables
  <2> QED
    BY <1>4, <2>1, <2>2, <2>3, <2>4
<1>6. Counted'
  BY <1>3, <1>5, CountedStep
<1> QED
  BY <1>1, <1>3, <1>6

\* munmap() changes an entry that keeps its file, and drops the reference of
\* one that it gives up.
LEMMA CutEntry ==
  ASSUME Tables, Counted, NEW p \in Proc, NEW i \in Vma, NEW e \in Entry,
         e.f = vma[p][i].f,
         vma' = [vma EXCEPT ![p][i] = e], UNCHANGED ofile,
         \/ e.mapped = vma[p][i].mapped /\ ref' = ref
         \/ vma[p][i].mapped /\ ~e.mapped /\ ref' = [ref EXCEPT ![e.f] = @ - 1]
  PROVE  vma' \in [Proc -> [Vma -> Entry]] /\ ref' \in [File -> Int] /\ Counted'
<1>1. vma' \in [Proc -> [Vma -> Entry]]
  BY DEF Tables
<1>2. vma[p][i] \in Entry
  BY DEF Tables
<1>3. vma[p][i].mapped => e.f \in File
  BY <1>2 DEF Entry
<1>4. ref' \in [File -> Int]
  BY <1>3 DEF Tables
<1>5. ASSUME NEW q \in Proc, NEW j \in Vma
      PROVE  vma'[q][j] = IF q = p /\ j = i THEN e ELSE vma[q][j]
  BY DEF Tables
<1> DEFINE drop == vma[p][i].mapped /\ ~e.mapped
<1>6. ASSUME NEW f \in File
      PROVE  /\ Opens(f)' = Opens(f)
             /\ Maps(f)' \subseteq Maps(f)
             /\ drop /\ f = e.f => <<p, i>> \in Maps(f) /\ <<p, i>> \notin Maps(f)'
  <2>1. Opens(f)' = Opens(f)
    BY DEF Opens
  <2>2. ASSUME NEW pi \in Maps(f)'
        PROVE  pi \in Maps(f)
    <3>1. PICK q \in Proc, j \in Vma : pi = <<q, j>>
      BY <2>2 DEF Maps
    <3>2. vma'[q][j].mapped /\ vma'[q][j].f = f
      BY <2>2, <3>1 DEF Maps
    <3>3. vma[q][j].mapped /\ vma[q][j].f = f
      BY <1>5, <3>2
    <3> QED
      BY <3>1, <3>3 DEF Maps
  <2>3. ASSUME drop, f = e.f
        PROVE  <<p, i>> \in Maps(f) /\ <<p, i>> \notin Maps(f)'
    BY <1>5, <2>3 DEF Maps
  <2> QED
    BY <2>1, <2>2, <2>3
<1>7. ASSUME NEW f \in File
      PROVE  /\ Cardinality(Opens(f)') \in Int /\ Cardinality(Maps(f)') \in Int
             /\ ref'[f] - ref[f] >= Cardinality(Opens(f)') - Cardinality(Opens(f))
                                    + Cardinality(Maps(f)') - Cardinality(Maps(f))
  <2>1. /\ IsFiniteSet(Opens(f)) /\ Cardinality(Opens(f)) \in Nat
        /\ IsFiniteSet(Maps(f)) /\ Cardinality(Maps(f)) \in Nat
    BY CountedSets
  <2>2. Cardinality(Maps(f)') \in Nat /\ Cardinality(Maps(f)') <= Cardinality(Maps(f))
    BY <1>6, <2>1, CardShrinks
  <2>3. CASE drop /\ f = e.f
    <3>1. Maps(f)' \subseteq Maps(f) \ {<<p, i>>}
      BY <1>6, <2>3
    <3>2. Cardinality(Maps(f)') <= Cardinality(Maps(f)) - 1
      BY <1>6, <2>1, <2>3, <3>1, CardDrops
    <3>3. ref[f] \in Int /\ ref'[f] = ref[f] - 1
      BY ZenonT(60), <2>3 DEF Tables
    <3> QED
      BY <1>6, <2>1, <2>2, <3>2, <3>3
  <2>4. CASE ~(drop /\ f = e.f)
    <3>1. ref[f] \in Int /\ ref'[f] = ref[f]
      BY <2>4 DEF Tables
    <3> QED
      BY <1>6, <2>1, <2>2, <3>1
  <2> QED
    BY <2>3, <2>4
<1>8. Counted'
  BY <1>4, <1>7, CountedStep
<1> QED
  BY <1>1, <1>4, <1>8

\* Closing descriptors drops their references.
LEMMA DropDescriptors ==
  ASSUME Tables, Counted, NEW p \in Proc, NEW D \in SUBSET ofile[p],
         ofile' = [ofile EXCEPT ![p] = @ \ D],
         ref' = [f \in File |-> IF f \in D THEN ref[f] - 1 ELSE ref[f]],
         UNCHANGED vma
  PROVE  ofile' \in [Proc -> SUBSET File] /\ ref' \in [File -> Int] /\ Counted'
<1>1. ofile' \in [Proc -> SUBSET File]
  BY DEF Tables
<1>2. ref' \in [File -> Int]
  BY DEF Tables
<1>3. ASSUME NEW f \in File
      PROVE  /\ Cardinality(Opens(f)') \in Int /\ Cardinality(Maps(f)') \in Int
             /\ ref'[f] - ref[f] >= Cardinality(Opens(f)') - Cardinality(Opens(f))
                                    + Cardinality(Maps(f)') - Cardinality(Maps(f))
  <2>1. /\ IsFiniteSet(Opens(f)) /\ Cardinality(Opens(f)) \in Nat
        /\ IsFiniteSet(Maps(f)) /\ Cardinality(Maps(f)) \in Nat
    BY CountedSets
  <2>2. Maps(f)' = Maps(f)
    BY DEF Maps
  <2>3. Opens(f)' \subseteq Opens(f)
    BY DEF Opens, Tables
  <2>4. Cardinality(Opens(f)') \in Nat /\ Cardinality(Opens(f)') <= Cardinality(Opens(f))
    BY <2>1, <2>3, CardShrinks
  <2>5. CASE f \in D
    <3>1. p \in Opens(f) /\ Opens(f)' \subseteq Opens(f) \ {p}
      BY <2>5 DEF Opens, Tables
    <3>2. Cardinality(Opens(f)') <= Cardinality(Opens(f)) - 1
      BY <2>1, <3>1, CardDrops
    <3>3. ref[f] \in Int /\ ref'[f] = ref[f] - 1
      BY <2>5 DEF Tables
    <3> QED
      BY <2>1, <2>2, <2>4, <3>2, <3>3
  <2>6. CASE f \notin D
    <3>1. ref[f] \in Int /\ ref'[f] = ref[f]
      BY <2>6 DEF Tables
    <3> QED
      BY <2>1, <2>2, <2>4, <3>1
  <2> QED
    BY <2>5, <2>6
<1>4. Counted'
  BY <1>2, <1>3, CountedStep
<1> QED
  BY <1>1, <1>2, <1>4

\* fork() gives the child a reference for each descriptor and each entry.
LEMMA CopyEntries ==
  ASSUME Tables, Counted, NEW p \in Proc, NEW q \in Proc,
         ofile' = [ofile EXCEPT ![q] = ofile[p]],
         vma' = [vma EXCEPT ![q] = [i \in Vma |-> IF vma[p][i].mapped THEN vma[p][i] ELSE @[i]]],
         ref' = [f \in File |-> ref[f] + (IF f \in ofile[p] THEN 1 ELSE 0) + ForkDups(p, f)]
  PROVE  /\ vma' \in [Proc -> [Vma -> Entry]] /\ ofile' \in [Proc -> SUBSET File]
         /\ ref' \in [File -> Int] /\ Counted'
<1> DEFINE S(f) == {i \in Vma : vma[p][i].mapped /\ vma[p][i].f = f}
<1>1. vma' \in [Proc -> [Vma -> Entry]]
  BY DEF Tables
<1>2. ofile' \in [Proc -> SUBSET File]
  BY DEF Tables
<1>3. ASSUME NEW f \in File
      PROVE  IsFiniteSet(S(f)) /\ Cardinality(S(f)) \in Nat /\ ForkDups(p, f) = Cardinality(S(f))
  <2>2. S(f) \subseteq Vma
    OBVIOUS
  <2>3. IsFiniteSet(S(f)) /\ Cardinality(S(f)) \in Nat
    BY <2>2, VmaFinite, CardShrinks
  <2> QED
    BY <2>3 DEF ForkDups
<1>4. ref' \in [File -> Int]
  <2> HIDE DEF S
  <2>1. \A f \in File : ForkDups(p, f) \in Int
    BY <1>3
  <2> QED
    BY <2>1 DEF Tables
<1>5. ASSUME NEW f \in File
      PROVE  Maps(f)' \subseteq Maps(f) \cup ({q} \X S(f))
  <2> SUFFICES ASSUME NEW pi \in Maps(f)', pi \notin Maps(f)
               PROVE  pi \in {q} \X S(f)
    OBVIOUS
  <2>1. PICK r \in Proc, j \in Vma : pi = <<r, j>>
    BY DEF Maps
  <2>2. vma'[r][j].mapped /\ vma'[r][j].f = f
    BY <2>1 DEF Maps
  <2>3. ~(vma[r][j].mapped /\ vma[r][j].f = f)
    BY <2>1 DEF Maps
  <2>4. vma'[r][j] = IF r = q /\ vma[p][j].mapped THEN vma[p][j] ELSE vma[r][j]
    BY DEF Tables
  <2> QED
    BY <2>1, <2>2, <2>3, <2>4
<1>6. ASSUME NEW f \in File
      PROVE  Opens(f)' \subseteq IF f \in ofile[p] THEN Opens(f) \cup {q} ELSE Opens(f)
  BY DEF Opens, Tables
<1>7. ASSUME NEW f \in File
      PROVE  /\ Cardinality(Opens(f)') \in Int /\ Cardinality(Maps(f)') \in Int
             /\ ref'[f] - ref[f] >= Cardinality(Opens(f)') - Cardinality(Opens(f))
                                    + Cardinality(Maps(f)') - Cardinality(Maps(f))
  <2> HIDE DEF S
  <2>1. /\ IsFiniteSet(Opens(f)) /\ Cardinality(Opens(f)) \in Nat
        /\ IsFiniteSet(Maps(f)) /\ Cardinality(Maps(f)) \in Nat
    BY CountedSets
  <2>2. IsFiniteSet({q} \X S(f)) /\ Cardinality({q} \X S(f)) = Cardinality(S(f))
    <3>1. IsFiniteSet({q}) /\ Cardinality({q}) = 1
      BY ZenonT(60), FS_Singleton
    <3>2. IsFiniteSet({q} \X S(f)) /\ Cardinality({q} \X S(f)) = Cardinality({q}) * Cardinality(S(f))
      BY ZenonT(60), <1>3, <3>1, FS_Product
    <3> QED
      BY <1>3, <3>1, <3>2
  <2>3. /\ IsFiniteSet(Maps(f)') /\ Cardinality(Maps(f)') \in Nat
        /\ Cardinality(Maps(f)') <= Cardinality(Maps(f)) + Cardinality(S(f))
    <3> DEFINE U == Maps(f) \cup ({q} \X S(f))
               C == Maps(f) \cap ({q} \X S(f))
    <3>1. IsFiniteSet(U) /\ Cardinality(U) = Cardinality(Maps(f)) + Cardinality(S(f)) - Cardinality(C)
      BY <2>1, <2>2, FS_Union
    <3>2. Cardinality(C) \in Nat
      <4>1. C \subseteq Maps(f)
        OBVIOUS
      <4> QED
        BY <2>1, <4>1, CardShrinks
    <3>3. /\ IsFiniteSet(Maps(f)') /\ Cardinality(Maps(f)') <= Cardinality(U)
          /\ Cardinality(Maps(f)') \in Nat /\ Cardinality(U) \in Nat
      <4>1. Maps(f)' \subseteq U
        BY <1>5
      <4> HIDE DEF U
      <4> QED
        BY <3>1, <4>1, CardShrinks
    <3> HIDE DEF U, C
    <3> QED
      BY <1>3, <2>1, <3>1, <3>2, <3>3
  <2>4. /\ Cardinality(Opens(f)') \in Nat
        /\ Cardinality(Opens(f)') <= Cardinality(Opens(f)) + (IF f \in ofile[p] THEN 1 ELSE 0)
    <3>1. CASE f \in ofile[p]
      <4>1. IsFiniteSet(Opens(f)') /\ Cardinality(Opens(f)') <= Cardinality(Opens(f)) + 1
        BY ZenonT(60), <1>6, <2>1, <3>1, CardAdds
      <4> QED
        BY <3>1, <4>1, FS_CardinalityType
    <3>2. CASE f \notin ofile[p]
      BY <1>6, <2>1, <3>2, CardShrinks
    <3> QED
      BY <3>1, <3>2
  <2>5. ref[f] \in Int /\ ref'[f] = ref[f] + (IF f \in ofile[p] THEN 1 ELSE 0) + Cardinality(S(f))
    BY <1>3 DEF Tables
  <2> QED
    BY <1>3, <2>1, <2>3, <2>4, <2>5
<1>8. Counted'
  BY <1>4, <1>7, CountedStep
<1> QED
  BY <1>1, <1>2, <1>4, <1>8

-------------------------------------------------------------------------------
(* munmap().                                                                *)

\* The loop of munmap() ends at an entry of the table.
LEMMA PvmaInTable ==
  ASSUME NEW p \in Proc, NEW addr, NEW len
  PROVE  pvma(p, addr, len) \in Vma
<1>1. Matching(p, addr, len) \subseteq Vma
  BY DEF Matching
<1>2. CASE Matching(p, addr, len) = {}
  BY <1>2, MmapAssumption DEF pvma, Vma
<1>3. CASE Matching(p, addr, len) # {}
  BY <1>1, <1>3, MinInSet DEF pvma
<1> QED
  BY <1>2, <1>3

\* An entry with another range is an entry of the same file.
Ranged(v, a, n) ==
  [mapped |-> v.mapped, addr |-> a, len |-> n, write |-> v.write, flags |-> v.flags, f |-> v.f]

LEMMA RangeIsEntry ==
  ASSUME NEW v \in Entry, NEW a \in 0 .. MaxPage, NEW n \in Int, a + n \in 0 .. MaxPage
  PROVE  Ranged(v, a, n) \in Entry /\ Ranged(v, a, n).f = v.f /\ Ranged(v, a, n).mapped = v.mapped
  BY DEF Entry, Ranged

\* What an entry holds.
LEMMA EntryFields ==
  ASSUME NEW v \in Entry
  PROVE  /\ v.addr \in 0 .. MaxPage /\ v.len \in Int /\ v.addr + v.len \in 0 .. MaxPage
         /\ v.mapped \in BOOLEAN /\ v.f \in File \cup {NoFile} /\ (v.mapped => v.f \in File)
  BY DEF Entry

\* A shrunk entry is an entry of the same file.
LEMMA ShrinkIsEntry ==
  ASSUME NEW v \in Entry, NEW addr \in 0 .. MaxPage, NEW len \in Int, addr + len \in 0 .. MaxPage
  PROVE  /\ Shrink(v, addr, len) \in Entry
         /\ Shrink(v, addr, len).f = v.f /\ Shrink(v, addr, len).mapped = v.mapped
<1>1. v.addr \in 0 .. MaxPage /\ v.len \in Int /\ v.addr + v.len \in 0 .. MaxPage
  BY EntryFields
<1>2. CASE addr = v.addr
  <2> DEFINE a == v.addr + len
             n == v.len - len
  <2>1. Shrink(v, addr, len) = Ranged(v, a, n)
    BY ZenonT(60), <1>2 DEF Shrink, Ranged, Entry
  <2>2. a \in 0 .. MaxPage /\ n \in Int /\ a + n \in 0 .. MaxPage
    BY <1>1, <1>2, MmapAssumption
  <2> HIDE DEF a, n
  <2> QED
    BY <2>1, <2>2, RangeIsEntry
<1>3. CASE addr # v.addr /\ addr + len = v.addr + v.len
  <2> DEFINE a == v.addr
             n == v.len - len
  <2>1. Shrink(v, addr, len) = Ranged(v, a, n)
    <3>1. Shrink(v, addr, len) = [v EXCEPT !.len = n]
      BY <1>3 DEF Shrink
    <3> QED
      BY <3>1 DEF Ranged, Entry
  <2>2. n \in Int /\ a + n \in 0 .. MaxPage
    <3>1. v.addr + (v.len - len) = addr
      BY <1>1, <1>3
    <3> QED
      BY <1>1, <3>1
  <2>3. a \in 0 .. MaxPage
    BY <1>1
  <2> HIDE DEF a, n
  <2> QED
    BY <2>1, <2>2, <2>3, RangeIsEntry
<1>4. CASE addr # v.addr /\ addr + len # v.addr + v.len
  BY <1>4 DEF Shrink
<1> QED
  BY <1>2, <1>3, <1>4

\* munmap() on its entry: the table, and the reference of an entry it empties.
LEMMA MunmapTables ==
  ASSUME Tables, Counted, NEW p \in Proc, NEW addr \in 0 .. MaxPage, NEW len \in Int,
         addr + len \in 0 .. MaxPage, munmap(p, addr, len), UNCHANGED <<sz, ofile>>
  PROVE  Tables' /\ Counted'
<1> DEFINE i    == pvma(p, addr, len)
           v    == vma[p][i]
           w    == Shrink(v, addr, len)
           gone == w.len = 0 /\ w.mapped
           e    == [w EXCEPT !.mapped = @ /\ ~gone]
<1>1. i \in Vma
  BY PvmaInTable
<1>2. v \in Entry
  BY <1>1 DEF Tables
<1>3. w \in Entry /\ w.f = v.f /\ w.mapped = v.mapped
  <2> HIDE DEF v
  <2> QED
    BY <1>2, ShrinkIsEntry
<1>4. \/ vma' = vma /\ ref' = ref
      \/ vma' = [vma EXCEPT ![p][i] = e] /\ ref' = IF gone THEN [ref EXCEPT ![v.f] = @ - 1] ELSE ref
  BY ZenonT(60) DEF munmap
<1>5. CASE vma' = vma /\ ref' = ref
  BY <1>5, CountedSame DEF Tables
<1>6. CASE vma' = [vma EXCEPT ![p][i] = e]
           /\ ref' = IF gone THEN [ref EXCEPT ![v.f] = @ - 1] ELSE ref
  <2> HIDE DEF i, w
  <2>1. e \in Entry /\ e.f = v.f /\ e.mapped = (v.mapped /\ ~gone)
    BY ZenonT(60), <1>3 DEF Entry
  <2>2. \/ e.mapped = v.mapped /\ ref' = ref
        \/ v.mapped /\ ~e.mapped /\ ref' = [ref EXCEPT ![e.f] = @ - 1]
    <3> HIDE DEF e
    <3>1. CASE gone
      BY ZenonT(60), <1>3, <1>6, <2>1, <3>1
    <3>2. CASE ~gone
      <4>1. v.mapped \in BOOLEAN
        BY <1>2, EntryFields
      <4> HIDE DEF gone, v
      <4> QED
        BY <1>6, <2>1, <3>2, <4>1
    <3> QED
      BY <3>1, <3>2
  <2>3. vma' \in [Proc -> [Vma -> Entry]] /\ ref' \in [File -> Int] /\ Counted'
    <3> HIDE DEF e, gone
    <3> QED
      BY ZenonT(60), <1>1, <1>6, <2>1, <2>2, CutEntry
  <2> QED
    BY <2>3 DEF Tables
<1> HIDE DEF i, v, w, gone, e
<1> QED
  BY <1>4, <1>5, <1>6

\* The pages munmap() writes back are present, and their places in the file are
\* within its bound: the loop stops at the first page where writei() fails.
LEMMA WrittenPagesFit ==
  ASSUME Pages, NEW p \in Proc, NEW v \in Entry, v.f \in File,
         NEW addr \in 0 .. MaxPage, NEW len \in Int, addr + len \in 0 .. MaxPage,
         NEW x \in WrittenPages(p, v, addr, len)
  PROVE  /\ x \in Page /\ mem[p][x] \in Val
         /\ FilePage(v, x) + 1 \in 0 .. MaxPage
<1>1. x \in addr .. addr + len - 1 /\ \A y \in BadPages(p, v, addr, len) : x < y
  BY DEF WrittenPages
<1>2. v.addr \in 0 .. MaxPage
  BY EntryFields
<1>3. x \in Int /\ addr <= x /\ x < MaxPage /\ x >= 0 /\ addr \in addr .. addr + len - 1
  BY <1>1, MmapAssumption
<1>4. x \in Page
  BY <1>3, MmapAssumption DEF Page
<1>5. x \notin BadPages(p, v, addr, len) /\ addr \notin BadPages(p, v, addr, len)
  BY <1>1, <1>3
<1>6. mem[p][x] # Absent
  BY <1>1, <1>5 DEF BadPages
<1>7. FilePage(v, addr) \in 0 .. fsize[v.f]
  BY <1>3, <1>5 DEF BadPages
<1>8. FilePage(v, x) + 1 \in 0 .. MaxPage
  BY <1>2, <1>3, <1>7, MmapAssumption DEF FilePage
<1>9. mem[p][x] \in Val
  BY <1>4, <1>6 DEF Pages
<1> QED
  BY <1>4, <1>8, <1>9

\* munmap() takes pages away, and writes to the file only what was present.
LEMMA MunmapPages ==
  ASSUME Tables, Pages, NEW p \in Proc, NEW addr \in 0 .. MaxPage, NEW len \in Int,
         addr + len \in 0 .. MaxPage, munmap(p, addr, len)
  PROVE  /\ Pages'
         /\ \A q \in Proc, x \in Page : mem'[q][x] # Absent => mem[q][x] # Absent
<1> DEFINE i    == pvma(p, addr, len)
           v    == vma[p][i]
           done == IF WritesBack(v) THEN WrittenPages(p, v, addr, len) ELSE {}
<1>1. i \in Vma
  BY PvmaInTable
<1>2. v \in Entry
  BY <1>1 DEF Tables
<1>3. WritesBack(v) => v.f \in File
  BY MmapAssumption DEF WritesBack
<1>4. ASSUME NEW x \in done
      PROVE  v.f \in File /\ x \in Page /\ mem[p][x] \in Val /\ FilePage(v, x) + 1 \in 0 .. MaxPage
  <2> HIDE DEF v
  <2> QED
    BY <1>2, <1>3, <1>4, WrittenPagesFit
<1>5. /\ mem' = [mem EXCEPT ![p] = [x \in Page |-> IF x \in done THEN Absent ELSE @[x]]]
      /\ wr' = [wr EXCEPT ![p] = @ \ done]
  BY ZenonT(60) DEF munmap
<1>6. file' = IF done = {} THEN file ELSE
              [file EXCEPT ![v.f] =
                 [o \in Page |-> IF v.addr + o \in done THEN mem[p][v.addr + o] ELSE @[o]]]
  BY ZenonT(60) DEF munmap
<1>7. fsize' = IF done = {} THEN fsize ELSE
               [fsize EXCEPT ![v.f] = Max({@} \cup {FilePage(v, x) + 1 : x \in done})]
  BY ZenonT(60) DEF munmap
<1>8. ilocked' \in {ilocked, ilocked \cup {v.f}} /\ (ilocked' = ilocked \/ WritesBack(v))
  <2>1. \/ ilocked' = ilocked \cup {v.f} /\ MunmapFails(p, addr, len)
        \/ ilocked' = ilocked
    BY ZenonT(60) DEF munmap
  <2> QED
    BY ZenonT(60), <2>1 DEF MunmapFails
<1> HIDE DEF done, v
<1>9. mem' \in [Proc -> [Page -> Val \cup {Absent}]] /\ wr' \in [Proc -> SUBSET Page]
  BY <1>5 DEF Pages
<1>10. file' \in [File -> [Page -> Val]]
  <2>1. CASE done = {}
    BY <1>6, <2>1 DEF Pages
  <2>2. CASE done # {}
    <3> DEFINE c == [o \in Page |-> IF v.addr + o \in done THEN mem[p][v.addr + o] ELSE file[v.f][o]]
    <3>1. v.f \in File
      BY <1>4, <2>2
    <3>2. c \in [Page -> Val]
      BY <1>4, <3>1 DEF Pages
    <3>3. file' = [file EXCEPT ![v.f] = c]
      BY <1>6, <2>2, <3>1 DEF Pages
    <3> HIDE DEF c
    <3> QED
      BY <3>1, <3>2, <3>3 DEF Pages
  <2> QED
    BY <2>1, <2>2
<1>11. fsize' \in [File -> 0 .. MaxPage]
  <2>1. CASE done = {}
    BY <1>7, <2>1 DEF Pages
  <2>2. CASE done # {}
    <3> DEFINE S == {fsize[v.f]} \cup {FilePage(v, x) + 1 : x \in done}
    <3>1. v.f \in File
      BY <1>4, <2>2
    <3>2. S \subseteq 0 .. MaxPage /\ S # {}
      BY ZenonT(60), <1>4, <3>1 DEF Pages
    <3>3. fsize' = [fsize EXCEPT ![v.f] = Max(S)]
      BY <1>7, <2>2, <3>1 DEF Pages
    <3> HIDE DEF S
    <3>4. Max(S) \in 0 .. MaxPage
      BY ZenonT(60), <3>2, MaxInSet
    <3> QED
      BY <3>1, <3>3, <3>4 DEF Pages
  <2> QED
    BY <2>1, <2>2
<1>12. ilocked' \in SUBSET File
  BY <1>3, <1>8 DEF Pages
<1>13. \A q \in Proc, x \in Page : mem'[q][x] # Absent => mem[q][x] # Absent
  BY <1>5 DEF Pages
<1> QED
  BY <1>9, <1>10, <1>11, <1>12, <1>13 DEF Pages

\* munmap() keeps the references exact and only takes pages away.
LEMMA MunmapKeeps ==
  ASSUME IInv, NEW p \in Proc, NEW addr \in 0 .. MaxPage, NEW len \in Int,
         addr + len \in 0 .. MaxPage, munmap(p, addr, len), UNCHANGED <<sz, ofile>>
  PROVE  Tables' /\ Pages' /\ Counted' /\ PagesBelowSz'
<1>1. Tables' /\ Counted'
  BY MunmapTables DEF IInv
<1>2. Pages' /\ \A q \in Proc, x \in Page : mem'[q][x] # Absent => mem[q][x] # Absent
  BY MunmapPages DEF IInv
<1>3. PagesBelowSz'
  BY <1>2 DEF IInv, PagesBelowSz
<1> QED
  BY <1>1, <1>2, <1>3

-------------------------------------------------------------------------------
(* The actions.                                                             *)

\* sys_mmap() fills a free entry and takes a reference.
LEMMA MmapKeeps ==
  ASSUME IInv, NEW p \in Proc, NEW f \in File, NEW len \in 1 .. MaxPage, NEW write \in BOOLEAN,
         NEW flags \in {"SHARED", "PRIVATE"}, sys_mmap(p, f, len, write, flags)
  PROVE  IInv'
<1> DEFINE i == Min(FreeVma(p))
           e == [mapped |-> TRUE, addr |-> sz[p], len |-> len, write |-> write,
                 flags |-> flags, f |-> f]
<1>1. /\ vma' = [vma EXCEPT ![p][i] = e]
      /\ ref' = [ref EXCEPT ![f] = @ + 1]
      /\ sz' = [sz EXCEPT ![p] = @ + len] /\ sz[p] + len <= MaxPage
      /\ UNCHANGED <<st, ofile, mem, wr, file, fsize, ilocked, k>>
      /\ FreeVma(p) # {}
  BY ZenonT(60) DEF sys_mmap
<1>2. i \in Vma
  <2>1. FreeVma(p) \subseteq Vma
    BY DEF FreeVma
  <2> QED
    BY <1>1, <2>1, MinInSet
<1>3. sz[p] \in 0 .. MaxPage /\ sz[p] + len \in 0 .. MaxPage
  BY <1>1, MmapAssumption DEF IInv, Tables
<1>4. e \in Entry /\ e.mapped /\ e.f = f
  BY <1>3 DEF Entry
<1>5. vma' \in [Proc -> [Vma -> Entry]] /\ ref' \in [File -> Int] /\ Counted'
  <2> HIDE DEF i, e
  <2> QED
    BY ZenonT(60), <1>1, <1>2, <1>4, AddEntry DEF IInv
<1>6. sz' \in [Proc -> 0 .. MaxPage] /\ \A q \in Proc : sz'[q] >= sz[q]
  BY <1>1, <1>3 DEF IInv, Tables
<1>7. PagesBelowSz'
  BY <1>1, <1>6 DEF IInv, Tables, PagesBelowSz, Page
<1>8. Procs' /\ Pages'
  BY <1>1 DEF IInv, Procs, Pages
<1>9. Tables'
  BY <1>1, <1>5, <1>6 DEF IInv, Tables
<1> QED
  BY <1>5, <1>7, <1>8, <1>9 DEF IInv

\* sys_munmap() calls munmap() on pages below p->sz.
LEMMA SysMunmapKeeps ==
  ASSUME IInv, NEW p \in Proc, NEW addr \in Page, NEW len \in 1 .. MaxPage,
         sys_munmap(p, addr, len)
  PROVE  IInv'
<1>1. munmap(p, addr, len) /\ addr + len <= sz[p] /\ UNCHANGED <<st, sz, ofile, k>>
  BY DEF sys_munmap
<1>2. addr \in 0 .. MaxPage /\ len \in Int /\ addr + len \in 0 .. MaxPage
  BY <1>1, MmapAssumption DEF Page, IInv, Tables
<1>3. Procs'
  BY <1>1 DEF IInv, Procs
<1> QED
  BY <1>1, <1>2, <1>3, MunmapKeeps DEF IInv

\* exit_close(), in exit() and after a fault, drops every descriptor.
LEMMA ExitCloseKeeps ==
  ASSUME IInv, NEW p \in Proc, exit_close(p)
  PROVE  IInv'
<1>1. /\ ref' = [f \in File |-> IF f \in ofile[p] THEN ref[f] - 1 ELSE ref[f]]
      /\ ofile' = [ofile EXCEPT ![p] = {}]
      /\ st' = [st EXCEPT ![p] = "exit"] /\ k' = [k EXCEPT ![p] = 1]
      /\ UNCHANGED <<sz, vma, mem, wr, file, fsize, ilocked>>
  BY DEF exit_close, space
<1>2. ofile' = [ofile EXCEPT ![p] = @ \ ofile[p]]
  BY ZenonT(60), <1>1
<1>3. ofile' \in [Proc -> SUBSET File] /\ ref' \in [File -> Int] /\ Counted'
  <2> DEFINE D == ofile[p]
  <2>1. D \in SUBSET ofile[p] /\ Tables /\ Counted
    BY DEF IInv
  <2>2. /\ ofile' = [ofile EXCEPT ![p] = @ \ D]
        /\ ref' = [f \in File |-> IF f \in D THEN ref[f] - 1 ELSE ref[f]]
        /\ UNCHANGED vma
    BY ZenonT(60), <1>1, <1>2
  <2> HIDE DEF D
  <2> QED
    BY ZenonT(60), <2>1, <2>2, DropDescriptors
<1>4. Procs'
  BY <1>1, MmapAssumption DEF IInv, Procs
<1>5. Tables'
  BY <1>1, <1>3 DEF IInv, Tables
<1>6. Pages' /\ PagesBelowSz'
  BY <1>1 DEF IInv, Pages, PagesBelowSz
<1> QED
  BY <1>3, <1>4, <1>5, <1>6 DEF IInv

\* A step that only gives contents, and perhaps PTE_W, to a page below p->sz.
LEMMA PageChanges ==
  ASSUME IInv, NEW p \in Proc, NEW va \in Page, NEW x \in Val, va < sz[p],
         mem' = [mem EXCEPT ![p][va] = x],
         wr' \in {wr, [wr EXCEPT ![p] = @ \cup {va}]},
         UNCHANGED <<st, sz, vma, ofile, ref, file, fsize, ilocked, k>>
  PROVE  IInv'
<1>1. Pages'
  BY DEF IInv, Pages
<1>2. PagesBelowSz'
  BY DEF IInv, Pages, PagesBelowSz
<1>3. Counted'
  BY CountedSame DEF IInv
<1>4. Procs' /\ Tables'
  BY DEF IInv, Procs, Tables
<1> QED
  BY <1>1, <1>2, <1>3, <1>4 DEF IInv

\* The page-fault branch of usertrap() fills the page from the file, or zeroes it.
LEMMA FaultInKeeps ==
  ASSUME IInv, NEW p \in Proc, NEW va \in Page, NEW write, fault_in(p, va, write)
  PROVE  IInv'
<1> DEFINE i   == Min(Covering(p, va))
           v   == vma[p][i]
           off == FilePage(v, va)
           x   == IF off < fsize[v.f] THEN file[v.f][off] ELSE 0
<1>1. /\ va < sz[p] /\ Covering(p, va) # {}
      /\ mem' = [mem EXCEPT ![p][va] = x]
      /\ wr' \in {wr, [wr EXCEPT ![p] = @ \cup {va}]}
      /\ UNCHANGED <<st, sz, vma, ofile, ref, file, fsize, ilocked, k>>
  BY ZenonT(60) DEF fault_in, InRange
<1>2. i \in Covering(p, va)
  <2>1. Covering(p, va) \subseteq Vma
    BY DEF Covering
  <2> QED
    BY <1>1, <2>1, MinInSet
<1> HIDE DEF i
<1>3. v \in Entry /\ v.mapped /\ va >= v.addr
  BY <1>2 DEF Covering, IInv, Tables
<1>4. v.f \in File /\ v.addr \in 0 .. MaxPage
  BY <1>3, EntryFields
<1> HIDE DEF v
<1>5. x \in Val
  <2>1. fsize[v.f] \in 0 .. MaxPage /\ file[v.f] \in [Page -> Val]
    BY <1>4 DEF IInv, Pages
  <2>2. off \in Nat
    BY <1>3, <1>4 DEF FilePage, Page
  <2>3. off < fsize[v.f] => off \in Page
    BY <2>1, <2>2, MmapAssumption DEF Page
  <2> HIDE DEF off
  <2> QED
    BY <2>1, <2>3, MmapAssumption
<1> HIDE DEF x
<1> QED
  BY ZenonT(60), <1>1, <1>5, PageChanges

\* Without a covering entry usertrap() uses the last one.
LEMMA FaultLastKeeps ==
  ASSUME IInv, NEW p \in Proc, NEW va \in Page, NEW write, fault_last(p, va, write)
  PROVE  IInv'
<1> DEFINE v   == vma[p][MAXVMA]
           off == FilePage(v, va)
           x   == file[v.f][off]
<1>1. /\ va < sz[p] /\ v.f # NoFile /\ off \in 0 .. fsize[v.f] - 1
      /\ mem' = [mem EXCEPT ![p][va] = x]
      /\ wr' = wr
      /\ UNCHANGED <<st, sz, vma, ofile, ref, file, fsize, ilocked, k>>
  BY ZenonT(60) DEF fault_last, InRange
<1>2. v \in Entry
  BY MmapAssumption DEF IInv, Tables, Vma
<1>3. v.f \in File
  BY <1>1, <1>2, EntryFields
<1> HIDE DEF v
<1>4. x \in Val
  <2>1. fsize[v.f] \in 0 .. MaxPage /\ file[v.f] \in [Page -> Val]
    BY <1>3 DEF IInv, Pages
  <2>2. off \in Page
    <3> HIDE DEF off
    <3> QED
      BY <1>1, <2>1, MmapAssumption DEF Page
  <2> QED
    BY <2>1, <2>2
<1> HIDE DEF x
<1> QED
  BY ZenonT(60), <1>1, <1>4, PageChanges

\* usertrap() ends in a panic.
LEMMA FaultPanicKeeps ==
  ASSUME IInv, NEW p \in Proc, NEW va, NEW write, fault_panic(p, va, write)
  PROVE  IInv'
<1>1. /\ st' = [st EXCEPT ![p] = "panic"]
      /\ UNCHANGED <<sz, vma, mem, wr, ofile, ref, file, fsize, ilocked, k>>
  BY DEF fault_panic, space
<1>2. Counted'
  BY <1>1, CountedSame DEF IInv
<1>3. Tables' /\ Pages' /\ PagesBelowSz'
  BY <1>1 DEF IInv, Tables, Pages, PagesBelowSz
<1>4. Procs'
  BY <1>1 DEF IInv, Procs
<1> QED
  BY <1>2, <1>3, <1>4 DEF IInv

\* A store changes a page that is present.
LEMMA StoreKeeps ==
  ASSUME IInv, NEW p \in Proc, NEW va \in Page, NEW x \in Val, store(p, va, x)
  PROVE  IInv'
<1>1. /\ va < sz[p] /\ mem' = [mem EXCEPT ![p][va] = x] /\ wr' = wr
      /\ UNCHANGED <<st, sz, vma, ofile, ref, file, fsize, ilocked, k>>
  BY DEF store, InRange
<1> QED
  BY ZenonT(60), <1>1, PageChanges

\* open() of a file without references adds a descriptor and its reference.
LEMMA OpenKeeps ==
  ASSUME IInv, NEW p \in Proc, NEW f \in File, open(p, f)
  PROVE  IInv'
<1>1. /\ ref[f] = 0 /\ ref' = [ref EXCEPT ![f] = 1]
      /\ ofile' = [ofile EXCEPT ![p] = @ \cup {f}]
      /\ UNCHANGED <<st, sz, vma, mem, wr, file, fsize, ilocked, k>>
  BY DEF open, space
<1>2. Tables'
  BY <1>1 DEF IInv, Tables
<1>3. ASSUME NEW g \in File
      PROVE  /\ Cardinality(Opens(g)') \in Int /\ Cardinality(Maps(g)') \in Int
             /\ ref'[g] - ref[g] >= Cardinality(Opens(g)') - Cardinality(Opens(g))
                                    + Cardinality(Maps(g)') - Cardinality(Maps(g))
  <2>1. /\ IsFiniteSet(Opens(g)) /\ Cardinality(Opens(g)) \in Nat
        /\ IsFiniteSet(Maps(g)) /\ Cardinality(Maps(g)) \in Nat
    BY CountedSets
  <2>2. Maps(g)' = Maps(g)
    BY <1>1 DEF Maps
  <2>3. Opens(g)' \subseteq IF g = f THEN Opens(g) \cup {p} ELSE Opens(g)
    BY <1>1 DEF Opens, IInv, Tables
  <2>4. CASE g = f
    <3>1. IsFiniteSet(Opens(g)') /\ Cardinality(Opens(g)') <= Cardinality(Opens(g)) + 1
      BY ZenonT(60), <2>1, <2>3, <2>4, CardAdds
    <3>2. Cardinality(Opens(g)') \in Nat
      BY <3>1, FS_CardinalityType
    <3>3. ref[g] = 0 /\ ref'[g] = 1
      BY <1>1, <2>4 DEF IInv, Tables
    <3> QED
      BY <2>1, <2>2, <3>1, <3>2, <3>3
  <2>5. CASE g # f
    <3>1. Cardinality(Opens(g)') \in Nat /\ Cardinality(Opens(g)') <= Cardinality(Opens(g))
      BY <2>1, <2>3, <2>5, CardShrinks
    <3>2. ref[g] \in Int /\ ref'[g] = ref[g]
      BY <1>1, <2>5 DEF IInv, Tables
    <3> QED
      BY <2>1, <2>2, <3>1, <3>2
  <2> QED
    BY <2>4, <2>5
<1>4. Counted'
  BY <1>2, <1>3, CountedStep DEF IInv, Tables
<1>5. Procs' /\ Pages' /\ PagesBelowSz'
  BY <1>1 DEF IInv, Procs, Pages, PagesBelowSz
<1> QED
  BY <1>2, <1>4, <1>5 DEF IInv

\* close() drops a descriptor and its reference.
LEMMA CloseKeeps ==
  ASSUME IInv, NEW p \in Proc, NEW f \in File, close(p, f)
  PROVE  IInv'
<1> DEFINE D == {f}
<1>1. /\ f \in ofile[p] /\ ref' = [ref EXCEPT ![f] = @ - 1]
      /\ ofile' = [ofile EXCEPT ![p] = @ \ D]
      /\ UNCHANGED <<st, sz, vma, mem, wr, file, fsize, ilocked, k>>
  BY DEF close, space
<1>2. ref' = [g \in File |-> IF g \in D THEN ref[g] - 1 ELSE ref[g]]
  BY ZenonT(60), <1>1 DEF IInv, Tables
<1>3. D \in SUBSET ofile[p]
  BY <1>1
<1>4. ofile' \in [Proc -> SUBSET File] /\ ref' \in [File -> Int] /\ Counted'
  <2> HIDE DEF D
  <2> QED
    BY ZenonT(60), <1>1, <1>2, <1>3, DropDescriptors DEF IInv
<1>5. Tables'
  BY <1>1, <1>4 DEF IInv, Tables
<1>6. Procs' /\ Pages' /\ PagesBelowSz'
  BY <1>1 DEF IInv, Procs, Pages, PagesBelowSz
<1> QED
  BY <1>4, <1>5, <1>6 DEF IInv

\* fork() copies pages, descriptors and mapped entries.
LEMMA ForkKeeps ==
  ASSUME IInv, NEW p \in Proc, NEW q \in Proc, fork(p, q)
  PROVE  IInv'
<1>1. /\ st' = [st EXCEPT ![q] = "run"]
      /\ sz' = [sz EXCEPT ![q] = sz[p]]
      /\ mem' = [mem EXCEPT ![q] = mem[p]] /\ wr' = [wr EXCEPT ![q] = wr[p]]
      /\ UNCHANGED <<file, fsize, ilocked, k>>
  BY DEF fork
<1>2. /\ vma' \in [Proc -> [Vma -> Entry]] /\ ofile' \in [Proc -> SUBSET File]
      /\ ref' \in [File -> Int] /\ Counted'
  BY ZenonT(60), CopyEntries DEF fork, IInv
<1>3. Tables'
  BY ZenonT(60), <1>1, <1>2 DEF IInv, Tables
<1>4. Procs'
  BY <1>1 DEF IInv, Procs
<1>5. Pages'
  BY <1>1 DEF IInv, Pages
<1>6. PagesBelowSz'
  BY <1>1 DEF IInv, Tables, Pages, PagesBelowSz
<1> QED
  BY <1>2, <1>3, <1>4, <1>5, <1>6 DEF IInv

\* The loop of exit() unmaps the next entry.
LEMMA ExitMunmapKeeps ==
  ASSUME IInv, NEW p \in Proc, exit_munmap(p)
  PROVE  IInv'
<1> DEFINE v == vma[p][k[p]]
<1>1. /\ st[p] = "exit" /\ k[p] <= MAXVMA
      /\ k' = [k EXCEPT ![p] = @ + 1] /\ UNCHANGED <<sz, ofile>>
      /\ \/ munmap(p, v.addr, v.len) /\ st' \in {st, [st EXCEPT ![p] = "panic"]}
         \/ UNCHANGED <<st, vma, mem, wr, ref, file, fsize, ilocked>>
  BY ZenonT(60) DEF exit_munmap, Exiting
<1>2. k[p] \in Vma /\ v \in Entry
  <2>1. k[p] \in Vma
    BY <1>1, MmapAssumption DEF IInv, Procs, Vma
  <2> QED
    BY <2>1 DEF IInv, Tables
<1>3. v.addr \in 0 .. MaxPage /\ v.len \in Int /\ v.addr + v.len \in 0 .. MaxPage
  <2> HIDE DEF v
  <2> QED
    BY <1>2, EntryFields
<1>4. Procs'
  <2>1. k' \in [Proc -> 0 .. MAXVMA + 1] /\ k'[p] # 0 /\ \A q \in Proc : q # p => k'[q] = k[q]
    BY <1>1, <1>2, MmapAssumption DEF IInv, Procs, Vma
  <2>2. st' \in {st, [st EXCEPT ![p] = "panic"]}
    BY ZenonT(60), <1>1
  <2> QED
    BY <2>1, <2>2 DEF IInv, Procs
<1>5. CASE munmap(p, v.addr, v.len)
  <2> HIDE DEF v
  <2>1. UNCHANGED <<sz, ofile>>
    BY <1>1
  <2> QED
    BY <1>3, <1>4, <1>5, <2>1, MunmapKeeps DEF IInv
<1>6. CASE UNCHANGED <<st, vma, mem, wr, ref, file, fsize, ilocked>>
  <2>1. Counted'
    BY ZenonT(60), <1>1, <1>6, CountedSame DEF IInv
  <2>2. Tables' /\ Pages' /\ PagesBelowSz'
    BY <1>1, <1>6 DEF IInv, Tables, Pages, PagesBelowSz
  <2> QED
    BY <1>4, <2>1, <2>2 DEF IInv
<1> QED
  BY <1>1, <1>5, <1>6

\* The end of exit().
LEMMA ExitZombieKeeps ==
  ASSUME IInv, NEW p \in Proc, exit_zombie(p)
  PROVE  IInv'
<1>1. /\ st' = [st EXCEPT ![p] = "ZOMBIE"] /\ k' = [k EXCEPT ![p] = 0]
      /\ UNCHANGED <<sz, vma, mem, wr, ofile, ref, file, fsize, ilocked>>
  BY DEF exit_zombie, space
<1>2. Procs'
  BY <1>1, MmapAssumption DEF IInv, Procs
<1>3. Counted'
  BY <1>1, CountedSame DEF IInv
<1>4. Tables' /\ Pages' /\ PagesBelowSz'
  BY <1>1 DEF IInv, Tables, Pages, PagesBelowSz
<1> QED
  BY <1>2, <1>3, <1>4 DEF IInv

\* freeproc() gives every page back and leaves vma_table as it is.
LEMMA FreeprocKeeps ==
  ASSUME IInv, NEW p \in Proc, freeproc(p)
  PROVE  IInv'
<1>1. /\ st' = [st EXCEPT ![p] = "UNUSED"] /\ sz' = [sz EXCEPT ![p] = 0]
      /\ mem' = [mem EXCEPT ![p] = [x \in Page |-> Absent]] /\ wr' = [wr EXCEPT ![p] = {}]
      /\ UNCHANGED <<vma, ofile, ref, file, fsize, ilocked, k>>
  BY DEF freeproc
<1>2. Procs'
  BY <1>1 DEF IInv, Procs
<1>3. Tables'
  BY <1>1, MmapAssumption DEF IInv, Tables
<1>4. Pages'
  BY <1>1 DEF IInv, Pages
<1>5. PagesBelowSz'
  BY <1>1 DEF IInv, Tables, Pages, PagesBelowSz
<1>6. Counted'
  BY <1>1, CountedSame DEF IInv
<1> QED
  BY <1>2, <1>3, <1>4, <1>5, <1>6 DEF IInv

-------------------------------------------------------------------------------
(* The theorems.                                                            *)

\* sys_mmap() and sys_munmap().
LEMMA MapCallKeeps ==
  ASSUME IInv, NEW p \in Proc, MapCall(p)
  PROVE  IInv'
  BY MmapKeeps, SysMunmapKeeps DEF MapCall

\* Loads, stores and faults.
LEMMA AccessKeeps ==
  ASSUME IInv, NEW p \in Proc, Access(p)
  PROVE  IInv'
<1>1. \A va \in Page, write \in BOOLEAN : fault_kill(p, va, write) => IInv'
  BY ExitCloseKeeps DEF fault_kill
<1> QED
  BY <1>1, FaultInKeeps, FaultLastKeeps, FaultPanicKeeps, StoreKeeps DEF Access

\* Descriptors, fork(), exit() and wait().
LEMMA LifeKeeps ==
  ASSUME IInv, NEW p \in Proc, Life(p)
  PROVE  IInv'
<1>1. exit(p) => IInv'
  BY ExitCloseKeeps DEF exit
<1> QED
  BY <1>1, OpenKeeps, CloseKeeps, ForkKeeps, ExitMunmapKeeps, ExitZombieKeeps, FreeprocKeeps
  DEF Life

\* The invariant does not depend on anything else.
LEMMA StutterKeeps ==
  ASSUME IInv, UNCHANGED vars
  PROVE  IInv'
<1>1. UNCHANGED <<st, sz, vma, mem, wr, ofile, ref, file, fsize, ilocked, k>>
  BY DEF vars, space
<1>2. Counted'
  BY <1>1, CountedSame DEF IInv
<1> QED
  BY <1>1, <1>2 DEF IInv, Procs, Tables, Pages, PagesBelowSz

LEMMA NextIInv == IInv /\ [Next]_vars => IInv'
  BY MapCallKeeps, AccessKeeps, LifeKeeps, StutterKeeps DEF Next

\* No step of mmap(), munmap(), the fault handler, fork(), exit() or wait() leaves
\* the types: in particular munmap() stores only pages that are present, at
\* places within the bound of the file, and no count goes below zero.
THEOREM TypeCorrect == Spec => []TypeOK
<1>1. ASSUME IInv PROVE TypeOK
  <2>1. ref \in [File -> Nat]
    <3>1. \A f \in File : ref[f] \in Int /\ ref[f] >= 0
      BY <1>1, CountedSets DEF IInv, Tables, Counted
    <3> QED
      BY <1>1, <3>1 DEF IInv, Tables
  <2>2. \A p \in Proc, i \in Vma :
          /\ vma[p][i].addr \in Int /\ vma[p][i].len \in Int
          /\ vma[p][i].mapped => vma[p][i].f \in File
    <3> SUFFICES ASSUME NEW p \in Proc, NEW i \in Vma
                 PROVE  /\ vma[p][i].addr \in Int /\ vma[p][i].len \in Int
                        /\ vma[p][i].mapped => vma[p][i].f \in File
      OBVIOUS
    <3> DEFINE v == vma[p][i]
    <3>1. v \in Entry
      BY <1>1 DEF IInv, Tables
    <3> HIDE DEF v
    <3>2. v.addr \in 0 .. MaxPage /\ v.len \in Int /\ (v.mapped => v.f \in File)
      BY <3>1, EntryFields
    <3> QED
      BY <3>2 DEF v
  <2> QED
    BY <1>1, <2>1, <2>2 DEF TypeOK, IInv, Procs, Tables, Pages
<1> QED
  BY <1>1, InitIInv, NextIInv, PTL DEF Spec

\* mmap(), munmap(), fork(), exit() and the descriptor calls keep a reference for
\* every descriptor and every mapped entry, so that filealloc() never recycles
\* a struct file that a mapping still uses.
THEOREM MappingsKeepFiles == Spec => []RefsCover
<1>1. IInv => RefsCover
  BY ZenonT(60) DEF IInv, Counted, RefsCover, Opens, Maps
<1> QED
  BY <1>1, InitIInv, NextIInv, PTL DEF Spec

\* The page-fault branch of usertrap(), munmap() and the reuse of process slots
\* leave no page at or above p->sz, so that uvmfree() frees all of them.
THEOREM PagesAreFreed == Spec => []PagesBelowSz
<1>1. IInv => PagesBelowSz
  BY DEF IInv
<1> QED
  BY <1>1, InitIInv, NextIInv, PTL DEF Spec
===============================================================================

--------------------------------- MODULE Mmap ---------------------------------
(***************************************************************************)
(* Memory-mapped files: sys_mmap() and munmap() of kernel/sysfile.c, the    *)
(* page-fault branch of usertrap(), the vma_table handling of fork(),       *)
(* exit() and freeproc(), and the reference counts of struct file.          *)
(*                                                                          *)
(* The unit is the page: an address is a page number, a page's contents are *)
(* a member of Val.  A file (struct file with its inode) has its contents,  *)
(* a size in pages and a reference count; a process has at most one         *)
(* descriptor for it.  The pages of the program and its stack, below every  *)
(* mapping, are left out: p->sz counts from there.                          *)
(***************************************************************************)
EXTENDS Integers, FiniteSets, FiniteSetsExt

CONSTANTS
  Proc,       \* slots of the process table
  File,       \* entries of the file table
  Writable,   \* the files opened for writing
  Val,        \* contents of a page; 0 is the zeroed page
  MAXVMA,     \* entries of vma_table
  MaxPage,    \* bound on p->sz, in pages
  MaxRef,     \* bound on a file's reference count (fork() on a used slot leaks one)
  FileSize,   \* size of each file at the start, in pages
  Ops,        \* what the programs do
  NoFile, Absent

ASSUME MmapAssumption ==
  /\ IsFiniteSet(Proc) /\ IsFiniteSet(File) /\ Writable \subseteq File
  /\ 0 \in Val /\ Absent \notin Val /\ NoFile \notin File
  /\ MAXVMA \in Nat \ {0} /\ MaxPage \in Nat \ {0} /\ MaxRef \in Nat \ {0}
  /\ FileSize \in 0 .. MaxPage
  /\ Ops \subseteq {"munmap", "fork", "exit", "wait"}

Page == 0 .. MaxPage - 1
Vma  == 1 .. MAXVMA

VARIABLES
  st,        \* "UNUSED", "run", "exit" (in exit()), "ZOMBIE", "panic"
  sz, vma,   \* struct proc: size in pages, vma_table
  ofile,     \* files the process has a descriptor for
  mem,       \* page contents, Absent where no page is mapped
  wr,        \* pages mapped with PTE_W
  ref,       \* struct file: reference count
  file, fsize,  \* contents and size of each file
  ilocked,   \* files whose inode lock and log operation munmap() never gave back
  k          \* exit(): index of its loop over vma_table

space == <<sz, vma, mem, wr>>
vars  == <<st, space, ofile, ref, file, fsize, ilocked, k>>

Unmapped == [mapped |-> FALSE, addr |-> 0, len |-> 0, write |-> FALSE,
             flags |-> "none", f |-> NoFile]

\* A panic stops the machine.
Halted     == \E p \in Proc : st[p] = "panic"
Running(p) == st[p] = "run" /\ ~Halted
Exiting(p) == st[p] = "exit" /\ ~Halted

\* The entries usertrap() looks for: those that cover the page.
Covering(p, va) ==
  {i \in Vma : LET v == vma[p][i] IN v.mapped /\ va >= v.addr /\ va < v.addr + v.len}

-------------------------------------------------------------------------------
(* Mutations: plausible slips in the code, used to see each property fail.  *)

\* fork() copies the entries without filedup().
ForkDupsNone(p, f) == 0

\* usertrap() does not compare the address with p->sz.
AnyAddress(p, va) == TRUE

\* close() drops the reference and keeps the descriptor.
CloseKeepsFd(p, f) ==
  /\ Running(p)
  /\ f \in ofile[p]
  /\ ref' = [ref EXCEPT ![f] = @ - 1]
  /\ UNCHANGED <<st, space, ofile, file, fsize, ilocked, k>>

-------------------------------------------------------------------------------
(* sys_mmap() and munmap().                                                 *)

FreeVma(p) == {i \in Vma : ~vma[p][i].mapped}

\* sys_mmap(): the first free entry gets the len pages above p->sz.
sys_mmap(p, f, len, write, flags) ==
  /\ Running(p)
  /\ f \in ofile[p]
  /\ sz[p] + len <= MaxPage /\ ref[f] < MaxRef
  /\ ~(f \notin Writable /\ write /\ flags = "SHARED")
  /\ FreeVma(p) # {}
  /\ vma' = [vma EXCEPT ![p][Min(FreeVma(p))] =
               [mapped |-> TRUE, addr |-> sz[p], len |-> len, write |-> write,
                flags |-> flags, f |-> f]]
  /\ sz' = [sz EXCEPT ![p] = @ + len]
  /\ ref' = [ref EXCEPT ![f] = @ + 1]
  /\ UNCHANGED <<st, ofile, mem, wr, file, fsize, ilocked, k>>

\* The search of munmap(): the range must end before the end of the entry.
Matching(p, addr, len) ==
  {i \in Vma : LET v == vma[p][i] IN
     v.mapped /\ addr >= v.addr /\ addr + len < v.addr + v.len}

\* The entry munmap() works on; when none matches, the last one.
pvma(p, addr, len) ==
  IF Matching(p, addr, len) = {} THEN MAXVMA ELSE Min(Matching(p, addr, len))

\* The offset handed to readi() and writei() for the page at va, in pages.
FilePage(v, va) == va - v.addr

\* munmap() writes pages back only for a shared mapping of a writable file.
WritesBack(v) == v.flags = "SHARED" /\ v.f \in Writable

\* Pages where writei() fails: not present (either_copyin), or the first one
\* when its offset is negative or past the end of the file.
BadPages(p, v, addr, len) ==
  {x \in addr .. addr + len - 1 :
     mem[p][x] = Absent \/ (x = addr /\ FilePage(v, addr) \notin 0 .. fsize[v.f])}

\* The pages the loop of munmap() writes back and unmaps before it ends or fails.
WrittenPages(p, v, addr, len) ==
  {x \in addr .. addr + len - 1 : \A y \in BadPages(p, v, addr, len) : x < y}

\* munmap() returns -1 only from that loop.
MunmapFails(p, addr, len) ==
  LET v == vma[p][pvma(p, addr, len)]
  IN  WritesBack(v) /\ BadPages(p, v, addr, len) # {}

\* The entry after the range is cut off its head or tail.
Shrink(v, addr, len) ==
  IF addr = v.addr THEN [v EXCEPT !.addr = @ + len, !.len = @ - len]
  ELSE IF addr + len = v.addr + v.len THEN [v EXCEPT !.len = @ - len]
  ELSE v

\* munmap(): write back, shrink the entry, drop the file of an empty one.
munmap(p, addr, len) ==
  LET i    == pvma(p, addr, len)
      v    == vma[p][i]
      done == IF WritesBack(v) THEN WrittenPages(p, v, addr, len) ELSE {}
      w    == Shrink(v, addr, len)
      gone == w.len = 0 /\ w.mapped
  IN  /\ WritesBack(v) => v.f \notin ilocked
      /\ mem' = [mem EXCEPT ![p] = [x \in Page |-> IF x \in done THEN Absent ELSE @[x]]]
      /\ wr' = [wr EXCEPT ![p] = @ \ done]
      /\ file' = IF done = {} THEN file ELSE
                 [file EXCEPT ![v.f] =
                    [o \in Page |-> IF v.addr + o \in done THEN mem[p][v.addr + o] ELSE @[o]]]
      /\ fsize' = IF done = {} THEN fsize ELSE
                  [fsize EXCEPT ![v.f] = Max({@} \cup {FilePage(v, x) + 1 : x \in done})]
      /\ IF MunmapFails(p, addr, len)
           THEN /\ ilocked' = ilocked \cup {v.f}
                /\ UNCHANGED <<vma, ref>>
           ELSE /\ vma' = [vma EXCEPT ![p][i] = [w EXCEPT !.mapped = @ /\ ~gone]]
                /\ ref' = IF gone THEN [ref EXCEPT ![v.f] = @ - 1] ELSE ref
                /\ UNCHANGED ilocked

sys_munmap(p, addr, len) ==
  /\ "munmap" \in Ops
  /\ Running(p)
  /\ addr + len <= sz[p]
  /\ munmap(p, addr, len)
  /\ UNCHANGED <<st, sz, ofile, k>>

\* exit(): close the descriptors ...
exit_close(p) ==
  /\ "exit" \in Ops
  /\ st' = [st EXCEPT ![p] = "exit"]
  /\ ref' = [f \in File |-> IF f \in ofile[p] THEN ref[f] - 1 ELSE ref[f]]
  /\ ofile' = [ofile EXCEPT ![p] = {}]
  /\ k' = [k EXCEPT ![p] = 1]
  /\ UNCHANGED <<space, file, fsize, ilocked>>

exit(p) == Running(p) /\ exit_close(p)

-------------------------------------------------------------------------------
(* User loads and stores, and the page faults they cause.                   *)

InRange(p, va) == va < sz[p]

store(p, va, x) ==
  /\ Running(p)
  /\ InRange(p, va) /\ mem[p][va] # Absent /\ va \in wr[p]
  /\ mem' = [mem EXCEPT ![p][va] = x]
  /\ UNCHANGED <<st, sz, vma, wr, ofile, ref, file, fsize, ilocked, k>>

\* A load or store the page table does not allow.
Faults(p, va, write) ==
  /\ Running(p)
  /\ mem[p][va] = Absent \/ (write /\ va \notin wr[p])

\* usertrap(): a fault in a mapping brings in the page of the file, or zeroes
\* past its end.  kalloc() and mappages() may run out of memory.
fault_in(p, va, write) ==
  /\ Faults(p, va, write)
  /\ InRange(p, va) /\ Covering(p, va) # {}
  /\ mem[p][va] = Absent
  /\ LET v   == vma[p][Min(Covering(p, va))]
         off == FilePage(v, va)
     IN  /\ v.f \notin ilocked
         /\ mem' = [mem EXCEPT ![p][va] = IF off < fsize[v.f] THEN file[v.f][off] ELSE 0]
         /\ wr' = IF v.write THEN [wr EXCEPT ![p] = @ \cup {va}] ELSE wr
  /\ UNCHANGED <<st, sz, vma, ofile, ref, file, fsize, ilocked, k>>

\* usertrap(): out of range, or out of memory: killed, which leads to exit().
fault_kill(p, va, write) ==
  /\ Faults(p, va, write)
  /\ ~InRange(p, va) \/ Covering(p, va) # {}
  /\ exit_close(p)

\* usertrap(): no entry covers the page and the last one has a file: readi()
\* fills the page from that file if the page is there.
fault_last(p, va, write) ==
  LET v   == vma[p][MAXVMA]
      off == FilePage(v, va)
  IN  /\ Faults(p, va, write)
      /\ InRange(p, va) /\ Covering(p, va) = {} /\ v.f # NoFile
      /\ v.f \notin ilocked
      /\ mem[p][va] # Absent /\ off \in 0 .. fsize[v.f] - 1
      /\ mem' = [mem EXCEPT ![p][va] = file[v.f][off]]
      /\ UNCHANGED <<st, sz, vma, wr, ofile, ref, file, fsize, ilocked, k>>

\* usertrap(): the page is there without the permission (mappages() panics), or
\* no entry covers it and the last entry, which is used then, has no file.
fault_panic(p, va, write) ==
  /\ Faults(p, va, write)
  /\ InRange(p, va)
  /\ \/ Covering(p, va) # {} /\ mem[p][va] # Absent
     \/ Covering(p, va) = {} /\ vma[p][MAXVMA].f = NoFile
  /\ st' = [st EXCEPT ![p] = "panic"]
  /\ UNCHANGED <<space, ofile, ref, file, fsize, ilocked, k>>

-------------------------------------------------------------------------------
(* Processes and descriptors.                                               *)

\* open() of a file nobody has open: filealloc() finds an entry with ref = 0.
open(p, f) ==
  /\ Running(p)
  /\ ref[f] = 0 /\ f \notin ilocked
  /\ ref' = [ref EXCEPT ![f] = 1]
  /\ ofile' = [ofile EXCEPT ![p] = @ \cup {f}]
  /\ UNCHANGED <<st, space, file, fsize, ilocked, k>>

\* close(): fileclose().
close(p, f) ==
  /\ Running(p)
  /\ f \in ofile[p]
  /\ ref' = [ref EXCEPT ![f] = @ - 1]
  /\ ofile' = [ofile EXCEPT ![p] = @ \ {f}]
  /\ UNCHANGED <<st, space, file, fsize, ilocked, k>>

\* fork(): the filedup() calls for the mapped entries.
ForkDups(p, f) == Cardinality({i \in Vma : vma[p][i].mapped /\ vma[p][i].f = f})

\* fork(): the child gets the pages, the descriptors and the mapped entries.
fork(p, q) ==
  /\ "fork" \in Ops
  /\ Running(p)
  /\ st[q] = "UNUSED"
  /\ st' = [st EXCEPT ![q] = "run"]
  /\ sz' = [sz EXCEPT ![q] = sz[p]]
  /\ mem' = [mem EXCEPT ![q] = mem[p]]
  /\ wr' = [wr EXCEPT ![q] = wr[p]]
  /\ ofile' = [ofile EXCEPT ![q] = ofile[p]]
  /\ vma' = [vma EXCEPT ![q] = [i \in Vma |-> IF vma[p][i].mapped THEN vma[p][i] ELSE @[i]]]
  /\ ref' = [f \in File |-> ref[f] + (IF f \in ofile[p] THEN 1 ELSE 0) + ForkDups(p, f)]
  /\ \A f \in File : ref'[f] <= MaxRef
  /\ UNCHANGED <<file, fsize, ilocked, k>>

\* ... then munmap() each mapped entry, and panic if that fails.
exit_munmap(p) ==
  LET v == vma[p][k[p]] IN
  /\ Exiting(p) /\ k[p] <= MAXVMA
  /\ IF v.mapped
       THEN /\ munmap(p, v.addr, v.len)
            /\ st' = IF MunmapFails(p, v.addr, v.len) THEN [st EXCEPT ![p] = "panic"] ELSE st
       ELSE UNCHANGED <<st, vma, mem, wr, ref, file, fsize, ilocked>>
  /\ k' = [k EXCEPT ![p] = @ + 1]
  /\ UNCHANGED <<sz, ofile>>

exit_zombie(p) ==
  /\ Exiting(p) /\ k[p] > MAXVMA
  /\ st' = [st EXCEPT ![p] = "ZOMBIE"]
  /\ k' = [k EXCEPT ![p] = 0]
  /\ UNCHANGED <<space, ofile, ref, file, fsize, ilocked>>

\* freeproc(), from wait(): the pages go, vma_table stays as it is.
freeproc(p) ==
  /\ "wait" \in Ops
  /\ st[p] = "ZOMBIE" /\ ~Halted
  /\ st' = [st EXCEPT ![p] = "UNUSED"]
  /\ sz' = [sz EXCEPT ![p] = 0]
  /\ mem' = [mem EXCEPT ![p] = [x \in Page |-> Absent]]
  /\ wr' = [wr EXCEPT ![p] = {}]
  /\ UNCHANGED <<vma, ofile, ref, file, fsize, ilocked, k>>

-------------------------------------------------------------------------------
(* The specification.  One process runs at the start, with every file open. *)

Init ==
  \E first \in Proc :
    /\ st = [p \in Proc |-> IF p = first THEN "run" ELSE "UNUSED"]
    /\ sz = [p \in Proc |-> 0]
    /\ vma = [p \in Proc |-> [i \in Vma |-> Unmapped]]
    /\ ofile = [p \in Proc |-> IF p = first THEN File ELSE {}]
    /\ mem = [p \in Proc |-> [x \in Page |-> Absent]]
    /\ wr = [p \in Proc |-> {}]
    /\ ref = [f \in File |-> 1]
    /\ file \in [File -> {[o \in Page |-> IF o < FileSize THEN x ELSE 0] : x \in Val}]
    /\ fsize = [f \in File |-> FileSize]
    /\ ilocked = {}
    /\ k = [p \in Proc |-> 0]

MapCall(p) ==
  \/ \E f \in File, len \in 1 .. MaxPage, write \in BOOLEAN, flags \in {"SHARED", "PRIVATE"} :
       sys_mmap(p, f, len, write, flags)
  \/ \E addr \in Page, len \in 1 .. MaxPage : sys_munmap(p, addr, len)

Access(p) ==
  \E va \in Page, write \in BOOLEAN :
    \/ fault_in(p, va, write)
    \/ fault_kill(p, va, write)
    \/ fault_last(p, va, write)
    \/ fault_panic(p, va, write)
    \/ \E x \in Val : store(p, va, x)

Life(p) ==
  \/ \E f \in File : open(p, f) \/ close(p, f)
  \/ \E q \in Proc : fork(p, q)
  \/ exit(p) \/ exit_munmap(p) \/ exit_zombie(p)
  \/ freeproc(p)

Next == \E p \in Proc : MapCall(p) \/ Access(p) \/ Life(p)

Spec == Init /\ [][Next]_vars

-------------------------------------------------------------------------------
(* Properties.                                                              *)

\* Every variable has its type; len may go below zero in munmap().
TypeOK ==
  /\ st \in [Proc -> {"UNUSED", "run", "exit", "ZOMBIE", "panic"}]
  /\ sz \in [Proc -> 0 .. MaxPage]
  /\ \A p \in Proc, i \in Vma :
       /\ vma[p][i].addr \in Int /\ vma[p][i].len \in Int
       /\ vma[p][i].mapped => vma[p][i].f \in File
  /\ ofile \in [Proc -> SUBSET File]
  /\ mem \in [Proc -> [Page -> Val \cup {Absent}]]
  /\ wr \in [Proc -> SUBSET Page]
  /\ ref \in [File -> Nat]
  /\ file \in [File -> [Page -> Val]]
  /\ fsize \in [File -> 0 .. MaxPage]
  /\ ilocked \in SUBSET File
  /\ k \in [Proc -> 0 .. MAXVMA + 1]

\* Every descriptor and every mapped entry is covered by a reference, so that
\* filealloc() never recycles a struct file a mapping reads or writes through:
\* across filedup() in mmap() and fork(), close() before munmap(), exit() and
\* the reuse of the process slot.
RefsCover ==
  \A f \in File :
    ref[f] >= Cardinality({p \in Proc : f \in ofile[p]})
              + Cardinality({pi \in Proc \X Vma : vma[pi[1]][pi[2]].mapped
                                                 /\ vma[pi[1]][pi[2]].f = f})

\* Every page present lies below p->sz, so that uvmfree() frees it and freewalk()
\* finds no leaf: also in a process slot that still has entries of an earlier
\* process, which may lie above the size of the present one.
PagesBelowSz ==
  \A p \in Proc, x \in Page : mem[p][x] # Absent => x < sz[p]

\* munmap() of all that is left of a mapping leaves nothing mapped: the loop that
\* looks for the entry must accept a range that ends where the entry ends.
UnmapRestUnmaps ==
  [][\A p \in Proc, i \in Vma :
       LET v == vma[p][i] IN
       (v.mapped /\ v.len > 0 /\ sys_munmap(p, v.addr, v.len) /\ ilocked' = ilocked)
         => ~vma'[p][i].mapped]_vars

\* munmap() returns with the inode unlocked and its log operation ended.
OpsEnded == ilocked = {}
===============================================================================

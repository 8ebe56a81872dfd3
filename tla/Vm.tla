---------------------------------- MODULE Vm ----------------------------------
(***************************************************************************)
(* kernel/vm.c and kernel/kalloc.c under fork(), exec(), sbrk(), mmap() and *)
(* page faults: who owns which page of memory when allocation may fail at   *)
(* any point.                                                               *)
(*                                                                          *)
(* A page table is [root, tabs, leaf]: whether its root page is allocated,  *)
(* the page-table pages below the root, and the pages mapped.  Walking to   *)
(* page a passes <<1, a \div (P * P)>> and then <<0, a \div P>> (P entries   *)
(* in a table).  Free pages are alike and are counted.  A step is one pass  *)
(* of a loop that allocates, with every kalloc() of that pass; freeing      *)
(* cannot fail and is one step.  The guard page (uvmclear()) and what pages *)
(* hold are left out.                                                       *)
(***************************************************************************)
EXTENDS Integers, Sequences, FiniteSets, FiniteSetsExt

CONSTANTS
  NPROC,
  Memories,         \* numbers of pages of memory to start from
  PGSIZE, P,
  UserPages,     \* pages below the region of TRAPFRAME and TRAMPOLINE
  Sbrks, Lens,   \* arguments of sbrk() and mmap()
  Programs,      \* what exec() may find: sequences of segments
  Args,          \* numbers of arguments
  MaxCalls       \* bound on system calls and faults

ASSUME VmAssumption ==
  /\ PGSIZE \in Nat \ {0} /\ P \in Nat \ {0, 1}
  /\ UserPages % (P * P) = 0

Proc       == 1 .. NPROC
MAXVA      == UserPages + P * P        \* in pages
TRAMPOLINE == MAXVA - 1
TRAPFRAME  == MAXVA - 2
Special    == {TRAMPOLINE, TRAPFRAME}

VARIABLES
  NPAGES,      \* pages that freerange() gave to kfree(), fixed at the start
  nfree,       \* length of kmem.freelist
  pc,          \* where each process is
  tf,          \* p->trapframe is allocated
  pt, sz,      \* p->pagetable, p->sz
  newpt, newsz,\* pagetable and sz of exec()
  child,       \* np of fork()
  loop,        \* [a, old, to] of the allocating loop the process is in
  prog, argv,  \* segments still to load, argument pages allocated by sys_exec()
  vma,         \* the pages that a mapping of the process covers
  lazy,        \* history: pages below sz that mmap() added without memory
  calls        \* bound

vars == <<nfree, pc, tf, pt, sz, newpt, newsz, child, loop, prog, argv, vma, lazy, NPAGES, calls>>

NoTable == [root |-> FALSE, tabs |-> {}, leaf |-> {}]
NoLoop  == [a |-> 0, old |-> 0, to |-> 0]

\* Another call is made.
Call == calls < MaxCalls /\ calls' = calls + 1

Goto(p, place) == pc' = [pc EXCEPT ![p] = place]

\* PGROUNDUP(n) / PGSIZE, and the pages below n bytes.
Up(n)    == (n + PGSIZE - 1) \div PGSIZE
Below(n) == 0 .. Up(n) - 1

Owned(t) == (IF t.root THEN 1 ELSE 0) + Cardinality(t.tabs) + Cardinality(t.leaf \ Special)

-------------------------------------------------------------------------------
(* Mutations (a further one stands before mappages()).                      *)

\* proc_pagetable() gives up without freeing the table.
LeavesTable(n) == n

\* uvmdealloc() rounds the new size down.
RoundsDown(n) == n \div PGSIZE

\* uvmalloc() starts at the page that holds the last byte.
StartsBelow(n) == n \div PGSIZE

-------------------------------------------------------------------------------
(* kernel/vm.c.                                                             *)

\* walk(): the page-table pages on the way to page a.
Path(a) == {<<1, a \div (P * P)>>, <<0, a \div P>>}
Walks(t, a) == Path(a) \subseteq t.tabs

\* walk(alloc) with n free pages: the tables it adds, all it needs or as many
\* as there are, from the top.
Added(t, a, n) ==
  LET missing == Path(a) \ t.tabs IN
  IF Cardinality(missing) <= n THEN missing
  ELSE IF n = 0 THEN {} ELSE {m \in missing : m[1] = 1}

\* Mutation: mappages() sets the entry that walk() did not find.
MapsAnyway(t, a, n) == [t EXCEPT !.tabs = @ \cup Added(t, a, n), !.leaf = @ \cup {a}]

\* mappages() of one page.  It panics at a page that is mapped.
mappages(t, a, n) ==
  LET tabs == t.tabs \cup Added(t, a, n) IN
  [t EXCEPT !.tabs = tabs, !.leaf = IF Path(a) \subseteq tabs THEN @ \cup {a} ELSE @]

Mapped(t, a, n) == Walks(mappages(t, a, n), a)

\* uvmunmap(): it panics when walk() finds no table, and skips a page that is
\* not mapped.
uvmunmap(t, pages) == [t EXCEPT !.leaf = @ \ pages]
UnmapPanics(t, pages) == \E a \in pages : ~ Walks(t, a)

\* uvmdealloc(): from to, both in pages, rounded up.
Dealloc(t, from, to) == uvmunmap(t, to .. from - 1)

\* proc_pagetable() with n free pages, and how many it keeps when it fails:
\* uvmfree() takes back what it allocated.
proc_pagetable(n) ==
  IF n = 0 THEN NoTable
  ELSE mappages(mappages([NoTable EXCEPT !.root = TRUE], TRAMPOLINE, n - 1), TRAPFRAME, n - 1)
PagetableFails(n) == n < 3
Kept(n) == 0

\* proc_freepagetable(): uvmunmap() of the two special pages and of size bytes,
\* and freewalk(), which panics at a page still mapped.
FreePanics(t, size) == UnmapPanics(t, Below(size)) \/ ~ (t.leaf \ Special \subseteq Below(size))

-------------------------------------------------------------------------------
(* uvmalloc(), for growproc() ("grow", the process's own table) and for      *)
(* exec() ("seg" and "stack", the new one).                                 *)

Table(p) == IF pc[p] = "grow" THEN pt[p] ELSE newpt[p]

SetTable(p, t) ==
  IF pc[p] = "grow" THEN pt' = [pt EXCEPT ![p] = t] /\ UNCHANGED newpt
                    ELSE newpt' = [newpt EXCEPT ![p] = t] /\ UNCHANGED pt

Allocating(p) == pc[p] \in {"grow", "seg", "stack"}

FirstPage(n) == Up(n)
Start(old, to) == [a |-> FirstPage(old), old |-> FirstPage(old), to |-> to]

\* kalloc() and mappages() of page a.
uvmalloc_page(p) ==
  LET a == loop[p].a  t == mappages(Table(p), a, nfree - 1) IN
  /\ Allocating(p)
  /\ a < Up(loop[p].to)
  /\ nfree > 0 /\ Mapped(Table(p), a, nfree - 1)
  /\ SetTable(p, t)
  /\ nfree' = nfree - (Owned(t) - Owned(Table(p)))
  /\ loop' = [loop EXCEPT ![p].a = a + 1]
  /\ IF a \in Table(p).leaf THEN Goto(p, "panic") ELSE UNCHANGED pc
  /\ UNCHANGED <<tf, sz, newsz, child, prog, argv, vma, lazy, NPAGES, calls>>

\* exec() goes to bad: proc_freepagetable(), and sys_exec() frees the arguments.
Bad(p, t, size) ==
  /\ newpt' = [newpt EXCEPT ![p] = NoTable]
  /\ Goto(p, IF FreePanics(t, size) THEN "panic" ELSE "user")
  /\ nfree' = nfree + Owned(newpt[p]) + argv[p]
  /\ argv' = [argv EXCEPT ![p] = 0]
  /\ newsz' = [newsz EXCEPT ![p] = 0]
  /\ prog' = [prog EXCEPT ![p] = <<>>]

\* kalloc() or mappages() fails: uvmdealloc() what this call has allocated, and
\* growproc() returns -1, or exec() goes to bad.
uvmalloc_fail(p) ==
  LET a == loop[p].a
      t == IF nfree = 0 THEN Table(p) ELSE mappages(Table(p), a, nfree - 1)
      u == Dealloc(t, a, loop[p].old)
  IN
  /\ Allocating(p)
  /\ a < Up(loop[p].to)
  /\ nfree = 0 \/ ~ Mapped(Table(p), a, nfree - 1)
  /\ loop' = [loop EXCEPT ![p] = NoLoop]
  /\ IF pc[p] = "grow"
       THEN /\ pt' = [pt EXCEPT ![p] = u]
            /\ nfree' = nfree + Owned(pt[p]) - Owned(u)
            /\ Goto(p, "user")
            /\ UNCHANGED <<newpt, newsz, prog, argv>>
       ELSE Bad(p, u, newsz[p]) /\ UNCHANGED pt
  /\ UNCHANGED <<tf, sz, child, vma, lazy, NPAGES, calls>>

\* uvmalloc() returns the new size.
grow_done(p) ==
  /\ pc[p] = "grow"
  /\ loop[p].a >= Up(loop[p].to)
  /\ sz' = [sz EXCEPT ![p] = loop[p].to]
  /\ loop' = [loop EXCEPT ![p] = NoLoop]
  /\ Goto(p, "user")
  /\ UNCHANGED <<nfree, tf, pt, newpt, newsz, child, prog, argv, vma, lazy, NPAGES, calls>>

-------------------------------------------------------------------------------
(* sbrk(), mmap(), munmap() and page faults.                                *)

sbrk_grow(p, n) ==
  /\ pc[p] = "user" /\ Call
  /\ n > 0 /\ sz[p] + n <= UserPages * PGSIZE
  /\ loop' = [loop EXCEPT ![p] = Start(sz[p], sz[p] + n)]
  /\ Goto(p, "grow")
  /\ UNCHANGED <<nfree, tf, pt, sz, newpt, newsz, child, prog, argv, vma, lazy, NPAGES>>

\* Up(n) of the size that uvmdealloc() goes down to.
NewUp(n) == Up(n)

\* uvmdealloc().  A size below zero wraps round to a large one, which leaves all.
sbrk_shrink(p, n) ==
  LET to == sz[p] + n  pages == NewUp(to) .. Up(sz[p]) - 1 IN
  /\ pc[p] = "user" /\ Call
  /\ n < 0 /\ to >= 0
  /\ IF UnmapPanics(pt[p], pages)
       THEN Goto(p, "panic") /\ UNCHANGED <<nfree, pt, sz, lazy>>
       ELSE /\ pt' = [pt EXCEPT ![p] = uvmunmap(@, pages)]
            /\ nfree' = nfree + Cardinality(pt[p].leaf \cap pages)
            /\ sz' = [sz EXCEPT ![p] = to]
            /\ lazy' = [lazy EXCEPT ![p] = @ \cap Below(to)]
            /\ UNCHANGED pc
  /\ UNCHANGED <<tf, newpt, newsz, child, loop, prog, argv, vma, NPAGES>>

\* sys_mmap(): p->sz grows by whole pages that are allocated when they are
\* touched.
sys_mmap(p, len) ==
  LET to == sz[p] + Up(len) * PGSIZE IN
  /\ pc[p] = "user" /\ Call
  /\ to <= UserPages * PGSIZE
  /\ sz' = [sz EXCEPT ![p] = to]
  /\ vma' = [vma EXCEPT ![p] = @ \cup {a \in Below(to) : a * PGSIZE >= sz[p]}]
  /\ lazy' = [lazy EXCEPT ![p] = @ \cup (Below(to) \ Below(sz[p]))]
  /\ UNCHANGED <<nfree, pc, tf, pt, newpt, newsz, child, loop, prog, argv, NPAGES>>

\* munmap() of the first page of a shared mapping: uvmunmap(), when the page is
\* there to be written to the file.
munmap(p, a) ==
  /\ pc[p] = "user" /\ Call
  /\ a \in vma[p] /\ a \in pt[p].leaf
  /\ vma' = [vma EXCEPT ![p] = @ \ {a}]
  /\ pt' = [pt EXCEPT ![p] = uvmunmap(@, {a})]
  /\ nfree' = nfree + 1
  /\ lazy' = [lazy EXCEPT ![p] = @ \cup {a}]
  /\ UNCHANGED <<pc, tf, sz, newpt, newsz, child, loop, prog, argv, NPAGES>>

\* usertrap(): a fault in a mapping, below p->sz; no memory kills the process.
fault(p, a) ==
  LET t == mappages(pt[p], a, nfree - 1) IN
  /\ pc[p] = "user" /\ Call
  /\ a \in vma[p] /\ a * PGSIZE < sz[p] /\ a \notin pt[p].leaf
  /\ IF nfree = 0
       THEN Goto(p, "exit") /\ UNCHANGED <<pt, nfree>>
       ELSE /\ pt' = [pt EXCEPT ![p] = t]
            /\ nfree' = nfree - (Owned(t) - Owned(pt[p]))
            /\ IF Mapped(pt[p], a, nfree - 1) THEN UNCHANGED pc ELSE Goto(p, "exit")
  /\ UNCHANGED <<tf, sz, newpt, newsz, child, loop, prog, argv, vma, lazy, NPAGES>>

-------------------------------------------------------------------------------
(* fork(), exit() and wait().                                               *)

Unused == {c \in Proc : pc[c] = "unused"}

\* allocproc() without memory for the trapframe or the page table.
fork_fail(p) ==
  /\ pc[p] = "user" /\ Unused # {}
  /\ nfree = 0 \/ PagetableFails(nfree - 1)
  /\ nfree' = IF nfree = 0 THEN 0 ELSE nfree - Kept(nfree - 1)
  /\ UNCHANGED <<pc, tf, pt, sz, newpt, newsz, child, loop, prog, argv, vma, lazy, NPAGES, calls>>

\* allocproc(): the first unused slot gets a trapframe and a page table.
fork(p) ==
  LET c == Min(Unused)  t == proc_pagetable(nfree - 1) IN
  /\ pc[p] = "user" /\ Call /\ Unused # {}
  /\ nfree > 0 /\ ~ PagetableFails(nfree - 1)
  /\ tf' = [tf EXCEPT ![c] = TRUE]
  /\ pt' = [pt EXCEPT ![c] = t]
  /\ nfree' = nfree - 1 - Owned(t)
  /\ child' = [child EXCEPT ![p] = c]
  /\ pc' = [pc EXCEPT ![p] = "copy", ![c] = "used"]
  /\ loop' = [loop EXCEPT ![p] = Start(0, sz[p])]
  /\ UNCHANGED <<sz, newpt, newsz, prog, argv, vma, lazy, NPAGES>>

Copying(p) == pc[p] = "copy" /\ loop[p].a < Up(loop[p].to)

\* uvmcopy(): a page that is not present is skipped; no table is a panic.
uvmcopy_skip(p) ==
  LET a == loop[p].a IN
  /\ Copying(p)
  /\ a \notin pt[p].leaf
  /\ loop' = [loop EXCEPT ![p].a = a + 1]
  /\ IF Walks(pt[p], a) THEN UNCHANGED pc ELSE Goto(p, "panic")
  /\ UNCHANGED <<nfree, tf, pt, sz, newpt, newsz, child, prog, argv, vma, lazy, NPAGES, calls>>

uvmcopy_page(p) ==
  LET a == loop[p].a  c == child[p]  t == mappages(pt[c], a, nfree - 1) IN
  /\ Copying(p)
  /\ a \in pt[p].leaf
  /\ nfree > 0 /\ Mapped(pt[c], a, nfree - 1)
  /\ pt' = [pt EXCEPT ![c] = t]
  /\ nfree' = nfree - (Owned(t) - Owned(pt[c]))
  /\ loop' = [loop EXCEPT ![p].a = a + 1]
  /\ UNCHANGED <<pc, tf, sz, newpt, newsz, child, prog, argv, vma, lazy, NPAGES, calls>>

\* err: uvmunmap() what was copied, and freeproc() of the child.
uvmcopy_fail(p) ==
  LET a == loop[p].a  c == child[p]
      t == IF nfree = 0 THEN pt[c] ELSE mappages(pt[c], a, nfree - 1)
      u == Dealloc(t, a, 0)
  IN
  /\ Copying(p)
  /\ a \in pt[p].leaf
  /\ nfree = 0 \/ ~ Mapped(pt[c], a, nfree - 1)
  /\ pt' = [pt EXCEPT ![c] = NoTable]
  /\ tf' = [tf EXCEPT ![c] = FALSE]
  /\ nfree' = nfree + Owned(pt[c]) + 1
  /\ child' = [child EXCEPT ![p] = 0]
  /\ loop' = [loop EXCEPT ![p] = NoLoop]
  /\ pc' = [pc EXCEPT ![c] = "unused",
                      ![p] = IF UnmapPanics(t, 0 .. a - 1) \/ FreePanics(u, 0) THEN "panic" ELSE "user"]
  /\ UNCHANGED <<sz, newpt, newsz, prog, argv, vma, lazy, NPAGES, calls>>

fork_done(p) ==
  LET c == child[p] IN
  /\ pc[p] = "copy" /\ ~ Copying(p)
  /\ sz' = [sz EXCEPT ![c] = sz[p]]
  /\ vma' = [vma EXCEPT ![c] = vma[p]]
  /\ lazy' = [lazy EXCEPT ![c] = lazy[p]]
  /\ pc' = [pc EXCEPT ![p] = "user", ![c] = "user"]
  /\ child' = [child EXCEPT ![p] = 0]
  /\ loop' = [loop EXCEPT ![p] = NoLoop]
  /\ UNCHANGED <<nfree, tf, pt, newpt, newsz, prog, argv, NPAGES, calls>>

\* exit(), called or forced by a fault.
exit(p) ==
  /\ pc[p] \in {"user", "exit"}
  /\ Goto(p, "zombie")
  /\ vma' = [vma EXCEPT ![p] = {}]
  /\ UNCHANGED <<nfree, tf, pt, sz, newpt, newsz, child, loop, prog, argv, lazy, NPAGES, calls>>

\* wait() of the parent, or of init: freeproc().
freeproc(c) ==
  /\ pc[c] = "zombie"
  /\ IF FreePanics(pt[c], sz[c])
       THEN Goto(c, "panic") /\ UNCHANGED <<nfree, tf, pt, sz, lazy>>
       ELSE /\ nfree' = nfree + 1 + Owned(pt[c])
            /\ tf' = [tf EXCEPT ![c] = FALSE]
            /\ pt' = [pt EXCEPT ![c] = NoTable]
            /\ sz' = [sz EXCEPT ![c] = 0]
            /\ lazy' = [lazy EXCEPT ![c] = {}]
            /\ Goto(c, "unused")
  /\ UNCHANGED <<newpt, newsz, child, loop, prog, argv, vma, NPAGES, calls>>

-------------------------------------------------------------------------------
(* sys_exec() and exec().                                                   *)

exec_call(p) ==
  /\ pc[p] = "user" /\ Call
  /\ \E k \in Args : loop' = [loop EXCEPT ![p].to = k]
  /\ Goto(p, "argv")
  /\ UNCHANGED <<nfree, tf, pt, sz, newpt, newsz, child, prog, argv, vma, lazy, NPAGES>>

\* A page for the next argument.
exec_arg(p) ==
  /\ pc[p] = "argv" /\ argv[p] < loop[p].to
  /\ nfree > 0
  /\ nfree' = nfree - 1
  /\ argv' = [argv EXCEPT ![p] = @ + 1]
  /\ UNCHANGED <<pc, tf, pt, sz, newpt, newsz, child, loop, prog, vma, lazy, NPAGES, calls>>

\* No page for an argument, an argument or a file that cannot be read, or no
\* page table: the argument pages are freed.
exec_reject(p) ==
  /\ pc[p] = "argv"
  /\ nfree' = argv[p] + (IF argv[p] = loop[p].to /\ PagetableFails(nfree) THEN nfree - Kept(nfree) ELSE nfree)
  /\ argv' = [argv EXCEPT ![p] = 0]
  /\ loop' = [loop EXCEPT ![p] = NoLoop]
  /\ Goto(p, "user")
  /\ UNCHANGED <<tf, pt, sz, newpt, newsz, child, prog, vma, lazy, NPAGES, calls>>

\* The file is a program: proc_pagetable().
exec_pagetable(p) ==
  LET t == proc_pagetable(nfree) IN
  /\ pc[p] = "argv" /\ argv[p] = loop[p].to
  /\ ~ PagetableFails(nfree)
  /\ \E s \in Programs : prog' = [prog EXCEPT ![p] = s]
  /\ newpt' = [newpt EXCEPT ![p] = t]
  /\ nfree' = nfree - Owned(t)
  /\ loop' = [loop EXCEPT ![p] = NoLoop]
  /\ Goto(p, "load")
  /\ UNCHANGED <<tf, pt, sz, newsz, child, argv, vma, lazy, NPAGES, calls>>

\* The next program header: uvmalloc() up to its end, or bad.
exec_header(p) ==
  LET s == Head(prog[p]) IN
  /\ pc[p] = "load" /\ prog[p] # <<>>
  /\ IF s.memsz < s.filesz
       THEN Bad(p, newpt[p], newsz[p]) /\ UNCHANGED loop
       ELSE /\ loop' = [loop EXCEPT ![p] = Start(newsz[p], s.vaddr + s.memsz)]
            /\ Goto(p, "seg")
            /\ UNCHANGED <<nfree, newpt, newsz, prog, argv>>
  /\ UNCHANGED <<tf, pt, sz, child, vma, lazy, NPAGES, calls>>

Loop_done(p) == loop[p].a >= Up(loop[p].to)

\* loadseg() panics at an address that is not mapped.
LoadPanics(t, s) == \E i \in 0 .. s.filesz - 1 : (s.vaddr + i) \div PGSIZE \notin t.leaf

\* The pages are there: loadseg(), or bad when vaddr is not aligned or the file
\* is too short.
exec_loadseg(p) ==
  LET s == Head(prog[p])  size == IF loop[p].to < newsz[p] THEN newsz[p] ELSE loop[p].to IN
  /\ pc[p] = "seg" /\ Loop_done(p)
  /\ loop' = [loop EXCEPT ![p] = NoLoop]
  /\ \/ Bad(p, newpt[p], size)
     \/ /\ size > 0 /\ s.vaddr % PGSIZE = 0
        /\ newsz' = [newsz EXCEPT ![p] = size]
        /\ prog' = [prog EXCEPT ![p] = Tail(@)]
        /\ Goto(p, IF LoadPanics(newpt[p], s) THEN "panic" ELSE "load")
        /\ UNCHANGED <<nfree, newpt, argv>>
  /\ UNCHANGED <<tf, pt, sz, child, vma, lazy, NPAGES, calls>>

\* Two pages at the next page boundary: a guard page and the stack.
exec_stack(p) ==
  LET top == Up(newsz[p]) * PGSIZE IN
  /\ pc[p] = "load" /\ prog[p] = <<>>
  /\ newsz' = [newsz EXCEPT ![p] = top]
  /\ loop' = [loop EXCEPT ![p] = Start(top, top + 2 * PGSIZE)]
  /\ Goto(p, "stack")
  /\ UNCHANGED <<nfree, tf, pt, sz, newpt, child, prog, argv, vma, lazy, NPAGES, calls>>

\* The arguments are copied to the stack, or are too long for it; commit to the
\* new image and proc_freepagetable() the old one.  vma_table stays as it is.
exec_commit(p) ==
  /\ pc[p] = "stack" /\ Loop_done(p)
  /\ loop' = [loop EXCEPT ![p] = NoLoop]
  /\ \/ /\ Bad(p, newpt[p], loop[p].to)
        /\ UNCHANGED <<pt, sz, lazy>>
     \/ /\ IF FreePanics(pt[p], sz[p])
             THEN Goto(p, "panic") /\ UNCHANGED <<nfree, pt, sz, newpt, argv, lazy>>
             ELSE /\ pt' = [pt EXCEPT ![p] = newpt[p]]
                  /\ sz' = [sz EXCEPT ![p] = loop[p].to]
                  /\ nfree' = nfree + Owned(pt[p]) + argv[p]
                  /\ newpt' = [newpt EXCEPT ![p] = NoTable]
                  /\ argv' = [argv EXCEPT ![p] = 0]
                  /\ lazy' = [lazy EXCEPT ![p] = {}]
                  /\ Goto(p, "user")
        /\ newsz' = [newsz EXCEPT ![p] = 0]
        /\ UNCHANGED prog
  /\ UNCHANGED <<tf, child, vma, NPAGES, calls>>

-------------------------------------------------------------------------------

\* A first process with a page of its own, as userinit() makes it.  init, which
\* only waits, and its pages are left out.
InitTable == mappages(proc_pagetable(3), 0, 2)

Init ==
  /\ NPAGES \in Memories
  /\ calls = 0
  /\ pc = [p \in Proc |-> IF p = 1 THEN "user" ELSE "unused"]
  /\ tf = [p \in Proc |-> p = 1]
  /\ pt = [p \in Proc |-> IF p = 1 THEN InitTable ELSE NoTable]
  /\ sz = [p \in Proc |-> IF p = 1 THEN PGSIZE ELSE 0]
  /\ nfree = NPAGES - 1 - Owned(InitTable)
  /\ newpt = [p \in Proc |-> NoTable]
  /\ newsz = [p \in Proc |-> 0]
  /\ child = [p \in Proc |-> 0]
  /\ loop = [p \in Proc |-> NoLoop]
  /\ prog = [p \in Proc |-> <<>>]
  /\ argv = [p \in Proc |-> 0]
  /\ vma = [p \in Proc |-> {}]
  /\ lazy = [p \in Proc |-> {}]

Next ==
  \E p \in Proc :
    \/ uvmalloc_page(p) \/ uvmalloc_fail(p) \/ grow_done(p)
    \/ \E n \in Sbrks : sbrk_grow(p, n) \/ sbrk_shrink(p, n)
    \/ \E n \in Lens : sys_mmap(p, n)
    \/ \E a \in 0 .. UserPages - 1 : munmap(p, a) \/ fault(p, a)
    \/ fork(p) \/ fork_fail(p) \/ uvmcopy_page(p) \/ uvmcopy_skip(p) \/ uvmcopy_fail(p)
    \/ fork_done(p) \/ exit(p) \/ freeproc(p)
    \/ exec_call(p) \/ exec_arg(p) \/ exec_reject(p) \/ exec_pagetable(p) \/ exec_header(p)
    \/ exec_loadseg(p) \/ exec_stack(p) \/ exec_commit(p)

Spec == Init /\ [][Next]_vars

-------------------------------------------------------------------------------
(* Properties.                                                              *)

Places == {"unused", "used", "user", "grow", "copy", "argv", "load", "seg", "stack",
           "exit", "zombie", "panic"}

\* Types; a page is mapped only under its page-table pages.
TypeOK ==
  /\ nfree \in 0 .. NPAGES
  /\ pc \in [Proc -> Places]
  /\ \A t \in {pt[p] : p \in Proc} \cup {newpt[p] : p \in Proc} :
       /\ t.leaf \subseteq 0 .. MAXVA - 1
       /\ \A a \in t.leaf : Walks(t, a)
       /\ t.tabs # {} => t.root
  /\ \A p \in Proc : sz[p] \in 0 .. UserPages * PGSIZE /\ argv[p] \in Nat

Pages(p) == (IF tf[p] THEN 1 ELSE 0) + Owned(pt[p]) + Owned(newpt[p]) + argv[p]

\* Every page of memory is free or is owned once, in the middle of every call
\* and after each of its failures: nothing leaks and nothing is freed twice,
\* whichever kalloc() of fork(), exec(), sbrk(), mmap() or a fault fails.
PagesExact == nfree + MapThenSumSet(Pages, Proc) = NPAGES

\* Between system calls the pages of a process are those below p->sz, but for
\* those that mmap() added and nobody touched: a call that failed has changed
\* nothing, a call that succeeded is complete.
PagesMatchSize ==
  \A p \in Proc : pc[p] = "user" =>
    /\ Special \subseteq pt[p].leaf
    /\ pt[p].leaf \ Special \subseteq Below(sz[p])
    /\ Below(sz[p]) \ pt[p].leaf \subseteq lazy[p]

\* The panics of vm.c and exec.c are out of reach, on every failing path too, of
\* a process all of whose pages are there.
PanicsOnlyOnLazyPages ==
  \A p \in Proc : pc[p] = "panic" => \E a \in Below(sz[p]) : a \notin pt[p].leaf

\* Page tables are well formed and pages are owned exactly once.
PagesInv == TypeOK /\ PagesExact

\* The size and the pages of a process agree, and only pages that mmap() added
\* and nobody touched lead to a panic.
SizeInv == PagesMatchSize /\ PanicsOnlyOnLazyPages
===============================================================================

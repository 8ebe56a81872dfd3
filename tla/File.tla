--------------------------------- MODULE File ---------------------------------
(***************************************************************************)
(* Open files (kernel/file.c and the descriptors of kernel/sysfile.c) over  *)
(* the blocks of files (kernel/fs.c), on a disk made by mkfs/mkfs.c.        *)
(*                                                                          *)
(* A write is cut where the code gives others a chance: between the chunks  *)
(* of filewrite(), each a transaction, and between the blocks of writei().  *)
(* The other calls hold the inode lock from their first look at the file to *)
(* their last.  The log is seen as AtomicDisk describes it: the disk changes *)
(* when the last active transaction ends.  Bytes are numbers; the one a     *)
(* process writes is its own.                                               *)
(***************************************************************************)
EXTENDS Integers, Sequences, FiniteSets, FiniteSetsExt, TLC

CONSTANTS
  Proc,         \* a process is the byte it writes
  NInode,       \* inode 1 is the root directory
  NBlock,       \* sb.size; block 0 stands for all the blocks before the data
  BSIZE,        \* bytes of a block, and block numbers of an indirect block
  BPB,          \* bits of a bitmap block
  NDIRECT, MAXOPBLOCKS, NFILE, NOFILE,
  Lengths,      \* lengths of the writes
  Appends,      \* lengths of what mkfs appends to a file
  MaxAppends, MaxCalls  \* bounds: appends of mkfs, calls in one behaviour

Inum    == 1 .. NInode
ROOTINO == 1
None    == 0
Block   == 0 .. NBlock - 1
NINDIRECT == BSIZE
MAXFILE == NDIRECT + NINDIRECT
Zeroed  == [k \in 0 .. BSIZE - 1 |-> 0]

\* filewrite() does not count bitmap blocks (a slip, to see OpFits fail).
ChunkNotHalved == (MAXOPBLOCKS - 1 - 1 - 2) * BSIZE

\* The most that filewrite() hands to writei() at once.
Chunk   == ((MAXOPBLOCKS - 1 - 1 - 2) \div 2) * BSIZE

ASSUME FileAssumption ==
  /\ {NInode, NBlock, BSIZE, BPB, NDIRECT, NFILE, NOFILE} \subseteq Nat \ {0}
  /\ Chunk > 0
  /\ Proc \subseteq Nat \ {0}

VARIABLES
  fs,       \* the disk as the cache shows it: used (the bitmap), blk, din; and inode, in memory
  durable,  \* the disk after the last commit
  lock,     \* inode locks
  ftable,   \* struct file: ref, type, ip, off, readable, writable
  ofile,    \* descriptors of each process, 0 for none
  wr,       \* where each process is in filewrite() and writei()
  log,      \* blocks logged by the transaction of each process
  content,  \* history: what each file should contain
  saved,    \* history: content at the last commit
  made,     \* calls so far
  booted    \* mkfs has finished

kernel == <<fs, lock, ftable, ofile, wr, log>>
vars   == <<kernel, durable, content, saved, made, booted>>

Idle     == [at |-> "idle"]
NoInode  == [addrs |-> [k \in 0 .. NDIRECT |-> 0], size |-> 0]
NoFile   == [ref |-> 0, type |-> "none", ip |-> 0, off |-> 0, readable |-> FALSE, writable |-> FALSE]
Smaller(a, b) == IF a < b THEN a ELSE b
Larger(a, b)  == IF a > b THEN a ELSE b

-------------------------------------------------------------------------------
(* Blocks of a file.  s is a value of fs.                                   *)

balloc(s) == Min(Block \ s.used)
Alloc(s, b)  == [s EXCEPT !.used = @ \cup {b}, !.blk[b] = Zeroed]
AllocLog(b)  == {<<"bitmap", b \div BPB>>, <<"block", b>>}

\* bmap() of an address in the inode: allocate the block it should name.
Direct(s, i, k) ==
  IF s.inode[i].addrs[k] # 0 THEN [fs |-> s, addr |-> s.inode[i].addrs[k], log |-> {}]
  ELSE LET b == balloc(s)
       IN  [fs |-> [Alloc(s, b) EXCEPT !.inode[i].addrs[k] = b], addr |-> b, log |-> AllocLog(b)]

\* bmap() of an address in the indirect block.
Indirect(s, i, k) ==
  LET r == Direct(s, i, NDIRECT)
      b == balloc(r.fs)
  IN  IF r.fs.blk[r.addr][k] # 0 THEN [r EXCEPT !.addr = r.fs.blk[r.addr][k]]
      ELSE [fs   |-> [Alloc(r.fs, b) EXCEPT !.blk[r.addr][k] = b],
            addr |-> b,
            log  |-> r.log \cup AllocLog(b) \cup {<<"block", r.addr>>}]

bmap(s, i, bn) == IF bn < NDIRECT THEN Direct(s, i, bn) ELSE Indirect(s, i, bn - NDIRECT)

\* Put m bytes v at offset off of block b.
Put(s, b, off, m, v) ==
  [s EXCEPT !.blk[b] = [k \in 0 .. BSIZE - 1 |-> IF k \in off .. off + m - 1 THEN v ELSE @[k]]]

\* Block numbers that the inode d of the disk with blocks blk names.
Named(d, blk) ==
  LET direct == [k \in 0 .. NDIRECT |-> d.addrs[k]]
      ind    == [k \in NDIRECT + 1 .. NDIRECT + NINDIRECT |->
                   IF d.addrs[NDIRECT] = 0 THEN 0 ELSE blk[d.addrs[NDIRECT]][k - NDIRECT - 1]]
  IN  direct @@ ind
Blocks(d, blk) == {Named(d, blk)[k] : k \in 0 .. NDIRECT + NINDIRECT} \ {0}

iupdate(s, i) == [s EXCEPT !.din[i] = s.inode[i]]

\* itrunc() forgets the blocks behind the indirect block.
TruncDirect(s, i) ==
  iupdate([s EXCEPT !.used = @ \ {s.inode[i].addrs[k] : k \in 0 .. NDIRECT}, !.inode[i] = NoInode], i)

\* itrunc() frees what the inode names.
itrunc(s, i) ==
  iupdate([s EXCEPT !.used = @ \ Blocks(s.inode[i], s.blk), !.inode[i] = NoInode], i)

\* What a reader of inode i finds: through the block map, up to the size.
Content(s, i) ==
  [k \in 1 .. s.inode[i].size |->
     LET bn == (k - 1) \div BSIZE
         nm == Named(s.inode[i], s.blk)
         b  == nm[IF bn < NDIRECT THEN bn ELSE bn + 1]
     IN  s.blk[b][(k - 1) % BSIZE]]

\* The history: bytes v at off .. off + m - 1 of a file.
Written(c, off, m, v) ==
  [k \in 1 .. Larger(Len(c), off + m) |-> IF k \in off + 1 .. off + m THEN v ELSE c[k]]

-------------------------------------------------------------------------------
(* mkfs.                                                                    *)

\* One round of the loop of iappend(); freeblock is the first block not used.
\* The root directory comes first, and one append stands for all its entries,
\* which do not fill a block.
iappend(i, n) ==
  /\ ~booted
  /\ made < MaxAppends
  /\ LET off == fs.inode[i].size
         m   == Smaller(n, BSIZE - (off % BSIZE))
         r   == bmap(fs, i, off \div BSIZE)
     IN  /\ off < MAXFILE * BSIZE
         /\ IF i = ROOTINO THEN off = 0 /\ n < BSIZE ELSE fs.inode[ROOTINO].size > 0
         /\ fs' = iupdate([Put(r.fs, r.addr, off % BSIZE, m, 9) EXCEPT !.inode[i].size = off + m], i)
         /\ content' = [content EXCEPT ![i] = Written(@, off, m, 9)]
  /\ made' = made + 1
  /\ UNCHANGED <<durable, lock, ftable, ofile, wr, log, saved, booted>>

\* balloc(freeblock) of mkfs: the first blocks are in use.
UsedUpTo(n) == 0 .. n - 1

\* The end of mkfs, and boot.  The size of the root directory is rounded up.
mkfs_done ==
  /\ ~booted
  /\ fs.inode[ROOTINO].size > 0
  /\ LET off == ((fs.inode[ROOTINO].size \div BSIZE) + 1) * BSIZE
     IN  /\ fs' = iupdate([fs EXCEPT !.inode[ROOTINO].size = off, !.used = UsedUpTo(Cardinality(fs.used))], ROOTINO)
         /\ content' = [content EXCEPT ![ROOTINO] = [k \in 1 .. off |-> IF k <= Len(@) THEN @[k] ELSE 0]]
  /\ booted' = TRUE
  /\ made' = 0
  /\ durable' = fs'
  /\ saved' = content'
  /\ UNCHANGED <<lock, ftable, ofile, wr, log>>

-------------------------------------------------------------------------------
(* Struct files and descriptors.                                            *)

Quiet(p) == booted /\ wr[p] = Idle
Counted  == made < MaxCalls /\ made' = made + 1
FreeFiles  == {f \in 1 .. NFILE : ftable[f].ref = 0}
FreeFds(o) == {fd \in 1 .. NOFILE : o[fd] = 0}

\* The disk after a transaction of p that leaves s and c.
InOp(q) == wr[q].at \in {"block", "end"}
LastOp(p) == \A q \in Proc \ {p} : ~InOp(q)
Commit(p, s, c) ==
  /\ durable' = IF LastOp(p) THEN s ELSE durable
  /\ saved' = IF LastOp(p) THEN c ELSE saved

\* sys_open() of an existing file, from ilock() on.
Opened(i, mode) == [ref |-> 1, type |-> "inode", ip |-> i, off |-> 0,
                    readable |-> mode # "w", writable |-> mode # "r"]

sys_open(p, i, mode, trunc) ==
  /\ Quiet(p) /\ Counted
  /\ lock[i] = None
  /\ i = ROOTINO => mode = "r" /\ ~trunc
  /\ FreeFiles # {} /\ FreeFds(ofile[p]) # {}
  /\ ftable' = [ftable EXCEPT ![Min(FreeFiles)] = Opened(i, mode)]
  /\ ofile' = [ofile EXCEPT ![p][Min(FreeFds(ofile[p]))] = Min(FreeFiles)]
  /\ fs' = IF trunc THEN itrunc(fs, i) ELSE fs
  /\ content' = IF trunc THEN [content EXCEPT ![i] = << >>] ELSE content
  /\ Commit(p, fs', content')
  /\ UNCHANGED <<lock, wr, log, booted>>

\* fileclose() frees a file others still use.
CloseAll(t, f) == [t EXCEPT ![f] = NoFile]

\* fileclose() of f in the table t.
fileclose(t, f) ==
  [t EXCEPT ![f] = IF @.ref > 1 THEN [@ EXCEPT !.ref = @ - 1] ELSE NoFile]

sys_dup(p, fd) ==
  /\ Quiet(p) /\ Counted
  /\ ofile[p][fd] # 0
  /\ FreeFds(ofile[p]) # {}
  /\ ofile' = [ofile EXCEPT ![p][Min(FreeFds(ofile[p]))] = ofile[p][fd]]
  /\ ftable' = [ftable EXCEPT ![ofile[p][fd]].ref = @ + 1]
  /\ UNCHANGED <<fs, durable, lock, wr, log, content, saved, booted>>

sys_close(p, fd) ==
  /\ Quiet(p)
  /\ ofile[p][fd] # 0
  /\ ofile' = [ofile EXCEPT ![p][fd] = 0]
  /\ ftable' = fileclose(ftable, ofile[p][fd])
  /\ UNCHANGED <<fs, durable, lock, wr, log, content, saved, made, booted>>

\* fork() gives the child, which has no files yet, the files of the parent.
fork(p, q) ==
  /\ Quiet(p) /\ Counted
  /\ Quiet(q) /\ FreeFds(ofile[q]) = 1 .. NOFILE /\ p # q
  /\ ofile' = [ofile EXCEPT ![q] = ofile[p]]
  /\ ftable' = [f \in 1 .. NFILE |->
                  [ftable[f] EXCEPT !.ref = @ + Cardinality({fd \in 1 .. NOFILE : ofile[p][fd] = f})]]
  /\ UNCHANGED <<fs, durable, lock, wr, log, content, saved, booted>>

\* sys_pipe(): two files of pipealloc(), two descriptors; copyout() may fail.
\* When the second descriptor cannot be had the first is given back.
sys_pipe(p, copied) ==
  /\ Quiet(p) /\ Counted
  /\ Cardinality(FreeFiles) >= 2
  /\ LET rf == Min(FreeFiles)
         wf == Min(FreeFiles \ {rf})
         End(w) == [NoFile EXCEPT !.ref = 1, !.type = "pipe", !.readable = ~w, !.writable = w]
         t   == [ftable EXCEPT ![rf] = End(FALSE), ![wf] = End(TRUE)]
         fds == FreeFds(ofile[p])
     IN  IF Cardinality(fds) >= 2 /\ copied
         THEN /\ ofile' = [ofile EXCEPT ![p][Min(fds)] = rf, ![p][Min(fds \ {Min(fds)})] = wf]
              /\ ftable' = t
         ELSE /\ ftable' = fileclose(fileclose(t, rf), wf)
              /\ UNCHANGED ofile
  /\ UNCHANGED <<fs, durable, lock, wr, log, content, saved, booted>>

-------------------------------------------------------------------------------
(* Reading and writing.                                                     *)

\* readi() does not stop at the size.
CountAll(i, off, n) == n

\* readi() gives what there is up to the size.
Count(i, off, n) ==
  IF off > fs.inode[i].size THEN 0 ELSE Smaller(n, fs.inode[i].size - off)

\* fileread() does not lock the inode.
NoLock(i) == TRUE
Unlocked(i) == lock[i] = None

\* fileread(); copyout() may fail.
fileread(p, fd, n, copied) ==
  /\ Quiet(p) /\ Counted
  /\ LET f == ofile[p][fd]
         i == ftable[f].ip
     IN  /\ f # 0 /\ ftable[f].type = "inode" /\ ftable[f].readable
         /\ Unlocked(i)
         /\ ftable' = [ftable EXCEPT ![f].off = IF copied THEN @ + Count(i, @, n) ELSE @]
  /\ UNCHANGED <<fs, durable, lock, ofile, wr, log, content, saved, booted>>

sys_write(p, fd, n) ==
  /\ Quiet(p) /\ Counted
  /\ LET f == ofile[p][fd]
     IN  /\ f # 0 /\ ftable[f].type = "inode" /\ ftable[f].writable
         /\ wr' = [wr EXCEPT ![p] = [at |-> "chunk", f |-> f, left |-> n]]
  /\ UNCHANGED <<fs, durable, lock, ftable, ofile, log, content, saved, booted>>

\* filewrite(): begin_op(), ilock() and the tests at the start of writei().
filewrite_begin(p) ==
  /\ wr[p].at = "chunk"
  /\ LET f   == wr[p].f
         i   == ftable[f].ip
         off == ftable[f].off
         n1  == Smaller(wr[p].left, Chunk)
         bad == off > fs.inode[i].size \/ off + n1 > MAXFILE * BSIZE
     IN  /\ lock[i] = None
         /\ lock' = [lock EXCEPT ![i] = p]
         /\ wr' = [wr EXCEPT ![p] = [at |-> IF bad THEN "end" ELSE "block", f |-> f, left |-> wr[p].left,
                                     off |-> off, n1 |-> n1, tot |-> IF bad THEN -1 ELSE 0]]
  /\ UNCHANGED <<fs, durable, ftable, ofile, log, content, saved, made, booted>>

\* One round of the loop of writei().  A failed copyin() leaves it, with the
\* block that bmap() may have allocated.
filewrite_block(p, copied) ==
  /\ wr[p].at = "block" /\ wr[p].tot < wr[p].n1
  /\ LET w == wr[p]
         i == ftable[w.f].ip
         m == Smaller(w.n1 - w.tot, BSIZE - (w.off % BSIZE))
         r == bmap(fs, i, w.off \div BSIZE)
     IN  /\ Cardinality(Block \ fs.used) >= 2     \* or balloc() may panic
         /\ IF copied
            THEN /\ fs' = Put(r.fs, r.addr, w.off % BSIZE, m, p)
                 /\ log' = [log EXCEPT ![p] = @ \cup r.log \cup {<<"block", r.addr>>}]
                 /\ content' = [content EXCEPT ![i] = Written(@, w.off, m, p)]
                 /\ wr' = [wr EXCEPT ![p].off = @ + m, ![p].tot = @ + m]
            ELSE /\ fs' = r.fs
                 /\ log' = [log EXCEPT ![p] = @ \cup r.log]
                 /\ wr' = [wr EXCEPT ![p].at = "end"]
                 /\ UNCHANGED content
  /\ UNCHANGED <<durable, lock, ftable, ofile, saved, made, booted>>

\* writei() sets the size also when it did not grow, or stores the inode only then.
SizeAlways(w, old) == IF w.tot < 0 THEN old ELSE w.off
StoredIfGrown(s, w, i) == IF w.off <= fs.inode[i].size THEN s ELSE iupdate(s, i)

NewSize(w, old) == IF w.tot < 0 THEN old ELSE Larger(w.off, old)
Stored(s, w, i) == IF w.tot < 0 THEN s ELSE iupdate(s, i)

\* The end of writei(), iunlock(), end_op(), and the end of the loop of filewrite().
filewrite_end(p) ==
  /\ wr[p].at = "end" \/ (wr[p].at = "block" /\ wr[p].tot = wr[p].n1)
  /\ LET w == wr[p]
         i == ftable[w.f].ip
         r == Larger(w.tot, 0)
     IN  /\ fs' = Stored([fs EXCEPT !.inode[i].size = NewSize(w, @)], w, i)
         /\ ftable' = [ftable EXCEPT ![w.f].off = @ + r]
         /\ lock' = [lock EXCEPT ![i] = None]
         /\ wr' = [wr EXCEPT ![p] = IF w.tot # w.n1 \/ w.tot = w.left THEN Idle
                                    ELSE [at |-> "chunk", f |-> w.f, left |-> w.left - r]]
  /\ log' = [log EXCEPT ![p] = {}]
  /\ Commit(p, fs', content)
  /\ UNCHANGED <<ofile, content, made, booted>>

-------------------------------------------------------------------------------

\* The disk is what the last commit left; inodes are read from it again.
crash ==
  /\ booted
  /\ fs' = [durable EXCEPT !.inode = durable.din]
  /\ content' = saved
  /\ lock' = [i \in Inum |-> None]
  /\ ftable' = [f \in 1 .. NFILE |-> NoFile]
  /\ ofile' = [p \in Proc |-> [fd \in 1 .. NOFILE |-> 0]]
  /\ wr' = [p \in Proc |-> Idle]
  /\ log' = [p \in Proc |-> {}]
  /\ UNCHANGED <<durable, saved, made, booted>>

Init ==
  /\ fs = [used |-> {0}, blk |-> [b \in Block |-> Zeroed],
           inode |-> [i \in Inum |-> NoInode], din |-> [i \in Inum |-> NoInode]]
  /\ content = [i \in Inum |-> << >>]
  /\ durable = fs /\ saved = content
  /\ lock = [i \in Inum |-> None]
  /\ ftable = [f \in 1 .. NFILE |-> NoFile]
  /\ ofile = [p \in Proc |-> [fd \in 1 .. NOFILE |-> 0]]
  /\ wr = [p \in Proc |-> Idle]
  /\ log = [p \in Proc |-> {}]
  /\ made = 0
  /\ booted = FALSE

Next ==
  \/ \E i \in Inum, n \in Appends : iappend(i, n)
  \/ mkfs_done
  \/ \E p \in Proc :
       \/ \E i \in Inum, mode \in {"r", "w", "rw"}, trunc \in BOOLEAN : sys_open(p, i, mode, trunc)
       \/ \E q \in Proc : fork(p, q)
       \/ \E copied \in BOOLEAN : sys_pipe(p, copied)
       \/ \E fd \in 1 .. NOFILE :
            \/ sys_dup(p, fd) \/ sys_close(p, fd)
            \/ \E n \in Lengths : sys_write(p, fd, n) \/ \E copied \in BOOLEAN : fileread(p, fd, n, copied)
       \/ filewrite_begin(p) \/ filewrite_end(p)
       \/ \E copied \in BOOLEAN : filewrite_block(p, copied)
  \/ crash

Spec == Init /\ [][Next]_vars

-------------------------------------------------------------------------------
(* Properties.                                                              *)

TypeOK ==
  /\ fs.used \subseteq Block
  /\ fs.inode \in [Inum -> [addrs : [0 .. NDIRECT -> Block], size : 0 .. MAXFILE * BSIZE]]
  /\ fs.din \in [Inum -> [addrs : [0 .. NDIRECT -> Block], size : 0 .. MAXFILE * BSIZE]]
  /\ ofile \in [Proc -> [1 .. NOFILE -> 0 .. NFILE]]
  /\ \A f \in 1 .. NFILE : ftable[f].ref \in Nat /\ ftable[f].off \in 0 .. MAXFILE * BSIZE

\* The blocks in use are the ones that inodes name, and no block is named
\* twice: of s.inode in memory, or of s.din after a crash.
Exact(s, inodes) ==
  LET named == {<<i, k>> \in Inum \X (0 .. NDIRECT + NINDIRECT) : Named(inodes[i], s.blk)[k] # 0}
  IN  /\ s.used = {0} \cup {Named(inodes[x[1]], s.blk)[x[2]] : x \in named}
      /\ Cardinality(s.used) = 1 + Cardinality(named)

\* balloc(), bmap(), itrunc() and mkfs agree on which blocks are free, also
\* while writes to two files are under way: no block is shared or leaked, and
\* bfree() never finds a free block.
BlocksExact == Exact(fs, fs.inode)

\* The same of the disk after a crash: writei() stores the inode "even if the
\* size didn't change because the loop above might have called bmap()".
DurableBlocks == booted => Exact(durable, durable.din)

\* A file contains what was written to it, by mkfs or through any descriptor,
\* also after a crash and after its blocks belonged to another file.
FileContents == \A i \in Inum : lock[i] = None => Content(fs, i) = content[i]

\* While a process is inside writei() nobody moves the offset of its struct
\* file, although descriptors of other processes share it.
OffsetIsOwned ==
  \A p \in Proc : wr[p].at = "block" => ftable[wr[p].f].off + wr[p].tot = wr[p].off

\* f->ref is the number of descriptors that lead to the file, on the failing
\* paths of pipe() too; a file without any is free.
FileRefs ==
  \A f \in 1 .. NFILE :
    /\ ftable[f].ref = Cardinality({<<p, fd>> \in Proc \X (1 .. NOFILE) : ofile[p][fd] = f})
    /\ (ftable[f].ref = 0) <=> (ftable[f].type = "none")

\* A chunk of filewrite() logs at most the MAXOPBLOCKS blocks that begin_op()
\* reserves: data, bitmap, indirect block and inode, aligned or not.
OpFits == \A p \in Proc : Cardinality(log[p] \cup {<<"inode", 0>>}) <= MAXOPBLOCKS

\* The blocks are given out exactly, in memory at every moment and on the disk
\* between calls.
BlockInv == TypeOK /\ BlocksExact /\ DurableBlocks

\* The file table is exact although descriptors share its entries.
FileInv == FileRefs /\ OffsetIsOwned
===============================================================================

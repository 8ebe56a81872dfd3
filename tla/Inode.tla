-------------------------------- MODULE Inode --------------------------------
(***************************************************************************)
(* The inode table and the directories of kernel/fs.c, and the system calls *)
(* of kernel/sysfile.c that walk paths and change names.                    *)
(*                                                                          *)
(* pc[p] is the rest of the call of p: a sequence of places <<name, inode>>, *)
(* the next one first.  A step is a critical section of itable.lock or what *)
(* a process does between taking an inode lock and giving it up.  Calls run *)
(* inside transactions of the log, seen here as AtomicDisk describes them:  *)
(* the disk changes when the last active call ends, and a crash brings the  *)
(* disk back.  A panic stops the machine, so it is a crash too.             *)
(***************************************************************************)
EXTENDS Integers, Sequences, FiniteSets, TLC

CONSTANTS
  Proc,
  NInode,   \* inodes 1 .. NInode on the disk; 1 is the root directory
  Name,     \* names of directory entries, other than "." and ".."
  Calls,    \* the calls made: [op, path, to], "/" first in an absolute path
  Starts,   \* states of the disk to start from, and a current directory: [dir, cwd]
  MaxCalls  \* bound: calls with a path in one behaviour

Inum    == 1 .. NInode
ROOTINO == 1
None    == "none"
Dots    == {".", ".."}
Kinds   == {"file", "dir", "dev"}

ASSUME InodeAssumption ==
  /\ NInode \in Nat \ {0}
  /\ Name \cap Dots = {}
  /\ \A c \in Calls : c.path # << >> /\ c.to # << >>

VARIABLES
  inode,    \* itable, by inode number: ref, valid, lock, type, nlink
  dinode,   \* inodes on the disk as the buffer cache shows them: type, nlink
  dir,      \* contents of the directories: name -> inode number, 0 for none
  durable,  \* <<dinode, dir>> after the last commit
  pc,       \* the rest of the call of each process; Idle between calls
  call,     \* its arguments
  path,     \* the elements namex() has still to walk
  ip, dp, old,  \* local variables of namex(), create(), sys_link(), sys_unlink()
  cwd, fd,  \* current directory and the one open file of each process
  astray,   \* history: the call used a directory no path leads to
  made,     \* calls with a path made so far
  lost      \* history: <<i, why>>, inodes lost by a crash or by the race of
            \* iput_drop, and removed directories that got a new entry

table == <<inode, dinode, dir>>
hist  == <<made, lost>>
local == <<call, path, ip, dp, old, cwd, fd, astray>>
vars  == <<table, durable, pc, local, hist>>

Idle     == << <<"idle", 0>> >>
Free     == [type |-> "free", nlink |-> 0]
NoDir    == [n \in Name \cup Dots |-> 0]
RootDir  == [n \in Name \cup Dots |-> IF n \in Dots THEN ROOTINO ELSE 0]
NotInUse == [ref |-> 0, valid |-> FALSE, lock |-> None, type |-> "free", nlink |-> 0]
NoCall   == [op |-> "none", path |-> << >>, to |-> << >>]

\* Directories that a path from the root leads to.
Reach[k \in 0 .. NInode] ==
  IF k = 0 THEN {ROOTINO}
  ELSE Reach[k - 1] \cup {i \in Inum : /\ dinode[i].type = "dir"
                                       /\ \E d \in Reach[k - 1], n \in Name : dir[d][n] = i}
Reachable == Reach[NInode]

At(p, place) == pc[p] # << >> /\ Head(pc[p])[1] = place
Arg(p)       == Head(pc[p])[2]
Busy(p)      == pc[p] # Idle
Ends(p)      == pc' = [pc EXCEPT ![p] = << >>]
Set(f, p, v) == f' = [f EXCEPT ![p] = v]

-------------------------------------------------------------------------------
(* The inode table.                                                         *)

\* iget() and idup(): one more reference; an entry not in use is set up again.
Iget(t, i) ==
  [t EXCEPT ![i] = IF @.ref > 0 THEN [@ EXCEPT !.ref = @ + 1]
                   ELSE [NotInUse EXCEPT !.ref = 1]]

iunlock(t, i) == [t EXCEPT ![i].lock = None]

\* iupdate() is forgotten.
NoUpdate(d, t, i) == d

\* ip->nlink += n in the table t; iupdate() copies the entry to the disk d.
Relink(t, i, n) == [t EXCEPT ![i].nlink = @ + n]
iupdate(d, t, i) == [d EXCEPT ![i] = [type |-> t[i].type, nlink |-> t[i].nlink]]

\* ilock(): read the inode unless it is valid.
Loaded(i) ==
  IF inode[i].valid THEN inode[i]
  ELSE [inode[i] EXCEPT !.valid = TRUE, !.type = dinode[i].type, !.nlink = dinode[i].nlink]

ilock(p) ==
  /\ At(p, "ilock")
  /\ inode[Arg(p)].lock = None
  /\ Loaded(Arg(p)).type # "free"
  /\ inode' = [inode EXCEPT ![Arg(p)] = [Loaded(Arg(p)) EXCEPT !.lock = p]]
  /\ Set(pc, p, Tail(pc[p]))
  /\ UNCHANGED <<dinode, dir, durable, local, hist>>

iunlockput(p) ==
  /\ At(p, "iunlockput")
  /\ inode' = iunlock(inode, Arg(p))
  /\ Set(pc, p, << <<"iput", Arg(p)>> >> \o Tail(pc[p]))
  /\ UNCHANGED <<dinode, dir, durable, local, hist>>

\* iput() does not look at other references, or looks after dropping its own.
UnusedIgnoresRef(i) == inode[i].valid /\ inode[i].nlink = 0
UnusedAfterDrop(i)  == inode[i].ref = 0 /\ inode[i].valid /\ inode[i].nlink = 0

\* The test of iput(), with itable.lock held.
Unused(i) == inode[i].ref = 1 /\ inode[i].valid /\ inode[i].nlink = 0

\* iput(): not the last user of an inode without links.
iput(p) ==
  /\ At(p, "iput")
  /\ ~Unused(Arg(p))
  /\ inode' = [inode EXCEPT ![Arg(p)].ref = @ - 1]
  /\ Set(pc, p, Tail(pc[p]))
  /\ UNCHANGED <<dinode, dir, durable, local, hist>>

\* iput(): take the inode lock and give up itable.lock ...
iput_last(p) ==
  /\ At(p, "iput")
  /\ Unused(Arg(p))
  /\ inode[Arg(p)].lock = None
  /\ inode' = [inode EXCEPT ![Arg(p)].lock = p]
  /\ Set(pc, p, << <<"ifree", Arg(p)>> >> \o Tail(pc[p]))
  /\ UNCHANGED <<dinode, dir, durable, local, hist>>

\* ... itrunc(), type 0, iupdate() ...
iput_free(p) ==
  /\ At(p, "ifree")
  /\ inode' = [inode EXCEPT ![Arg(p)].type = "free"]
  /\ dinode' = iupdate(dinode, inode', Arg(p))
  /\ dir' = [dir EXCEPT ![Arg(p)] = NoDir]
  /\ Set(pc, p, << <<"irelease", Arg(p)>> >> \o Tail(pc[p]))
  /\ UNCHANGED <<durable, local, hist>>

\* ... valid = 0 and releasesleep() ...
Invalid(i) == [inode EXCEPT ![i].valid = FALSE, ![i].lock = None]

iput_release(p) ==
  /\ At(p, "irelease")
  /\ inode' = Invalid(Arg(p))
  /\ Set(pc, p, << <<"idrop", Arg(p)>> >> \o Tail(pc[p]))
  /\ UNCHANGED <<dinode, dir, durable, local, hist>>

\* ... and ref--, without testing again what another process did with the
\* inode, allocated once more, in the meantime.
Race(i) == inode[i].ref = 1 /\ dinode[i].type # "free" /\ dinode[i].nlink = 0

iput_drop(p) ==
  /\ At(p, "idrop")
  /\ inode' = [inode EXCEPT ![Arg(p)].ref = @ - 1]
  /\ lost' = IF Race(Arg(p)) THEN lost \cup {<<Arg(p), "race">>} ELSE lost
  /\ Set(pc, p, Tail(pc[p]))
  /\ UNCHANGED <<dinode, dir, durable, local, made>>

-------------------------------------------------------------------------------
(* Path names.                                                              *)

WantsParent(p) == call[p].op \in {"create", "mkdir", "mknod", "unlink"} \/ old[p] # 0

\* begin_op() of a call that takes a path.
begin_op(p, c) ==
  /\ ~Busy(p)
  /\ made < MaxCalls
  /\ made' = made + 1
  /\ Set(call, p, c)
  /\ Set(path, p, c.path)
  /\ Set(pc, p, << <<"namex", 0>> >>)
  /\ UNCHANGED <<table, durable, ip, dp, old, cwd, fd, astray, lost>>

\* namex(): start at the root or at the current directory.
namex(p) ==
  /\ At(p, "namex")
  /\ LET abs  == Head(path[p]) = "/"
         i    == IF abs THEN ROOTINO ELSE cwd[p]
         rest == IF abs THEN Tail(path[p]) ELSE path[p]
     IN  /\ inode' = Iget(inode, i)
         /\ Set(path, p, rest)
         /\ IF rest = << >> /\ WantsParent(p)
            THEN Set(pc, p, << <<"iput", i>>, <<"failed", 0>> >>) /\ UNCHANGED ip
            ELSE /\ Set(pc, p, << <<"ilock", i>>, <<IF rest = << >> THEN "found" ELSE "lookup", 0>> >>)
                 /\ Set(ip, p, i)
  /\ UNCHANGED <<dinode, dir, durable, call, dp, old, cwd, fd, astray, hist>>

Entry(p) == dir[ip[p]][Head(path[p])]
AtParent(p) == At(p, "parent") /\ inode[ip[p]].type = "dir"   \* or dirlookup() panics
Stray(p)    == ip[p] \notin Reachable

\* namex() locks the next inode before it unlocks this one.
HandOverHand(p, next) == << <<"ilock", next>>, <<"iunlockput", ip[p]>> >>
Descend(p, next)      == << <<"iunlockput", ip[p]>>, <<"ilock", next>> >>

\* One round of the loop of namex(), with ip locked: dirlookup() the next element.
\* The caller of nameiparent() locks the directory again.
lookup(p) ==
  /\ At(p, "lookup")
  /\ LET last == Len(path[p]) = 1
         next == IF inode[ip[p]].type = "dir" THEN Entry(p) ELSE 0
     IN  IF inode[ip[p]].type = "dir" /\ WantsParent(p) /\ last
         THEN /\ inode' = iunlock(inode, ip[p])
              /\ Set(pc, p, << <<"ilock", ip[p]>>, <<"parent", 0>> >>)
              /\ UNCHANGED <<path, ip, astray>>
         ELSE IF next = 0
         THEN /\ Set(pc, p, << <<"iunlockput", ip[p]>>, <<"failed", 0>> >>)
              /\ Set(ip, p, 0)
              /\ UNCHANGED <<inode, path, astray>>
         ELSE /\ inode' = Iget(inode, next)
              /\ Set(pc, p, Append(Descend(p, next), <<IF last THEN "found" ELSE "lookup", 0>>))
              /\ Set(ip, p, next)
              /\ Set(path, p, Tail(path[p]))
              /\ Set(astray, p, astray[p] \/ Stray(p))
  /\ UNCHANGED <<dinode, dir, durable, call, dp, old, cwd, fd, hist>>

\* namex() returned 0.  sys_link() undoes its ip->nlink++, the others return.
failed(p) ==
  /\ At(p, "failed")
  /\ Set(pc, p, IF old[p] = 0 THEN << >> ELSE << <<"ilock", old[p]>>, <<"unlinked", 0>> >>)
  /\ Set(ip, p, old[p])
  /\ Set(old, p, 0)
  /\ UNCHANGED <<table, durable, call, path, dp, cwd, fd, astray, hist>>

-------------------------------------------------------------------------------
(* The calls after their path is walked.  ip (and dp) are locked.           *)

\* filealloc() and fdalloc() at the end of sys_open(), and iunlock().
OpenFile(p) ==
  /\ IF fd[p] # 0
     THEN Set(pc, p, << <<"iunlockput", ip[p]>> >>) /\ UNCHANGED <<inode, fd>>
     ELSE Ends(p) /\ inode' = iunlock(inode, ip[p]) /\ Set(fd, p, ip[p])
  /\ Set(ip, p, 0)
  /\ UNCHANGED <<dinode, dir, call, path, dp, old, cwd, astray>>

\* namei() found ip: "read" and "write" are sys_open() without O_CREATE.
found_open(p) ==
  /\ At(p, "found")
  /\ call[p].op \in {"read", "write"}
  /\ call[p].op = "write" => inode[ip[p]].type # "dir"
  /\ OpenFile(p)
  /\ UNCHANGED <<durable, hist>>

found_chdir(p) ==
  /\ At(p, "found")
  /\ call[p].op = "chdir"
  /\ inode[ip[p]].type = "dir"
  /\ inode' = iunlock(inode, ip[p])
  /\ Set(pc, p, << <<"iput", cwd[p]>> >>)
  /\ Set(cwd, p, ip[p])
  /\ Set(ip, p, 0)
  /\ UNCHANGED <<dinode, dir, durable, call, path, dp, old, fd, astray, hist>>

\* Links to directories; a link that is not counted.
LinkAny(p)  == TRUE
LinkUncounted == 0

MayLink(p) == inode[ip[p]].type # "dir"
LinkFirst  == 1

\* sys_link(): count the new link before the name is there.
found_link(p) ==
  /\ At(p, "found")
  /\ call[p].op = "link"
  /\ MayLink(p)
  /\ inode' = iunlock(Relink(inode, ip[p], LinkFirst), ip[p])
  /\ dinode' = iupdate(dinode, inode', ip[p])
  /\ Set(old, p, ip[p])
  /\ Set(ip, p, 0)
  /\ Set(path, p, call[p].to)
  /\ Set(pc, p, << <<"namex", 0>> >>)
  /\ UNCHANGED <<dir, durable, call, dp, cwd, fd, astray, hist>>

found_wrong(p) ==
  /\ At(p, "found")
  /\ \/ call[p].op = "write" /\ inode[ip[p]].type = "dir"
     \/ call[p].op = "link" /\ ~MayLink(p)
     \/ call[p].op = "chdir" /\ inode[ip[p]].type # "dir"
  /\ Set(pc, p, << <<"iunlockput", ip[p]>> >>)
  /\ Set(ip, p, 0)
  /\ UNCHANGED <<table, durable, call, path, dp, old, cwd, fd, astray, hist>>

\* dirlink() keeps the inode it finds, or sys_link() puts it once more.
LinkExistsKeeps(p) == << <<"iunlockput", ip[p]>>, <<"failed", 0>> >>
LinkExistsTwice(p) == << <<"iput", Entry(p)>>, <<"iput", Entry(p)>>, <<"iunlockput", ip[p]>>, <<"failed", 0>> >>

\* dirlink() looks the name up first and puts the inode it finds.
LinkExists(p) == << <<"iput", Entry(p)>>, <<"iunlockput", ip[p]>>, <<"failed", 0>> >>
NewEntry(p)   == IF Stray(p) THEN lost \cup {<<ip[p], "removed">>} ELSE lost

link(p) ==
  /\ AtParent(p)
  /\ call[p].op = "link"
  /\ IF Entry(p) # 0
     THEN /\ inode' = Iget(inode, Entry(p))
          /\ Set(pc, p, LinkExists(p))
          /\ UNCHANGED <<dir, old, lost>>
     ELSE /\ dir' = [dir EXCEPT ![ip[p]][Head(path[p])] = old[p]]
          /\ Set(pc, p, << <<"iunlockput", ip[p]>>, <<"iput", old[p]>> >>)
          /\ Set(old, p, 0)
          /\ lost' = NewEntry(p)
          /\ UNCHANGED inode
  /\ Set(ip, p, 0)
  /\ Set(astray, p, astray[p] \/ Stray(p))
  /\ UNCHANGED <<dinode, durable, call, path, dp, cwd, fd, made>>

\* sys_link() after "bad:", and the end of sys_unlink().
unlinked(p) ==
  /\ At(p, "unlinked")
  /\ inode' = Relink(inode, ip[p], -1)
  /\ dinode' = iupdate(dinode, inode', ip[p])
  /\ Set(pc, p, << <<"iunlockput", ip[p]>> >>)
  /\ Set(ip, p, 0)
  /\ UNCHANGED <<dir, durable, call, path, dp, old, cwd, fd, astray, hist>>

\* sys_unlink() up to ilock(ip).
unlink_lookup(p) ==
  /\ AtParent(p)
  /\ call[p].op = "unlink"
  /\ LET e == IF Head(path[p]) \in Dots THEN 0 ELSE Entry(p)
     IN  IF e = 0
         THEN /\ Set(pc, p, << <<"iunlockput", ip[p]>> >>)
              /\ Set(ip, p, 0)
              /\ UNCHANGED <<inode, dp>>
         ELSE /\ inode' = Iget(inode, e)
              /\ Set(pc, p, << <<"ilock", e>>, <<"unlink", 0>> >>)
              /\ Set(dp, p, ip[p])
              /\ Set(ip, p, e)
  /\ Set(astray, p, astray[p] \/ Stray(p))
  /\ UNCHANGED <<dinode, dir, durable, call, path, old, cwd, fd, hist>>

isdirempty(i) == \A n \in Name : dir[i][n] = 0

unlink(p) ==
  /\ At(p, "unlink")
  /\ inode[ip[p]].nlink >= 1
  /\ IF inode[ip[p]].type = "dir" /\ ~isdirempty(ip[p])
     THEN /\ Set(pc, p, << <<"iunlockput", ip[p]>>, <<"iunlockput", dp[p]>> >>)
          /\ Set(ip, p, 0)
          /\ UNCHANGED <<inode, dinode, dir>>
     ELSE /\ dir' = [dir EXCEPT ![dp[p]][Head(path[p])] = 0]
          /\ inode' = Relink(inode, dp[p], IF inode[ip[p]].type = "dir" THEN -1 ELSE 0)
          /\ dinode' = iupdate(dinode, inode', dp[p])
          /\ Set(pc, p, << <<"iunlockput", dp[p]>>, <<"unlinked", 0>> >>)
          /\ UNCHANGED ip
  /\ Set(dp, p, 0)
  /\ UNCHANGED <<durable, call, path, old, cwd, fd, astray, hist>>

\* create() up to ilock(ip): ialloc() takes the first free inode.  Without one
\* it panics, and the only step left is the restart.
Kind(p) == CASE call[p].op = "mkdir" -> "dir" [] call[p].op = "mknod" -> "dev" [] OTHER -> "file"
FirstFree == {i \in Inum : dinode[i].type = "free" /\ \A j \in 1 .. i - 1 : dinode[j].type # "free"}

create(p) ==
  /\ AtParent(p)
  /\ call[p].op \in {"create", "mkdir", "mknod"}
  /\ IF Entry(p) # 0
     THEN /\ inode' = Iget(inode, Entry(p))
          /\ Set(pc, p, << <<"iunlockput", ip[p]>>, <<"ilock", Entry(p)>>, <<"exists", 0>> >>)
          /\ Set(ip, p, Entry(p))
          /\ UNCHANGED <<dinode, dp, lost>>
     ELSE \E i \in FirstFree :
          /\ dinode' = [dinode EXCEPT ![i] = [type |-> Kind(p), nlink |-> 0]]
          /\ inode' = Iget(inode, i)
          /\ Set(pc, p, << <<"ilock", i>>, <<"fill", 0>> >>)
          /\ Set(dp, p, ip[p])
          /\ Set(ip, p, i)
          /\ lost' = NewEntry(p)
  /\ Set(astray, p, astray[p] \/ Stray(p))
  /\ UNCHANGED <<dir, durable, call, path, old, cwd, fd, made>>

create_exists(p) ==
  /\ At(p, "exists")
  /\ IF call[p].op = "create" /\ inode[ip[p]].type \in {"file", "dev"}
     THEN Set(pc, p, << <<"created", 0>> >>) /\ UNCHANGED ip
     ELSE Set(pc, p, << <<"iunlockput", ip[p]>> >>) /\ Set(ip, p, 0)
  /\ UNCHANGED <<table, durable, call, path, dp, old, cwd, fd, astray, hist>>

\* create() with both inodes locked: link counts, "." and "..", the entry.
create_fill(p) ==
  /\ At(p, "fill")
  /\ LET isdir == inode[ip[p]].type = "dir"
     IN  /\ inode' = Relink(Relink(inode, dp[p], IF isdir THEN 1 ELSE 0), ip[p], 1)
         /\ dinode' = iupdate(iupdate(dinode, inode', dp[p]), inode', ip[p])
         /\ dir' = [dir EXCEPT ![dp[p]][Head(path[p])] = ip[p],
                               ![ip[p]] = IF isdir THEN [NoDir EXCEPT !["."] = ip[p], ![".."] = dp[p]]
                                          ELSE @]
  /\ Set(pc, p, << <<"iunlockput", dp[p]>>, <<"created", 0>> >>)
  /\ Set(dp, p, 0)
  /\ UNCHANGED <<durable, call, path, ip, old, cwd, fd, astray, hist>>

\* sys_open() goes on; sys_mkdir() and sys_mknod() are done with the inode.
created(p) ==
  /\ At(p, "created")
  /\ \/ call[p].op = "create" /\ OpenFile(p)
     \/ /\ call[p].op # "create"
        /\ Set(pc, p, << <<"iunlockput", ip[p]>> >>)
        /\ Set(ip, p, 0)
        /\ UNCHANGED <<table, call, path, dp, old, cwd, fd, astray>>
  /\ UNCHANGED <<durable, hist>>

\* fileclose() of the last reference to an open file.
close(p) ==
  /\ ~Busy(p)
  /\ fd[p] # 0
  /\ Set(pc, p, << <<"iput", fd[p]>> >>)
  /\ Set(fd, p, 0)
  /\ UNCHANGED <<table, durable, call, path, ip, dp, old, cwd, astray, hist>>

\* Every end_op() commits.
AnyCall(p) == TRUE

\* end_op(): the last active call commits.
LastCall(p) == \A q \in Proc \ {p} : ~Busy(q)

end_op(p) ==
  /\ pc[p] = << >>
  /\ Set(pc, p, Idle)
  /\ Set(call, p, NoCall)
  /\ Set(path, p, << >>)
  /\ Set(astray, p, FALSE)
  /\ durable' = IF LastCall(p) THEN <<dinode, dir>> ELSE durable
  /\ UNCHANGED <<table, ip, dp, old, cwd, fd, hist>>

-------------------------------------------------------------------------------
(* Panics and crashes.                                                      *)

PanicsIlock(p) ==
  At(p, "ilock") /\ inode[Arg(p)].lock = None /\ Loaded(Arg(p)).type = "free"
PanicsLookup(p) == At(p, "parent") /\ inode[ip[p]].type # "dir"
PanicsUnlink(p) == At(p, "unlink") /\ inode[ip[p]].nlink < 1

Panics(p) == PanicsIlock(p) \/ PanicsLookup(p) \/ PanicsUnlink(p)

Boot(wd)  == [i \in Inum |-> IF i = wd THEN [NotInUse EXCEPT !.ref = Cardinality(Proc)] ELSE NotInUse]
All(v)    == [p \in Proc |-> v]

\* A crash, or a panic and the restart: the log is recovered before any call.
crash ==
  /\ dinode' = durable[1] /\ dir' = durable[2]
  /\ lost' = lost \cup {<<i, "crash">> : i \in {j \in Inum : durable[1][j].type # "free" /\ durable[1][j].nlink = 0}}
  /\ inode' = Boot(ROOTINO)
  /\ pc' = All(Idle) /\ call' = All(NoCall) /\ path' = All(<< >>)
  /\ ip' = All(0) /\ dp' = All(0) /\ old' = All(0) /\ fd' = All(0)
  /\ cwd' = All(ROOTINO) /\ astray' = All(FALSE)
  /\ UNCHANGED <<durable, made>>

\* The inodes of a tree: a directory has "." and counts the ".." that lead to it.
Inodes(t) ==
  [i \in Inum |->
     IF t[i]["."] # 0
     THEN [type |-> "dir", nlink |-> 1 + Cardinality({j \in Inum \ {ROOTINO} : t[j][".."] = i})]
     ELSE LET n == Cardinality({<<d, nm>> \in Inum \X Name : t[d][nm] = i})
          IN  IF n = 0 THEN Free ELSE [type |-> "file", nlink |-> n]]

Init ==
  /\ \E s \in Starts : dir = s.dir /\ cwd = All(s.cwd)
  /\ dinode = Inodes(dir)
  /\ made = 0
  /\ durable = <<dinode, dir>>
  /\ lost = {}
  /\ \E i \in Inum : cwd = All(i) /\ inode = Boot(i)
  /\ pc = All(Idle) /\ call = All(NoCall) /\ path = All(<< >>)
  /\ ip = All(0) /\ dp = All(0) /\ old = All(0) /\ fd = All(0)
  /\ astray = All(FALSE)

Call(p) ==
  \/ ilock(p) \/ iunlockput(p) \/ iput(p) \/ iput_last(p) \/ iput_free(p) \/ iput_release(p) \/ iput_drop(p)
  \/ namex(p) \/ lookup(p) \/ failed(p)
  \/ found_open(p) \/ found_chdir(p) \/ found_link(p) \/ found_wrong(p)
  \/ link(p) \/ unlinked(p) \/ unlink_lookup(p) \/ unlink(p)
  \/ create(p) \/ create_exists(p) \/ create_fill(p) \/ created(p)

Next ==
  \/ \E p \in Proc : Call(p) \/ end_op(p) \/ close(p) \/ \E c \in Calls : begin_op(p, c)
  \/ crash

Spec == Init /\ [][Next]_vars

-------------------------------------------------------------------------------
(* Properties.                                                              *)

TypeOK ==
  /\ inode \in [Inum -> [ref : Nat, valid : BOOLEAN, lock : Proc \cup {None},
                         type : Kinds \cup {"free"}, nlink : Nat]]
  /\ dinode \in [Inum -> [type : Kinds \cup {"free"}, nlink : Nat]]
  /\ dir \in [Inum -> [Name \cup Dots -> 0 .. NInode]]
  /\ cwd \in [Proc -> Inum]
  /\ \A f \in {ip, dp, old, fd} : f \in [Proc -> 0 .. NInode]

\* The inodes p points to: its variables, and the iput() calls still to come.
Puts == {"iput", "iunlockput", "ifree", "irelease", "idrop"}
Pointers(p) ==
  <<cwd[p], fd[p], ip[p], dp[p], old[p]>>
    \o [k \in DOMAIN pc[p] |-> IF pc[p][k][1] \in Puts THEN pc[p][k][2] ELSE 0]

\* ip->ref is the number of pointers to the entry, on the failing paths of
\* every call too: none is dropped twice and none is leaked.
RefsExact ==
  LET ptr == [p \in Proc |-> Pointers(p)]
  IN  \A i \in Inum : inode[i].ref =
        Cardinality(UNION {{<<p, k>> : k \in {x \in DOMAIN ptr[p] : ptr[p][x] = i}} : p \in Proc})

\* A valid entry agrees with the disk whenever nobody has it locked, also
\* while iput() frees the inode and ialloc() hands it out again.
ValidIsDisk ==
  \A i \in Inum : inode[i].ref > 0 /\ inode[i].valid /\ inode[i].lock = None =>
    inode[i].type = dinode[i].type /\ inode[i].nlink = dinode[i].nlink

\* Names that lead to i from the directories ds.
Names(ds, i) == {<<d, n>> \in ds \X Name : dir[d][n] = i}

\* A name that can be reached leads to an allocated inode whose link count
\* covers all its names: no unlink() of one name, no last close() and no crash
\* frees a file that has another name.
NamedNotFreed ==
  LET ds == Reachable
  IN  \A i \in Inum : Names(ds, i) # {} => /\ dinode[i].type # "free"
                                           /\ dinode[i].nlink >= Cardinality(Names(ds, i))

\* Commits fall between calls: on the disk every link count is the number of
\* names and of ".." entries of named directories, failed calls and crashes
\* notwithstanding, unless a removed directory got an entry.
DurableLinks ==
  LET d == durable[2]
      Named(i) == i = ROOTINO \/ \E e \in Inum, n \in Name : d[e][n] = i
  IN  (\A l \in lost : l[2] # "removed") =>
        \A i \in Inum : durable[1][i].nlink =
          Cardinality({<<e, n>> \in Inum \X Name : d[e][n] = i}) + (IF i = ROOTINO THEN 1 ELSE 0)
          + Cardinality({j \in Inum \ {ROOTINO} : d[j][".."] = i /\ Named(j)})

\* Directories that can be reached form a tree: one name each, and ".." is
\* the directory that holds it.
DirsAreTree ==
  LET ds == Reachable
  IN  \A i \in ds \ {ROOTINO} :
        /\ Cardinality(Names(ds, i)) = 1
        /\ \E nm \in Names(ds, i) : dir[i][".."] = nm[1]

\* An inode without links is in use, or a crash or the race of iput_drop left
\* it behind: every other last iput() frees it, whatever calls run beside it.
Abandoned(i) == dinode[i].type # "free" /\ dinode[i].nlink = 0 /\ inode[i].ref = 0
NoLeak == \A i \in Inum : Abandoned(i) => \E why \in {"crash", "race"} : <<i, why>> \in lost

\* "iput() frees if the reference and link counts have fallen to zero": only a
\* crash may leave such an inode allocated.
IputFrees == \A i \in Inum : Abandoned(i) => <<i, "crash">> \in lost

\* Only a call that went through a removed directory, one it has as its
\* current directory or caught on the way, can panic.
NoPanic == \A p \in Proc : Panics(p) => astray[p]

\* No set of processes waits for inode locks held among themselves: unlink() and
\* create() lock the directory before the inode in it, and namex() holds one lock
\* at a time.  And iput(), which has itable.lock, never waits: "ip->ref == 1 means
\* no other process can have ip locked, so this acquiresleep() won't block".
Blocked(p) == At(p, "ilock") /\ inode[Arg(p)].lock # None
NoDeadlock ==
  /\ \A S \in SUBSET Proc \ {{}} : \E p \in S : ~(Blocked(p) /\ inode[Arg(p)].lock \in S)
  /\ \A p \in Proc : At(p, "iput") /\ Unused(Arg(p)) => inode[Arg(p)].lock = None

\* The inode table agrees with the pointers into it and with the disk, in the
\* middle of every call.
TableInv == TypeOK /\ RefsExact /\ ValidIsDisk

\* What can be reached from the root is a tree of directories over inodes that
\* are allocated, in the middle of every call.
TreeInv == NamedNotFreed /\ DirsAreTree
===============================================================================

------------------------------- MODULE MCInode -------------------------------
EXTENDS Inode

c(op, pth) == [op |-> op, path |-> pth, to |-> <<"/">>]
MCCalls ==
  {c("mkdir", <<"/", "a">>), c("mkdir", <<"/", "a", "b">>), c("create", <<"/", "a", "b">>),
   c("unlink", <<"/", "a">>), c("unlink", <<"/", "a", "b">>), c("chdir", <<"/", "a", "b">>), c("chdir", <<"..">>),
   c("write", <<"/", "a", "b">>), c("mknod", <<"b">>),
   [op |-> "link", path |-> <<"/", "a", "b">>, to |-> <<"/", "b">>]}

d(a, b, self, up) == "a" :> a @@ "b" :> b @@ "." :> self @@ ".." :> up
MCStarts ==
  { [dir |-> <<d(2, 0, 1, 1), d(0, 3, 2, 1), NoDir>>, cwd |-> 1],
    [dir |-> <<d(2, 0, 1, 1), d(0, 3, 2, 1), d(0, 0, 3, 2)>>, cwd |-> 3],
    [dir |-> <<d(2, 0, 1, 1), d(0, 0, 2, 1), NoDir>>, cwd |-> 1] }
Sym == Permutations(Proc)
===============================================================================

-------------------------------- MODULE Shell ---------------------------------
(***************************************************************************)
(* user/sh.c: the parser, nulterminate() and runcmd().                      *)
(*                                                                          *)
(* buf is a sequence of characters; a pointer into it is an offset, es is   *)
(* Len(buf).  A struct cmd is a record, with argv as the sequence of its    *)
(* tokens [q, eq].  malloc() of a struct cmd is taken to succeed.           *)
(***************************************************************************)
EXTENDS Integers, Sequences, SequencesExt, FiniteSets

CONSTANTS
  MAXARGS,
  Missing    \* names of files that open() does not find

Whitespace == {" ", "nl"}
Symbols    == {"<", "|", ">", "&", ";", "(", ")"}
End        == "nul"
Closed     == <<>>      \* a descriptor that is not open

EXEC(argv)       == [type |-> "EXEC", argv |-> argv]
redircmd(sub, r) == [type |-> "REDIR", cmd |-> sub, file |-> r.file, mode |-> r.mode, fd |-> r.fd]
pipecmd(l, r)    == [type |-> "PIPE", left |-> l, right |-> r]
listcmd(l, r)    == [type |-> "LIST", left |-> l, right |-> r]
backcmd(sub)     == [type |-> "BACK", cmd |-> sub]

-------------------------------------------------------------------------------
(* Mutations.                                                               *)

\* parseline() takes one "&" only.
OneBack(buf, ps, cmd) == FALSE

\* nulterminate() leaves the names of files as they are.
FilesGoOn(buf, cmd) == {}

\* p[1] is left open where both ends should be closed.
CloseOne(fds, p) == [fds EXCEPT ![p[1]] = <<>>]

\* gets() reads up to max characters.
NoRoomForNul(i, max) == i < max

-------------------------------------------------------------------------------
(* Tokens.                                                                  *)

Ch(buf, i) == IF i < Len(buf) THEN buf[i + 1] ELSE End

RECURSIVE SkipWhite(_, _)
SkipWhite(buf, i) == IF Ch(buf, i) \in Whitespace THEN SkipWhite(buf, i + 1) ELSE i

RECURSIVE WordEnd(_, _)
WordEnd(buf, i) == IF Ch(buf, i) \in Whitespace \cup Symbols \cup {End} THEN i ELSE WordEnd(buf, i + 1)

\* The token at ps: what gettoken() returns, q, eq, and the new ps.
gettoken(buf, ps) ==
  LET q   == SkipWhite(buf, ps)
      c   == Ch(buf, q)
      app == c = ">" /\ Ch(buf, q + 1) = ">"
      eq  == IF c = End THEN q ELSE IF app THEN q + 2 ELSE IF c \in Symbols THEN q + 1 ELSE WordEnd(buf, q)
  IN  [tok |-> IF app THEN "+" ELSE IF c \in Symbols \cup {End} THEN c ELSE "a",
       q |-> q, eq |-> eq, ps |-> SkipWhite(buf, eq)]

peek(buf, ps, toks) == Ch(buf, SkipWhite(buf, ps)) \in toks

-------------------------------------------------------------------------------
(* The parser.  A result is [ps, cmd], or Panic.                            *)

Panic == [ps |-> -1, cmd |-> EXEC(<<>>)]

Failed(r) == r.ps < 0

Then(r, F(_)) == IF Failed(r) THEN Panic ELSE F(r)

\* The redirections at ps; cmd of the result is their sequence.
RECURSIVE parseredirs(_, _, _)
parseredirs(buf, ps, redirs) ==
  IF ~ peek(buf, ps, {"<", ">"}) THEN [ps |-> ps, cmd |-> redirs]
  ELSE LET t == gettoken(buf, ps)
           f == gettoken(buf, t.ps)
       IN  IF f.tok # "a" THEN Panic
           ELSE parseredirs(buf, f.ps,
                  Append(redirs, [file |-> [q |-> f.q, eq |-> f.eq], mode |-> t.tok,
                                  fd |-> IF t.tok = "<" THEN 0 ELSE 1]))

\* Each redirection is wrapped round the command that the earlier ones gave.
Wrap(cmd, redirs) == FoldLeft(redircmd, cmd, redirs)

\* The loop of parseexec() over arguments.
RECURSIVE parseargs(_, _, _, _)
parseargs(buf, ps, argv, redirs) ==
  LET t == gettoken(buf, ps)
      args == Append(argv, [q |-> t.q, eq |-> t.eq])
  IN  IF peek(buf, ps, {"|", ")", "&", ";"}) \/ t.tok = End
        THEN [ps |-> ps, cmd |-> Wrap(EXEC(argv), redirs)]
      ELSE IF t.tok # "a" \/ Len(args) >= MAXARGS THEN Panic
      ELSE Then(parseredirs(buf, t.ps, redirs), LAMBDA r : parseargs(buf, r.ps, args, r.cmd))

MoreBack(buf, ps, cmd) == peek(buf, ps, {"&"})

RECURSIVE parseline(_, _), parseback(_, _, _), parsepipe(_, _), parseexec(_, _), parseblock(_, _)
parseline(buf, ps) ==
  Then(parsepipe(buf, ps), LAMBDA p : Then(parseback(buf, p.ps, p.cmd), LAMBDA l :
    IF ~ peek(buf, l.ps, {";"}) THEN l
    ELSE Then(parseline(buf, gettoken(buf, l.ps).ps), LAMBDA r :
           [ps |-> r.ps, cmd |-> listcmd(l.cmd, r.cmd)])))

parseback(buf, ps, cmd) ==
  IF ~ MoreBack(buf, ps, cmd) THEN [ps |-> ps, cmd |-> cmd]
  ELSE parseback(buf, gettoken(buf, ps).ps, backcmd(cmd))

parsepipe(buf, ps) ==
  Then(parseexec(buf, ps), LAMBDA l :
    IF ~ peek(buf, l.ps, {"|"}) THEN l
    ELSE Then(parsepipe(buf, gettoken(buf, l.ps).ps), LAMBDA r :
           [ps |-> r.ps, cmd |-> pipecmd(l.cmd, r.cmd)]))

parseexec(buf, ps) ==
  IF peek(buf, ps, {"("}) THEN parseblock(buf, ps)
  ELSE Then(parseredirs(buf, ps, <<>>), LAMBDA r : parseargs(buf, r.ps, <<>>, r.cmd))

parseblock(buf, ps) ==
  Then(parseline(buf, gettoken(buf, ps).ps), LAMBDA b :
    IF ~ peek(buf, b.ps, {")"}) THEN Panic
    ELSE Then(parseredirs(buf, gettoken(buf, b.ps).ps, <<>>), LAMBDA r :
           [ps |-> r.ps, cmd |-> Wrap(b.cmd, r.cmd)]))

\* parsecmd() before nulterminate(): leftovers are an error.
parsecmd(buf) ==
  Then(parseline(buf, 0), LAMBDA l : IF SkipWhite(buf, l.ps) # Len(buf) THEN Panic ELSE l)

-------------------------------------------------------------------------------
(* The grammar, as the set of all the trees of a sequence of tokens:        *)
(*   line ::= back | back ";" line       back ::= pipe | back "&"            *)
(*   pipe ::= exec | exec "|" pipe                                           *)
(*   exec ::= "(" line ")" redir* | (redir | word)*                          *)

RECURSIVE Tokens(_, _)
Tokens(buf, ps) ==
  LET t == gettoken(buf, ps) IN
  IF t.tok = End THEN <<>> ELSE <<[tok |-> t.tok, q |-> t.q, eq |-> t.eq]>> \o Tokens(buf, t.ps)

Before(t, k) == SubSeq(t, 1, k - 1)
After(t, k)  == SubSeq(t, k + 1, Len(t))
Where(t, c)  == {k \in DOMAIN t : t[k].tok = c}
Word(x)      == [q |-> x.q, eq |-> x.eq]

\* Operators of redirections and the words that follow one.
Ops(t)      == {k \in DOMAIN t : t[k].tok \in {"<", ">", "+"}}
RedirSeq(t) == LET o == SetToSortSeq(Ops(t), <) IN
  [k \in DOMAIN o |-> [file |-> Word(t[o[k] + 1]), mode |-> t[o[k]].tok,
                       fd |-> IF t[o[k]].tok = "<" THEN 0 ELSE 1]]
Arguments(t) == {k \in Where(t, "a") : k - 1 \notin Ops(t)}
ArgSeq(t)    == LET o == SetToSortSeq(Arguments(t), <) IN [k \in DOMAIN o |-> Word(t[o[k]])]
IsSimple(t)  == /\ \A k \in DOMAIN t : t[k].tok \in {"a", "<", ">", "+"}
                /\ \A k \in Ops(t) : k + 1 \in Where(t, "a")

RECURSIVE LineTrees(_), BackTrees(_), PipeTrees(_), ExecTrees(_)
LineTrees(t) ==
  BackTrees(t) \cup UNION {{listcmd(l, r) : l \in BackTrees(Before(t, k)), r \in LineTrees(After(t, k))} :
                             k \in Where(t, ";")}
BackTrees(t) ==
  PipeTrees(t) \cup (IF Len(t) \in Where(t, "&") THEN {backcmd(c) : c \in BackTrees(Before(t, Len(t)))} ELSE {})
PipeTrees(t) ==
  ExecTrees(t) \cup UNION {{pipecmd(l, r) : l \in ExecTrees(Before(t, k)), r \in PipeTrees(After(t, k))} :
                             k \in Where(t, "|")}
ExecTrees(t) ==
  (IF IsSimple(t) /\ Len(ArgSeq(t)) < MAXARGS THEN {Wrap(EXEC(ArgSeq(t)), RedirSeq(t))} ELSE {})
    \cup UNION {{Wrap(c, RedirSeq(After(t, k))) : c \in LineTrees(SubSeq(t, 2, k - 1))} :
                  k \in {j \in Where(t, ")") : /\ 1 \in Where(t, "(")
                                                /\ IsSimple(After(t, j)) /\ Arguments(After(t, j)) = {}}}

\* parsecmd() accepts exactly the lines of the grammar, and a line has one tree,
\* the one it builds: the parser, which never backs up, loses no reading of a line
\* and prefers none of several.
ParserIsGrammar(buf) ==
  LineTrees(Tokens(buf, 0)) = IF Failed(parsecmd(buf)) THEN {} ELSE {parsecmd(buf).cmd}

-------------------------------------------------------------------------------
(* nulterminate().                                                          *)

FileEnds(buf, cmd) == {cmd.file.eq}

\* The offsets where nulterminate() stores a NUL.
RECURSIVE nulterminate(_, _)
nulterminate(buf, cmd) ==
  CASE cmd.type = "EXEC" -> {cmd.argv[i].eq : i \in DOMAIN cmd.argv}
    [] cmd.type = "REDIR" -> nulterminate(buf, cmd.cmd) \cup FileEnds(buf, cmd)
    [] cmd.type = "BACK" -> nulterminate(buf, cmd.cmd)
    [] OTHER -> nulterminate(buf, cmd.left) \cup nulterminate(buf, cmd.right)

RECURSIVE Strings(_)
Strings(cmd) ==
  CASE cmd.type = "EXEC" -> {cmd.argv[i] : i \in DOMAIN cmd.argv}
    [] cmd.type = "REDIR" -> Strings(cmd.cmd) \cup {cmd.file}
    [] cmd.type = "BACK" -> Strings(cmd.cmd)
    [] OTHER -> Strings(cmd.left) \cup Strings(cmd.right)

\* Once the tree is built, and parsing is over, the NULs that nulterminate()
\* writes over the line make each argument and each file name end where its token
\* does and cut no other one short, also where a symbol follows without a space.
ArgumentsEnd(buf) ==
  LET p    == parsecmd(buf)
      nuls == nulterminate(buf, p.cmd) \cup {Len(buf)}
  IN  ~ Failed(p) => \A w \in Strings(p.cmd) : w.q < w.eq /\ nuls \cap w.q .. w.eq = {w.eq}

-------------------------------------------------------------------------------
(* runcmd().  fds maps a descriptor to what it is open on; the processes    *)
(* are named by the path of forks that leads to them.                       *)

Free(fds)       == CHOOSE f \in DOMAIN fds : fds[f] = Closed /\ \A g \in DOMAIN fds : g < f => fds[g] # Closed
close(fds, f)   == [fds EXCEPT ![f] = Closed]
open(fds, what) == [fds EXCEPT ![Free(fds)] = what]

\* close(p[0]); close(p[1])
CloseBoth(fds, p) == close(close(fds, p[1]), p[2])

\* close(std); dup(p[end]); and both ends of the pipe closed.
PipeChild(fds, p, std, end) ==
  LET c == close(fds, std) IN CloseBoth(open(c, c[p[end]]), p)

\* The processes that run cmd: at an exec() with the descriptors it inherits, or
\* in wait() for a child.
RECURSIVE runcmd(_, _, _, _)
runcmd(buf, cmd, fds, path) ==
  CASE cmd.type = "EXEC" ->
         IF cmd.argv = <<>> THEN {} ELSE {[at |-> path, does |-> cmd.argv, fds |-> fds]}
    [] cmd.type = "REDIR" ->
         LET name == SubSeq(buf, cmd.file.q + 1, cmd.file.eq) IN
         IF name \in Missing /\ cmd.mode = "<" THEN {}
         ELSE runcmd(buf, cmd.cmd, open(close(fds, cmd.fd), <<cmd.mode, name>>), path)
    [] cmd.type = "LIST" ->
         {[at |-> path, does |-> <<>>, fds |-> fds]}
           \cup runcmd(buf, cmd.left, fds, path \o <<1>>) \cup runcmd(buf, cmd.right, fds, path \o <<0>>)
    [] cmd.type = "PIPE" ->
         LET one == open(fds, <<"r", path>>)
             two == open(one, <<"w", path>>)
             p   == <<Free(fds), Free(one)>>
         IN  {[at |-> path, does |-> <<>>, fds |-> CloseBoth(two, p)]}
               \cup runcmd(buf, cmd.left, PipeChild(two, p, 1, 2), path \o <<1>>)
               \cup runcmd(buf, cmd.right, PipeChild(two, p, 0, 1), path \o <<2>>)
    [] cmd.type = "BACK" -> runcmd(buf, cmd.cmd, fds, path \o <<1>>)

\* main() opens the console until the descriptor is 3 or more, and closes that.
RECURSIVE main_open(_)
main_open(fds) == IF Free(fds) >= 3 THEN fds ELSE main_open(open(fds, <<"console">>))

Std(fds, in, out) == [f \in DOMAIN fds |-> IF f = 0 THEN in ELSE IF f = 1 THEN out
                                            ELSE IF f = 2 THEN fds[2] ELSE Closed]

\* The processes of cmd as its user means them, with input in and output out.
RECURSIVE Meant(_, _, _, _, _, _)
Meant(buf, cmd, fds, in, out, path) ==
  LET waits == {[at |-> path, does |-> <<>>, fds |-> Std(fds, in, out)]} IN
  CASE cmd.type = "EXEC" ->
         IF cmd.argv = <<>> THEN {} ELSE {[at |-> path, does |-> cmd.argv, fds |-> Std(fds, in, out)]}
    [] cmd.type = "REDIR" ->
         LET name == SubSeq(buf, cmd.file.q + 1, cmd.file.eq)
             file == <<cmd.mode, name>>
         IN  IF cmd.mode = "<" /\ name \in Missing THEN {}
             ELSE IF cmd.mode = "<" THEN Meant(buf, cmd.cmd, fds, file, out, path)
             ELSE Meant(buf, cmd.cmd, fds, in, file, path)
    [] cmd.type = "LIST" ->
         waits \cup Meant(buf, cmd.left, fds, in, out, path \o <<1>>)
               \cup Meant(buf, cmd.right, fds, in, out, path \o <<0>>)
    [] cmd.type = "PIPE" ->
         waits \cup Meant(buf, cmd.left, fds, in, <<"w", path>>, path \o <<1>>)
               \cup Meant(buf, cmd.right, fds, <<"r", path>>, out, path \o <<2>>)
    [] cmd.type = "BACK" -> Meant(buf, cmd.cmd, fds, in, out, path \o <<1>>)

\* However pipes, redirections and blocks are nested, and whichever of the first
\* three descriptors the shell was started without, close(), dup() and open() give
\* each command the input and output it is meant to have, and no process, the
\* waiting shells included, keeps another end of a pipe: a reader sees the end of
\* its input when the writers are gone.
PipesConnected(buf, start) ==
  LET p   == parsecmd(buf)
      fds == main_open(start)
  IN  ~ Failed(p) => runcmd(buf, p.cmd, fds, <<>>) = Meant(buf, p.cmd, fds, fds[0], fds[1], <<>>)

-------------------------------------------------------------------------------
(* getcmd() and the loop of main().                                         *)

\* The condition of the loop of gets().
RoomFor(i, max) == i + 1 < max

\* How many characters gets() stores.
RECURSIVE gets(_, _, _)
gets(input, i, max) ==
  IF ~ RoomFor(i, max) \/ i = Len(input) THEN i
  ELSE IF input[i + 1] = "nl" THEN i + 1
  ELSE gets(input, i + 1, max)

IsCd(line) == Len(line) >= 3 /\ SubSeq(line, 1, 3) = <<"c", "d", " ">>

\* The lines that main() gets until getcmd() fails, with the directory of a "cd".
RECURSIVE main(_, _)
main(input, max) ==
  LET line == SubSeq(input, 1, gets(input, 0, max)) IN
  IF line = <<>> THEN <<>>
  ELSE <<[line |-> line, dir |-> IF IsCd(line) THEN SubSeq(line, 4, Len(line) - 1) ELSE <<>>]>>
       \o main(SubSeq(input, Len(line) + 1, Len(input)), max)

\* The commands are the input, cut after each newline and where buf is full but
\* for its NUL; "cd" gets what lies between it and the newline.
LinesFit(input, max) ==
  LET got == main(input, max) IN
  /\ input = FlattenSeq([k \in DOMAIN got |-> got[k].line])
  /\ \A k \in DOMAIN got :
       LET l == got[k].line IN
       /\ Len(l) < max
       /\ \A i \in 1 .. Len(l) - 1 : l[i] # "nl"
       /\ Last(l) # "nl" => Len(l) = max - 1 \/ k = Len(got)
       /\ IsCd(l) /\ Last(l) = "nl" => l = <<"c", "d", " ">> \o got[k].dir \o <<"nl">>
===============================================================================

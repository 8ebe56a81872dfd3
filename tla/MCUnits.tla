-------------------------------- MODULE MCUnits --------------------------------
(***************************************************************************)
(* Parts that need no other part to be checked: the interrupt machinery,    *)
(* the memory of processes and the heap as state machines, text and the     *)
(* shell on bounded inputs.                                                 *)
(* input.of says which part a behaviour is about.                           *)
(***************************************************************************)
EXTENDS Cpu, Heap, Text, Shell, Vm

VARIABLE input

MCSizes   == {<<2, 1>>, <<1, 2>>}
MCMissing == {<<"a", "a">>}
MCSbrks   == {1, 3, -3}

\* Programs with one segment, with two and a page between them, and with a
\* header that says too little.
Seg(v, m, f) == [vaddr |-> v, memsz |-> m, filesz |-> f]
MCPrograms   == {<<Seg(0, 2, 2)>>, <<Seg(0, 1, 1), Seg(2, 2, 1)>>, <<Seg(0, 1, 2)>>}

SeqsUpTo(S, n) == UNION {[1 .. m -> S] : m \in 0 .. n}

Inputs ==
       {[of |-> "cpu"], [of |-> "heap"], [of |-> "vm"]}
  \cup [of : {"memmove"}, d : 0 .. 4, s : 0 .. 4, n : 0 .. 4]
  \cup [of : {"path"}, path : SeqsUpTo({"/", "a", "b"}, 6), name : SeqsUpTo({"a", "b"}, 3)]
  \cup [of : {"match"}, re : SeqsUpTo({"a", ".", "*", "^", "$"}, 4), text : SeqsUpTo({"a", "b"}, 3)]
  \cup [of : {"grep"}, text : SeqsUpTo({"a", "b", "nl"}, 6), chunk : 1 .. 4]
  \cup [of : {"wc"}, text : SeqsUpTo({"a", " ", "nl"}, 5), chunk : 1 .. 3]
  \cup [of : {"int"}, xx : - (WORD \div 2) .. WORD \div 2 - 1, base : {10, 16}]
  \cup [of : {"printf"}, fmt : SeqsUpTo({"a", "%", "d", "s"}, 5)]
  \cup [of : {"sh"}, line : SeqsUpTo({"a", " ", "|", "&", ";", "(", ")", "<", ">"}, 4)
                           \cup SeqsUpTo({"a", "|", "(", ")"}, 6) \cup SeqsUpTo({"a", ">", " "}, 6)
                           \cup SeqsUpTo({"a", "|", "<"}, 6)]
  \cup [of : {"fds"}, line : SeqsUpTo({"a", "|", "<", ">"}, 4), open : [0 .. 2 -> BOOLEAN]]
  \cup [of : {"lines"}, text : SeqsUpTo({"c", "d", " ", "nl"}, 6)]

UnitsInit ==
  /\ input \in Inputs
  /\ HeapInit
  /\ CpuInit
  /\ input.of # "cpu" => NCPU = 1
  /\ Init
  /\ input.of # "vm" => \A n \in Memories : NPAGES <= n

UnitsNext ==
  \/ input.of = "cpu" /\ CpuNext /\ UNCHANGED <<input, heap, vars>>
  \/ input.of = "heap" /\ HeapNext /\ UNCHANGED <<input, cpuvars, vars>>
  \/ input.of = "vm" /\ Next /\ UNCHANGED <<input, cpuvars, heap>>

UnitsSpec == UnitsInit /\ [][UnitsNext]_<<input, heap, cpuvars, vars>>

\* memmove() of the kernel and of the user library copies overlapping ranges.
MemmoveCopies == input.of = "memmove" => MovesCopy([i \in 0 .. 8 |-> i], input.d, input.s, input.n)

\* skipelem(), strncpy() and namecmp() agree on what a path names.
NamesAgree == input.of = "path" => PathNames(input.path, input.name)

\* match() of grep finds a match when there is one.
MatchIsComplete == input.of = "match" => MatchFindsAll(input.re, input.text)

\* grep() does not depend on how read() cuts its input.
GrepSeesLines == input.of = "grep" => GrepIgnoresChunks(<<"a">>, input.text, input.chunk)

\* wc() does not depend on how read() cuts its input.
WcSeesWords == input.of = "wc" => WordsCounted(input.text, input.chunk)

\* printint() prints every int, and atoi() reads it.
IntsPrint == input.of = "int" => NumbersPrint(input.xx, input.base)

\* printf() of the kernel and of the user library read a format alike.
FormatsAgree == input.of = "printf" => PrintfsAgree(input.fmt)

\* parsecmd() of the shell accepts the grammar and builds the one tree.
ShellParses == input.of = "sh" => ParserIsGrammar(input.line)

\* nulterminate() of the shell ends every string where its token ends.
ShellSplits == input.of = "sh" => ArgumentsEnd(input.line)

\* runcmd() of the shell connects pipes and files and leaves no end open.
ShellConnects ==
  input.of \in {"sh", "fds"} =>
    PipesConnected(input.line, [f \in 0 .. 9 |-> IF f < 3 /\ (input.of = "sh" \/ input.open[f])
                                                  THEN <<"console">> ELSE Closed])

\* gets() and main() of the shell cut the input into commands that fit.
ShellReads == input.of = "lines" => LinesFit(input.text, 6)

\* The text functions of the kernel, of the user library, of grep and of wc
\* compute what their reference definitions say.
TextAgrees ==
  /\ MemmoveCopies /\ NamesAgree /\ MatchIsComplete /\ GrepSeesLines
  /\ WcSeesWords /\ IntsPrint /\ FormatsAgree

\* From the bytes typed to the descriptors of the commands, the shell does what
\* the line says.
ShellAgrees == ShellParses /\ ShellSplits /\ ShellConnects /\ ShellReads
===============================================================================

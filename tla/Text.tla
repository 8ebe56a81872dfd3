--------------------------------- MODULE Text ---------------------------------
(***************************************************************************)
(* Algorithms on bytes and text: memmove() of kernel/string.c and           *)
(* user/ulib.c, path elements and names of kernel/fs.c, the matcher and the *)
(* line buffer of user/grep.c, and numbers of printf.c and ulib.c.          *)
(*                                                                          *)
(* A C string is the sequence of its characters, without the NUL; an array  *)
(* that may lack one is a sequence that may contain NUL.                    *)
(***************************************************************************)
EXTENDS Integers, Sequences, SequencesExt, FiniteSets

CONSTANTS DIRSIZ, GREPBUF, WORD   \* WORD: 2^w of a w-bit int

NUL == "nul"

From(s, k) == SubSeq(s, k + 1, Len(s))      \* s + k
At0(s)     == IF s = <<>> THEN NUL ELSE s[1] \* *s

-------------------------------------------------------------------------------
(* Mutations.                                                               *)

\* memmove() always copies upwards.
NeverDown(d, s, n) == FALSE

\* skipelem() copies DIRSIZ - 1 characters of a long element.
CutShort(s) == IF Len(s) >= DIRSIZ THEN SubSeq(s, 1, DIRSIZ - 1) \o <<NUL>> ELSE s \o <<NUL>>

\* matchstar() wants one instance at least.
StarOnce(c, re, text) == FALSE

\* grep() drops what is left of a line at the end of a read.
DropPart(buf, p) == <<>>

\* printint() does not negate.
Unsigned(xx) == xx % WORD

\* vprintf() stays in its state after "%%".
StaysAtPercent(c) == IF c = "%" THEN "%" ELSE "text"

\* wc() starts every read() outside a word.
OutOfWord(inword) == FALSE

-------------------------------------------------------------------------------
(* memmove(): one byte after the other.                                     *)

\* The kernel copies downwards when the source begins below and overlaps; the
\* user library when it does not begin above.
kernel_down(d, s, n) == s < d /\ s + n > d
user_down(d, s, n)   == ~ (s > d)

RECURSIVE Bytes(_, _, _, _)
Bytes(mem, d, s, ks) ==
  IF ks = <<>> THEN mem
  ELSE Bytes([mem EXCEPT ![d + Head(ks)] = mem[s + Head(ks)]], d, s, Tail(ks))

Order(down, n) == [k \in 1 .. n |-> IF down THEN n - k ELSE k - 1]

kernel_memmove(mem, d, s, n) == Bytes(mem, d, s, Order(kernel_down(d, s, n), n))
user_memmove(mem, d, s, n)   == Bytes(mem, d, s, Order(user_down(d, s, n), n))

\* memmove() copies what the source held before, also where the two ranges
\* overlap, whichever begins first.
MovesCopy(mem, d, s, n) ==
  LET new == [i \in DOMAIN mem |-> IF i \in d .. d + n - 1 THEN mem[i - d + s] ELSE mem[i]]
  IN  kernel_memmove(mem, d, s, n) = new /\ user_memmove(mem, d, s, n) = new

-------------------------------------------------------------------------------
(* Path elements and names.                                                 *)

RECURSIVE SkipSlashes(_)
SkipSlashes(path) == IF At0(path) = "/" THEN SkipSlashes(From(path, 1)) ELSE path

RECURSIVE ElementLen(_)
ElementLen(path) == IF At0(path) \in {"/", NUL} THEN 0 ELSE 1 + ElementLen(From(path, 1))

\* What skipelem() leaves in name[DIRSIZ]: no NUL when the element fills it.
Name(s) == IF Len(s) >= DIRSIZ THEN SubSeq(s, 1, DIRSIZ) ELSE s \o <<NUL>>

\* skipelem(): [name, path], or None.
None == [name |-> <<>>, path |-> <<>>]
skipelem(path) ==
  LET p == SkipSlashes(path)
      n == ElementLen(p)
  IN  IF p = <<>> THEN None
      ELSE [name |-> Name(SubSeq(p, 1, n)), path |-> SkipSlashes(From(p, n))]

\* The names that the loop of namex() looks up.
RECURSIVE Elements(_)
Elements(path) ==
  LET e == skipelem(path) IN
  IF e = None THEN <<>> ELSE <<e.name>> \o Elements(e.path)

\* strncpy() of a name into de.name, and strncmp() of DIRSIZ characters.
strncpy(t, n) == [k \in 1 .. n |-> IF k <= Len(t) /\ NUL \notin {t[j] : j \in 1 .. k} THEN t[k] ELSE NUL]

RECURSIVE strncmp(_, _, _)
strncmp(p, q, n) ==
  IF n > 0 /\ At0(p) # NUL /\ At0(p) = At0(q) THEN strncmp(From(p, 1), From(q, 1), n - 1)
  ELSE n = 0 \/ At0(p) = At0(q)

namecmp(s, t) == strncmp(s, t, DIRSIZ)

\* The elements of a path: the longest runs without a slash.
Runs(path) ==
  LET begins == {i \in 1 .. Len(path) : path[i] # "/" /\ (i = 1 \/ path[i - 1] = "/")}
      len(i) == CHOOSE n \in 1 .. Len(path) + 1 - i :
                  /\ \A k \in i .. i + n - 1 : path[k] # "/"
                  /\ i + n > Len(path) \/ path[i + n] = "/"
      order  == SetToSortSeq(begins, <)
  IN  [k \in 1 .. Len(order) |-> SubSeq(path, order[k], order[k] + len(order[k]) - 1)]

Cut(s) == SubSeq(s, 1, IF Len(s) < DIRSIZ THEN Len(s) ELSE DIRSIZ)

\* namex() looks up the elements of the path in order, however many slashes
\* there are; an element finds the entry that dirlink() stored for a name exactly
\* when the two agree in the DIRSIZ characters that an entry holds, although
\* neither array ends in a NUL when it is full.
PathNames(path, other) ==
  LET es == Elements(path)  rs == Runs(path) IN
  /\ Len(es) = Len(rs)
  /\ \A k \in DOMAIN rs : \A o \in {Runs(other)[j] : j \in DOMAIN Runs(other)} :
       namecmp(es[k], strncpy(Name(o), DIRSIZ)) <=> Cut(rs[k]) = Cut(o)

-------------------------------------------------------------------------------
(* grep.                                                                    *)

\* The condition of the loop of matchstar() after it has tried text.
StarGoesOn(c, re, text) == text # <<>> /\ (c = "." \/ text[1] = c)

RECURSIVE matchhere(_, _), matchstar(_, _, _)
matchhere(re, text) ==
  IF re = <<>> THEN TRUE
  ELSE IF Len(re) > 1 /\ re[2] = "*" THEN matchstar(re[1], From(re, 2), text)
  ELSE IF re = <<"$">> THEN text = <<>>
  ELSE text # <<>> /\ re[1] \in {".", text[1]} /\ matchhere(From(re, 1), From(text, 1))

matchstar(c, re, text) ==
  matchhere(re, text) \/ (StarGoesOn(c, re, text) /\ matchstar(c, re, From(text, 1)))

match(re, text) ==
  IF At0(re) = "^" THEN matchhere(From(re, 1), text)
  ELSE \E k \in 0 .. Len(text) : matchhere(re, From(text, k))

\* What an expression means: the lengths of the prefixes of text that the first
\* k items of it can match.
RECURSIVE Items(_)
Items(re) ==
  IF re = <<>> THEN <<>>
  ELSE IF Len(re) > 1 /\ re[2] = "*" THEN <<[c |-> re[1], star |-> TRUE]>> \o Items(From(re, 2))
  ELSE <<[c |-> re[1], star |-> FALSE]>> \o Items(From(re, 1))

One(c, x) == c \in {".", x}

RECURSIVE Ends(_, _, _)
Ends(items, k, text) ==
  IF k = 0 THEN {0}
  ELSE LET it   == items[k]
           prev == Ends(items, k - 1, text)
       IN  IF it.c = "$" /\ ~ it.star /\ k = Len(items) THEN prev \cap {Len(text)}
           ELSE IF it.star
           THEN {j \in 0 .. Len(text) : \E i \in prev : i <= j /\ \A m \in i + 1 .. j : One(it.c, text[m])}
           ELSE {j \in 1 .. Len(text) : j - 1 \in prev /\ One(it.c, text[j])}

Means(re, text) ==
  IF At0(re) = "^" THEN LET it == Items(From(re, 1)) IN Ends(it, Len(it), text) # {}
  ELSE \E k \in 0 .. Len(text) :
         LET it == Items(re) IN Ends(it, Len(it), From(text, k)) # {}

\* match() finds a match exactly when one exists: giving up at the first
\* character a "*" cannot take, shortest first, misses none.
MatchFindsAll(re, text) == match(re, text) <=> Means(re, text)

\* The rest of the buffer after the last newline is kept for the next read().
KeepPart(buf, p) == From(buf, p)

Newlines(buf) == {i \in 1 .. Len(buf) : buf[i] = "nl"}

\* One pass of the outer loop of grep(): the lines in buf, and what is left.
LinesOf(buf) ==
  LET ends == SetToSortSeq(Newlines(buf), <)
  IN  [k \in 1 .. Len(ends) |-> SubSeq(buf, (IF k = 1 THEN 0 ELSE ends[k - 1]) + 1, ends[k] - 1)]
LastEnd(buf) == IF Newlines(buf) = {} THEN 0 ELSE CHOOSE i \in Newlines(buf) : \A j \in Newlines(buf) : j <= i

\* grep() with reads of at most chunk characters, and as many as buf has room for.
RECURSIVE grep(_, _, _, _)
grep(re, input, chunk, part) ==
  LET room == GREPBUF - Len(part) - 1
      n    == CHOOSE k \in {chunk, room, Len(input)} : \A j \in {chunk, room, Len(input)} : k <= j
      buf  == part \o SubSeq(input, 1, n)
  IN  IF n <= 0 THEN <<>>
      ELSE SelectSeq(LinesOf(buf), LAMBDA line : match(re, line))
           \o grep(re, From(input, n), chunk, KeepPart(buf, LastEnd(buf)))

\* grep() prints the lines that match, whatever the sizes of the pieces that
\* read() returns, as long as a line and its newline fit into buf.
GrepIgnoresChunks(re, input, chunk) ==
  (\A k \in DOMAIN LinesOf(input \o <<"nl">>) : Len(LinesOf(input \o <<"nl">>)[k]) + 2 <= GREPBUF) =>
     grep(re, input, chunk, <<>>) = SelectSeq(LinesOf(input), LAMBDA line : match(re, line))

-------------------------------------------------------------------------------
(* Numbers.                                                                 *)

\* x = -xx in unsigned arithmetic.
Negated(xx) == (-xx) % WORD

RECURSIVE Digits(_, _)
Digits(x, b) == (IF x \div b = 0 THEN <<>> ELSE Digits(x \div b, b)) \o <<x % b>>

\* printint(): the digits, most significant first, and whether "-" precedes them.
printint(xx, b, sign) ==
  [neg |-> sign /\ xx < 0, digits |-> Digits(IF sign /\ xx < 0 THEN Negated(xx) ELSE xx % WORD, b)]

\* The user library keeps the sign in a variable of its own.
user_printint(xx, b, sgn) ==
  LET neg == IF sgn THEN xx < 0 ELSE FALSE
      x   == IF neg THEN Negated(xx) ELSE xx % WORD
  IN  [neg |-> neg, digits |-> Digits(x, b)]

\* atoi() stops at the first character that is no digit, so at a "-".
atoi(s) == IF s.neg THEN 0 ELSE FoldLeft(LAMBDA n, d : n * 10 + d, 0, s.digits)

Value(s, b) == FoldLeft(LAMBDA v, d : v * b + d, 0, s.digits)

\* printint() prints every int, the least one too, which has no negation, and
\* an unsigned one as its value modulo 2^w; atoi() reads back what it printed of
\* a number that is not negative, and the two printint()s print the same.
NumbersPrint(xx, b) ==
  LET s == printint(xx, b, TRUE) IN
  /\ xx = IF s.neg THEN - Value(s, b) ELSE Value(s, b)
  /\ s.digits[1] = 0 => xx = 0
  /\ Value(printint(xx, b, FALSE), b) = IF xx < 0 THEN WORD + xx ELSE xx
  /\ b = 10 /\ xx >= 0 => atoi(s) = xx
  /\ \A sign \in BOOLEAN : user_printint(xx, b, sign) = printint(xx, b, sign)

-------------------------------------------------------------------------------
(* printf().  Its output is a sequence of characters of the format and of   *)
(* [conv, arg]: the conversion of the argument number arg.                  *)

Converted(c, args) == <<[conv |-> c, arg |-> args + 1]>>
Char(c)            == <<[conv |-> "char", arg |-> 0, c |-> c]>>

\* The kernel's loop over fmt, with args arguments taken.
RECURSIVE kernel_printf(_, _)
kernel_printf(fmt, args) ==
  IF fmt = <<>> THEN <<>>
  ELSE IF fmt[1] # "%" THEN Char(fmt[1]) \o kernel_printf(From(fmt, 1), args)
  ELSE IF Len(fmt) = 1 THEN <<>>
  ELSE IF fmt[2] \in {"d", "x", "p", "s"}
       THEN Converted(fmt[2], args) \o kernel_printf(From(fmt, 2), args + 1)
  ELSE IF fmt[2] = "%" THEN Char("%") \o kernel_printf(From(fmt, 2), args)
  ELSE Char("%") \o Char(fmt[2]) \o kernel_printf(From(fmt, 2), args)

\* The state of the user library's loop after a character that follows "%".
StateAfter(c) == "text"

\* The user library's: one character at a time, with a state.
RECURSIVE user_vprintf(_, _, _)
user_vprintf(fmt, args, state) ==
  IF fmt = <<>> THEN <<>>
  ELSE LET c == fmt[1]  rest == From(fmt, 1) IN
       IF state = "text" THEN
         IF c = "%" THEN user_vprintf(rest, args, "%")
         ELSE Char(c) \o user_vprintf(rest, args, "text")
       ELSE IF c \in {"d", "l", "x", "p", "s", "c"}
         THEN Converted(c, args) \o user_vprintf(rest, args + 1, StateAfter(c))
       ELSE (IF c = "%" THEN Char("%") ELSE Char("%") \o Char(c))
            \o user_vprintf(rest, args, StateAfter(c))

\* The two printf()s, written apart, read every format alike: what is text, what
\* is a conversion and which argument it takes, for all formats without "%l" and
\* "%c", which only the user library knows, a lone "%" at the end included.
PrintfsAgree(fmt) == kernel_printf(fmt, 0) = user_vprintf(fmt, 0, "text")

-------------------------------------------------------------------------------
(* wc.                                                                      *)

Blank == {" ", "nl"}

\* inword after a read(): the variable lives across reads.
KeepInWord(inword) == inword

\* Lines, words and characters; read() returns at most chunk characters.
RECURSIVE wc(_, _, _, _)
wc(input, chunk, k, st) ==
  IF input = <<>> THEN <<st.l, st.w, st.c>>
  ELSE LET was   == IF k = chunk THEN KeepInWord(st.inword) ELSE st.inword
           blank == input[1] \in Blank
       IN  wc(From(input, 1), chunk, IF k = chunk THEN 1 ELSE k + 1,
              [l |-> st.l + (IF input[1] = "nl" THEN 1 ELSE 0), c |-> st.c + 1,
               w |-> st.w + (IF ~ blank /\ ~ was THEN 1 ELSE 0), inword |-> ~ blank])

\* wc() counts a word once also where it goes over the end of a read().
WordsCounted(input, chunk) ==
  LET begins == {i \in 1 .. Len(input) : input[i] \notin Blank /\ (i = 1 \/ input[i - 1] \in Blank)}
  IN  wc(input, chunk, 0, [l |-> 0, w |-> 0, c |-> 0, inword |-> FALSE])
        = <<Cardinality(Newlines(input)), Cardinality(begins), Len(input)>>
===============================================================================

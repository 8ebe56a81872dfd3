------------------------------ MODULE PipeProofs ------------------------------
(***************************************************************************)
(* Proofs about module Pipe, for any processes, any size of the buffer and  *)
(* any width of the counters.                                               *)
(***************************************************************************)
EXTENDS Pipe, TLAPS

\* The provers of a leaf, in turn, and their time.
USE SMTT(60), ZenonT(60)

-------------------------------------------------------------------------------
(* Remainders.                                                              *)

\* Division with remainder.
LEMMA Div ==
  ASSUME NEW a \in Int, NEW d \in Nat \ {0}
  PROVE  a % d \in 0 .. d - 1 /\ \E q \in Int : a = q * d + (a % d)
<1>1. a % d \in 0 .. d - 1 /\ a \div d \in Int
  OBVIOUS
<1>2. \A q \in Int, r \in Int : q = a \div d /\ r = a % d => a = q * d + r
  OBVIOUS
<1>3. PICK q \in Int, r \in Int : q = a \div d /\ r = a % d
  BY <1>1
<1>4. a = q * d + r
  BY <1>2, <1>3
<1> QED
  BY <1>1, <1>3, <1>4, ZenonT(60)

\* The remainder is the only one.
LEMMA Remainder ==
  ASSUME NEW d \in Nat \ {0}, NEW q \in Int, NEW r \in 0 .. d - 1
  PROVE  (q * d + r) % d = r
  OBVIOUS

\* A positive multiple is not smaller.
LEMMA Multiple ==
  ASSUME NEW q \in Int, NEW d \in Nat \ {0}, q >= 1
  PROVE  q * d >= d
  OBVIOUS

\* Numbers less than d apart have different remainders.
LEMMA Near ==
  ASSUME NEW d \in Nat \ {0}, NEW a \in Int, NEW b \in Int, a < b, b < a + d
  PROVE  a % d # b % d
<1>1. PICK x \in Int : a = x * d + (a % d)
  BY Div, ZenonT(60)
<1>2. PICK y \in Int : b = y * d + (b % d)
  BY Div, ZenonT(60)
<1>3. SUFFICES ASSUME a % d = b % d
               PROVE  FALSE
  OBVIOUS
<1>4. b - a = (y - x) * d
  BY <1>1, <1>2, <1>3
<1>5. y - x >= 1
  BY <1>4
<1> QED
  BY <1>4, <1>5, Multiple

\* A counter that wraps at a multiple of d indexes the same place of a ring of d.
LEMMA WrapAtMultiple ==
  ASSUME NEW d \in Nat \ {0}, NEW w \in Nat \ {0}, w % d = 0, NEW a \in Int
  PROVE  (a % w) % d = a % d
<1>1. PICK x \in Int : a = x * w + (a % w)
  BY Div, ZenonT(60)
<1>2. PICK y \in Int : w = y * d + (w % d)
  <2>1. w \in Int
    OBVIOUS
  <2> QED
    BY <2>1, Div, ZenonT(60)
<1>3. PICK r \in Int : r = a % w
  BY Div
<1>4. PICK z \in Int : r = z * d + (r % d)
  BY Div, ZenonT(60)
<1>5. PICK t \in 0 .. d - 1 : t = r % d
  BY Div
<1>6. w = y * d
  BY <1>2
<1>7. a = (x * y + z) * d + t
  BY <1>1, <1>3, <1>4, <1>5, <1>6
<1>8. PICK f \in Int : f = x * y + z
  OBVIOUS
<1>9. (f * d + t) % d = t
  BY Remainder
<1> QED
  BY <1>3, <1>5, <1>7, <1>8, <1>9

\* A remainder may be taken before an addition or a subtraction.
LEMMA ModSum ==
  ASSUME NEW d \in Nat \ {0}, NEW a \in Int, NEW b \in Int
  PROVE  ((a % d) + b) % d = (a + b) % d /\ (b - (a % d)) % d = (b - a) % d
<1>1. PICK x \in Int : a = x * d + (a % d)
  BY Div, ZenonT(60)
<1>2. a % d \in 0 .. d - 1 /\ (a % d) + b \in Int /\ b - (a % d) \in Int
  BY Div
<1>3. PICK y \in Int : (a % d) + b = y * d + (((a % d) + b) % d)
  BY <1>2, Div, ZenonT(60)
<1>4. PICK z \in Int : b - (a % d) = z * d + ((b - (a % d)) % d)
  BY <1>2, Div, ZenonT(60)
<1>5. a + b = (x + y) * d + (((a % d) + b) % d)
  BY <1>1, <1>2, <1>3
<1>6. ((a % d) + b) % d \in 0 .. d - 1 /\ (b - (a % d)) % d \in 0 .. d - 1
  BY <1>2, Div
<1>7. b - a = (z - x) * d + ((b - (a % d)) % d)
  BY <1>1, <1>2, <1>4, <1>6
<1>8. PICK f \in Int, g \in Int : f = x + y /\ g = z - x
  OBVIOUS
<1>9. PICK r \in 0 .. d - 1, t \in 0 .. d - 1 : r = ((a % d) + b) % d /\ t = (b - (a % d)) % d
  BY <1>6
<1>10. (f * d + r) % d = r /\ (g * d + t) % d = t
  BY Remainder
<1>11. a + b = f * d + r /\ b - a = g * d + t
  BY <1>5, <1>7, <1>8, <1>9, ZenonT(60)
<1> QED
  BY <1>9, <1>10, <1>11, ZenonT(60)

-------------------------------------------------------------------------------
(* The ring buffer.                                                         *)

\* The number of bytes in the pipe.
Fill == (nwrite - nread) % W

Counters == nread \in 0 .. W - 1 /\ nwrite \in 0 .. W - 1 /\ Fill \in 0 .. PIPESIZE

\* What the constants of the pipe satisfy.
LEMMA Sizes ==
  /\ PIPESIZE \in Nat \ {0} /\ W \in Nat \ {0} /\ PIPESIZE < W /\ W % PIPESIZE = 0
  /\ Readers \cap Writers = {} /\ None \notin Proc
  BY PipeAssumption DEF Proc, None

\* The tests for a full and for an empty pipe are exact, also after a wrap.
LEMMA FullEmpty ==
  ASSUME Counters
  PROVE  (Full <=> Fill = PIPESIZE) /\ (Empty <=> Fill = 0)
<1>1. /\ nread \in Int /\ nwrite \in Int /\ nwrite - nread \in Int /\ nread + PIPESIZE \in Int
      /\ 0 - nread \in Int
      /\ W \in Nat \ {0} /\ PIPESIZE \in 0 .. W - 1 /\ PIPESIZE \in Int
  BY Sizes DEF Counters
<1>2. PICK q \in Int : nwrite - nread = q * W + Fill
  BY <1>1, Div, ZenonT(60) DEF Fill
<1>3. ASSUME Full
      PROVE  Fill = PIPESIZE
  <2>1. (((nread + PIPESIZE) % W) - nread) % W = (nread + PIPESIZE - nread) % W
    <3>1. (((nread + PIPESIZE) % W) + (0 - nread)) % W = (nread + PIPESIZE + (0 - nread)) % W
      BY <1>1, ModSum, ZenonT(60)
    <3>2. (nread + PIPESIZE) % W \in Int
      BY <1>1, Div
    <3> QED
      BY <1>1, <3>1, <3>2
  <2>2. PIPESIZE % W = PIPESIZE
    BY <1>1
  <2> QED
    BY <1>1, <1>3, <2>1, <2>2 DEF Full, Fill
<1>4. ASSUME Fill = PIPESIZE
      PROVE  Full
  <2>1. nread + PIPESIZE = (0 - q) * W + nwrite
    BY <1>1, <1>2, <1>4
  <2> QED
    BY <1>1, <2>1, Remainder DEF Full, Counters
<1>5. Empty => Fill = 0
  BY <1>1 DEF Empty, Fill
<1>6. ASSUME Fill = 0
      PROVE  Empty
  <2>1. nwrite = q * W + nread
    BY <1>1, <1>2, <1>6
  <2>2. nwrite % W = nread
    BY <1>1, <2>1, Remainder DEF Counters
  <2>3. nwrite % W = nwrite
    BY <1>1 DEF Counters
  <2> QED
    BY <2>2, <2>3 DEF Empty
<1> QED
  BY <1>3, <1>4, <1>5, <1>6

\* Putting a byte fills the pipe by one.
LEMMA FillPut ==
  ASSUME Counters, ~Full
  PROVE  /\ Inc(nwrite) \in 0 .. W - 1
         /\ (Inc(nwrite) - nread) % W = Fill + 1
         /\ Fill < PIPESIZE
<1>1. /\ nread \in Int /\ nwrite \in Int /\ nwrite - nread \in Int
      /\ nwrite + 1 \in Int /\ 0 - nread \in Int /\ 1 \in Int
      /\ W \in Nat \ {0} /\ PIPESIZE < W /\ PIPESIZE \in Nat
  BY Sizes DEF Counters
<1>2. Fill \in 0 .. PIPESIZE - 1
  BY FullEmpty, <1>1 DEF Counters
<1>3. (((nwrite + 1) % W) + (0 - nread)) % W = (nwrite + 1 + (0 - nread)) % W
  BY <1>1, ModSum, ZenonT(60)
<1>4. (((nwrite - nread) % W) + 1) % W = (nwrite - nread + 1) % W
  BY <1>1, ModSum, ZenonT(60)
<1>5. (Fill + 1) % W = Fill + 1
  BY <1>1, <1>2
<1>6. (nwrite + 1) % W \in 0 .. W - 1
  BY <1>1, Div
<1>7. /\ nwrite + 1 + (0 - nread) = nwrite - nread + 1
      /\ ((nwrite + 1) % W) + (0 - nread) = ((nwrite + 1) % W) - nread
  BY <1>1, <1>6
<1> QED
  BY <1>1, <1>2, <1>3, <1>4, <1>5, <1>6, <1>7 DEF Fill, Inc

\* Taking a byte empties the pipe by one.
LEMMA FillTake ==
  ASSUME Counters, ~Empty
  PROVE  /\ Inc(nread) \in 0 .. W - 1
         /\ (nwrite - Inc(nread)) % W = Fill - 1
         /\ Fill > 0
<1>1. /\ nread \in Int /\ nwrite \in Int /\ nwrite - nread \in Int /\ nread + 1 \in Int
      /\ 0 - 1 \in Int
      /\ W \in Nat \ {0} /\ PIPESIZE < W /\ PIPESIZE \in Nat
  BY Sizes DEF Counters
<1>2. Fill \in 1 .. PIPESIZE
  BY FullEmpty, <1>1 DEF Counters
<1>3. (nwrite - ((nread + 1) % W)) % W = (nwrite - (nread + 1)) % W
  BY <1>1, ModSum, ZenonT(60)
<1>4. (((nwrite - nread) % W) + (0 - 1)) % W = (nwrite - nread + (0 - 1)) % W
  BY <1>1, ModSum, ZenonT(60)
<1>5. (Fill - 1) % W = Fill - 1
  BY <1>1, <1>2
<1>6. (nread + 1) % W \in 0 .. W - 1
  BY <1>1, Div
<1>7. nwrite - (nread + 1) = nwrite - nread + (0 - 1) /\ Fill + (0 - 1) = Fill - 1
  BY <1>1, <1>2
<1>8. (nwrite - ((nread + 1) % W)) % W = Fill - 1
  BY <1>3, <1>4, <1>5, <1>7, ZenonT(60) DEF Fill
<1>9. Fill > 0
  BY <1>2
<1> QED
  BY <1>6, <1>8, <1>9, ZenonT(60) DEF Inc

\* The place of the k-th byte of the pipe, and of the next one to come.
LEMMA Places ==
  ASSUME Counters
  PROVE  /\ \A k \in Int : ((nread + k - 1) % W) % PIPESIZE = (nread + k - 1) % PIPESIZE
         /\ nwrite % PIPESIZE = (nread + Fill) % PIPESIZE
         /\ \A k \in 1 .. Fill : Fill < PIPESIZE => (nread + k - 1) % PIPESIZE # nwrite % PIPESIZE
<1>1. /\ nread \in Int /\ nwrite \in 0 .. W - 1 /\ nwrite - nread \in Int /\ Fill \in Int
      /\ W \in Nat \ {0} /\ PIPESIZE \in Nat \ {0} /\ W % PIPESIZE = 0
  BY Sizes DEF Counters
<1>2. ASSUME NEW k \in Int
      PROVE  ((nread + k - 1) % W) % PIPESIZE = (nread + k - 1) % PIPESIZE
  <2>1. nread + k - 1 \in Int
    BY <1>1
  <2> QED
    BY <1>1, <2>1, WrapAtMultiple, ZenonT(60)
<1>3. (nread + Fill) % W = nwrite
  <2>1. (((nwrite - nread) % W) + nread) % W = (nwrite - nread + nread) % W
    BY <1>1, ModSum, ZenonT(60)
  <2>2. nwrite % W = nwrite /\ nwrite - nread + nread = nwrite /\ Fill + nread = nread + Fill
    BY <1>1
  <2> QED
    BY <2>1, <2>2 DEF Fill
<1>4. nwrite % PIPESIZE = (nread + Fill) % PIPESIZE
  <2>1. nread + Fill \in Int
    BY <1>1
  <2> QED
    BY <1>1, <1>3, <2>1, WrapAtMultiple, ZenonT(60)
<1>5. ASSUME NEW k \in 1 .. Fill, Fill < PIPESIZE
      PROVE  (nread + k - 1) % PIPESIZE # (nread + Fill) % PIPESIZE
  <2>1. nread + k - 1 \in Int /\ nread + Fill \in Int
        /\ nread + k - 1 < nread + Fill /\ nread + Fill < nread + k - 1 + PIPESIZE
    BY <1>1, <1>5
  <2> QED
    BY <1>1, <2>1, Near, ZenonT(60)
<1> QED
  BY <1>2, <1>4, <1>5

-------------------------------------------------------------------------------
(* The invariant.                                                           *)

\* Only readers read, only writers write.
Roles ==
  \A p \in Proc :
    /\ pc[p] \in {"read", "rsleep", "rwoken"} => p \in Readers
    /\ pc[p] \in {"write", "wsleep", "wwoken"} => p \in Writers

\* An end is closed once all its holders have closed it.
Ends ==
  /\ ~readopen => \A p \in Readers : pc[p] = "closed"
  /\ ~writeopen => \A p \in Writers : pc[p] = "closed"
  /\ freed => ~readopen /\ ~writeopen

IInv == TypeOK /\ Counters /\ Roles /\ Ends

\* Why a process sleeps, also while pi->lock is held: a writer that has put
\* bytes will wake the readers before it releases the lock, a reader that has
\* taken some the writers.
Reasons ==
  /\ \A p \in Proc : pc[p] = "rsleep" => writeopen /\ (Empty \/ lock \in Writers)
  /\ \A p \in Proc : pc[p] = "wsleep" => readopen /\ (Full \/ (lock \in Readers /\ copied[lock]))
  /\ \A p \in Proc : killed[p] => p \in Victims

\* What pipeclose() does, case by case.
LEMMA CloseCases ==
  ASSUME TypeOK, NEW p \in Proc, pipeclose(p)
  PROVE  /\ pc[p] = "idle" /\ lock = None
         /\ freed' = (~readopen' /\ ~writeopen')
         /\ \/ /\ p \in Writers /\ \A q \in Writers \ {p} : pc[q] = "closed"
               /\ writeopen' = FALSE /\ readopen' = readopen
               /\ pc' = [wakeup("rsleep", "rwoken") EXCEPT ![p] = "closed"]
            \/ /\ p \in Readers /\ \A q \in Readers \ {p} : pc[q] = "closed"
               /\ writeopen' = writeopen /\ readopen' = FALSE
               /\ pc' = [wakeup("wsleep", "wwoken") EXCEPT ![p] = "closed"]
            \/ /\ writeopen' = writeopen /\ readopen' = readopen
               /\ pc' = [pc EXCEPT ![p] = "closed"]
<1>1. readopen \in BOOLEAN /\ writeopen \in BOOLEAN /\ (p \in Writers <=> p \notin Readers)
  BY Sizes DEF TypeOK, Proc
<1>2. CASE p \in Writers /\ \A q \in Writers \ {p} : pc[q] = "closed"
  BY <1>1, <1>2, ZenonT(60) DEF pipeclose, Unused
<1>3. CASE p \in Readers /\ \A q \in Readers \ {p} : pc[q] = "closed"
  BY <1>1, <1>3, ZenonT(60) DEF pipeclose, Unused
<1>4. CASE p \in Writers /\ ~ \A q \in Writers \ {p} : pc[q] = "closed"
  BY <1>1, <1>4, ZenonT(60) DEF pipeclose, Unused
<1>5. CASE p \in Readers /\ ~ \A q \in Readers \ {p} : pc[q] = "closed"
  BY <1>1, <1>5, ZenonT(60) DEF pipeclose, Unused
<1> QED
  BY <1>1, <1>2, <1>3, <1>4, <1>5, ZenonT(60)
-------------------------------------------------------------------------------
(* Steps.                                                                   *)

\* IInv is kept when pipewrite() takes pi->lock.
LEMMA PipewriteStep ==
  ASSUME IInv, NEW p \in Proc, pipewrite(p)
  PROVE  IInv'
<1>0. TypeOK /\ Counters /\ Roles /\ Ends /\ Readers \cap Writers = {} /\ Proc = Readers \cup Writers
  BY Sizes DEF IInv, Proc
<1>2. Counters'
  BY <1>0 DEF pipewrite, pipe, Counters, Fill
<1>3. TypeOK'
  BY <1>0, PipeAssumption DEF TypeOK, pipewrite, pipe
<1>4. Roles'
  BY <1>0 DEF TypeOK, Roles, pipewrite, pipe
<1>5. Ends'
  BY <1>0 DEF TypeOK, Roles, Ends, pipewrite, pipe
<1> QED
  BY <1>2, <1>3, <1>4, <1>5 DEF IInv

\* IInv is kept when pipewrite() returns -1.
LEMMA WriteFailStep ==
  ASSUME IInv, NEW p \in Proc, write_fail(p)
  PROVE  IInv'
<1>0. TypeOK /\ Counters /\ Roles /\ Ends /\ Readers \cap Writers = {} /\ Proc = Readers \cup Writers
  BY Sizes DEF IInv, Proc
<1>2. Counters'
  BY <1>0 DEF write_fail, Return, pipe, Counters, Fill
<1>3. TypeOK'
  BY <1>0, PipeAssumption DEF TypeOK, write_fail, Return, pipe
<1>4. Roles'
  BY <1>0 DEF TypeOK, Roles, write_fail, Return, pipe
<1>5. Ends'
  BY <1>0 DEF TypeOK, Roles, Ends, write_fail, Return, pipe
<1> QED
  BY <1>2, <1>3, <1>4, <1>5 DEF IInv

\* IInv is kept when a writer of a full pipe wakes the readers and sleeps.
LEMMA WriteFullStep ==
  ASSUME IInv, NEW p \in Proc, write_full(p)
  PROVE  IInv'
<1>0. TypeOK /\ Counters /\ Roles /\ Ends /\ Readers \cap Writers = {} /\ Proc = Readers \cup Writers
  BY Sizes DEF IInv, Proc
<1>2. Counters'
  BY <1>0 DEF write_full, Sleep, wakeup, pipe, Counters, Fill
<1>3. TypeOK'
  BY <1>0, PipeAssumption DEF TypeOK, write_full, Sleep, wakeup, pipe
<1>4. Roles'
  BY <1>0 DEF TypeOK, Roles, write_full, Sleep, wakeup, pipe
<1>5. Ends'
  BY <1>0 DEF TypeOK, Roles, Ends, write_full, Sleep, wakeup, pipe
<1> QED
  BY <1>2, <1>3, <1>4, <1>5 DEF IInv

\* IInv is kept when a writer puts one byte.
LEMMA WriteByteStep ==
  ASSUME IInv, NEW p \in Proc, write_byte(p)
  PROVE  IInv'
<1>0. TypeOK /\ Counters /\ Roles /\ Ends /\ Readers \cap Writers = {} /\ Proc = Readers \cup Writers
  BY Sizes DEF IInv, Proc
<1>1. nwrite % PIPESIZE \in 0 .. PIPESIZE - 1
  BY <1>0, Sizes, Div DEF Counters
<1>2. Counters'
  BY <1>0, FillPut, Sizes DEF write_byte, Counters, Fill
<1>3. TypeOK'
  BY <1>0, <1>1, <1>2, PipeAssumption DEF TypeOK, Counters, write_byte
<1>4. Roles'
  BY <1>0 DEF TypeOK, Roles, write_byte
<1>5. Ends'
  BY <1>0 DEF TypeOK, Roles, Ends, write_byte
<1> QED
  BY <1>2, <1>3, <1>4, <1>5 DEF IInv

\* IInv is kept when pipewrite() wakes the readers and returns.
LEMMA WriteDoneStep ==
  ASSUME IInv, NEW p \in Proc, write_done(p)
  PROVE  IInv'
<1>0. TypeOK /\ Counters /\ Roles /\ Ends /\ Readers \cap Writers = {} /\ Proc = Readers \cup Writers
  BY Sizes DEF IInv, Proc
<1>2. Counters'
  BY <1>0 DEF write_done, Return, wakeup, pipe, Counters, Fill
<1>3. TypeOK'
  BY <1>0, PipeAssumption DEF TypeOK, write_done, Return, wakeup, pipe
<1>4. Roles'
  BY <1>0 DEF TypeOK, Roles, write_done, Return, wakeup, pipe
<1>5. Ends'
  BY <1>0 DEF TypeOK, Roles, Ends, write_done, Return, wakeup, pipe
<1> QED
  BY <1>2, <1>3, <1>4, <1>5 DEF IInv

\* IInv is kept when piperead() takes pi->lock.
LEMMA PipereadStep ==
  ASSUME IInv, NEW p \in Proc, piperead(p)
  PROVE  IInv'
<1>0. TypeOK /\ Counters /\ Roles /\ Ends /\ Readers \cap Writers = {} /\ Proc = Readers \cup Writers
  BY Sizes DEF IInv, Proc
<1>2. Counters'
  BY <1>0 DEF piperead, pipe, Counters, Fill
<1>3. TypeOK'
  BY <1>0, PipeAssumption DEF TypeOK, piperead, pipe
<1>4. Roles'
  BY <1>0 DEF TypeOK, Roles, piperead, pipe
<1>5. Ends'
  BY <1>0 DEF TypeOK, Roles, Ends, piperead, pipe
<1> QED
  BY <1>2, <1>3, <1>4, <1>5 DEF IInv

\* IInv is kept when a reader of an empty pipe sleeps, or returns -1.
LEMMA ReadEmptyStep ==
  ASSUME IInv, NEW p \in Proc, read_empty(p)
  PROVE  IInv'
<1>0. TypeOK /\ Counters /\ Roles /\ Ends /\ Readers \cap Writers = {} /\ Proc = Readers \cup Writers
  BY Sizes DEF IInv, Proc
<1>1. UNCHANGED <<pipe, killed, taken>> /\ pc[p] = "read" /\ (Return(p, pc) \/ Sleep(p, pc, "rsleep"))
  BY DEF read_empty
<1>2. Counters'
  BY <1>0, <1>1 DEF pipe, Return, Sleep, Counters, Fill
<1>3. TypeOK'
  <2>1. CASE Return(p, pc)
    BY <1>0, <1>1, <2>1, PipeAssumption DEF TypeOK, pipe, Return
  <2>2. CASE Sleep(p, pc, "rsleep")
    BY <1>0, <1>1, <2>2 DEF TypeOK, pipe, Sleep
  <2> QED
    BY <1>1, <2>1, <2>2
<1>4. Roles'
  BY <1>0, <1>1 DEF TypeOK, Roles, pipe, Return, Sleep
<1>5. Ends'
  BY <1>0, <1>1 DEF TypeOK, Roles, Ends, pipe, Return, Sleep
<1> QED
  BY <1>2, <1>3, <1>4, <1>5 DEF IInv

\* IInv is kept when a reader takes one byte.
LEMMA ReadByteStep ==
  ASSUME IInv, NEW p \in Proc, read_byte(p)
  PROVE  IInv'
<1>0. TypeOK /\ Counters /\ Roles /\ Ends /\ Readers \cap Writers = {} /\ Proc = Readers \cup Writers
  BY Sizes DEF IInv, Proc
<1>1. nread % PIPESIZE \in 0 .. PIPESIZE - 1
  BY <1>0, Sizes, Div DEF Counters
<1>2. Counters'
  BY <1>0, FillTake, Sizes DEF read_byte, Counters, Fill
<1>3. TypeOK'
  BY <1>0, <1>1, <1>2, PipeAssumption DEF TypeOK, Counters, read_byte
<1>4. Roles'
  BY <1>0 DEF TypeOK, Roles, read_byte
<1>5. Ends'
  BY <1>0 DEF TypeOK, Roles, Ends, read_byte
<1> QED
  BY <1>2, <1>3, <1>4, <1>5 DEF IInv

\* IInv is kept when piperead() wakes the writers and returns.
LEMMA ReadDoneStep ==
  ASSUME IInv, NEW p \in Proc, read_done(p)
  PROVE  IInv'
<1>0. TypeOK /\ Counters /\ Roles /\ Ends /\ Readers \cap Writers = {} /\ Proc = Readers \cup Writers
  BY Sizes DEF IInv, Proc
<1>2. Counters'
  BY <1>0 DEF read_done, Return, wakeup, pipe, Counters, Fill
<1>3. TypeOK'
  BY <1>0, PipeAssumption DEF TypeOK, read_done, Return, wakeup, pipe
<1>4. Roles'
  BY <1>0 DEF TypeOK, Roles, read_done, Return, wakeup, pipe
<1>5. Ends'
  BY <1>0 DEF TypeOK, Roles, Ends, read_done, Return, wakeup, pipe
<1> QED
  BY <1>2, <1>3, <1>4, <1>5 DEF IInv

\* IInv is kept when sleep() returns with pi->lock.
LEMMA WakeStep ==
  ASSUME IInv, NEW p \in Proc, wake(p)
  PROVE  IInv'
<1>0. TypeOK /\ Counters /\ Roles /\ Ends /\ Readers \cap Writers = {} /\ Proc = Readers \cup Writers
  BY Sizes DEF IInv, Proc
<1>1. /\ lock' = p /\ UNCHANGED <<pipe, i, n, copied, killed, taken>>
      /\ \/ pc[p] = "wwoken" /\ pc' = [pc EXCEPT ![p] = "write"]
         \/ pc[p] = "rwoken" /\ pc' = [pc EXCEPT ![p] = "read"]
  BY ZenonT(60) DEF wake
<1>2. Counters'
  BY <1>0, <1>1 DEF pipe, Counters, Fill
<1>3. TypeOK'
  BY <1>0, <1>1, PipeAssumption DEF TypeOK, pipe
<1>4. Roles'
  BY <1>0, <1>1 DEF TypeOK, Roles, pipe
<1>5. Ends'
  BY <1>0, <1>1 DEF TypeOK, Roles, Ends, pipe
<1> QED
  BY <1>2, <1>3, <1>4, <1>5 DEF IInv

\* IInv is kept when a holder closes its end.
LEMMA PipecloseStep ==
  ASSUME IInv, NEW p \in Proc, pipeclose(p)
  PROVE  IInv'
<1>0. TypeOK /\ Counters /\ Roles /\ Ends /\ Readers \cap Writers = {} /\ Proc = Readers \cup Writers
  BY Sizes DEF IInv, Proc
<1>1. pipeclose(p) /\ UNCHANGED <<data, nread, nwrite, lock, i, n, copied, killed, taken>>
  BY DEF pipeclose
<1>2. TypeOK'
  <2>1. readopen' \in BOOLEAN /\ writeopen' \in BOOLEAN
    BY <1>0, <1>1, CloseCases, ZenonT(60) DEF TypeOK
  <2>2. freed' \in BOOLEAN
    BY <1>0, <1>1, CloseCases, ZenonT(60)
  <2>3. pc' \in [Proc -> {"idle", "read", "write", "rsleep", "rwoken", "wsleep", "wwoken", "closed"}]
    BY <1>0, <1>1, CloseCases, ZenonT(60) DEF TypeOK, wakeup
  <2> QED
    BY <1>0, <1>1, <2>1, <2>2, <2>3 DEF TypeOK
<1>3. Counters'
  BY <1>0, <1>1 DEF Counters, Fill
<1>4. Roles'
  BY <1>0, <1>1, CloseCases, ZenonT(60) DEF TypeOK, Roles, wakeup
<1>5. Ends'
  <2>1. freed' => ~readopen' /\ ~writeopen'
    BY <1>0, <1>1, CloseCases, ZenonT(60)
  <2>2. pc[p] = "idle" /\ readopen \in BOOLEAN /\ writeopen \in BOOLEAN
    BY <1>0, <1>1 DEF pipeclose, TypeOK
  <2>3. CASE /\ \A q \in Writers \ {p} : pc[q] = "closed"
             /\ readopen' = readopen
             /\ pc' = [wakeup("rsleep", "rwoken") EXCEPT ![p] = "closed"]
    BY <1>0, <2>1, <2>2, <2>3 DEF TypeOK, Ends, wakeup
  <2>4. CASE /\ \A q \in Readers \ {p} : pc[q] = "closed"
             /\ writeopen' = writeopen
             /\ pc' = [wakeup("wsleep", "wwoken") EXCEPT ![p] = "closed"]
    BY <1>0, <2>1, <2>2, <2>4 DEF TypeOK, Ends, wakeup
  <2>5. CASE /\ writeopen' = writeopen /\ readopen' = readopen
             /\ pc' = [pc EXCEPT ![p] = "closed"]
    BY <1>0, <2>1, <2>2, <2>5 DEF TypeOK, Ends
  <2> QED
    BY <1>0, <1>1, <2>3, <2>4, <2>5, CloseCases, ZenonT(60)
<1> QED
  BY <1>2, <1>3, <1>4, <1>5 DEF IInv

\* IInv is kept when kill() marks its victim and wakes it.
LEMMA KillStep ==
  ASSUME IInv, NEW p \in Proc, kill(p)
  PROVE  IInv'
<1>0. TypeOK /\ Counters /\ Roles /\ Ends /\ Readers \cap Writers = {} /\ Proc = Readers \cup Writers
  BY Sizes DEF IInv, Proc
<1>2. Counters'
  BY <1>0 DEF kill, pipe, Counters, Fill
<1>3. TypeOK'
  BY <1>0, PipeAssumption DEF TypeOK, kill, pipe
<1>4. Roles'
  BY <1>0 DEF TypeOK, Roles, kill, pipe
<1>5. Ends'
  BY <1>0 DEF TypeOK, Roles, Ends, kill, pipe
<1> QED
  BY <1>2, <1>3, <1>4, <1>5 DEF IInv

\* A step that changes nothing.
LEMMA StutterStep ==
  ASSUME IInv, UNCHANGED vars
  PROVE  IInv'
  BY DEF IInv, TypeOK, Counters, Fill, Roles, Ends, vars, pipe

\* IInv is inductive.
LEMMA NextIInv ==
  ASSUME IInv, [Next]_vars
  PROVE  IInv'
<1>1. CASE UNCHANGED vars
  BY <1>1, StutterStep
<1>2. ASSUME NEW p \in Proc, pipewrite(p) \/ piperead(p) \/ Step(p) \/ pipeclose(p) \/ kill(p)
      PROVE  IInv'
  BY <1>2, PipewriteStep, PipereadStep, WriteFailStep, WriteFullStep, WriteByteStep, WriteDoneStep,
     ReadEmptyStep, ReadByteStep, ReadDoneStep, WakeStep, PipecloseStep, KillStep, ZenonT(60) DEF Step
<1> QED
  BY <1>1, <1>2, ZenonT(60) DEF Next

\* A new pipe satisfies IInv.
LEMMA InitIInv ==
  ASSUME Init
  PROVE  IInv
<1>1. (0 - 0) % W = 0 /\ 0 \in 0 .. W - 1
  BY Sizes
<1>2. Counters
  BY <1>1, Sizes DEF Init, Counters, Fill
<1>3. TypeOK
  <2>1. data \in [0 .. PIPESIZE - 1 -> Byte] /\ taken \in Byte
    BY DEF Init
  <2>2. 0 \in 0 .. MaxN
    BY PipeAssumption
  <2> QED
    BY <1>1, <2>1, <2>2, ZenonT(60) DEF Init, TypeOK
<1>4. Roles /\ Ends
  BY DEF Init, Roles, Ends, Proc
<1> QED
  BY <1>2, <1>3, <1>4 DEF IInv

\* Every state of the pipe satisfies IInv, whoever is killed.
THEOREM PipeIInv == Spec => []IInv
<1>1. Init => IInv
  BY InitIInv
<1>2. IInv /\ [Next]_vars => IInv'
  BY NextIInv
<1> QED
  BY <1>1, <1>2, PTL DEF Spec

\* pipeclose() frees the page only when no process is inside piperead() or
\* pipewrite(), and the counters never leave their width, whoever is killed.
THEOREM PageOutlivesUsers == Spec => [](TypeOK /\ NoUseAfterFree)
<1>1. IInv => TypeOK /\ NoUseAfterFree
  BY DEF IInv, Ends, NoUseAfterFree, Proc
<1> QED
  BY <1>1, PipeIInv, PTL

-------------------------------------------------------------------------------
(* Sleepers.                                                                *)

\* Every sleeper keeps its reason when pipewrite() takes pi->lock.
LEMMA PipewriteReasons ==
  ASSUME IInv, Reasons, NEW p \in Proc, pipewrite(p)
  PROVE  Reasons'
<1>0. /\ TypeOK /\ Counters /\ Roles /\ Ends
      /\ Readers \cap Writers = {} /\ Proc = Readers \cup Writers /\ None \notin Proc
  BY Sizes DEF IInv, Proc
<1> QED
  BY <1>0 DEF Reasons, Full, Empty, TypeOK, Roles, Ends, pipewrite, pipe

\* Every sleeper keeps its reason when pipewrite() returns -1.
LEMMA WriteFailReasons ==
  ASSUME IInv, Reasons, NEW p \in Proc, write_fail(p), Victims \cap Writers = {}
  PROVE  Reasons'
<1>0. /\ TypeOK /\ Counters /\ Roles /\ Ends
      /\ Readers \cap Writers = {} /\ Proc = Readers \cup Writers /\ None \notin Proc
  BY Sizes DEF IInv, Proc
<1> QED
  BY <1>0 DEF Reasons, Full, Empty, TypeOK, Roles, Ends, write_fail, Return, pipe

\* Every sleeper keeps its reason when a writer of a full pipe wakes the readers and sleeps.
LEMMA WriteFullReasons ==
  ASSUME IInv, Reasons, NEW p \in Proc, write_full(p)
  PROVE  Reasons'
<1>0. /\ TypeOK /\ Counters /\ Roles /\ Ends
      /\ Readers \cap Writers = {} /\ Proc = Readers \cup Writers /\ None \notin Proc
  BY Sizes DEF IInv, Proc
<1> QED
  BY <1>0 DEF Reasons, Full, Empty, TypeOK, Roles, Ends, write_full, Sleep, wakeup, pipe

\* Every sleeper keeps its reason when a writer puts one byte.
LEMMA WriteByteReasons ==
  ASSUME IInv, Reasons, NEW p \in Proc, write_byte(p)
  PROVE  Reasons'
<1>0. /\ TypeOK /\ Counters /\ Roles /\ Ends
      /\ Readers \cap Writers = {} /\ Proc = Readers \cup Writers /\ None \notin Proc
  BY Sizes DEF IInv, Proc
<1>1. UNCHANGED <<pc, lock, writeopen, readopen, killed, copied>> /\ p \in Writers /\ lock = p /\ ~Full
  BY <1>0 DEF write_byte, Roles
<1> QED
  BY <1>0, <1>1 DEF Reasons, Full, Empty, TypeOK

\* Every sleeper keeps its reason when pipewrite() wakes the readers and returns.
LEMMA WriteDoneReasons ==
  ASSUME IInv, Reasons, NEW p \in Proc, write_done(p)
  PROVE  Reasons'
<1>0. /\ TypeOK /\ Counters /\ Roles /\ Ends
      /\ Readers \cap Writers = {} /\ Proc = Readers \cup Writers /\ None \notin Proc
  BY Sizes DEF IInv, Proc
<1> QED
  BY <1>0 DEF Reasons, Full, Empty, TypeOK, Roles, Ends, write_done, Return, wakeup, pipe

\* Every sleeper keeps its reason when piperead() takes pi->lock.
LEMMA PipereadReasons ==
  ASSUME IInv, Reasons, NEW p \in Proc, piperead(p)
  PROVE  Reasons'
<1>0. /\ TypeOK /\ Counters /\ Roles /\ Ends
      /\ Readers \cap Writers = {} /\ Proc = Readers \cup Writers /\ None \notin Proc
  BY Sizes DEF IInv, Proc
<1> QED
  BY <1>0 DEF Reasons, Full, Empty, TypeOK, Roles, Ends, piperead, pipe

\* Every sleeper keeps its reason when a reader of an empty pipe sleeps, or returns -1.
LEMMA ReadEmptyReasons ==
  ASSUME IInv, Reasons, NEW p \in Proc, read_empty(p)
  PROVE  Reasons'
<1>0. /\ TypeOK /\ Counters /\ Roles /\ Ends
      /\ Readers \cap Writers = {} /\ Proc = Readers \cup Writers /\ None \notin Proc
  BY Sizes DEF IInv, Proc
<1>1. ~Full
  BY <1>0, Sizes, FullEmpty DEF read_empty
<1> QED
  BY <1>0, <1>1 DEF Reasons, Full, Empty, TypeOK, Roles, Ends, read_empty, Return, Sleep, pipe

\* Every sleeper keeps its reason when a reader takes one byte.
LEMMA ReadByteReasons ==
  ASSUME IInv, Reasons, NEW p \in Proc, read_byte(p)
  PROVE  Reasons'
<1>0. /\ TypeOK /\ Counters /\ Roles /\ Ends
      /\ Readers \cap Writers = {} /\ Proc = Readers \cup Writers /\ None \notin Proc
  BY Sizes DEF IInv, Proc
<1>1. UNCHANGED <<pc, lock, writeopen, readopen, killed>> /\ p \in Readers /\ lock = p /\ ~Empty /\ copied'[p]
  BY <1>0 DEF read_byte, Roles, TypeOK
<1> QED
  BY <1>0, <1>1 DEF Reasons, Full, Empty, TypeOK

\* Every sleeper keeps its reason when piperead() wakes the writers and returns.
LEMMA ReadDoneReasons ==
  ASSUME IInv, Reasons, NEW p \in Proc, read_done(p)
  PROVE  Reasons'
<1>0. /\ TypeOK /\ Counters /\ Roles /\ Ends
      /\ Readers \cap Writers = {} /\ Proc = Readers \cup Writers /\ None \notin Proc
  BY Sizes DEF IInv, Proc
<1> QED
  BY <1>0 DEF Reasons, Full, Empty, TypeOK, Roles, Ends, read_done, Return, wakeup, pipe

\* Every sleeper keeps its reason when sleep() returns with pi->lock.
LEMMA WakeReasons ==
  ASSUME IInv, Reasons, NEW p \in Proc, wake(p)
  PROVE  Reasons'
<1>0. /\ TypeOK /\ Counters /\ Roles /\ Ends
      /\ Readers \cap Writers = {} /\ Proc = Readers \cup Writers /\ None \notin Proc
  BY Sizes DEF IInv, Proc
<1> QED
  BY <1>0 DEF Reasons, Full, Empty, TypeOK, Roles, Ends, wake, pipe

\* Every sleeper keeps its reason when a holder closes its end.
LEMMA PipecloseReasons ==
  ASSUME IInv, Reasons, NEW p \in Proc, pipeclose(p)
  PROVE  Reasons'
<1>0. /\ TypeOK /\ Counters /\ Roles /\ Ends
      /\ Readers \cap Writers = {} /\ Proc = Readers \cup Writers /\ None \notin Proc
  BY Sizes DEF IInv, Proc
<1>1. UNCHANGED <<nread, nwrite, lock, copied, killed>>
  BY DEF pipeclose
<1>2. pc[p] = "idle" /\ lock = None /\ lock \notin Readers /\ lock \notin Writers
  BY <1>0 DEF pipeclose
<1>3. CASE /\ p \in Writers /\ readopen' = readopen
           /\ pc' = [wakeup("rsleep", "rwoken") EXCEPT ![p] = "closed"]
  BY <1>0, <1>1, <1>2, <1>3 DEF Reasons, Full, Empty, TypeOK, wakeup
<1>4. CASE /\ p \in Readers /\ writeopen' = writeopen
           /\ pc' = [wakeup("wsleep", "wwoken") EXCEPT ![p] = "closed"]
  BY <1>0, <1>1, <1>2, <1>4 DEF Reasons, Full, Empty, TypeOK, wakeup
<1>5. CASE writeopen' = writeopen /\ readopen' = readopen /\ pc' = [pc EXCEPT ![p] = "closed"]
  BY <1>0, <1>1, <1>2, <1>5 DEF Reasons, Full, Empty, TypeOK
<1> QED
  BY <1>0, <1>3, <1>4, <1>5, CloseCases, ZenonT(60)

\* Every sleeper keeps its reason when kill() marks its victim and wakes it.
LEMMA KillReasons ==
  ASSUME IInv, Reasons, NEW p \in Proc, kill(p)
  PROVE  Reasons'
<1>0. /\ TypeOK /\ Counters /\ Roles /\ Ends
      /\ Readers \cap Writers = {} /\ Proc = Readers \cup Writers /\ None \notin Proc
  BY Sizes DEF IInv, Proc
<1> QED
  BY <1>0 DEF Reasons, Full, Empty, TypeOK, Roles, Ends, kill, pipe

\* No wakeup is lost in a pipe (DOC: pipe-empty, pipewrite-full): with PipeInv,
\* outside a critical section a reader sleeps only while the pipe is empty and
\* can be written, a writer only while it is full and can be read.  A writer that
\* is killed after it has put some bytes returns without waking the readers, so
\* the theorem is about pipes whose writers are not killed.
THEOREM PipeIsCorrect ==
  ASSUME Victims \cap Writers = {}
  PROVE  Spec => []PipeInv
<1>1. Init => Reasons
  BY DEF Init, Reasons
<1>2. ASSUME IInv, Reasons, [Next]_vars
      PROVE  Reasons'
  <2>1. CASE UNCHANGED vars
    BY <1>2, <2>1 DEF Reasons, Full, Empty, vars, pipe
  <2>2. ASSUME NEW p \in Proc, pipewrite(p) \/ piperead(p) \/ Step(p) \/ pipeclose(p) \/ kill(p)
        PROVE  Reasons'
    BY <1>2, <2>2, PipewriteReasons, PipereadReasons, WriteFailReasons, WriteFullReasons,
       WriteByteReasons, WriteDoneReasons, ReadEmptyReasons, ReadByteReasons, ReadDoneReasons,
       WakeReasons, PipecloseReasons, KillReasons, ZenonT(60) DEF Step
  <2> QED
    BY <1>2, <2>1, <2>2, ZenonT(60) DEF Next
<1>3. IInv /\ Reasons => PipeInv
  <2>1. IInv => TypeOK /\ NoUseAfterFree
    BY DEF IInv, Ends, NoUseAfterFree, Proc
  <2>2. IInv /\ Reasons => SleepersHaveReason
    BY Sizes DEF Reasons, SleepersHaveReason, Proc
  <2> QED
    BY <2>1, <2>2 DEF PipeInv
<1> QED
  BY <1>1, <1>2, <1>3, PipeIInv, PTL DEF Spec

-------------------------------------------------------------------------------
(* The ring buffer is a FIFO queue.                                         *)

\* write_byte() appends to the contents of the pipe.
LEMMA PutAppends ==
  ASSUME IInv, NEW p \in Proc, write_byte(p)
  PROVE  \E b \in Byte : F!Put(b)
<1>0. TypeOK /\ Counters /\ Fill \in Nat /\ Fill < PIPESIZE /\ readopen
  BY FillPut DEF IInv, write_byte, Counters
<1>1. PICK b \in Byte : data' = [data EXCEPT ![nwrite % PIPESIZE] = b]
  BY ZenonT(60) DEF write_byte
<1>2. UNCHANGED <<nread, taken, readopen>> /\ (nwrite' - nread') % W = Fill + 1
  BY <1>0, FillPut DEF write_byte
<1>3. Contents = [k \in 1 .. Fill |-> data[(nread + k - 1) % PIPESIZE]]
  BY <1>0, Places DEF Contents, Fill
<1>4. Contents' = [k \in 1 .. Fill + 1 |-> data'[(nread + k - 1) % PIPESIZE]]
  BY <1>0, <1>2, Places DEF Contents
<1>5. ASSUME NEW k \in 1 .. Fill
      PROVE  data'[(nread + k - 1) % PIPESIZE] = data[(nread + k - 1) % PIPESIZE]
  <2>1. (nread + k - 1) % PIPESIZE # nwrite % PIPESIZE
    BY <1>0, Places
  <2>2. (nread + k - 1) % PIPESIZE \in 0 .. PIPESIZE - 1
    BY <1>0, Sizes, Div DEF Counters
  <2> QED
    BY <1>0, <1>1, <2>1, <2>2 DEF TypeOK
<1>6. data'[(nread + (Fill + 1) - 1) % PIPESIZE] = b
  <2>1. nread + (Fill + 1) - 1 = nread + Fill
    BY <1>0 DEF Counters
  <2>2. (nread + Fill) % PIPESIZE = nwrite % PIPESIZE /\ nwrite % PIPESIZE \in 0 .. PIPESIZE - 1
    BY <1>0, Places, Sizes, Div DEF Counters
  <2> QED
    BY <1>0, <1>1, <2>1, <2>2 DEF TypeOK
<1>7. ASSUME NEW k \in 1 .. Fill
      PROVE  data[(nread + k - 1) % PIPESIZE] \in Byte
  <2>1. (nread + k - 1) % PIPESIZE \in 0 .. PIPESIZE - 1
    BY <1>0, Sizes, Div DEF Counters
  <2> QED
    BY <1>0, <2>1 DEF TypeOK
<1>8. Contents \in Seq(Byte) /\ Len(Contents) = Fill
  BY <1>0, <1>3, <1>7
<1>9. Contents' = Append(Contents, b)
  BY <1>0, <1>3, <1>4, <1>5, <1>6, <1>8
<1> QED
  BY <1>0, <1>1, <1>2, <1>8, <1>9 DEF F!Put

\* read_byte() takes the head of the contents of the pipe.
LEMMA TakeHead ==
  ASSUME IInv, NEW p \in Proc, read_byte(p)
  PROVE  F!Take
<1>0. TypeOK /\ Counters /\ Fill \in Nat /\ Fill > 0
  BY FillTake, Sizes DEF IInv, read_byte, Counters
<1>1. UNCHANGED <<data, readopen>> /\ taken' = data[nread % PIPESIZE] /\ nread' = Inc(nread)
      /\ (nwrite' - nread') % W = Fill - 1
  BY <1>0, FillTake DEF read_byte
<1>2. ASSUME NEW k \in Int
      PROVE  ((nread' + k - 1) % W) % PIPESIZE = (nread + (k + 1) - 1) % PIPESIZE
  <2>1. nread + 1 \in Int /\ k - 1 \in Int /\ nread + k \in Int /\ W \in Nat \ {0} /\ PIPESIZE \in Nat \ {0}
    BY <1>0, Sizes DEF Counters
  <2>2. (((nread + 1) % W) + (k - 1)) % W = (nread + 1 + (k - 1)) % W
    BY <2>1, ModSum, ZenonT(60)
  <2>3. nread' \in Int /\ nread' + k - 1 = ((nread + 1) % W) + (k - 1)
    BY <1>1, <2>1, Div DEF Inc
  <2>4. nread + 1 + (k - 1) = nread + k /\ nread + (k + 1) - 1 = nread + k
    BY <1>0 DEF Counters
  <2>5. ((nread + k) % W) % PIPESIZE = (nread + k) % PIPESIZE
    BY <2>1, Sizes, WrapAtMultiple, ZenonT(60)
  <2> QED
    BY <2>2, <2>3, <2>4, <2>5, ZenonT(60)
<1>3. Contents = [k \in 1 .. Fill |-> data[(nread + k - 1) % PIPESIZE]]
  BY <1>0, Places DEF Contents, Fill
<1>4. Contents' = [k \in 1 .. Fill - 1 |-> data[(nread + (k + 1) - 1) % PIPESIZE]]
  BY <1>0, <1>1, <1>2 DEF Contents
<1>5. ASSUME NEW k \in 1 .. Fill
      PROVE  data[(nread + k - 1) % PIPESIZE] \in Byte
  <2>1. (nread + k - 1) % PIPESIZE \in 0 .. PIPESIZE - 1
    BY <1>0, Sizes, Div DEF Counters
  <2> QED
    BY <1>0, <2>1 DEF TypeOK
<1>6. Contents \in Seq(Byte) /\ Len(Contents) = Fill /\ Contents # << >>
  BY <1>0, <1>3, <1>5
<1>7. Head(Contents) = taken'
  <2>1. nread + 1 - 1 = nread
    BY <1>0 DEF Counters
  <2> QED
    BY <1>0, <1>1, <1>3, <1>6, <2>1
<1>8. Contents' = Tail(Contents)
  BY <1>0, <1>3, <1>4, <1>6
<1> QED
  BY <1>1, <1>6, <1>7, <1>8 DEF F!Take

\* Every other step leaves the queue alone, or closes the read end.
LEMMA OtherKeepsQueue ==
  ASSUME IInv, NEW p \in Proc,
         \/ pipewrite(p) \/ piperead(p) \/ pipeclose(p) \/ kill(p) \/ wake(p)
         \/ write_fail(p) \/ write_full(p) \/ write_done(p) \/ read_empty(p) \/ read_done(p)
  PROVE  F!Close \/ UNCHANGED F!vars
<1>1. UNCHANGED <<data, nread, nwrite, taken>>
  BY DEF pipewrite, piperead, pipeclose, kill, wake, write_fail, write_full, write_done, read_empty,
         read_done, pipe
<1>2. readopen' = readopen \/ readopen' = FALSE
  <2>1. CASE pipeclose(p)
    BY <2>1, CloseCases, ZenonT(60) DEF IInv
  <2>2. CASE ~pipeclose(p)
    BY <2>2 DEF pipewrite, piperead, kill, wake, write_fail, write_full, write_done, read_empty,
                read_done, pipe
  <2> QED
    BY <2>1, <2>2, ZenonT(60)
<1>3. UNCHANGED Contents
  BY <1>1 DEF Contents
<1> QED
  BY <1>1, <1>2, <1>3 DEF F!Close, F!vars

\* The pipe is a bounded FIFO queue (module Fifo): bytes come out in the order
\* they went in, each once, for any number of readers and writers, any size of
\* the buffer and also when the counters wrap around.
THEOREM PipeRefinesFifo == Spec => PipeIsFifo
<1>1. Init => F!Init
  <2>1. Init => Contents = << >>
    BY Sizes DEF Init, Contents
  <2> QED
    BY <2>1 DEF Init, F!Init
<1>2. ASSUME IInv, [Next]_vars
      PROVE  [F!Next]_F!vars
  <2>1. CASE UNCHANGED vars
    BY <2>1 DEF vars, pipe, F!vars, Contents
  <2>2. ASSUME NEW p \in Proc, pipewrite(p) \/ piperead(p) \/ Step(p) \/ pipeclose(p) \/ kill(p)
        PROVE  F!Next \/ UNCHANGED F!vars
    BY <1>2, <2>2, PutAppends, TakeHead, OtherKeepsQueue, ZenonT(60) DEF Step, F!Next
  <2> QED
    BY <1>2, <2>1, <2>2, ZenonT(60) DEF Next
<1> QED
  BY <1>1, <1>2, PipeIInv, PTL DEF Spec, PipeIsFifo, F!Spec
===============================================================================

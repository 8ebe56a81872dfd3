--------------------------------- MODULE Fifo ---------------------------------
(***************************************************************************)
(* What a pipe promises: a bounded queue of bytes.  A byte is taken out in  *)
(* the order in which it was put in, exactly once; nothing is put in after  *)
(* the read end is closed.                                                  *)
(***************************************************************************)
EXTENDS Naturals, Sequences

CONSTANTS Byte, Capacity

VARIABLES
  queue,     \* bytes in the pipe
  taken,     \* the byte last taken out
  readopen   \* the read end is open

vars == <<queue, taken, readopen>>

Init == queue = <<>> /\ taken \in Byte /\ readopen = TRUE

Put(b) ==
  /\ readopen
  /\ Len(queue) < Capacity
  /\ queue' = Append(queue, b)
  /\ UNCHANGED <<taken, readopen>>

Take ==
  /\ queue # <<>>
  /\ taken' = Head(queue)
  /\ queue' = Tail(queue)
  /\ UNCHANGED readopen

Close == readopen' = FALSE /\ UNCHANGED <<queue, taken>>

Next == (\E b \in Byte : Put(b)) \/ Take \/ Close

Spec == Init /\ [][Next]_vars
===============================================================================

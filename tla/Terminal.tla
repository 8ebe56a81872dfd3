------------------------------- MODULE Terminal -------------------------------
(***************************************************************************)
(* What the console's input promises: characters are edited in a line and   *)
(* can be erased until the line is ended, by a newline, by end-of-file or   *)
(* by a full buffer; from then on they are taken in the order typed.        *)
(***************************************************************************)
EXTENDS Naturals, Sequences

CONSTANT Capacity

VARIABLES
  ready,   \* characters of ended lines, not taken yet
  line     \* the line being edited

vars == <<ready, line>>

Init == ready = <<>> /\ line = <<>>

Erase == line # <<>> /\ line' = SubSeq(line, 1, Len(line) - 1) /\ UNCHANGED ready

Kill == line' = <<>> /\ UNCHANGED ready

Type(c) ==
  /\ Len(ready) + Len(line) < Capacity
  /\ IF c \in {"nl", "^D"} \/ Len(ready) + Len(line) + 1 = Capacity
       THEN ready' = ready \o Append(line, c) /\ line' = <<>>
       ELSE line' = Append(line, c) /\ UNCHANGED ready

Take == ready # <<>> /\ ready' = Tail(ready) /\ UNCHANGED line

Next == Erase \/ Kill \/ (\E c \in {"a", "b", "nl", "^D"} : Type(c)) \/ Take

Spec == Init /\ [][Next]_vars
===============================================================================

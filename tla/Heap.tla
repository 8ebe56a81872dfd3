--------------------------------- MODULE Heap ---------------------------------
(***************************************************************************)
(* malloc() and free() of user/umalloc.c over sbrk().                       *)
(*                                                                          *)
(* An address counts Header units.  Unit 0 is the static header "base"; the *)
(* heap begins at unit 2, so that no block touches base.  Other code of the *)
(* program may move the break between two calls of morecore().  A header    *)
(* that no list and no caller holds is 0: it is written before it is read.  *)
(***************************************************************************)
EXTENDS Integers, FiniteSets

CONSTANTS
  Wanted,    \* numbers of units asked for, header included
  MINUNITS,  \* what morecore() asks of sbrk() at least
  HEAPMAX    \* sbrk() fails above this unit

ASSUME HeapAssumption ==
  /\ Wanted \subseteq Nat \ {0, 1}
  /\ MINUNITS \in Nat \ {0} /\ HEAPMAX \in Nat \ {0, 1}

VARIABLES
  list,   \* s.ptr and s.size of the headers by address, and freep
  brk,    \* the program break
  core,   \* history: units that morecore() got
  given   \* history: blocks malloc() returned and free() has not got back

heap == <<list, brk, core, given>>

base == 0
Nil  == -1     \* freep before the first malloc()
Addr == 0 .. HEAPMAX

-------------------------------------------------------------------------------
(* Mutations.                                                               *)

\* free() does not look whether the block below ends at bp.
NeverJoins(h, p, bp) == FALSE

\* malloc() cuts a block at its front.
SplitFront(h, p, units) == p

-------------------------------------------------------------------------------
(* free().  h is a value of list.                                           *)

\* bp lies between p and its successor, or p is the highest block and bp lies
\* above it or below the lowest.
Stops(h, bp, p) == (bp > p /\ bp < h.ptr[p]) \/ (p >= h.ptr[p] /\ (bp > p \/ bp < h.ptr[p]))

RECURSIVE Place(_, _, _)
Place(h, bp, p) == IF Stops(h, bp, p) THEN p ELSE Place(h, bp, h.ptr[p])

EndsAt(h, p, bp) == p + h.size[p] = bp

\* Put block b into p's place: p takes over its units, or links to it.
Absorb(h, p, b) == [h EXCEPT !.size = [@ EXCEPT ![p] = @ + h.size[b], ![b] = 0],
                             !.ptr = [@ EXCEPT ![p] = h.ptr[b], ![b] = base]]

\* free() of the block at bp: join it with the block above, then with the one
\* below.
free(h, bp) ==
  LET p == Place(h, bp, h.freep)
      q == h.ptr[p]
      u == IF EndsAt(h, bp, q) THEN Absorb(h, bp, q) ELSE [h EXCEPT !.ptr[bp] = q]
  IN  [IF EndsAt(u, p, bp) THEN Absorb(u, p, bp) ELSE [u EXCEPT !.ptr[p] = bp] EXCEPT !.freep = p]

heap_free(bp) ==
  /\ bp \in given
  /\ list' = free(list, bp)
  /\ given' = given \ {bp}
  /\ UNCHANGED <<brk, core>>

-------------------------------------------------------------------------------
(* malloc().                                                                *)

\* The first malloc() makes a list of base alone.
Ready == IF list.freep = Nil THEN [list EXCEPT !.freep = base] ELSE list

\* prevp of the first block with enough units after prev, or Nil.
RECURSIVE Search(_, _, _)
Search(h, prev, units) ==
  LET p == h.ptr[prev] IN
  IF h.size[p] >= units THEN prev
  ELSE IF p = h.freep THEN Nil
  ELSE Search(h, p, units)

Found(h, units) == Search(h, h.freep, units)

\* Where the part of p that malloc() returns begins.
Split(h, p, units) == p + h.size[p] - units

\* Unlink the block after prev, or cut a part off.
Take(h, prev, units) ==
  LET p == h.ptr[prev]
      b == Split(h, p, units)
  IN  IF h.size[p] = units
        THEN /\ list' = [h EXCEPT !.ptr = [@ EXCEPT ![prev] = h.ptr[p], ![p] = base], !.freep = prev]
             /\ given' = given \cup {p}
        ELSE /\ list' = [h EXCEPT !.size = [@ EXCEPT ![p] = @ - units, ![b] = units], !.freep = prev]
             /\ given' = given \cup {b}

malloc(units) ==
  /\ Found(Ready, units) # Nil
  /\ Take(Ready, Found(Ready, units), units)
  /\ UNCHANGED <<brk, core>>

morecore(units) == IF units < MINUNITS THEN MINUNITS ELSE units

\* morecore(): sbrk(), and free() of the new block; the search goes on at freep.
malloc_more(units) ==
  LET nu == morecore(units)
      h  == free([Ready EXCEPT !.size[brk] = nu], brk)
  IN
  /\ Found(Ready, units) = Nil
  /\ brk + nu <= HEAPMAX
  /\ brk' = brk + nu
  /\ core' = core \cup brk .. brk + nu - 1
  /\ Take(h, Found(h, units), units)

\* sbrk() fails, malloc() returns 0.
malloc_fails(units) ==
  /\ Found(Ready, units) = Nil
  /\ brk + morecore(units) > HEAPMAX
  /\ list' = Ready
  /\ UNCHANGED <<brk, core, given>>

\* sbrk() called by the program itself.
sbrk ==
  /\ brk < HEAPMAX
  /\ brk' = brk + 1
  /\ UNCHANGED <<list, core, given>>

HeapInit ==
  /\ list = [ptr |-> [a \in Addr |-> base], size |-> [a \in Addr |-> 0], freep |-> Nil]
  /\ brk = 2
  /\ core = {} /\ given = {}

HeapNext ==
  \/ \E n \in Wanted : malloc(n) \/ malloc_more(n) \/ malloc_fails(n)
  \/ \E b \in given : heap_free(b)
  \/ sbrk

-------------------------------------------------------------------------------
(* Properties.                                                              *)

\* The blocks of the list, followed from base for as long as it may be: a block
\* has two units at least.
Steps == 0 .. HEAPMAX \div 2
Walk[k \in Steps] == IF k = 0 THEN base ELSE list.ptr[Walk[k - 1]]
Listed == {Walk[k] : k \in Steps}

Units(b) == b .. b + list.size[b] - 1

\* Each unit that sbrk() gave to malloc() belongs to exactly one block, on the
\* free list or in the hands of the program: malloc() gives out no memory twice
\* and loses none, however blocks are split and joined.
HeapIsTiled ==
  LET free_blocks == Listed
      blocks      == free_blocks \cup given
  IN
  /\ free_blocks \cap given = {}
  /\ core = UNION {Units(b) : b \in blocks}
  /\ \A a, b \in blocks : a # b => Units(a) \cap Units(b) = {}

\* The free list is one ring in the order of the addresses, freep is on it, and
\* no two blocks of it touch: free() finds the place and the neighbours of every
\* block, wherever the last search left freep.
FreeListJoined ==
  LET blocks == Listed IN
  /\ list.freep # Nil => list.freep \in blocks
  /\ \A b \in blocks :
       /\ list.ptr[b] = base \/ list.ptr[b] > b + list.size[b]
       /\ list.ptr[b] = base => \A a \in blocks : a <= b

\* The heap is divided exactly, and the free list is fit for the next call.
HeapInv == HeapIsTiled /\ FreeListJoined
===============================================================================

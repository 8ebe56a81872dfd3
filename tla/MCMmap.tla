-------------------------------- MODULE MCMmap --------------------------------
(* Memory-mapped files on small instances, for TLC.                         *)
EXTENDS Mmap, TLC

CONSTANTS p1, p2, f1

TwoProcs == {p1, p2}
OneProc  == {p1}
OneFile  == {f1}
Vals     == {0, 1}
Zero     == {0}

Symmetry == Permutations(TwoProcs)
===============================================================================

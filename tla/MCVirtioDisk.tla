----------------------------- MODULE MCVirtioDisk -----------------------------
(* Instances of VirtioDisk, and of the buffer cache above it, for TLC.      *)
EXTENDS VirtioDisk, TLC

Symmetry == Permutations(Proc) \cup Permutations(Block) \cup Permutations(Val)
===============================================================================

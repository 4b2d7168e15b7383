----------------------------- MODULE MCFreeList -----------------------------
(* FreeList with interchangeable processes and blocks. *)
EXTENDS FreeList, TLC

Symmetry == Permutations(Proc) \cup Permutations(Block)
=============================================================================

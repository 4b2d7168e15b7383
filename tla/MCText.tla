------------------------------- MODULE MCText -------------------------------
(* Text with interchangeable processes, segments and programs. *)
EXTENDS Text, TLC

Symmetry == Permutations(Proc) \cup Permutations(Seg) \cup Permutations(Ino \ Sticky)
=============================================================================

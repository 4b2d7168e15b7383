------------------------------- MODULE MCProc -------------------------------
(* Proc with slots that are interchangeable, but for that of process 1. *)
EXTENDS Proc, TLC

Symmetry == Permutations(Slot \ {Initproc})
=============================================================================

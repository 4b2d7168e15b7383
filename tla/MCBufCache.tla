----------------------------- MODULE MCBufCache -----------------------------
(* Small instances of BufCache for TLC. *)
EXTENDS BufCache, TLC

CONSTANTS d1, d2,    \* devices: a disk and a tape
          x1, x2,    \* blocks of the disk
          t1         \* a block of the tape

OneDisk     == [x \in Block |-> d1]
DiskAndTape == [x \in Block |-> IF x = t1 THEN d2 ELSE d1]

(* Init leaves the order of the available list open, and neither Proc, Buf *)
(* nor Val has a distinguished element.                                    *)
Symmetry == Permutations(Proc) \cup Permutations(Buf) \cup Permutations(Val)
SymmetryBlock == Symmetry \cup Permutations(Block)
=============================================================================

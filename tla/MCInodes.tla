------------------------------ MODULE MCInodes ------------------------------
(* Small instances of Inodes for TLC. *)
EXTENDS Inodes, TLC

Symmetry == Permutations(Proc)

(* Bounds: the cache of free numbers does not overflow (the run of Bounded *)
(* shows that it may), and after a fault at most two processes are busy.   *)
Small == /\ Bounded
         /\ faults > 0 => Cardinality({p \in Proc : pc[p] # "user"}) <= 2
=============================================================================

------------------------------ MODULE BlockPool ------------------------------
(***************************************************************************)
(* What alloc() and free() of sys/sys/alloc.c promise: a pool of free      *)
(* blocks.  A block that is asked for leaves the pool, and "no space" is   *)
(* said only of an empty pool; a block that is given back enters it, if it *)
(* is a block of the device at all.  A read error may lose the pool.       *)
(***************************************************************************)
CONSTANTS
    Proc,           \* processes
    Block           \* the blocks between the i-list and the end of the device

VARIABLES
    pool,           \* the free blocks
    used,           \* the block numbers that files hold
    does,           \* "idle", "ask", "hold" or "give"
    blk             \* the block a process holds or gives, 0 if none

vars == <<pool, used, does, blk>>

Init ==
    /\ pool = {} /\ Block \subseteq used
    /\ does = [p \in Proc |-> "idle"] /\ blk = [p \in Proc |-> 0]

Becomes(p, d, b) == does' = [does EXCEPT ![p] = d] /\ blk' = [blk EXCEPT ![p] = b]

Ask(p) == does[p] = "idle" /\ Becomes(p, "ask", 0) /\ UNCHANGED <<pool, used>>

Take(p) == /\ does[p] = "ask"
           /\ \E b \in pool : Becomes(p, "hold", b) /\ pool' = pool \ {b}
           /\ UNCHANGED used

Deliver(p) == /\ does[p] = "hold"
              /\ Becomes(p, "idle", 0)
              /\ used' = used \cup {blk[p]}
              /\ UNCHANGED pool

NoSpace(p) == /\ does[p] = "ask" /\ pool = {}
              /\ Becomes(p, "idle", 0)
              /\ UNCHANGED <<pool, used>>

Lose(p) == /\ does[p] = "hold"
           /\ Becomes(p, "idle", 0)
           /\ pool' = {}
           /\ UNCHANGED used

Release(p) == /\ does[p] = "idle"
              /\ \E b \in used : Becomes(p, "give", b) /\ used' = used \ {b}
              /\ UNCHANGED pool

Put(p) == /\ does[p] = "give"
          /\ Becomes(p, "idle", 0)
          /\ pool' = pool \cup ({blk[p]} \cap Block)
          /\ UNCHANGED used

Next == \E p \in Proc : \/ Ask(p) \/ Take(p) \/ Deliver(p) \/ NoSpace(p)
                        \/ Lose(p) \/ Release(p) \/ Put(p)

Spec == Init /\ [][Next]_vars
=============================================================================

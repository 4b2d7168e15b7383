----------------------------- MODULE BlockStore -----------------------------
(***************************************************************************)
(* What the buffer cache promises its clients: the blocks of the devices   *)
(* form one memory.  A process asks for a block, and its request ends with *)
(* at most one effect: a read that returns the contents of the block, or a *)
(* write that replaces them.  Nothing else (no reassignment of a buffer,   *)
(* no read-ahead, no delayed write, no flush) changes what anyone reads.   *)
(* It abstracts the interface of sys/sys/bio.c: bread/breada + brelse is a *)
(* Read, and bread/getblk + bwrite, bdwrite or bawrite is a Write.         *)
(***************************************************************************)
CONSTANTS Proc, Block, Val, Nil

VARIABLES content,   \* what a client may see in each block
          asks,      \* the block each process has asked for, or Nil
          reply      \* what each process's last request read, or Nil

vars == <<content, asks, reply>>

Init == /\ content \in [Block -> Val]
        /\ asks = [p \in Proc |-> Nil]
        /\ reply = [p \in Proc |-> Nil]

(* p begins a request for block x, or for no block at all. *)
Ask(p, x) == /\ asks[p] = Nil
             /\ asks' = [asks EXCEPT ![p] = x]
             /\ reply' = [reply EXCEPT ![p] = Nil]
             /\ UNCHANGED content

Read(p) == /\ asks[p] # Nil
           /\ reply' = [reply EXCEPT ![p] = content[asks[p]]]
           /\ asks' = [asks EXCEPT ![p] = Nil]
           /\ UNCHANGED content

Write(p, v) == /\ asks[p] # Nil
               /\ content' = [content EXCEPT ![asks[p]] = v]
               /\ asks' = [asks EXCEPT ![p] = Nil]
               /\ UNCHANGED reply

(* p gives the block back untouched. *)
Drop(p) == /\ asks' = [asks EXCEPT ![p] = Nil]
           /\ UNCHANGED <<content, reply>>

Next == \E p \in Proc : \/ \E x \in Block \cup {Nil} : Ask(p, x)
                        \/ Read(p) \/ Drop(p)
                        \/ \E v \in Val : Write(p, v)

Spec == Init /\ [][Next]_vars
=============================================================================

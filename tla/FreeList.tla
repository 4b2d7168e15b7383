------------------------------ MODULE FreeList ------------------------------
(***************************************************************************)
(* The free blocks of one file system: alloc(), free() and badblock() of   *)
(* sys/sys/alloc.c, and what update() does with the super block.           *)
(*                                                                         *)
(* The super block in core has up to NICFREE numbers of free blocks.  The  *)
(* first of them is that of a block that holds more numbers, and so on; 0  *)
(* ends the list.  A step of a process reaches from one sleep() to the     *)
(* next: alloc() and free() sleep for s_flock, and in bread(), getblk()    *)
(* and bwrite() of the buffer cache, of which they need what BlockStore    *)
(* says.  getfs() is left out: its test of the counts is part of TypeOK.   *)
(***************************************************************************)
EXTENDS Integers, Sequences, FiniteSets

CONSTANTS
    Proc,           \* processes
    NICFREE,        \* size of s_free
    Block,          \* the numbers that badblock() lets pass
    Garbage         \* numbers out of range

ASSUME FreeListAssumption ==
    /\ NICFREE \in Nat \ {0}
    /\ 0 \notin Block \cup Garbage /\ Block \cap Garbage = {}
    /\ IsFiniteSet(Block)

VARIABLES
    sfree,          \* s_free[0 .. s_nfree-1]
    flock, fmod,    \* s_flock and s_fmod
    updlock,        \* update() is under way
    fblk,           \* struct fblk of a block: df_free[0 .. df_nfree-1]
    sdisk,          \* s_free in the super block on the disk
    used,           \* the block numbers that files hold
    pc,             \* where a process is
    op, bno,        \* the call it is in and the block it is about
    lost            \* blocks lost to read errors (history)

super == <<sfree, flock, fmod>>
vars == <<super, updlock, fblk, sdisk, used, pc, op, bno, lost>>

Number == Block \cup Garbage
PC == {"user", "test", "flockwait", "bread", "getblk", "putblk", "bwrite", "sbget", "sbwrite"}

(* A full file system, maybe with numbers out of range in files and list.  *)
Init ==
    /\ sfree \in {<<0>>} \cup {<<0, g>> : g \in Garbage} /\ Len(sfree) <= NICFREE
    /\ flock = 0 /\ fmod = FALSE /\ updlock = FALSE
    /\ fblk = [b \in Block |-> <<>>] /\ sdisk = sfree
    /\ used = Number
    /\ pc = [p \in Proc |-> "user"] /\ op = [p \in Proc |-> "none"] /\ bno = [p \in Proc |-> 0]
    /\ lost = {}

-----------------------------------------------------------------------------
(* p goes on at a place; with wake, wakeup() of s_flock sends all sleepers *)
(* back to their test.                                                     *)
Goto(p, place, wake) ==
    pc' = [q \in Proc |-> IF q = p THEN place
                          ELSE IF wake /\ pc[q] = "flockwait" THEN "test" ELSE pc[q]]

Return(p, wake) ==
    /\ Goto(p, "user", wake)
    /\ op' = [op EXCEPT ![p] = "none"] /\ bno' = [bno EXCEPT ![p] = 0]

(* Mutant of Modified: only the first s_fmod = 1 of free() is left. *)
Bug_ModifiedNot == UNCHANGED fmod

(* The change is over, and update() is to write the super block. *)
Modified == fmod' = TRUE

(* bmap() calls alloc(); itrunc() calls free() for a block of a file.      *)
CallAlloc(p) ==
    /\ pc[p] = "user"
    /\ Goto(p, "test", FALSE) /\ op' = [op EXCEPT ![p] = "alloc"]
    /\ UNCHANGED <<super, updlock, fblk, sdisk, used, bno, lost>>

CallFree(p, b) ==
    /\ pc[p] = "user" /\ b \in used
    /\ used' = used \ {b} /\ bno' = [bno EXCEPT ![p] = b]
    /\ fmod' = TRUE
    /\ Goto(p, "test", FALSE) /\ op' = [op EXCEPT ![p] = "free"]
    /\ UNCHANGED <<sfree, flock, updlock, fblk, sdisk, lost>>

(* Mutant of Flocked: the lock is not tested. *)
Bug_FlockedNever == FALSE

Flocked == flock > 0

FlockSleep(p) ==
    /\ pc[p] = "test" /\ Flocked
    /\ Goto(p, "flockwait", FALSE)
    /\ UNCHANGED <<super, updlock, fblk, sdisk, used, op, bno, lost>>

-----------------------------------------------------------------------------
(* Mutant of Place: the last number of s_free is not used. *)
Bug_PlaceLast(i) == i = Len(sfree) /\ i > 1

(* The loop of alloc() takes numbers from the end and stops at place i of  *)
(* s_free, the first with the number of a block or the end of the list.    *)
Place(i) == /\ sfree[i] \notin Garbage
            /\ \A j \in DOMAIN sfree : j > i => sfree[j] \in Garbage

AllocNoSpace(p) ==
    /\ pc[p] = "test" /\ op[p] = "alloc" /\ ~Flocked
    /\ \A i \in DOMAIN sfree : Place(i) => sfree[i] = 0
    /\ sfree' = <<>>
    /\ Return(p, FALSE)
    /\ UNCHANGED <<flock, fmod, updlock, fblk, sdisk, used, lost>>

(* The number is taken; if it was the first of s_free, the block has the   *)
(* rest of the list, and the super block is locked while it is read.       *)
AllocTake(p) ==
    /\ pc[p] = "test" /\ op[p] = "alloc" /\ ~Flocked
    /\ \E i \in DOMAIN sfree :
         /\ Place(i) /\ sfree[i] # 0
         /\ bno' = [bno EXCEPT ![p] = sfree[i]]
         /\ sfree' = SubSeq(sfree, 1, i - 1)
         /\ IF i = 1 THEN flock' = flock + 1 /\ Goto(p, "bread", FALSE)
                     ELSE Goto(p, "getblk", FALSE) /\ UNCHANGED flock
    /\ UNCHANGED <<fmod, updlock, fblk, sdisk, used, op, lost>>

(* The list that begins with the segment s, when the blocks hold f.  The   *)
(* rest of it is in the least set of blocks that has the one that the      *)
(* first number of s names and, with a block, the one that the first       *)
(* number in it names.                                                     *)
Names(s) == IF s = <<>> THEN {} ELSE {s[1]} \cap Block
Chain(f, s) ==
    LET closed == {H \in SUBSET Block : Names(s) \subseteq H /\ \A h \in H : Names(f[h]) \subseteq H}
    IN  {b \in Block : \A H \in closed : b \in H}

(* The number i in the super block, if h is 0, or in block h of the chain. *)
Segment(f, s, h) == IF h = 0 THEN s ELSE f[h]
At(f, s, h, i, b) == i \in DOMAIN Segment(f, s, h) /\ Segment(f, s, h)[i] = b
Listed(f, s) == {b \in Block : \E h \in {0} \cup Chain(f, s), i \in 1..NICFREE : At(f, s, h, i, b)}

(* bread() of the block with the rest of the list is through, or failed. *)
AllocRead(p) ==
    /\ pc[p] = "bread"
    /\ flock' = 0
    /\ \/ /\ sfree' = fblk[bno[p]]
          /\ IF sfree' = <<>> THEN Return(p, TRUE)
                              ELSE Goto(p, "getblk", TRUE) /\ UNCHANGED <<op, bno>>
          /\ UNCHANGED lost
       \/ /\ lost' = lost \cup {bno[p]} \cup Listed(fblk, fblk[bno[p]])
          /\ Return(p, TRUE)
          /\ UNCHANGED sfree
    /\ UNCHANGED <<fmod, updlock, fblk, sdisk, used>>

(* getblk() is through: the block is cleared and given to the caller.      *)
AllocGot(p) ==
    /\ pc[p] = "getblk"
    /\ fblk' = [fblk EXCEPT ![bno[p]] = <<>>]
    /\ Modified
    /\ used' = used \cup {bno[p]}
    /\ Return(p, FALSE)
    /\ UNCHANGED <<sfree, flock, updlock, sdisk, lost>>

-----------------------------------------------------------------------------
(* free() of a number out of range. *)
FreeBad(p) ==
    /\ pc[p] = "test" /\ op[p] = "free" /\ ~Flocked
    /\ bno[p] \in Garbage
    /\ Return(p, FALSE)
    /\ UNCHANGED <<super, updlock, fblk, sdisk, used, lost>>

(* Mutant of Ended: the end of the list is not marked. *)
Bug_EndedNot == sfree

(* s_free with the mark of the end, and whether it has room. *)
Ended == IF sfree = <<>> THEN <<0>> ELSE sfree
Room == Len(Ended) < NICFREE

(* The number is put at the end of s_free if there is room. *)
FreePut(p) ==
    /\ pc[p] = "test" /\ op[p] = "free" /\ ~Flocked
    /\ bno[p] \in Block
    /\ Room
    /\ sfree' = Append(Ended, bno[p])
    /\ Modified
    /\ Return(p, FALSE)
    /\ UNCHANGED <<flock, updlock, fblk, sdisk, used, lost>>

(* If there is none, the super block is locked while s_free is written to  *)
(* the block that is freed ...                                             *)
FreeFull(p) ==
    /\ pc[p] = "test" /\ op[p] = "free" /\ ~Flocked
    /\ bno[p] \in Block
    /\ ~Room
    /\ sfree' = Ended
    /\ flock' = flock + 1
    /\ Goto(p, "putblk", FALSE)
    /\ UNCHANGED <<fmod, updlock, fblk, sdisk, used, op, bno, lost>>

(* ... after getblk(); nobody sees the block before bwrite() is through.   *)
(* A bwrite() that fails, which free() does not look at, is left out.      *)
FreeGot(p) ==
    /\ pc[p] = "putblk"
    /\ fblk' = [fblk EXCEPT ![bno[p]] = sfree]
    /\ sfree' = <<>>
    /\ Goto(p, "bwrite", FALSE)
    /\ UNCHANGED <<flock, fmod, updlock, sdisk, used, op, bno, lost>>

FreeWritten(p) ==
    /\ pc[p] = "bwrite"
    /\ flock' = 0
    /\ sfree' = Append(sfree, bno[p])
    /\ Modified
    /\ Return(p, TRUE)
    /\ UNCHANGED <<updlock, fblk, sdisk, used, lost>>

-----------------------------------------------------------------------------
(* update() tests the super block, and copies it when getblk() has found a *)
(* buffer for it.                                                          *)
Update(p) ==
    /\ pc[p] = "user" /\ ~updlock
    /\ fmod /\ ~Flocked
    /\ updlock' = TRUE
    /\ Goto(p, "sbget", FALSE)
    /\ UNCHANGED <<super, fblk, sdisk, used, op, bno, lost>>

UpdateGot(p) ==
    /\ pc[p] = "sbget"
    /\ fmod' = FALSE
    /\ sdisk' = sfree
    /\ Goto(p, "sbwrite", FALSE)
    /\ UNCHANGED <<sfree, flock, updlock, fblk, used, op, bno, lost>>

UpdateWritten(p) ==
    /\ pc[p] = "sbwrite"
    /\ updlock' = FALSE
    /\ Goto(p, "user", FALSE)
    /\ UNCHANGED <<super, fblk, sdisk, used, op, bno, lost>>

Kernel(p) ==
    \/ FlockSleep(p)
    \/ AllocNoSpace(p) \/ AllocTake(p) \/ AllocRead(p) \/ AllocGot(p)
    \/ FreeBad(p) \/ FreePut(p) \/ FreeFull(p) \/ FreeGot(p) \/ FreeWritten(p)
    \/ UpdateGot(p) \/ UpdateWritten(p)

Next == \E p \in Proc :
          \/ CallAlloc(p) \/ Update(p) \/ \E b \in Number : CallFree(p, b)
          \/ Kernel(p)

Spec == Init /\ [][Next]_vars

-----------------------------------------------------------------------------
(* Counts and numbers stay in range; s_free is never longer than NICFREE.  *)
TypeOK ==
    /\ sfree \in Seq(Number \cup {0}) /\ Len(sfree) <= NICFREE
    /\ fblk \in [Block -> Seq(Number \cup {0})] /\ sdisk \in Seq(Number \cup {0})
    /\ flock \in Nat /\ fmod \in BOOLEAN /\ updlock \in BOOLEAN
    /\ used \subseteq Number /\ lost \subseteq Block
    /\ pc \in [Proc -> PC] /\ op \in [Proc -> {"none", "alloc", "free"}]
    /\ bno \in [Proc -> Number \cup {0}]

(* The list as it is for whoever holds s_flock: while the first segment is *)
(* between the super block and a block, it is in the block.                *)
InBlock == {p \in Proc : pc[p] \in {"bread", "bwrite"}}
Top == IF InBlock = {} THEN sfree ELSE fblk[bno[CHOOSE p \in InBlock : TRUE]]

(* Every block is at exactly one place: once in the free list, in one      *)
(* file, with one process that allocates or frees it, or lost by an error. *)
OnePlace ==
    LET list == Listed(fblk, Top)
    IN  /\ \A b \in list, h, k \in {0} \cup Chain(fblk, Top), i, j \in 1..NICFREE :
             At(fblk, Top, h, i, b) /\ At(fblk, Top, k, j, b) => h = k /\ i = j
        /\ \A b \in Block : Cardinality({p \in Proc : bno[p] = b}) + Cardinality({b} \cap list)
                            + Cardinality({b} \cap used) + Cardinality({b} \cap lost) = 1

(* At rest, a super block that s_fmod does not call modified has, on the   *)
(* disk, the free blocks it has in core, even if update() copied it in the *)
(* middle of a change.                                                     *)
FmodTells ==
    ~fmod /\ lost = {} /\ (\A p \in Proc : pc[p] \in {"user", "sbget", "sbwrite"})
      => Listed(fblk, sdisk) = Listed(fblk, sfree)

(* alloc() and free() keep a pool of blocks, and "no space" is right.      *)
Does(p) == CASE pc[p] \in {"user", "sbget", "sbwrite"} -> "idle"
             [] op[p] = "free" /\ pc[p] \notin {"user", "sbget", "sbwrite"} -> "give"
             [] op[p] = "alloc" /\ pc[p] \in {"test", "flockwait"} -> "ask"
             [] op[p] = "alloc" /\ pc[p] \in {"bread", "getblk"} -> "hold"
Pool == INSTANCE BlockPool WITH pool <- Listed(fblk, Top), does <- [p \in Proc |-> Does(p)], blk <- bno
IsBlockPool == Pool!Spec

(* s_flock is held by exactly one process, at a place where it waits for   *)
(* the disk and not for the lock, and only while it is held does anybody   *)
(* sleep for it.                                                           *)
LockHeld ==
    /\ flock = Cardinality({p \in Proc : pc[p] \in {"bread", "putblk", "bwrite"}})
    /\ \A p \in Proc : pc[p] = "flockwait" => flock = 1
=============================================================================

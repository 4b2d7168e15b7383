-------------------------- MODULE FreeList_proofs --------------------------
(***************************************************************************)
(* Proofs about the free list for every number of processes and blocks and *)
(* every size of s_free: whoever holds s_flock holds it alone, a block is  *)
(* never at two places and never nowhere, s_fmod tells when the super      *)
(* block on the disk is old, and alloc() and free() are a pool of blocks.  *)
(*                                                                         *)
(* The list goes through the blocks themselves, so an invariant of one     *)
(* block does not do.  That no number comes twice in the chain (NoTwice)   *)
(* makes the chain a path: a block taken from it, or put in front of it,   *)
(* is not named by the rest, so that changing what it holds leaves the     *)
(* rest of the list alone.                                                 *)
(***************************************************************************)
EXTENDS FreeList, FiniteSetTheorems, TLAPS

-----------------------------------------------------------------------------
(* The inductive invariant. *)

Segs == Seq(Number \cup {0})

(* A segment: 0, the end of the list, comes first or not at all. *)
Formed(s) == Len(s) <= NICFREE /\ \A i \in DOMAIN s : s[i] = 0 => i = 1

Types ==
    /\ sfree \in Segs /\ Formed(sfree)
    /\ fblk \in [Block -> Segs] /\ \A b \in Block : Formed(fblk[b])
    /\ sdisk \in Segs
    /\ flock \in {0, 1} /\ fmod \in BOOLEAN /\ updlock \in BOOLEAN
    /\ used \subseteq Number /\ lost \subseteq Block
    /\ pc \in [Proc -> PC] /\ op \in [Proc -> {"none", "alloc", "free"}]
    /\ bno \in [Proc -> Number \cup {0}]

(* What a process is about at each place. *)
Outside == {"user", "sbget", "sbwrite"}
Busy(p) ==
    /\ pc[p] \in Outside => op[p] = "none" /\ bno[p] = 0
    /\ pc[p] \in {"test", "flockwait"} =>
         \/ op[p] = "alloc" /\ bno[p] = 0
         \/ op[p] = "free" /\ bno[p] \in Number
    /\ pc[p] \in {"bread", "getblk"} => op[p] = "alloc" /\ bno[p] \in Block
    /\ pc[p] \in {"putblk", "bwrite"} => op[p] = "free" /\ bno[p] \in Block

(* s_flock, who has it, and where the list is meanwhile. *)
Holding == {"bread", "putblk", "bwrite"}
Lock ==
    /\ \A p, q \in Proc : pc[p] \in Holding /\ pc[q] \in Holding => p = q
    /\ \A p \in Proc : pc[p] \in Holding => flock = 1
    /\ flock = 1 => \E p \in Proc : pc[p] \in Holding
    /\ \A p \in Proc : pc[p] = "flockwait" => flock = 1
    /\ \A p \in InBlock : sfree = <<>> /\ fblk[bno[p]] # <<>>
    /\ \A p \in Proc : pc[p] = "putblk" => sfree # <<>>

(* No number comes twice in the list that begins with s, and no block of   *)
(* the chain is empty.                                                     *)
NoTwice(f, s) ==
    /\ \A b \in Block, h, k \in {0} \cup Chain(f, s), i, j \in 1..NICFREE :
         At(f, s, h, i, b) /\ At(f, s, k, j, b) => h = k /\ i = j
    /\ \A h \in Chain(f, s) : f[h] # <<>>

(* A block is in the list, in a file, lost or with one process: at one of  *)
(* them, and at no other.                                                  *)
Parted(list) ==
    /\ \A p \in Proc : bno[p] \notin list \cup used \cup lost
    /\ \A p, q \in Proc : bno[p] \in Block /\ bno[p] = bno[q] => p = q
    /\ list \cap used = {} /\ list \cap lost = {} /\ used \cap lost = {}
    /\ \A b \in Block : b \in list \cup used \cup lost \/ \E p \in Proc : bno[p] = b

(* s_fmod, between the calls that take or give a block. *)
Changing(p) == pc[p] \in {"bread", "getblk"} \/ (op[p] = "free" /\ bno[p] \in Block)
Told ==
    ~fmod /\ lost = {} /\ (\A p \in Proc : ~Changing(p))
      => Listed(fblk, sdisk) = Listed(fblk, sfree)

IInv == /\ Types /\ (\A p \in Proc : Busy(p)) /\ Lock
        /\ NoTwice(fblk, Top) /\ Parted(Listed(fblk, Top)) /\ Told

-----------------------------------------------------------------------------
(* The chain. *)

(* The chain is a set of blocks that is closed under "names". *)
LEMMA ChainClosed ==
    ASSUME NEW f, NEW s
    PROVE  /\ Chain(f, s) \subseteq Block /\ Names(s) \subseteq Chain(f, s)
           /\ \A h \in Chain(f, s) : Names(f[h]) \subseteq Chain(f, s)
BY DEF Chain, Names

(* It is the least such set. *)
LEMMA ChainLeast ==
    ASSUME NEW f, NEW s, NEW H \in SUBSET Block,
           Names(s) \subseteq H, \A h \in H : Names(f[h]) \subseteq H
    PROVE  Chain(f, s) \subseteq H
BY DEF Chain

(* So each block in it is named by s or by another one. *)
LEMMA ChainNamed ==
    ASSUME NEW f, NEW s, NEW b \in Chain(f, s)
    PROVE  b \in Names(s) \/ \E h \in Chain(f, s) : b \in Names(f[h])
<1>1. SUFFICES ASSUME b \notin Names(s), \A h \in Chain(f, s) : b \notin Names(f[h])
               PROVE  FALSE
  OBVIOUS
<1> DEFINE H == Chain(f, s) \ {b}
<1>2. H \in SUBSET Block /\ Names(s) \subseteq H /\ \A h \in H : Names(f[h]) \subseteq H
  BY <1>1, ChainClosed
<1> HIDE DEF H
<1>3. Chain(f, s) \subseteq H
  BY <1>2, ChainLeast
<1> QED
  BY <1>3 DEF H

(* What blocks that are not in it hold does not matter. *)
LEMMA ChainAgree ==
    ASSUME NEW f, NEW g, NEW s, \A h \in Chain(f, s) : g[h] = f[h]
    PROVE  Chain(g, s) = Chain(f, s)
<1>1. Chain(g, s) \subseteq Chain(f, s)
  <2> DEFINE H == Chain(f, s)
  <2>1. H \in SUBSET Block /\ Names(s) \subseteq H /\ \A h \in H : Names(g[h]) \subseteq H
    BY ChainClosed
  <2> HIDE DEF H
  <2>2. Chain(g, s) \subseteq H
    BY <2>1, ChainLeast
  <2> QED
    BY <2>2 DEF H
<1>2. Chain(f, s) \subseteq Chain(g, s)
  <2> DEFINE H == Chain(g, s)
  <2>1. H \in SUBSET Block /\ Names(s) \subseteq H /\ \A h \in H : Names(f[h]) \subseteq H
    BY <1>1, ChainClosed
  <2> HIDE DEF H
  <2>2. Chain(f, s) \subseteq H
    BY <2>1, ChainLeast
  <2> QED
    BY <2>2 DEF H
<1> QED
  BY <1>1, <1>2

(* The first number decides. *)
LEMMA ChainFirst ==
    ASSUME NEW f, NEW s, NEW t, Names(s) = Names(t)
    PROVE  Chain(f, s) = Chain(f, t)
BY DEF Chain

(* A block in front of a list. *)
LEMMA ChainCons ==
    ASSUME NEW f, NEW s, NEW b \in Block, Names(s) = {b}
    PROVE  Chain(f, s) = {b} \cup Chain(f, f[b])
<1>1. Chain(f, s) \subseteq {b} \cup Chain(f, f[b])
  <2> DEFINE H == {b} \cup Chain(f, f[b])
  <2>1. H \in SUBSET Block /\ Names(s) \subseteq H /\ \A h \in H : Names(f[h]) \subseteq H
    BY ChainClosed
  <2> HIDE DEF H
  <2>2. Chain(f, s) \subseteq H
    BY <2>1, ChainLeast
  <2> QED
    BY <2>2 DEF H
<1>2. b \in Chain(f, s)
  BY ChainClosed
<1>3. Chain(f, f[b]) \subseteq Chain(f, s)
  <2> DEFINE H == Chain(f, s)
  <2>1. H \in SUBSET Block /\ Names(f[b]) \subseteq H /\ \A h \in H : Names(f[h]) \subseteq H
    BY <1>2, ChainClosed
  <2> HIDE DEF H
  <2>2. Chain(f, f[b]) \subseteq H
    BY <2>1, ChainLeast
  <2> QED
    BY <2>2 DEF H
<1> QED
  BY <1>1, <1>2, <1>3

(* A list that does not begin with a block has no more to it. *)
LEMMA ChainEnd ==
    ASSUME NEW f, NEW s, Names(s) = {}
    PROVE  Chain(f, s) = {}
<1> DEFINE H == {}
<1>1. H \in SUBSET Block /\ Names(s) \subseteq H /\ \A h \in H : Names(f[h]) \subseteq H
  OBVIOUS
<1> HIDE DEF H
<1>2. Chain(f, s) \subseteq H
  BY <1>1, ChainLeast
<1> QED
  BY <1>2 DEF H


-----------------------------------------------------------------------------
(* What the steps of alloc() and free() do to the list. *)

Blocks(f) == f \in [Block -> Segs] /\ \A b \in Block : Formed(f[b])

(* The place of a number in the super block and in a block. *)
LEMMA AtPlace ==
    ASSUME NEW f, NEW s, NEW b
    PROVE  /\ \A i : At(f, s, 0, i, b) <=> i \in DOMAIN s /\ s[i] = b
           /\ \A h \in Block : \A i : At(f, s, h, i, b) <=> i \in DOMAIN f[h] /\ f[h][i] = b
BY FreeListAssumption DEF At, Segment

(* A block of the chain is itself in the list. *)
LEMMA ChainListed ==
    ASSUME NEW f, Blocks(f), NEW s \in Segs, NEW b \in Chain(f, s)
    PROVE  /\ b \in Listed(f, s)
           /\ \E h \in {0} \cup Chain(f, s) : At(f, s, h, 1, b)
<1>1. b \in Block /\ Chain(f, s) \subseteq Block
  BY ChainClosed
<1>2. 1 \in 1..NICFREE
  BY FreeListAssumption
<1>3. \A t \in Segs : b \in Names(t) => 1 \in DOMAIN t /\ t[1] = b
  BY DEF Names, Segs
<1>4. \E h \in {0} \cup Chain(f, s) : At(f, s, h, 1, b)
  <2>1. CASE b \in Names(s)
    BY <2>1, <1>3, AtPlace
  <2>2. CASE b \notin Names(s)
    <3>1. PICK h \in Chain(f, s) : b \in Names(f[h])
      BY <2>2, ChainNamed
    <3>2. h \in Block /\ f[h] \in Segs
      BY <1>1 DEF Blocks
    <3> QED
      BY <3>1, <3>2, <1>3, AtPlace
  <2> QED
    BY <2>1, <2>2
<1> QED
  BY <1>1, <1>2, <1>4 DEF Listed

(* A change of a block that is not in the chain. *)
LEMMA ListAgree ==
    ASSUME NEW f, NEW g, NEW s, \A h \in Chain(f, s) : g[h] = f[h]
    PROVE  /\ Listed(g, s) = Listed(f, s)
           /\ NoTwice(f, s) => NoTwice(g, s)
<1>1. Chain(g, s) = Chain(f, s) /\ Chain(f, s) \subseteq Block
  BY ChainAgree, ChainClosed
<1>2. \A h \in {0} \cup Chain(f, s) : \A i, b : At(g, s, h, i, b) <=> At(f, s, h, i, b)
  <2>1. SUFFICES ASSUME NEW h \in {0} \cup Chain(f, s) PROVE Segment(g, s, h) = Segment(f, s, h)
    BY DEF At
  <2> QED
    BY DEF Segment
<1>3. Listed(g, s) = Listed(f, s)
  BY <1>1, <1>2 DEF Listed
<1>4. NoTwice(f, s) => NoTwice(g, s)
  BY <1>1, <1>2 DEF NoTwice
<1> QED
  BY <1>3, <1>4

(* The empty list. *)
LEMMA ListEmpty ==
    ASSUME NEW f, NEW s, \A i \in DOMAIN s : s[i] \notin Block, Names(s) = {}
    PROVE  Listed(f, s) = {} /\ NoTwice(f, s)
<1>1. Chain(f, s) = {}
  BY ChainEnd
<1>2. \A b \in Block : \A i : ~At(f, s, 0, i, b)
  BY AtPlace
<1> QED
  BY <1>1, <1>2 DEF Listed, NoTwice

(* alloc() takes a number that is not the first: all behind it are out of  *)
(* range and are dropped.                                                  *)
LEMMA ListShorter ==
    ASSUME NEW f, Blocks(f), NEW s \in Segs, Formed(s), NoTwice(f, s),
           NEW n \in DOMAIN s, n > 1, s[n] \in Block,
           \A j \in DOMAIN s : j > n => s[j] \in Garbage
    PROVE  /\ s[n] \in Listed(f, s)
           /\ Listed(f, SubSeq(s, 1, n - 1)) = Listed(f, s) \ {s[n]}
           /\ NoTwice(f, SubSeq(s, 1, n - 1))
           /\ SubSeq(s, 1, n - 1) \in Segs /\ Formed(SubSeq(s, 1, n - 1))
<1> DEFINE t == SubSeq(s, 1, n - 1)
<1>0. n \in 1..NICFREE /\ NICFREE \in Nat /\ DOMAIN s = 1..Len(s) /\ Len(s) \in Nat
  BY FreeListAssumption DEF Formed, Segs
<1>1. /\ t \in Segs /\ Len(t) = n - 1 /\ DOMAIN t = 1..(n - 1)
      /\ \A i \in 1..(n - 1) : t[i] = s[i]
  BY <1>0 DEF Segs
<1> HIDE DEF t
<1>2. Formed(t)
  BY <1>0, <1>1 DEF Formed
<1>3. Names(t) = Names(s)
  <2>1. t # <<>> /\ s # <<>> /\ t[1] = s[1]
    BY <1>0, <1>1
  <2> QED
    BY <2>1 DEF Names
<1>4. Chain(f, t) = Chain(f, s) /\ Chain(f, s) \subseteq Block
  BY <1>3, ChainFirst, ChainClosed
<1>5. At(f, s, 0, n, s[n]) /\ s[n] \in Listed(f, s)
  BY <1>0, AtPlace DEF Listed
<1>6. \A h \in Block : \A i, b : At(f, t, h, i, b) <=> At(f, s, h, i, b)
  BY AtPlace
<1>7. \A i \in Int, b \in Block : At(f, t, 0, i, b) <=> At(f, s, 0, i, b) /\ i # n
  <2>1. SUFFICES ASSUME NEW i \in Int, NEW b \in Block
                 PROVE  i \in DOMAIN t /\ t[i] = b <=> i \in DOMAIN s /\ s[i] = b /\ i # n
    BY AtPlace
  <2>2. b \notin Garbage
    BY FreeListAssumption
  <2> QED
    BY <2>2, <1>0, <1>1
<1>8. NoTwice(f, t)
  <2>1. \A b \in Block, h \in {0} \cup Chain(f, s), i \in 1..NICFREE : At(f, t, h, i, b) => At(f, s, h, i, b)
    BY <1>4, <1>6, <1>7
  <2> QED
    BY <2>1, <1>4 DEF NoTwice
<1>9. Listed(f, t) = Listed(f, s) \ {s[n]}
  <2>1. ASSUME NEW b \in Listed(f, t)
        PROVE  b \in Listed(f, s) \ {s[n]}
    <3>1. b \in Block
      BY <2>1 DEF Listed
    <3>2. PICK h \in {0} \cup Chain(f, s), i \in 1..NICFREE : At(f, t, h, i, b)
      BY <2>1, <1>4 DEF Listed
    <3>3. At(f, s, h, i, b) /\ ~(h = 0 /\ i = n)
      BY <3>1, <3>2, <1>4, <1>6, <1>7
    <3>4. b # s[n]
      BY <3>1, <3>3, <1>0, <1>5 DEF NoTwice
    <3> QED
      BY <3>1, <3>3, <3>4 DEF Listed
  <2>2. ASSUME NEW b \in Listed(f, s), b # s[n]
        PROVE  b \in Listed(f, t)
    <3>1. b \in Block
      BY <2>2 DEF Listed
    <3>2. PICK h \in {0} \cup Chain(f, s), i \in 1..NICFREE : At(f, s, h, i, b)
      BY <2>2 DEF Listed
    <3>3. ~(h = 0 /\ i = n)
      BY <3>2, <2>2, AtPlace
    <3>4. At(f, t, h, i, b)
      BY <3>1, <3>2, <3>3, <1>4, <1>6, <1>7
    <3> QED
      BY <3>1, <3>4, <1>4 DEF Listed
  <2> QED
    BY <2>1, <2>2
<1> QED
  BY <1>1, <1>2, <1>5, <1>8, <1>9 DEF t


(* alloc() takes the first number: the list goes on in that block, and no  *)
(* block of the rest names it.                                             *)
LEMMA ListHead ==
    ASSUME NEW f, Blocks(f), NEW s \in Segs, NoTwice(f, s),
           1 \in DOMAIN s, s[1] \in Block, \A j \in DOMAIN s : j > 1 => s[j] \in Garbage
    PROVE  /\ s[1] \in Listed(f, s)
           /\ Listed(f, f[s[1]]) = Listed(f, s) \ {s[1]}
           /\ NoTwice(f, f[s[1]])
           /\ f[s[1]] # <<>>
<1> DEFINE b == s[1]
           t == f[b]
<1>0. 1 \in 1..NICFREE /\ NICFREE \in Nat /\ DOMAIN s = 1..Len(s) /\ Len(s) \in Nat
  BY FreeListAssumption DEF Segs
<1>1. Names(s) = {b} /\ t \in Segs
  BY <1>0 DEF Names, Blocks
<1>2. /\ Chain(f, s) = {b} \cup Chain(f, t)
      /\ Chain(f, s) \subseteq Block /\ Chain(f, t) \subseteq Block
  BY <1>1, ChainCons, ChainClosed
<1>3. At(f, s, 0, 1, b) /\ b \in Listed(f, s)
  BY <1>0, AtPlace DEF Listed
<1>4. b \in Block /\ b # 0 /\ 0 \notin Block /\ b \notin Garbage
  BY FreeListAssumption
<1> HIDE DEF b, t
<1>5. \A h \in Block : \A i, x : At(f, t, h, i, x) <=> At(f, s, h, i, x)
  BY FreeListAssumption DEF At, Segment
<1>6. \A i, x : At(f, t, 0, i, x) <=> At(f, s, b, i, x)
  BY <1>4, AtPlace DEF t
<1>7. \A i, x : x \in Block /\ At(f, s, 0, i, x) => i = 1 /\ x = b
  <2>1. \A i \in DOMAIN s : s[i] \in Block => i = 1
    BY <1>0, FreeListAssumption
  <2> QED
    BY <2>1, AtPlace DEF b
<1>8. b \notin Chain(f, t)
  <2>1. SUFFICES ASSUME b \in Chain(f, t) PROVE FALSE
    OBVIOUS
  <2>2. PICK h \in {0} \cup Chain(f, t) : At(f, t, h, 1, b)
    BY <1>1, <2>1, ChainListed
  <2>3. PICK k \in Chain(f, s) : At(f, s, k, 1, b)
    BY <2>2, <1>2, <1>5, <1>6
  <2>4. 0 = k
    BY <2>3, <1>0, <1>3, <1>4 DEF NoTwice
  <2> QED
    BY <2>3, <2>4, <1>2, <1>4
<1>9. NoTwice(f, t)
  <2>1. ASSUME NEW x \in Block, NEW h \in {0} \cup Chain(f, t), NEW k \in {0} \cup Chain(f, t),
               NEW i \in 1..NICFREE, NEW j \in 1..NICFREE, At(f, t, h, i, x), At(f, t, k, j, x)
        PROVE  h = k /\ i = j
    <3> DEFINE H == IF h = 0 THEN b ELSE h
               K == IF k = 0 THEN b ELSE k
    <3>1. At(f, s, H, i, x) /\ At(f, s, K, j, x)
      BY <2>1, <1>2, <1>5, <1>6
    <3>2. H \in Chain(f, s) /\ K \in Chain(f, s)
      BY <1>2
    <3>3. H = K /\ i = j
      <4> HIDE DEF H, K
      <4> QED
        BY <3>1, <3>2 DEF NoTwice
    <3> QED
      BY <3>3, <1>2, <1>8
  <2> QED
    BY <2>1, <1>2 DEF NoTwice
<1>10. Listed(f, t) = Listed(f, s) \ {b}
  <2>1. ASSUME NEW x \in Listed(f, t)
        PROVE  x \in Listed(f, s) \ {b}
    <3>1. x \in Block
      BY <2>1 DEF Listed
    <3>2. PICK h \in {0} \cup Chain(f, t), i \in 1..NICFREE : At(f, t, h, i, x)
      BY <2>1 DEF Listed
    <3>3. PICK k \in Chain(f, s) : At(f, s, k, i, x)
      BY <3>2, <1>2, <1>5, <1>6
    <3>4. x # b
      <4>1. SUFFICES ASSUME x = b PROVE FALSE
        OBVIOUS
      <4>2. 0 = k
        BY <4>1, <3>3, <1>0, <1>3, <1>4 DEF NoTwice
      <4> QED
        BY <4>2, <1>2, <1>4
    <3> QED
      BY <3>1, <3>3, <3>4 DEF Listed
  <2>2. ASSUME NEW x \in Listed(f, s), x # b
        PROVE  x \in Listed(f, t)
    <3>1. x \in Block
      BY <2>2 DEF Listed
    <3>2. PICK h \in {0} \cup Chain(f, s), i \in 1..NICFREE : At(f, s, h, i, x)
      BY <2>2 DEF Listed
    <3>3. h # 0
      BY <3>1, <3>2, <2>2, <1>7
    <3>4. \E k \in {0} \cup Chain(f, t) : At(f, t, k, i, x)
      BY <3>2, <3>3, <1>2, <1>5, <1>6
    <3> QED
      BY <3>1, <3>4 DEF Listed
  <2> QED
    BY <2>1, <2>2
<1>11. t # <<>>
  BY <1>2 DEF NoTwice, t
<1> QED
  BY <1>3, <1>9, <1>10, <1>11 DEF b, t

(* free() puts a block at the end of a list that has room. *)
LEMMA ListAppend ==
    ASSUME NEW f, Blocks(f), NEW s \in Segs, Formed(s), NoTwice(f, s),
           s # <<>>, Len(s) < NICFREE, NEW b \in Block \ Listed(f, s)
    PROVE  /\ Listed(f, Append(s, b)) = Listed(f, s) \cup {b}
           /\ NoTwice(f, Append(s, b))
           /\ Append(s, b) \in Segs /\ Formed(Append(s, b))
<1> DEFINE t == Append(s, b)
           n == Len(s) + 1
<1>0. n \in 1..NICFREE /\ NICFREE \in Nat /\ DOMAIN s = 1..Len(s) /\ Len(s) \in Nat \ {0} /\ b # 0
  BY FreeListAssumption DEF Segs
<1>1. /\ t \in Segs /\ Len(t) = n /\ DOMAIN t = 1..n /\ t[n] = b
      /\ \A i \in 1..Len(s) : t[i] = s[i]
  BY <1>0 DEF Segs, Number
<1> HIDE DEF t
<1>2. Formed(t)
  BY <1>0, <1>1 DEF Formed
<1>3. Names(t) = Names(s)
  <2>1. t # <<>> /\ t[1] = s[1]
    BY <1>0, <1>1
  <2> QED
    BY <2>1 DEF Names
<1>4. Chain(f, t) = Chain(f, s) /\ Chain(f, s) \subseteq Block
  BY <1>3, ChainFirst, ChainClosed
<1>5. At(f, t, 0, n, b)
  BY <1>0, <1>1, AtPlace
<1>6. \A h \in Block : \A i, x : At(f, t, h, i, x) <=> At(f, s, h, i, x)
  BY FreeListAssumption DEF At, Segment
<1>7. \A i \in Int : \A x : At(f, t, 0, i, x) <=> At(f, s, 0, i, x) \/ (i = n /\ x = b)
  <2>1. SUFFICES ASSUME NEW i \in Int, NEW x
                 PROVE  i \in DOMAIN t /\ t[i] = x <=> (i \in DOMAIN s /\ s[i] = x) \/ (i = n /\ x = b)
    BY AtPlace
  <2> QED
    BY <1>0, <1>1
<1>8. \A h \in {0} \cup Chain(f, s), i \in 1..NICFREE : ~At(f, s, h, i, b)
  BY DEF Listed
<1>9. \A h \in {0} \cup Chain(f, s), i \in 1..NICFREE : \A x :
        At(f, t, h, i, x) <=> At(f, s, h, i, x) \/ (h = 0 /\ i = n /\ x = b)
  BY <1>4, <1>6, <1>7, FreeListAssumption
<1> HIDE DEF n
<1>10. NoTwice(f, t)
  BY <1>4, <1>8, <1>9 DEF NoTwice
<1>11. Listed(f, t) = Listed(f, s) \cup {b}
  BY <1>0, <1>4, <1>9 DEF Listed
<1> QED
  BY <1>1, <1>2, <1>10, <1>11 DEF t

(* free() puts a block with the rest of the list in front. *)
LEMMA ListCons ==
    ASSUME NEW f, Blocks(f), NEW b \in Block, NoTwice(f, f[b]),
           b \notin Listed(f, f[b]), f[b] # <<>>
    PROVE  /\ Listed(f, <<b>>) = Listed(f, f[b]) \cup {b}
           /\ NoTwice(f, <<b>>)
<1> DEFINE s == <<b>>
           t == f[b]
<1>0. 1 \in 1..NICFREE /\ NICFREE \in Nat /\ DOMAIN s = {1} /\ s[1] = b /\ s # <<>> /\ b # 0 /\ 0 \notin Block
  BY FreeListAssumption
<1>1. Names(s) = {b} /\ t \in Segs
  BY <1>0 DEF Names, Blocks
<1> HIDE DEF s
<1>2. /\ Chain(f, s) = {b} \cup Chain(f, t)
      /\ Chain(f, s) \subseteq Block /\ Chain(f, t) \subseteq Block
  BY <1>1, ChainCons, ChainClosed
<1>3. b \notin Chain(f, t)
  BY <1>1, ChainListed
<1>4. \A h \in Block : \A i, x : At(f, t, h, i, x) <=> At(f, s, h, i, x)
  BY FreeListAssumption DEF At, Segment
<1>5. \A i, x : At(f, t, 0, i, x) <=> At(f, s, b, i, x)
  BY <1>0 DEF At, Segment
<1>6. \A i, x : At(f, s, 0, i, x) <=> i = 1 /\ x = b
  BY <1>0, AtPlace
<1>7. \A h \in {0} \cup Chain(f, t), i \in 1..NICFREE : ~At(f, t, h, i, b)
  BY DEF Listed
<1>8. f[b] # <<>> /\ \A h \in Chain(f, t) : f[h] # <<>>
  BY DEF NoTwice
<1> HIDE DEF t
<1>9. NoTwice(f, s)
  <2>1. ASSUME NEW x \in Block, NEW h \in {0} \cup Chain(f, s), NEW k \in {0} \cup Chain(f, s),
               NEW i \in 1..NICFREE, NEW j \in 1..NICFREE, At(f, s, h, i, x), At(f, s, k, j, x)
        PROVE  h = k /\ i = j
    <3>1. CASE h = 0 \/ k = 0
      <4>1. x = b
        BY <2>1, <3>1, <1>6
      <4>2. \A l \in Chain(f, s), m \in 1..NICFREE : ~At(f, s, l, m, b)
        BY <1>2, <1>4, <1>5, <1>7
      <4>3. h = 0 /\ k = 0
        BY <2>1, <4>1, <4>2
      <4> QED
        BY <2>1, <4>3, <1>6
    <3>2. CASE h # 0 /\ k # 0
      <4> DEFINE H == IF h = b THEN 0 ELSE h
                 K == IF k = b THEN 0 ELSE k
      <4>1. At(f, t, H, i, x) /\ At(f, t, K, j, x)
        BY <2>1, <3>2, <1>2, <1>4, <1>5
      <4>2. H \in {0} \cup Chain(f, t) /\ K \in {0} \cup Chain(f, t)
        BY <1>2, <3>2
      <4>3. H = K /\ i = j
        <5> HIDE DEF H, K
        <5> QED
          BY <4>1, <4>2 DEF NoTwice, t
      <4> QED
        BY <4>3, <3>2
    <3> QED
      BY <3>1, <3>2
  <2> QED
    BY <2>1, <1>2, <1>8 DEF NoTwice
<1>10. Listed(f, s) = Listed(f, t) \cup {b}
  <2>1. ASSUME NEW x \in Listed(f, s)
        PROVE  x \in Listed(f, t) \cup {b}
    <3>1. x \in Block
      BY <2>1 DEF Listed
    <3>2. PICK h \in {0} \cup Chain(f, s), i \in 1..NICFREE : At(f, s, h, i, x)
      BY <2>1 DEF Listed
    <3>3. x = b \/ \E k \in {0} \cup Chain(f, t) : At(f, t, k, i, x)
      BY <3>2, <1>2, <1>4, <1>5, <1>6
    <3> QED
      BY <3>1, <3>3 DEF Listed
  <2>2. ASSUME NEW x \in Listed(f, t)
        PROVE  x \in Listed(f, s)
    <3>1. x \in Block
      BY <2>2 DEF Listed
    <3>2. PICK h \in {0} \cup Chain(f, t), i \in 1..NICFREE : At(f, t, h, i, x)
      BY <2>2 DEF Listed
    <3>3. \E k \in {0} \cup Chain(f, s) : At(f, s, k, i, x)
      BY <3>2, <1>2, <1>4, <1>5
    <3> QED
      BY <3>1, <3>3 DEF Listed
  <2>3. b \in Listed(f, s)
    BY <1>0, <1>6 DEF Listed
  <2> QED
    BY <2>1, <2>2, <2>3
<1> QED
  BY <1>9, <1>10 DEF s, t


-----------------------------------------------------------------------------
(* The list as whoever holds s_flock sees it. *)

TopIs == /\ \A p \in InBlock : Top = fblk[bno[p]]
         /\ InBlock = {} => Top = sfree

LEMMA TopFacts == Lock => TopIs
<1>1. ASSUME Lock, NEW p \in InBlock
      PROVE  Top = fblk[bno[p]]
  <2>1. \A q \in InBlock : q = p
    BY <1>1 DEF Lock, InBlock, Holding
  <2>2. (CHOOSE q \in InBlock : TRUE) = p
    BY <2>1
  <2> QED
    BY <2>2 DEF Top
<1> QED
  BY <1>1 DEF TopIs, Top

LEMMA TopFactsNext == Lock' => TopIs'
BY TopFacts, PTL

(* The list does not change when neither s_free nor the blocks do. *)
LEMMA TopSame ==
    ASSUME Lock, Lock', UNCHANGED <<sfree, fblk>>, InBlock' = InBlock,
           \A p \in InBlock : bno'[p] = bno[p]
    PROVE  Top' = Top
BY TopFacts, TopFactsNext DEF TopIs

LEMMA CallAllocKeeps ==
    ASSUME IInv, NEW p \in Proc, CallAlloc(p)
    PROVE  IInv'
<1> USE DEF IInv
<1>1. Types'
  BY DEF CallAlloc, Goto, Types, PC, super
<1>2. \A q \in Proc : Busy(q)'
  BY DEF CallAlloc, Goto, Types, Busy, Outside
<1>3. Lock' /\ InBlock' = InBlock
  BY DEF CallAlloc, Goto, Types, Lock, Holding, InBlock, super
<1>4. Top' = Top /\ fblk' = fblk
  BY <1>3, TopSame DEF CallAlloc, super
<1>5. NoTwice(fblk, Top)'
  BY <1>4
<1>6. Parted(Listed(fblk, Top))'
  BY <1>4 DEF Parted, CallAlloc
<1>7. Told'
  BY DEF CallAlloc, Goto, Types, Told, Changing, Busy, Outside, super
<1> QED
  BY <1>1, <1>2, <1>3, <1>5, <1>6, <1>7


LEMMA CallFreeKeeps ==
    ASSUME IInv, NEW p \in Proc, NEW b \in Number, CallFree(p, b)
    PROVE  IInv'
<1> USE DEF IInv
<1>1. Types'
  BY DEF CallFree, Goto, Types, PC, Number
<1>2. \A q \in Proc : Busy(q)'
  BY DEF CallFree, Goto, Types, Busy, Outside
<1>3. Lock' /\ InBlock' = InBlock
  BY DEF CallFree, Goto, Types, Lock, Holding, InBlock
<1>4. Top' = Top /\ fblk' = fblk
  BY <1>3, TopSame DEF CallFree, InBlock, Types
<1>5. NoTwice(fblk, Top)'
  BY <1>4
<1>6. Parted(Listed(fblk, Top))'
  <2>1. /\ \A q \in Proc : bno'[q] = IF q = p THEN b ELSE bno[q]
        /\ used' = used \ {b} /\ lost' = lost /\ b \in used /\ bno[p] \notin Block
    BY FreeListAssumption DEF CallFree, Types, Busy, Outside
  <2> DEFINE L == Listed(fblk, Top)
  <2>2. L = Listed(fblk, Top)' /\ b \notin L \cup lost
    BY <1>4, <2>1 DEF Parted
  <2>3. \A q \in Proc : bno[q] # b /\ bno[q] \notin L \cup used \cup lost
    BY <2>1 DEF Parted
  <2> HIDE DEF L
  <2>4. Parted(L)
    BY DEF L
  <2>5. /\ \A q \in Proc : bno'[q] \notin L \cup used' \cup lost'
        /\ \A q, r \in Proc : bno'[q] \in Block /\ bno'[q] = bno'[r] => q = r
    BY <2>1, <2>2, <2>3, <2>4 DEF Parted
  <2>6. L \cap used' = {} /\ L \cap lost' = {} /\ used' \cap lost' = {}
    BY <2>1, <2>4 DEF Parted
  <2>7. \A x \in Block : x \in L \cup used' \cup lost' \/ \E q \in Proc : bno'[q] = x
    BY <2>1, <2>3, <2>4 DEF Parted
  <2> QED
    BY <2>2, <2>5, <2>6, <2>7 DEF Parted
<1>7. Told'
  BY DEF CallFree, Told
<1> QED
  BY <1>1, <1>2, <1>3, <1>5, <1>6, <1>7

LEMMA FlockSleepKeeps ==
    ASSUME IInv, NEW p \in Proc, FlockSleep(p)
    PROVE  IInv'
<1> USE DEF IInv
<1>1. Types'
  BY DEF FlockSleep, Goto, Types, PC, super
<1>2. \A q \in Proc : Busy(q)'
  BY DEF FlockSleep, Goto, Types, Busy, Outside
<1>3. Lock' /\ InBlock' = InBlock
  BY DEF FlockSleep, Flocked, Goto, Types, Lock, Holding, InBlock, super
<1>4. Top' = Top /\ fblk' = fblk
  BY <1>3, TopSame DEF FlockSleep, super
<1>5. NoTwice(fblk, Top)'
  BY <1>4
<1>6. Parted(Listed(fblk, Top))'
  BY <1>4 DEF Parted, FlockSleep
<1>7. Told'
  BY DEF FlockSleep, Goto, Types, Told, Changing, super
<1> QED
  BY <1>1, <1>2, <1>3, <1>5, <1>6, <1>7

(* While nobody holds s_flock, the list begins in the super block. *)
LEMMA TopFree ==
    ASSUME IInv, ~Flocked
    PROVE  /\ Top = sfree /\ flock = 0
           /\ \A q \in Proc : pc[q] \notin Holding \cup {"flockwait"}
<1>1. flock = 0
  BY DEF IInv, Types, Flocked
<1>2. \A q \in Proc : pc[q] \notin Holding \cup {"flockwait"}
  BY <1>1 DEF IInv, Lock
<1>3. InBlock = {}
  BY <1>2 DEF InBlock, Holding
<1> QED
  BY <1>1, <1>2, <1>3, TopFacts DEF TopIs, IInv

(* A bounded set of numbers has a largest one. *)
LEMMA LargestExists ==
    ASSUME NEW n \in Nat, NEW S \in SUBSET (1..n), S # {}
    PROVE  \E m \in S : \A k \in S : k <= m
<1> DEFINE R == {ss \in Nat \X Nat : ss[1] < ss[2]}
           T == {i \in 0..n : n - i \in S}
<1>1. IsWellFoundedOn(R, Nat)
  BY NatLessThanWellFounded, Zenon DEF OpToRel
<1>2. T \subseteq Nat /\ T # {}
  <2>1. PICK k \in S : TRUE
    OBVIOUS
  <2>2. n - k \in 0..n /\ n - (n - k) = k
    OBVIOUS
  <2>3. n - k \in T
    BY <2>2
  <2>4. T \subseteq Nat
    OBVIOUS
  <2> HIDE DEF T
  <2> QED
    BY <2>3, <2>4
<1> HIDE DEF T, R
<1>3. PICK x \in T : \A y \in T : ~(<<y, x>> \in R)
  BY <1>1, <1>2, WFMin
<1>4. x \in 0..n /\ n - x \in S
  BY DEF T
<1>5. ASSUME NEW k \in S
      PROVE  k <= n - x
  <2>1. n - k \in 0..n /\ n - (n - k) = k
    OBVIOUS
  <2>2. n - k \in T
    BY <2>1 DEF T
  <2>3. ~(n - k < x)
    <3>1. <<n - k, x>> \notin R /\ <<n - k, x>> \in Nat \X Nat
      BY <2>1, <2>2, <1>3, <1>4
    <3> QED
      BY <3>1 DEF R
  <2> QED
    BY <2>1, <2>3, <1>4
<1> QED
  BY <1>4, <1>5

(* "No space" is said of an empty list: 0 can only be the first number. *)
LEMMA NoSpaceMeansEmpty ==
    ASSUME NEW f, NEW s \in Segs, Formed(s),
           \A i \in DOMAIN s : /\ s[i] \notin Garbage
                               /\ \A j \in DOMAIN s : j > i => s[j] \in Garbage
                               => s[i] = 0
    PROVE  Listed(f, s) = {} /\ NoTwice(f, s)
<1>1. DOMAIN s = 1..Len(s) /\ Len(s) \in Nat
  BY DEF Segs
<1>2. \A i \in DOMAIN s : s[i] \in Block => FALSE
  <2>1. SUFFICES ASSUME NEW i \in DOMAIN s, s[i] \in Block PROVE FALSE
    OBVIOUS
  <2> DEFINE Good == {n \in DOMAIN s : s[n] \notin Garbage}
  <2>2. i \in Good /\ Good \subseteq 1..Len(s)
    BY <2>1, <1>1, FreeListAssumption
  <2> HIDE DEF Good
  <2>3. PICK m \in Good : \A n \in Good : n <= m
    BY <2>2, <1>1, LargestExists
  <2>4. s[m] = 0 /\ m \in DOMAIN s
    BY <2>3, <1>1 DEF Good
  <2>5. m = 1 /\ i <= m
    BY <2>2, <2>3, <2>4 DEF Formed
  <2>6. i = 1
    BY <2>5, <2>1, <1>1
  <2> QED
    BY <2>1, <2>4, <2>5, <2>6, FreeListAssumption
<1>3. Names(s) = {}
  <2>1. s # <<>> => 1 \in DOMAIN s
    BY <1>1 DEF Segs
  <2> QED
    BY <1>2, <2>1 DEF Names
<1> QED
  BY <1>2, <1>3, ListEmpty


(* The empty s_free. *)
LEMMA EmptyFormed == <<>> \in Segs /\ Formed(<<>>)
BY FreeListAssumption DEF Segs, Formed

LEMMA AllocNoSpaceKeeps ==
    ASSUME IInv, NEW p \in Proc, AllocNoSpace(p)
    PROVE  IInv' /\ Listed(fblk, Top) = {} /\ Listed(fblk, Top)' = {}
<1> USE DEF IInv
<1>0. /\ Top = sfree /\ flock = 0
      /\ \A q \in Proc : pc[q] \notin Holding \cup {"flockwait"}
      /\ bno[p] = 0
  <2>1. bno[p] = 0
    BY DEF AllocNoSpace, Busy
  <2> QED
    BY <2>1, TopFree DEF AllocNoSpace
<1>1. Types'
  BY EmptyFormed DEF AllocNoSpace, Return, Goto, Types, PC
<1>2. \A q \in Proc : Busy(q)'
  BY DEF AllocNoSpace, Return, Goto, Types, Busy, Outside
<1>3. \A q \in Proc : pc'[q] \notin Holding \cup {"flockwait"}
  BY <1>0 DEF AllocNoSpace, Return, Goto, Types, Holding
<1>4. Lock' /\ InBlock' = {}
  <2>1. flock' = 0
    BY <1>0 DEF AllocNoSpace
  <2> QED
    BY <1>3, <2>1 DEF Lock, Holding, InBlock
<1>5. Top' = <<>>
  BY <1>4, TopFactsNext DEF TopIs, AllocNoSpace
<1>6. Listed(fblk, Top) = {}
  BY <1>0, NoSpaceMeansEmpty DEF AllocNoSpace, Place, Types
<1>7. Listed(fblk', Top') = {} /\ NoTwice(fblk', Top') /\ Listed(fblk', <<>>) = {}
  BY <1>5, ListEmpty DEF Names
<1>8. Parted(Listed(fblk, Top))'
  <2>1. /\ bno' = bno /\ used' = used /\ lost' = lost
    BY <1>0 DEF AllocNoSpace, Return, Types
  <2> QED
    BY <1>6, <1>7, <2>1 DEF Parted
<1>9. Told'
  <2>1. \A q \in Proc : Changing(q)' <=> Changing(q)
    BY <1>0 DEF AllocNoSpace, Return, Goto, Types, Changing
  <2>2. sfree' = <<>> /\ fblk' = fblk
    BY DEF AllocNoSpace
  <2> QED
    BY <1>0, <1>6, <1>7, <2>1, <2>2 DEF AllocNoSpace, Told
<1> QED
  BY <1>1, <1>2, <1>4, <1>6, <1>7, <1>8, <1>9

(* Moving a block between the list, a process, the files and the lost.     *)
LEMMA PartedTake ==
    ASSUME NEW L, NEW p \in Proc, Parted(L), bno \in [Proc -> Number \cup {0}], NEW b \in L,
           bno[p] = 0, bno' = [bno EXCEPT ![p] = b], used' = used, lost' = lost
    PROVE  Parted(L \ {b})'
<1> DEFINE M == L \ {b}
<1>1. \A q \in Proc : bno'[q] = IF q = p THEN b ELSE bno[q]
  OBVIOUS
<1>2. 0 \notin Block /\ b \notin used \cup lost
  BY FreeListAssumption DEF Parted
<1>3. b \notin M /\ M \subseteq L /\ \A x \in L : x = b \/ x \in M
  OBVIOUS
<1> HIDE DEF M
<1>4. \A q \in Proc : bno'[q] \notin M \cup used' \cup lost'
  BY <1>1, <1>2, <1>3 DEF Parted
<1>5. \A q, r \in Proc : bno'[q] \in Block /\ bno'[q] = bno'[r] => q = r
  BY <1>1, <1>2 DEF Parted
<1>6. M \cap used' = {} /\ M \cap lost' = {} /\ used' \cap lost' = {}
  BY <1>3 DEF Parted
<1>7. \A x \in Block : x \in M \cup used' \cup lost' \/ \E q \in Proc : bno'[q] = x
  <2>1. SUFFICES ASSUME NEW x \in Block, x \notin M \cup used \cup lost, x # b
                 PROVE  \E q \in Proc : bno'[q] = x
    BY <1>1
  <2>2. PICK q \in Proc : bno[q] = x
    BY <2>1, <1>3 DEF Parted
  <2>3. q # p
    BY <2>2, <1>2
  <2> QED
    BY <2>2, <2>3, <1>1
<1> QED
  BY <1>4, <1>5, <1>6, <1>7 DEF Parted, M

LEMMA AllocTakeKeeps ==
    ASSUME IInv, NEW p \in Proc, AllocTake(p)
    PROVE  /\ IInv'
           /\ bno'[p] \in Listed(fblk, Top)
           /\ Listed(fblk, Top)' = Listed(fblk, Top) \ {bno'[p]}
<1> USE DEF IInv
<1>0. /\ Top = sfree /\ flock = 0
      /\ \A q \in Proc : pc[q] \notin Holding \cup {"flockwait"}
      /\ bno[p] = 0 /\ pc[p] = "test" /\ op[p] = "alloc"
  <2>1. bno[p] = 0
    BY DEF AllocTake, Busy
  <2> QED
    BY <2>1, TopFree DEF AllocTake
<1>1. PICK i \in DOMAIN sfree :
         /\ Place(i) /\ sfree[i] # 0
         /\ bno' = [bno EXCEPT ![p] = sfree[i]]
         /\ sfree' = SubSeq(sfree, 1, i - 1)
         /\ IF i = 1 THEN flock' = flock + 1 /\ Goto(p, "bread", FALSE)
                     ELSE Goto(p, "getblk", FALSE) /\ UNCHANGED flock
  BY DEF AllocTake
<1>2. UNCHANGED <<fmod, updlock, fblk, sdisk, used, op, lost>>
  BY DEF AllocTake
<1>b. PICK b : b = sfree[i]
  OBVIOUS
<1>3. /\ b \in Block /\ \A j \in DOMAIN sfree : j > i => sfree[j] \in Garbage
      /\ i \in Nat \ {0} /\ bno'[p] = b
  <2>1. b \in Number \cup {0} /\ i \in Nat \ {0} /\ bno'[p] = b
    BY <1>1, <1>b DEF Types, Segs
  <2> QED
    BY <1>1, <1>b, <2>1 DEF Place, Number
<1>4. Blocks(fblk) /\ sfree \in Segs /\ Formed(sfree) /\ NoTwice(fblk, sfree)
  BY <1>0 DEF Types, Blocks
<1>5. CASE i = 1
  <2>1. /\ b \in Listed(fblk, sfree) /\ Listed(fblk, fblk[b]) = Listed(fblk, sfree) \ {b}
        /\ NoTwice(fblk, fblk[b]) /\ fblk[b] # <<>>
    BY <1>3, <1>4, <1>5, <1>b, ListHead
  <2>2. /\ \A q \in Proc : pc'[q] = IF q = p THEN "bread" ELSE pc[q]
        /\ pc' \in [Proc -> PC] /\ flock' = 1
    BY <1>0, <1>1, <1>5 DEF Goto, Types, PC
  <2>3. sfree' = <<>>
    BY <1>1, <1>4, <1>5 DEF Segs
  <2>4. Types'
    BY <2>2, <2>3, <1>1, <1>2, <1>3, EmptyFormed DEF Types, Number
  <2>5. \A q \in Proc : Busy(q)'
    BY <2>2, <1>0, <1>1, <1>2, <1>3 DEF Types, Busy, Outside
  <2>6. InBlock' = {p}
    BY <2>2, <1>0 DEF InBlock, Holding
  <2>7. Lock'
    <3>1. \A q \in Proc : pc'[q] \in Holding => q = p
      BY <2>2, <1>0 DEF Holding
    <3>2. pc'[p] \in Holding /\ \A q \in Proc : pc'[q] # "putblk"
      BY <2>2, <1>0 DEF Holding
    <3> QED
      BY <2>1, <2>2, <2>3, <2>6, <3>1, <3>2, <1>2, <1>3 DEF Lock
  <2>8. Top' = fblk[b]
    BY <2>6, <2>7, <1>2, <1>3, TopFactsNext DEF TopIs
  <2>9. Parted(Listed(fblk, Top))'
    <3>1. PICK L : L = Listed(fblk, sfree)
      OBVIOUS
    <3>2. Parted(L) /\ b \in L
      BY <3>1, <2>1, <1>0
    <3>3. Parted(L \ {b})'
      BY <3>2, <1>0, <1>1, <1>2, <1>b, PartedTake DEF Types
    <3>4. Listed(fblk, Top)' = L \ {b}
      BY <3>1, <2>1, <2>8, <1>2
    <3> QED
      BY <3>3, <3>4 DEF Parted
  <2>10. Told'
    BY <2>2 DEF Told, Changing
  <2> QED
    BY <2>1, <2>4, <2>5, <2>7, <2>8, <2>9, <2>10, <1>0, <1>2, <1>3
<1>6. CASE i # 1
  <2> DEFINE t == SubSeq(sfree, 1, i - 1)
  <2>1. /\ b \in Listed(fblk, sfree) /\ Listed(fblk, t) = Listed(fblk, sfree) \ {b}
        /\ NoTwice(fblk, t) /\ t \in Segs /\ Formed(t)
    BY <1>3, <1>4, <1>6, <1>b, ListShorter
  <2>2. /\ \A q \in Proc : pc'[q] = IF q = p THEN "getblk" ELSE pc[q]
        /\ pc' \in [Proc -> PC] /\ flock' = 0 /\ sfree' = t
    BY <1>0, <1>1, <1>6 DEF Goto, Types, PC
  <2> HIDE DEF t
  <2>4. Types'
    BY <2>1, <2>2, <1>1, <1>2, <1>3 DEF Types, Number
  <2>5. \A q \in Proc : Busy(q)'
    BY <2>2, <1>0, <1>1, <1>2, <1>3 DEF Types, Busy, Outside
  <2>6. InBlock' = {} /\ \A q \in Proc : pc'[q] \notin Holding \cup {"flockwait"}
    BY <2>2, <1>0 DEF InBlock, Holding
  <2>7. Lock'
    BY <2>2, <2>6 DEF Lock, Holding
  <2>8. Top' = t
    BY <2>2, <2>6, <2>7, TopFactsNext DEF TopIs
  <2>9. Parted(Listed(fblk, Top))'
    <3>1. PICK L : L = Listed(fblk, sfree)
      OBVIOUS
    <3>2. Parted(L) /\ b \in L
      BY <3>1, <2>1, <1>0
    <3>3. Parted(L \ {b})'
      BY <3>2, <1>0, <1>1, <1>2, <1>b, PartedTake DEF Types
    <3>4. Listed(fblk, Top)' = L \ {b}
      BY <3>1, <2>1, <2>8, <1>2
    <3> QED
      BY <3>3, <3>4 DEF Parted
  <2>10. Told'
    BY <2>2 DEF Told, Changing
  <2> QED
    BY <2>1, <2>4, <2>5, <2>7, <2>8, <2>9, <2>10, <1>0, <1>2, <1>3
<1> QED
  BY <1>5, <1>6


(* The process that holds s_flock holds it alone. *)
LEMMA HolderAlone ==
    ASSUME IInv, NEW p \in Proc, pc[p] \in Holding
    PROVE  /\ \A q \in Proc : pc[q] \in Holding => q = p
           /\ pc[p] \in {"bread", "bwrite"} => /\ InBlock = {p} /\ Top = fblk[bno[p]]
                                               /\ sfree = <<>> /\ fblk[bno[p]] # <<>>
           /\ pc[p] = "putblk" => InBlock = {} /\ Top = sfree /\ sfree # <<>>
           /\ bno[p] \in Block
<1>1. \A q \in Proc : pc[q] \in Holding => q = p
  BY DEF IInv, Lock
<1>2. pc[p] \in {"bread", "bwrite"} => InBlock = {p}
  BY <1>1 DEF InBlock, Holding
<1>3. pc[p] = "putblk" => InBlock = {}
  BY <1>1 DEF InBlock, Holding
<1>4. bno[p] \in Block
  BY DEF IInv, Busy, Holding
<1> QED
  BY <1>1, <1>2, <1>3, <1>4, TopFacts DEF TopIs, IInv, Lock

(* s_flock is given up, and all who slept for it are awake. *)
LEMMA Unlocked ==
    ASSUME IInv, NEW p \in Proc, pc[p] \in Holding, NEW place \in PC \ (Holding \cup {"flockwait"}),
           Goto(p, place, TRUE), flock' = 0
    PROVE  /\ Lock' /\ Top' = sfree' /\ pc' \in [Proc -> PC] /\ pc'[p] = place
           /\ \A q \in Proc : q # p => \/ pc'[q] = pc[q] /\ pc[q] # "flockwait"
                                       \/ pc'[q] = "test" /\ pc[q] = "flockwait"
<1>1. pc' \in [Proc -> PC] /\ pc'[p] = place
  BY DEF Goto, IInv, Types, PC
<1>2. \A q \in Proc : q # p => \/ pc'[q] = pc[q] /\ pc[q] # "flockwait"
                               \/ pc'[q] = "test" /\ pc[q] = "flockwait"
  BY DEF Goto
<1>3. \A q \in Proc : pc'[q] \notin Holding \cup {"flockwait"}
  BY <1>1, <1>2, HolderAlone DEF Holding
<1>4. Lock' /\ InBlock' = {}
  BY <1>3 DEF Lock, Holding, InBlock
<1> QED
  BY <1>1, <1>2, <1>4, TopFactsNext DEF TopIs

LEMMA AllocReadKeeps ==
    ASSUME IInv, NEW p \in Proc, AllocRead(p)
    PROVE  /\ IInv'
           /\ \/ pc'[p] = "getblk" /\ op' = op /\ bno' = bno /\ Listed(fblk, Top)' = Listed(fblk, Top)
              \/ pc'[p] = "user" /\ bno' = [bno EXCEPT ![p] = 0] /\ Listed(fblk, Top)' = {}
<1> USE DEF IInv
<1>b. PICK b : b = bno[p]
  OBVIOUS
<1>0. /\ pc[p] = "bread" /\ op[p] = "alloc" /\ b \in Block /\ Top = fblk[b] /\ sfree = <<>> /\ fblk[b] # <<>>
      /\ pc[p] \in Holding
  <2>1. pc[p] = "bread" /\ pc[p] \in Holding
    BY DEF AllocRead, Holding
  <2>2. op[p] = "alloc"
    BY <2>1 DEF Busy
  <2> QED
    BY <2>1, <2>2, <1>b, HolderAlone
<1>1. flock' = 0 /\ UNCHANGED <<fmod, updlock, fblk, sdisk, used>>
  BY DEF AllocRead
<1>2. CASE sfree' = fblk[b] /\ Goto(p, "getblk", TRUE) /\ UNCHANGED <<op, bno, lost>>
  <2>1. /\ Lock' /\ Top' = sfree' /\ pc' \in [Proc -> PC] /\ pc'[p] = "getblk"
        /\ \A q \in Proc : q # p => \/ pc'[q] = pc[q] /\ pc[q] # "flockwait"
                                    \/ pc'[q] = "test" /\ pc[q] = "flockwait"
    <3>1. "getblk" \in PC \ (Holding \cup {"flockwait"})
      BY DEF PC, Holding
    <3> QED
      BY <3>1, <1>0, <1>1, <1>2, Unlocked
  <2>2. Types'
    BY <2>1, <1>0, <1>1, <1>2 DEF Types
  <2>3. \A q \in Proc : Busy(q)'
    BY <2>1, <1>0, <1>1, <1>2, <1>b DEF Types, Busy, Outside
  <2>4. NoTwice(fblk, Top)' /\ Parted(Listed(fblk, Top))' /\ Listed(fblk, Top)' = Listed(fblk, Top)
    <3>1. Top' = Top /\ fblk' = fblk
      BY <2>1, <1>0, <1>1, <1>2
    <3> QED
      BY <3>1, <1>1, <1>2 DEF Parted
  <2>5. Told'
    BY <2>1 DEF Told, Changing
  <2> QED
    BY <2>1, <2>2, <2>3, <2>4, <2>5, <1>2
<1>3. CASE lost' = lost \cup {b} \cup Listed(fblk, fblk[b]) /\ Return(p, TRUE) /\ UNCHANGED sfree
  <2>1. /\ Lock' /\ Top' = sfree' /\ pc' \in [Proc -> PC] /\ pc'[p] = "user"
        /\ \A q \in Proc : q # p => \/ pc'[q] = pc[q] /\ pc[q] # "flockwait"
                                    \/ pc'[q] = "test" /\ pc[q] = "flockwait"
    <3>1. "user" \in PC \ (Holding \cup {"flockwait"})
      BY DEF PC, Holding
    <3> QED
      BY <3>1, <1>0, <1>1, <1>3, Unlocked DEF Return
  <2>2. /\ \A q \in Proc : bno'[q] = IF q = p THEN 0 ELSE bno[q]
        /\ op' = [op EXCEPT ![p] = "none"] /\ bno' = [bno EXCEPT ![p] = 0]
    BY <1>3 DEF Return, Types
  <2>3. PICK L : L = Listed(fblk, fblk[b])
    OBVIOUS
  <2>4. L \subseteq Block
    BY <2>3 DEF Listed
  <2>5. Types'
    BY <2>1, <2>2, <2>3, <2>4, <1>0, <1>1, <1>3 DEF Types
  <2>6. \A q \in Proc : Busy(q)'
    BY <2>1, <2>2, <1>0, <1>1 DEF Types, Busy, Outside
  <2>7. Listed(fblk, Top)' = {} /\ NoTwice(fblk, Top)'
    <3>1. Top' = <<>>
      BY <2>1, <1>0, <1>3
    <3> QED
      BY <3>1, ListEmpty DEF Names
  <2>8. Parted({})'
    <3>1. Parted(L) /\ b \notin L
      BY <2>3, <1>0, <1>b DEF Parted
    <3>2. lost' = lost \cup {b} \cup L /\ used' = used /\ used \subseteq Number
      BY <2>3, <1>1, <1>3 DEF Types
    <3>3. 0 \notin lost' \cup used
      BY <3>2, <2>4, <1>0, FreeListAssumption DEF Number, Types
    <3>4. \A q \in Proc : bno'[q] \notin {} \cup used' \cup lost'
      <4>1. \A q \in Proc : q # p => bno[q] # b
        BY <1>0, <1>b DEF Parted
      <4> QED
        BY <4>1, <3>1, <3>2, <3>3, <2>2 DEF Parted
    <3>5. \A q, r \in Proc : bno'[q] \in Block /\ bno'[q] = bno'[r] => q = r
      BY <2>2, FreeListAssumption DEF Parted
    <3>6. used' \cap lost' = {}
      BY <3>1, <3>2, <1>b DEF Parted
    <3>7. \A x \in Block : x \in {} \cup used' \cup lost' \/ \E q \in Proc : bno'[q] = x
      <4>1. SUFFICES ASSUME NEW x \in Block, x \notin used' \cup lost' PROVE \E q \in Proc : bno'[q] = x
        OBVIOUS
      <4>2. PICK q \in Proc : bno[q] = x
        BY <4>1, <3>1, <3>2 DEF Parted
      <4> QED
        BY <4>1, <4>2, <3>2, <2>2, <1>b
    <3> QED
      BY <3>4, <3>5, <3>6, <3>7 DEF Parted
  <2>9. Told'
    <3>1. lost' # {}
      BY <1>3
    <3> QED
      BY <3>1 DEF Told
  <2>10. Parted(Listed(fblk, Top))'
    BY <2>7, <2>8 DEF Parted
  <2> QED
    BY <2>1, <2>2, <2>5, <2>6, <2>7, <2>9, <2>10
<1> QED
  BY <1>0, <1>1, <1>2, <1>3, <1>b DEF AllocRead

LEMMA AllocGotKeeps ==
    ASSUME IInv, NEW p \in Proc, AllocGot(p)
    PROVE  /\ IInv' /\ Listed(fblk, Top)' = Listed(fblk, Top)
           /\ op[p] = "alloc" /\ bno[p] \in Block \ used
<1> USE DEF IInv
<1>b. PICK b : b = bno[p]
  OBVIOUS
<1>0. /\ pc[p] = "getblk" /\ op[p] = "alloc" /\ b \in Block
      /\ fblk' = [fblk EXCEPT ![b] = <<>>] /\ fmod' = TRUE /\ used' = used \cup {b}
      /\ UNCHANGED <<sfree, flock, updlock, sdisk, lost>>
  BY <1>b DEF AllocGot, Busy, Modified
<1>1. /\ pc' \in [Proc -> PC] /\ \A q \in Proc : pc'[q] = IF q = p THEN "user" ELSE pc[q]
      /\ \A q \in Proc : bno'[q] = IF q = p THEN 0 ELSE bno[q]
      /\ op' = [op EXCEPT ![p] = "none"] /\ bno' = [bno EXCEPT ![p] = 0]
  BY DEF AllocGot, Return, Goto, Types, PC
<1>2. PICK L : L = Listed(fblk, Top)
  OBVIOUS
<1>3. Parted(L) /\ b \notin L \cup used \cup lost /\ L \subseteq Block /\ \A q \in Proc : q # p => bno[q] # b
  BY <1>0, <1>b, <1>2 DEF Parted, Listed
<1>4. /\ fblk' \in [Block -> Segs] /\ fblk'[b] = <<>>
      /\ \A x \in Block : x # b => fblk'[x] = fblk[x]
  BY <1>0, EmptyFormed DEF Types
<1>5. Types'
  <2>1. \A x \in Block : Formed(fblk'[x])
    BY <1>4, EmptyFormed DEF Types
  <2> QED
    BY <2>1, <1>0, <1>1, <1>4 DEF Types, Number
<1>6. \A q \in Proc : Busy(q)'
  BY <1>0, <1>1 DEF Types, Busy, Outside
<1>7. InBlock' = InBlock
  BY <1>0, <1>1 DEF InBlock
<1>8. Lock'
  <2>1. \A q \in InBlock : bno'[q] = bno[q] /\ fblk'[bno'[q]] = fblk[bno[q]] /\ bno[q] \in Block
    BY <1>0, <1>1, <1>3, <1>4 DEF InBlock, Busy
  <2>2. \A q \in Proc : pc'[q] \in Holding \cup {"flockwait"} <=> q # p /\ pc[q] \in Holding \cup {"flockwait"}
    BY <1>0, <1>1 DEF Holding
  <2> QED
    BY <2>1, <2>2, <1>0, <1>1, <1>7 DEF Lock, Holding
<1>9. Top' = Top /\ Top \in Segs
  <2>1. CASE InBlock = {}
    BY <2>1, <1>0, <1>7, <1>8, TopFacts, TopFactsNext DEF TopIs, Types
  <2>2. CASE InBlock # {}
    <3>1. PICK q \in InBlock : TRUE
      BY <2>2
    <3>2. bno'[q] = bno[q] /\ fblk'[bno[q]] = fblk[bno[q]] /\ bno[q] \in Block
      BY <1>0, <1>1, <1>3, <1>4 DEF InBlock, Busy
    <3> QED
      BY <3>1, <3>2, <1>7, <1>8, TopFacts, TopFactsNext DEF TopIs, Types
  <2> QED
    BY <2>1, <2>2
<1>10. Listed(fblk', Top) = L /\ NoTwice(fblk', Top)
  <2>1. Blocks(fblk)
    BY DEF Types, Blocks
  <2>2. b \notin Chain(fblk, Top)
    BY <2>1, <1>2, <1>3, <1>9, ChainListed
  <2>3. \A h \in Chain(fblk, Top) : fblk'[h] = fblk[h]
    BY <2>2, <1>4, ChainClosed
  <2> QED
    BY <2>3, <1>2, ListAgree
<1>11. Parted(L)'
  <2>1. 0 \notin L \cup used' \cup lost
    BY <1>0, <1>3, FreeListAssumption DEF Types, Number
  <2>2. \A q \in Proc : bno'[q] \notin L \cup used' \cup lost'
    BY <2>1, <1>0, <1>1, <1>3 DEF Parted
  <2>3. \A q, r \in Proc : bno'[q] \in Block /\ bno'[q] = bno'[r] => q = r
    BY <1>1, FreeListAssumption DEF Parted
  <2>4. L \cap used' = {} /\ L \cap lost' = {} /\ used' \cap lost' = {}
    BY <1>0, <1>3 DEF Parted
  <2>5. \A x \in Block : x \in L \cup used' \cup lost' \/ \E q \in Proc : bno'[q] = x
    BY <1>0, <1>1, <1>3, <1>b DEF Parted
  <2> QED
    BY <2>2, <2>3, <2>4, <2>5 DEF Parted
<1>12. Told'
  BY <1>0 DEF Told
<1>13. Parted(Listed(fblk, Top))' /\ NoTwice(fblk, Top)' /\ Listed(fblk, Top)' = L
  BY <1>9, <1>10, <1>11 DEF Parted
<1> QED
  BY <1>0, <1>2, <1>3, <1>5, <1>6, <1>8, <1>12, <1>13, <1>b


LEMMA FreeBadKeeps ==
    ASSUME IInv, NEW p \in Proc, FreeBad(p)
    PROVE  IInv' /\ Listed(fblk, Top)' = Listed(fblk, Top)
<1> USE DEF IInv
<1>0. /\ pc[p] = "test" /\ bno[p] \in Garbage /\ bno[p] \notin Block
      /\ UNCHANGED <<sfree, flock, fmod, updlock, fblk, sdisk, used, lost>>
  BY FreeListAssumption DEF FreeBad, super
<1>1. /\ pc' \in [Proc -> PC] /\ \A q \in Proc : pc'[q] = IF q = p THEN "user" ELSE pc[q]
      /\ \A q \in Proc : bno'[q] = IF q = p THEN 0 ELSE bno[q]
      /\ op' = [op EXCEPT ![p] = "none"] /\ bno' = [bno EXCEPT ![p] = 0]
  BY DEF FreeBad, Return, Goto, Types, PC
<1>2. Types'
  BY <1>0, <1>1 DEF Types
<1>3. \A q \in Proc : Busy(q)'
  BY <1>0, <1>1 DEF Types, Busy, Outside
<1>4. Lock' /\ InBlock' = InBlock
  BY <1>0, <1>1 DEF Lock, Holding, InBlock
<1>5. Top' = Top
  BY <1>0, <1>1, <1>4, TopSame DEF InBlock
<1>6. PICK L : L = Listed(fblk, Top)
  OBVIOUS
<1>7. Listed(fblk, Top)' = L /\ NoTwice(fblk, Top)'
  BY <1>0, <1>5, <1>6
<1>8. Parted(L)'
  <2>1. 0 \notin L \cup used \cup lost /\ 0 \notin Block /\ Parted(L)
    BY <1>6, FreeListAssumption DEF Types, Number, Listed
  <2>2. \A q \in Proc : bno'[q] \notin L \cup used' \cup lost'
    BY <2>1, <1>0, <1>1 DEF Parted
  <2>3. \A q, r \in Proc : bno'[q] \in Block /\ bno'[q] = bno'[r] => q = r
    BY <2>1, <1>1 DEF Parted
  <2>4. \A x \in Block : x \in L \cup used' \cup lost' \/ \E q \in Proc : bno'[q] = x
    BY <2>1, <1>0, <1>1 DEF Parted
  <2> QED
    BY <2>1, <2>2, <2>3, <2>4, <1>0 DEF Parted
<1>9. Told'
  <2>1. \A q \in Proc : Changing(q)' <=> Changing(q)
    BY <1>0, <1>1 DEF Changing, Types
  <2> QED
    BY <2>1, <1>0 DEF Told
<1>10. Parted(Listed(fblk, Top))'
  BY <1>7, <1>8 DEF Parted
<1> QED
  BY <1>2, <1>3, <1>4, <1>6, <1>7, <1>9, <1>10

(* The mark of the end adds nothing to the list. *)
LEMMA EndedFacts ==
    ASSUME IInv, ~Flocked
    PROVE  /\ Ended \in Segs /\ Formed(Ended) /\ Ended # <<>>
           /\ Listed(fblk, Ended) = Listed(fblk, Top) /\ NoTwice(fblk, Ended)
<1>0. Top = sfree
  BY TopFree
<1>1. CASE sfree = <<>>
  <2>1. Ended = <<0>>
    BY <1>1 DEF Ended
  <2>2. <<0>> \in Segs /\ Formed(<<0>>) /\ <<0>> # <<>>
    BY FreeListAssumption DEF Segs, Formed
  <2>3. Names(<<0>>) = {} /\ \A i \in DOMAIN <<0>> : <<0>>[i] \notin Block
    BY FreeListAssumption DEF Names
  <2>4. Listed(fblk, <<0>>) = {} /\ NoTwice(fblk, <<0>>)
    BY <2>3, ListEmpty
  <2>5. Listed(fblk, sfree) = {}
    BY <1>1, ListEmpty DEF Names
  <2> QED
    BY <2>1, <2>2, <2>4, <2>5, <1>0
<1>2. CASE sfree # <<>>
  BY <1>0, <1>2 DEF Ended, IInv, Types
<1> QED
  BY <1>1, <1>2

LEMMA PartedPut ==
    ASSUME NEW L, NEW p \in Proc, Parted(L), bno \in [Proc -> Number \cup {0}], L \subseteq Block,
           used \subseteq Number, lost \subseteq Block, NEW b \in Block, bno[p] = b,
           bno' = [bno EXCEPT ![p] = 0], used' = used, lost' = lost
    PROVE  Parted(L \cup {b})'
<1> DEFINE M == L \cup {b}
<1>1. \A q \in Proc : bno'[q] = IF q = p THEN 0 ELSE bno[q]
  OBVIOUS
<1>2. 0 \notin Block /\ b \notin used \cup lost /\ 0 \notin M \cup used \cup lost
  BY FreeListAssumption DEF Parted, Number
<1>3. L \subseteq M /\ b \in M /\ (\A x \in M : x = b \/ x \in L) /\ \A q \in Proc : q # p => bno[q] # b
  BY DEF Parted
<1> HIDE DEF M
<1>4. \A q \in Proc : bno'[q] \notin M \cup used' \cup lost'
  BY <1>1, <1>2, <1>3 DEF Parted
<1>5. \A q, r \in Proc : bno'[q] \in Block /\ bno'[q] = bno'[r] => q = r
  BY <1>1, <1>2 DEF Parted
<1>6. M \cap used' = {} /\ M \cap lost' = {} /\ used' \cap lost' = {}
  BY <1>2, <1>3 DEF Parted
<1>7. \A x \in Block : x \in M \cup used' \cup lost' \/ \E q \in Proc : bno'[q] = x
  BY <1>1, <1>3 DEF Parted
<1> QED
  BY <1>4, <1>5, <1>6, <1>7 DEF Parted, M

LEMMA FreePutKeeps ==
    ASSUME IInv, NEW p \in Proc, FreePut(p)
    PROVE  IInv' /\ Listed(fblk, Top)' = Listed(fblk, Top) \cup {bno[p]}
<1> USE DEF IInv
<1>b. PICK b : b = bno[p]
  OBVIOUS
<1>0. /\ pc[p] = "test" /\ b \in Block /\ ~Flocked /\ Len(Ended) < NICFREE
      /\ sfree' = Append(Ended, b) /\ fmod' = TRUE
      /\ UNCHANGED <<flock, updlock, fblk, sdisk, used, lost>>
  BY <1>b DEF FreePut, Modified, Room
<1>1. /\ pc' \in [Proc -> PC] /\ \A q \in Proc : pc'[q] = IF q = p THEN "user" ELSE pc[q]
      /\ op' = [op EXCEPT ![p] = "none"] /\ bno' = [bno EXCEPT ![p] = 0]
  BY DEF FreePut, Return, Goto, Types, PC
<1>2. PICK L : L = Listed(fblk, Top)
  OBVIOUS
<1>3. Parted(L) /\ b \notin L /\ L \subseteq Block
  BY <1>2, <1>b DEF Parted, Listed
<1>4. /\ Listed(fblk, sfree') = L \cup {b} /\ NoTwice(fblk, sfree')
      /\ sfree' \in Segs /\ Formed(sfree')
  <2>1. Blocks(fblk)
    BY DEF Types, Blocks
  <2>2. PICK s : s = Ended
    OBVIOUS
  <2>3. s \in Segs /\ Formed(s) /\ s # <<>> /\ Listed(fblk, s) = L /\ NoTwice(fblk, s)
    BY <2>2, <1>0, <1>2, EndedFacts
  <2> QED
    BY <2>1, <2>2, <2>3, <1>0, <1>3, ListAppend
<1>5. Types'
  BY <1>0, <1>1, <1>4 DEF Types
<1>6. \A q \in Proc : Busy(q)'
  BY <1>0, <1>1 DEF Types, Busy, Outside
<1>7. Lock' /\ Top' = sfree'
  <2>1. flock' = 0 /\ \A q \in Proc : pc'[q] \notin Holding \cup {"flockwait"}
    BY <1>0, <1>1, TopFree DEF Holding
  <2>2. Lock' /\ InBlock' = {}
    BY <2>1 DEF Lock, InBlock, Holding
  <2> QED
    BY <2>2, TopFactsNext DEF TopIs
<1>8. Parted(L \cup {b})'
  BY <1>0, <1>1, <1>3, <1>b, PartedPut DEF Types
<1>9. Listed(fblk, Top)' = L \cup {b} /\ NoTwice(fblk, Top)'
  BY <1>0, <1>4, <1>7
<1>10. Parted(Listed(fblk, Top))'
  BY <1>8, <1>9 DEF Parted
<1>11. Told'
  BY <1>0 DEF Told
<1> QED
  BY <1>2, <1>5, <1>6, <1>7, <1>9, <1>10, <1>11, <1>b

LEMMA FreeFullKeeps ==
    ASSUME IInv, NEW p \in Proc, FreeFull(p)
    PROVE  IInv' /\ Listed(fblk, Top)' = Listed(fblk, Top)
<1> USE DEF IInv
<1>0. /\ pc[p] = "test" /\ op[p] = "free" /\ bno[p] \in Block /\ ~Flocked
      /\ sfree' = Ended /\ flock' = flock + 1
      /\ UNCHANGED <<fmod, updlock, fblk, sdisk, used, op, bno, lost>>
  BY DEF FreeFull
<1>1. /\ pc' \in [Proc -> PC] /\ \A q \in Proc : pc'[q] = IF q = p THEN "putblk" ELSE pc[q]
  BY DEF FreeFull, Goto, Types, PC
<1>2. /\ sfree' \in Segs /\ Formed(sfree') /\ sfree' # <<>>
      /\ Listed(fblk, sfree') = Listed(fblk, Top) /\ NoTwice(fblk, sfree')
  BY <1>0, EndedFacts
<1>3. flock = 0 /\ flock' = 1 /\ \A q \in Proc : pc[q] \notin Holding \cup {"flockwait"}
  BY <1>0, TopFree
<1>4. Types'
  BY <1>0, <1>1, <1>2, <1>3 DEF Types
<1>5. \A q \in Proc : Busy(q)'
  BY <1>0, <1>1 DEF Types, Busy, Outside
<1>6. Lock' /\ Top' = sfree'
  <2>1. \A q \in Proc : pc'[q] \in Holding <=> q = p
    BY <1>1, <1>3 DEF Holding
  <2>2. InBlock' = {}
    BY <1>1, <1>3 DEF InBlock, Holding
  <2>3. Lock'
    BY <2>1, <2>2, <1>1, <1>2, <1>3 DEF Lock
  <2> QED
    BY <2>2, <2>3, TopFactsNext DEF TopIs
<1>7. Listed(fblk, Top)' = Listed(fblk, Top) /\ NoTwice(fblk, Top)'
  BY <1>0, <1>2, <1>6
<1>8. Parted(Listed(fblk, Top))'
  BY <1>0, <1>7 DEF Parted
<1>9. Told'
  BY <1>0 DEF Told, Changing
<1> QED
  BY <1>4, <1>5, <1>6, <1>7, <1>8, <1>9

LEMMA FreeGotKeeps ==
    ASSUME IInv, NEW p \in Proc, FreeGot(p)
    PROVE  IInv' /\ Listed(fblk, Top)' = Listed(fblk, Top)
<1> USE DEF IInv
<1>b. PICK b : b = bno[p]
  OBVIOUS
<1>0. /\ pc[p] = "putblk" /\ op[p] = "free" /\ b \in Block
      /\ fblk' = [fblk EXCEPT ![b] = sfree] /\ sfree' = <<>>
      /\ UNCHANGED <<flock, fmod, updlock, sdisk, used, op, bno, lost>>
  BY <1>b DEF FreeGot, Busy
<1>1. /\ pc' \in [Proc -> PC] /\ \A q \in Proc : pc'[q] = IF q = p THEN "bwrite" ELSE pc[q]
  BY DEF FreeGot, Goto, Types, PC
<1>2. /\ \A q \in Proc : pc[q] \in Holding => q = p
      /\ Top = sfree /\ sfree # <<>> /\ pc[p] \in Holding
  <2>1. pc[p] \in Holding
    BY <1>0 DEF Holding
  <2> QED
    BY <2>1, <1>0, HolderAlone
<1>3. /\ fblk' \in [Block -> Segs] /\ fblk'[b] = sfree
      /\ \A x \in Block : x # b => fblk'[x] = fblk[x]
  BY <1>0 DEF Types
<1>4. Types'
  <2>1. \A x \in Block : Formed(fblk'[x])
    BY <1>3 DEF Types
  <2> QED
    BY <2>1, <1>0, <1>1, <1>3, EmptyFormed DEF Types
<1>5. \A q \in Proc : Busy(q)'
  BY <1>0, <1>1, <1>b DEF Types, Busy, Outside
<1>6. Lock' /\ Top' = sfree
  <2>1. \A q \in Proc : pc'[q] \in Holding <=> q = p
    BY <1>1, <1>2 DEF Holding
  <2>2. InBlock' = {p} /\ \A q \in Proc : pc'[q] # "putblk"
    BY <1>1, <1>2 DEF InBlock, Holding
  <2>3. fblk'[bno'[p]] = sfree
    BY <1>0, <1>3, <1>b
  <2>4. \A q \in Proc : pc'[q] = "flockwait" => pc[q] = "flockwait"
    BY <1>1
  <2>5. flock' = 1
    BY <1>0, <1>2 DEF Lock
  <2>6. Lock'
    BY <2>1, <2>2, <2>3, <2>4, <2>5, <1>0, <1>2 DEF Lock
  <2> QED
    BY <2>2, <2>3, <2>6, TopFactsNext DEF TopIs
<1>7. Listed(fblk, Top)' = Listed(fblk, Top) /\ NoTwice(fblk, Top)'
  <2>1. Blocks(fblk) /\ sfree \in Segs
    BY DEF Types, Blocks
  <2>2. b \notin Chain(fblk, sfree)
    BY <2>1, <1>2, <1>b, ChainListed DEF Parted
  <2>3. \A h \in Chain(fblk, sfree) : fblk'[h] = fblk[h]
    BY <2>2, <1>3, ChainClosed
  <2>4. Listed(fblk', sfree) = Listed(fblk, sfree) /\ NoTwice(fblk', sfree)
    BY <2>3, <1>2, ListAgree
  <2> QED
    BY <2>4, <1>2, <1>6
<1>8. Parted(Listed(fblk, Top))'
  BY <1>0, <1>7 DEF Parted
<1>9. Told'
  BY <1>0, <1>b DEF Told, Changing
<1> QED
  BY <1>4, <1>5, <1>6, <1>7, <1>8, <1>9

LEMMA FreeWrittenKeeps ==
    ASSUME IInv, NEW p \in Proc, FreeWritten(p)
    PROVE  /\ IInv' /\ Listed(fblk, Top)' = Listed(fblk, Top) \cup {bno[p]}
           /\ bno[p] \in Block /\ op[p] = "free"
<1> USE DEF IInv
<1>b. PICK b : b = bno[p]
  OBVIOUS
<1>0. /\ pc[p] = "bwrite" /\ op[p] = "free" /\ b \in Block
      /\ flock' = 0 /\ sfree' = Append(sfree, b) /\ fmod' = TRUE
      /\ UNCHANGED <<updlock, fblk, sdisk, used, lost>> /\ Return(p, TRUE)
  BY <1>b DEF FreeWritten, Modified, Busy
<1>1. /\ Lock' /\ Top' = sfree' /\ pc' \in [Proc -> PC] /\ pc'[p] = "user"
      /\ \A q \in Proc : q # p => \/ pc'[q] = pc[q] /\ pc[q] # "flockwait"
                                  \/ pc'[q] = "test" /\ pc[q] = "flockwait"
  <2>1. "user" \in PC \ (Holding \cup {"flockwait"}) /\ pc[p] \in Holding
    BY <1>0 DEF PC, Holding
  <2> QED
    BY <2>1, <1>0, Unlocked DEF Return
<1>2. op' = [op EXCEPT ![p] = "none"] /\ bno' = [bno EXCEPT ![p] = 0]
  BY <1>0 DEF Return
<1>3. Top = fblk[b] /\ sfree' = <<b>> /\ fblk[b] # <<>>
  <2>1. pc[p] \in Holding
    BY <1>0 DEF Holding
  <2>2. Top = fblk[b] /\ sfree = <<>> /\ fblk[b] # <<>>
    BY <2>1, <1>0, <1>b, HolderAlone
  <2> QED
    BY <2>2, <1>0
<1>4. PICK L : L = Listed(fblk, Top)
  OBVIOUS
<1>5. Parted(L) /\ b \notin L /\ L \subseteq Block
  BY <1>4, <1>b DEF Parted, Listed
<1>6. Listed(fblk, <<b>>) = L \cup {b} /\ NoTwice(fblk, <<b>>)
  <2>1. Blocks(fblk)
    BY DEF Types, Blocks
  <2> QED
    BY <2>1, <1>0, <1>3, <1>4, <1>5, ListCons
<1>7. Types'
  <2>1. <<b>> \in Segs /\ Formed(<<b>>)
    BY <1>0, FreeListAssumption DEF Segs, Formed, Number
  <2> QED
    BY <2>1, <1>0, <1>1, <1>2, <1>3 DEF Types
<1>8. \A q \in Proc : Busy(q)'
  BY <1>0, <1>1, <1>2 DEF Types, Busy, Outside
<1>9. Parted(L \cup {b})'
  BY <1>0, <1>2, <1>5, <1>b, PartedPut DEF Types
<1>10. Listed(fblk, Top)' = L \cup {b} /\ NoTwice(fblk, Top)'
  BY <1>0, <1>1, <1>3, <1>6
<1>11. Parted(Listed(fblk, Top))'
  BY <1>9, <1>10 DEF Parted
<1>12. Told'
  BY <1>0 DEF Told
<1> QED
  BY <1>0, <1>1, <1>4, <1>7, <1>8, <1>10, <1>11, <1>12, <1>b

LEMMA UpdateKeeps ==
    ASSUME IInv, NEW p \in Proc, Update(p) \/ UpdateGot(p) \/ UpdateWritten(p)
    PROVE  IInv' /\ Listed(fblk, Top)' = Listed(fblk, Top) /\ pc[p] \in Outside /\ pc'[p] \in Outside
<1> USE DEF IInv
<1>0. UNCHANGED <<sfree, flock, fblk, used, op, bno, lost>>
  BY DEF Update, UpdateGot, UpdateWritten, super
<1>1. /\ pc' \in [Proc -> PC] /\ pc[p] \in Outside /\ pc'[p] \in Outside
      /\ \A q \in Proc : q # p => pc'[q] = pc[q]
  BY DEF Update, UpdateGot, UpdateWritten, Goto, Types, PC, Outside
<1>2. Types'
  BY <1>0, <1>1 DEF Types, Update, UpdateGot, UpdateWritten, super
<1>3. \A q \in Proc : Busy(q)'
  BY <1>0, <1>1 DEF Types, Busy, Outside
<1>4. Lock' /\ InBlock' = InBlock
  BY <1>0, <1>1 DEF Lock, Holding, InBlock, Outside
<1>5. Top' = Top
  BY <1>0, <1>4, TopSame
<1>6. Listed(fblk, Top)' = Listed(fblk, Top) /\ NoTwice(fblk, Top)'
  BY <1>0, <1>5
<1>7. Parted(Listed(fblk, Top))'
  BY <1>0, <1>6 DEF Parted
<1>8. Told'
  <2>1. \A q \in Proc : Changing(q)' <=> Changing(q)
    BY <1>0, <1>1 DEF Changing, Outside
  <2>2. UNCHANGED <<fmod, sdisk>> \/ sdisk' = sfree
    BY DEF Update, UpdateGot, UpdateWritten, super
  <2> QED
    BY <2>1, <2>2, <1>0 DEF Told
<1> QED
  BY <1>1, <1>2, <1>3, <1>4, <1>6, <1>7, <1>8


-----------------------------------------------------------------------------
LEMMA InitEstablishes == Init => IInv /\ Listed(fblk, Top) = {}
<1> SUFFICES ASSUME Init PROVE IInv /\ Listed(fblk, Top) = {}
  OBVIOUS
<1> DEFINE Ends == /\ sfree \in Segs /\ Formed(sfree) /\ sfree # <<>> /\ sfree[1] = 0
                   /\ \A i \in DOMAIN sfree : sfree[i] \notin Block
<1>1. Ends
  <2>1. CASE sfree = <<0>>
    BY <2>1, FreeListAssumption DEF Segs, Formed, Number
  <2>2. ASSUME NEW g \in Garbage, sfree = <<0, g>>
        PROVE  Ends
    <3>1. sfree \in Segs
      BY <2>2 DEF Segs, Number
    <3>2. DOMAIN sfree = 1..2 /\ sfree[1] = 0 /\ sfree[2] = g /\ sfree # <<>>
      BY <2>2
    <3> QED
      BY <3>1, <3>2, FreeListAssumption DEF Formed, Init
  <2> QED
    BY <2>1, <2>2 DEF Init
<1>2. Types
  <2>1. \A b \in Block : fblk[b] = <<>>
    BY DEF Init
  <2>2. fblk \in [Block -> Segs]
    BY EmptyFormed DEF Init
  <2> QED
    BY <1>1, <2>1, <2>2, EmptyFormed DEF Init, Types, PC
<1>3. \A p \in Proc : Busy(p)
  BY DEF Init, Busy, Outside
<1>4. Lock /\ InBlock = {}
  BY DEF Init, Lock, Holding, InBlock
<1>5. Top = sfree
  BY <1>4, TopFacts DEF TopIs
<1>6. Listed(fblk, Top) = {} /\ NoTwice(fblk, Top)
  <2>1. Names(sfree) = {}
    BY <1>1, FreeListAssumption DEF Names
  <2> QED
    BY <2>1, <1>1, <1>5, ListEmpty
<1>7. Parted({})
  BY FreeListAssumption DEF Init, Parted, Number
<1>8. Told
  BY DEF Told, Init
<1> QED
  BY <1>2, <1>3, <1>4, <1>6, <1>7, <1>8 DEF IInv

LEMMA StepKeeps == IInv /\ [Next]_vars => IInv'
<1> SUFFICES ASSUME IInv, [Next]_vars PROVE IInv'
  OBVIOUS
<1>1. CASE UNCHANGED vars
  <2>1. UNCHANGED <<sfree, flock, fmod, updlock, fblk, sdisk, used, pc, op, bno, lost>>
    BY <1>1 DEF vars, super
  <2>2. Types' /\ Lock' /\ InBlock' = InBlock /\ \A p \in Proc : Busy(p)'
    BY <2>1 DEF IInv, Types, Lock, InBlock, Busy
  <2>3. Top' = Top
    BY <2>1, <2>2, TopSame DEF IInv
  <2>4. NoTwice(fblk, Top)' /\ Parted(Listed(fblk, Top))'
    BY <2>1, <2>3 DEF IInv, Parted
  <2>5. Told'
    BY <2>1 DEF IInv, Told, Changing
  <2> QED
    BY <2>2, <2>4, <2>5 DEF IInv
<1>2. CASE Next
  <2>1. PICK p \in Proc : CallAlloc(p) \/ Update(p) \/ (\E b \in Number : CallFree(p, b)) \/ Kernel(p)
    BY <1>2 DEF Next
  <2>2. CASE Kernel(p)
    BY <2>2, FlockSleepKeeps, AllocNoSpaceKeeps, AllocTakeKeeps, AllocReadKeeps, AllocGotKeeps,
       FreeBadKeeps, FreePutKeeps, FreeFullKeeps, FreeGotKeeps, FreeWrittenKeeps, UpdateKeeps DEF Kernel
  <2> QED
    BY <2>1, <2>2, CallAllocKeeps, CallFreeKeeps, UpdateKeeps
<1> QED
  BY <1>1, <1>2

(* The inductive invariant holds in every state: the list that begins in   *)
(* s_free never has a number twice, and with the files, the processes and  *)
(* the blocks lost it has every block once.                                *)
THEOREM Invariance == Spec => []IInv
BY InitEstablishes, StepKeeps, PTL DEF Spec

(* Numbers stay in range, and s_nfree never passes NICFREE. *)
THEOREM TypeCorrect == Spec => []TypeOK
<1>1. IInv => TypeOK
  BY DEF IInv, Types, TypeOK, Segs, Formed
<1> QED
  BY <1>1, Invariance, PTL

(* s_flock has one holder at most, who waits for the disk, and only while  *)
(* it is held does a process sleep for it: no sleeper is forgotten.        *)
THEOREM SuperLocked == Spec => []LockHeld
<1>1. IInv => LockHeld
  <2> SUFFICES ASSUME IInv PROVE LockHeld
    OBVIOUS
  <2> DEFINE S == {p \in Proc : pc[p] \in {"bread", "putblk", "bwrite"}}
  <2>1. CASE flock = 0
    <3>1. S = {}
      BY <2>1 DEF IInv, Lock, Holding
    <3> QED
      BY <3>1, <2>1, FS_EmptySet DEF LockHeld, IInv, Lock
  <2>2. CASE flock = 1
    <3>1. PICK p \in Proc : S = {p}
      <4>1. PICK p \in Proc : pc[p] \in Holding
        BY <2>2 DEF IInv, Lock
      <4>2. S = {p}
        BY <4>1 DEF IInv, Lock, Holding
      <4> QED
        BY <4>2
    <3>2. Cardinality(S) = 1
      BY <3>1, FS_Singleton
    <3> QED
      BY <3>2, <2>2 DEF LockHeld
  <2> QED
    BY <2>1, <2>2 DEF IInv, Types
<1> QED
  BY <1>1, Invariance, PTL

(* Every block is at one place: once in the free list, in a file, with one *)
(* process between the two, or lost by a failed read.                      *)
THEOREM BlockAtOnePlace == Spec => []OnePlace
<1>1. IInv => OnePlace
  <2> SUFFICES ASSUME IInv PROVE OnePlace
    OBVIOUS
  <2>1. PICK L : L = Listed(fblk, Top)
    OBVIOUS
  <2>2. L \subseteq Block /\ Parted(L)
    BY <2>1 DEF Listed, IInv
  <2>3. ASSUME NEW b \in Block
        PROVE  Cardinality({p \in Proc : bno[p] = b}) + Cardinality({b} \cap L)
               + Cardinality({b} \cap used) + Cardinality({b} \cap lost) = 1
    <3> DEFINE P == {p \in Proc : bno[p] = b}
    <3>1. Cardinality({}) = 0 /\ Cardinality({b}) = 1
      BY FS_EmptySet, FS_Singleton
    <3>2. CASE \E p \in Proc : bno[p] = b
      <4>1. PICK p \in Proc : bno[p] = b
        BY <3>2
      <4>2. P = {p}
        BY <4>1, <2>2 DEF Parted
      <4>3. {b} \cap L = {} /\ {b} \cap used = {} /\ {b} \cap lost = {}
        BY <4>1, <2>2 DEF Parted
      <4>4. Cardinality(P) = 1
        BY <4>2, FS_Singleton
      <4> HIDE DEF P
      <4>5. Cardinality(P) + Cardinality({b} \cap L) + Cardinality({b} \cap used) + Cardinality({b} \cap lost) = 1
        BY <4>3, <4>4, <3>1
      <4> QED
        BY <4>5 DEF P
    <3>3. CASE \A p \in Proc : bno[p] # b
      <4>1. P = {} /\ b \in L \cup used \cup lost
        BY <3>3, <2>2 DEF Parted
      <4> HIDE DEF P
      <4>2. \/ {b} \cap L = {b} /\ {b} \cap used = {} /\ {b} \cap lost = {}
            \/ {b} \cap L = {} /\ {b} \cap used = {b} /\ {b} \cap lost = {}
            \/ {b} \cap L = {} /\ {b} \cap used = {} /\ {b} \cap lost = {b}
        BY <4>1, <2>2 DEF Parted
      <4>3. Cardinality(P) + Cardinality({b} \cap L) + Cardinality({b} \cap used) + Cardinality({b} \cap lost) = 1
        BY <4>1, <4>2, <3>1
      <4> QED
        BY <4>3 DEF P
    <3> QED
      BY <3>2, <3>3
  <2> QED
    BY <2>1, <2>2, <2>3 DEF OnePlace, IInv, NoTwice
<1> QED
  BY <1>1, Invariance, PTL

(* At rest, a super block that s_fmod does not call modified has, on the   *)
(* disk, the free blocks it has in core.                                   *)
THEOREM ModifiedIsTold == Spec => []FmodTells
<1>1. IInv => FmodTells
  <2> SUFFICES ASSUME IInv, ~fmod, lost = {}, \A p \in Proc : pc[p] \in {"user", "sbget", "sbwrite"}
               PROVE  Listed(fblk, sdisk) = Listed(fblk, sfree)
    BY DEF FmodTells
  <2>1. \A p \in Proc : ~Changing(p)
    BY DEF IInv, Busy, Outside, Changing
  <2> QED
    BY <2>1 DEF IInv, Told
<1> QED
  BY <1>1, Invariance, PTL


-----------------------------------------------------------------------------
(* The free list implements the pool of blocks. *)

DoesIs ==
    \A p \in Proc :
      /\ pc[p] \in Outside => Does(p) = "idle"
      /\ pc[p] \in {"test", "flockwait"} /\ op[p] = "alloc" => Does(p) = "ask"
      /\ pc[p] \in {"bread", "getblk"} => Does(p) = "hold"
      /\ pc[p] \notin Outside /\ op[p] = "free" => Does(p) = "give"

LEMMA DoesFacts == IInv => DoesIs
<1> SUFFICES ASSUME IInv, NEW p \in Proc
             PROVE  /\ pc[p] \in Outside => Does(p) = "idle"
                    /\ pc[p] \in {"test", "flockwait"} /\ op[p] = "alloc" => Does(p) = "ask"
                    /\ pc[p] \in {"bread", "getblk"} => Does(p) = "hold"
                    /\ pc[p] \notin Outside /\ op[p] = "free" => Does(p) = "give"
  BY DEF DoesIs
<1>1. Busy(p) /\ pc[p] \in PC /\ op[p] \in {"none", "alloc", "free"}
  BY DEF IInv, Types
<1> QED
  BY <1>1 DEF Does, Busy, Outside, PC

LEMMA DoesFactsNext == IInv' => DoesIs'
BY DoesFacts, PTL

(* A step of p changes what p does and nothing else. *)
Doing == [p \in Proc |-> Does(p)]
LEMMA OthersDo ==
    ASSUME IInv, IInv', NEW p \in Proc, NEW d, Does(p)' = d,
           \A q \in Proc : q # p => /\ op'[q] = op[q]
                                    /\ pc'[q] = pc[q] \/ (pc[q] = "flockwait" /\ pc'[q] = "test")
    PROVE  Doing' = [Doing EXCEPT ![p] = d]
<1>1. \A q \in Proc : q # p => Does(q)' = Does(q)
  <2>1. SUFFICES ASSUME NEW q \in Proc, q # p PROVE Does(q)' = Does(q)
    OBVIOUS
  <2>2. DoesIs /\ DoesIs' /\ Busy(q) /\ pc[q] \in PC /\ op[q] \in {"none", "alloc", "free"}
    BY DoesFacts, DoesFactsNext DEF IInv, Types
  <2> QED
    BY <2>1, <2>2 DEF DoesIs, Busy, Outside, PC
<1> QED
  BY <1>1 DEF Doing

LEMMA InitPool == Init => Pool!Init
<1> SUFFICES ASSUME Init PROVE Pool!Init
  OBVIOUS
<1>1. IInv /\ Listed(fblk, Top) = {}
  BY InitEstablishes
<1>2. \A p \in Proc : Does(p) = "idle"
  BY <1>1, DoesFacts DEF DoesIs, Outside, Init
<1> QED
  BY <1>1, <1>2 DEF Init, Number, Pool!Init

LEMMA NextPool == IInv /\ [Next]_vars => [Pool!Next]_(Pool!vars)
<1> SUFFICES ASSUME IInv, [Next]_vars PROVE Pool!Next \/ UNCHANGED Pool!vars
  OBVIOUS
<1>0. IInv' /\ DoesIs /\ DoesIs'
  BY StepKeeps, DoesFacts, DoesFactsNext
<1> DEFINE pool == Listed(fblk, Top)
<1>same. ASSUME pool' = pool, used' = used, Doing' = Doing, bno' = bno
         PROVE  UNCHANGED Pool!vars
  BY <1>same DEF Pool!vars, Doing
<1>bec. ASSUME NEW p \in Proc, NEW d, NEW b, Doing' = [Doing EXCEPT ![p] = d], bno' = [bno EXCEPT ![p] = b]
        PROVE  Pool!Becomes(p, d, b)
  BY <1>bec DEF Pool!Becomes, Doing
<1>fun. Doing \in [Proc -> {"idle", "ask", "hold", "give"}] /\ \A p \in Proc : Doing[p] = Does(p)
  <2>1. \A p \in Proc : Busy(p) /\ pc[p] \in PC /\ op[p] \in {"none", "alloc", "free"}
    BY DEF IInv, Types
  <2>2. \A p \in Proc : Does(p) \in {"idle", "ask", "hold", "give"}
    BY <1>0, <2>1 DEF DoesIs, Busy, Outside, PC
  <2> QED
    BY <2>2 DEF Doing
<1>1. CASE UNCHANGED vars
  <2>1. UNCHANGED <<sfree, fblk, used, pc, op, bno>>
    BY <1>1 DEF vars, super
  <2>2. InBlock' = InBlock
    BY <2>1 DEF InBlock
  <2>3. Top' = Top
    BY <2>1, <2>2, <1>0, TopSame DEF IInv
  <2>4. Doing' = Doing
    BY <2>1 DEF Doing, Does
  <2> QED
    BY <2>1, <2>3, <2>4, <1>same
<1>2. CASE Next
  <2>1. PICK p \in Proc : CallAlloc(p) \/ Update(p) \/ (\E b \in Number : CallFree(p, b)) \/ Kernel(p)
    BY <1>2 DEF Next
  <2>fn. /\ pc \in [Proc -> PC] /\ op \in [Proc -> {"none", "alloc", "free"}]
         /\ bno \in [Proc -> Number \cup {0}] /\ Busy(p)
         /\ Does(p) \in {"idle", "ask", "hold", "give"} /\ Doing[p] = Does(p)
    BY <1>fun DEF IInv, Types
  <2>oth. \A q \in Proc : q # p => /\ op'[q] = op[q]
                                   /\ pc'[q] = pc[q] \/ (pc[q] = "flockwait" /\ pc'[q] = "test")
    BY <2>1, <2>fn DEF CallAlloc, CallFree, Kernel, FlockSleep, AllocNoSpace, AllocTake, AllocRead, AllocGot,
       FreeBad, FreePut, FreeFull, FreeGot, FreeWritten, Update, UpdateGot, UpdateWritten, Return, Goto
  <2>do. \A d : Does(p)' = d => Doing' = [Doing EXCEPT ![p] = d]
    BY <2>oth, <1>0, OthersDo
  <2>st. Does(p)' = Does(p) => Doing' = Doing
    <3>1. Does(p)' = Does(p) => Doing' = [Doing EXCEPT ![p] = Doing[p]]
      BY <2>do, <2>fn
    <3> QED
      BY <3>1, <1>fun
  <2>2. CASE CallAlloc(p)
    <3>1. Does(p) = "idle" /\ Does(p)' = "ask"
      BY <2>2, <1>0, <2>fn DEF CallAlloc, Goto, DoesIs, Outside
    <3>2. InBlock' = InBlock
      BY <2>2, <2>fn DEF CallAlloc, Goto, InBlock
    <3>3. pool' = pool /\ used' = used
      <4>1. Top' = Top
        BY <3>2, <2>2, <1>0, TopSame DEF CallAlloc, super, IInv
      <4> QED
        BY <4>1, <2>2 DEF CallAlloc
    <3>4. bno' = [bno EXCEPT ![p] = 0]
      BY <2>2, <2>fn DEF CallAlloc, Busy, Outside
    <3>5. Pool!Becomes(p, "ask", 0)
      BY <3>1, <3>4, <2>do, <1>bec
    <3>6. Pool!Ask(p)
      BY <3>1, <3>3, <3>5 DEF Pool!Ask
    <3> QED
      BY <3>6 DEF Pool!Next
  <2>3. ASSUME NEW b \in Number, CallFree(p, b)
        PROVE  Pool!Next
    <3>1. Does(p) = "idle" /\ Does(p)' = "give"
      BY <2>3, <1>0, <2>fn DEF CallFree, Goto, DoesIs, Outside
    <3>2. InBlock' = InBlock
      BY <2>3, <2>fn DEF CallFree, Goto, InBlock
    <3>3. pool' = pool
      <4>1. Top' = Top
        BY <3>2, <2>3, <1>0, TopSame DEF CallFree, IInv, InBlock
      <4> QED
        BY <4>1, <2>3 DEF CallFree
    <3>4. bno' = [bno EXCEPT ![p] = b] /\ b \in used /\ used' = used \ {b}
      BY <2>3 DEF CallFree
    <3>5. Pool!Becomes(p, "give", b)
      BY <3>1, <3>4, <2>do, <1>bec
    <3>6. Pool!Release(p)
      BY <3>1, <3>3, <3>4, <3>5 DEF Pool!Release
    <3> QED
      BY <3>6 DEF Pool!Next
  <2>4. CASE Update(p) \/ UpdateGot(p) \/ UpdateWritten(p)
    <3>1. pool' = pool /\ pc[p] \in Outside /\ pc'[p] \in Outside
      BY <2>4, UpdateKeeps
    <3>2. Does(p)' = Does(p)
      BY <3>1, <1>0 DEF DoesIs
    <3>3. used' = used /\ bno' = bno
      BY <2>4 DEF Update, UpdateGot, UpdateWritten
    <3> QED
      BY <3>1, <3>2, <3>3, <2>st, <1>same
  <2>5. CASE FlockSleep(p)
    <3>1. Does(p)' = Does(p)
      BY <2>5, <1>0, <2>fn DEF FlockSleep, Goto, DoesIs, Outside, Busy
    <3>2. InBlock' = InBlock
      BY <2>5, <2>fn DEF FlockSleep, Goto, InBlock
    <3>3. Top' = Top /\ fblk' = fblk /\ used' = used /\ bno' = bno
      BY <3>2, <2>5, <1>0, TopSame DEF FlockSleep, super, IInv
    <3> QED
      BY <3>1, <3>3, <2>st, <1>same
  <2>6. CASE AllocNoSpace(p)
    <3>1. pool = {} /\ pool' = {} /\ used' = used /\ bno' = [bno EXCEPT ![p] = 0]
      BY <2>6, AllocNoSpaceKeeps DEF AllocNoSpace, Return
    <3>2. Does(p) = "ask" /\ Does(p)' = "idle"
      BY <2>6, <1>0, <2>fn DEF AllocNoSpace, Return, Goto, DoesIs, Outside
    <3>3. Pool!Becomes(p, "idle", 0)
      BY <3>1, <3>2, <2>do, <1>bec
    <3>4. Pool!NoSpace(p)
      BY <3>1, <3>2, <3>3 DEF Pool!NoSpace
    <3> QED
      BY <3>4 DEF Pool!Next
  <2>7. CASE AllocTake(p)
    <3>1. PICK b : b = bno'[p]
      OBVIOUS
    <3>2. b \in pool /\ pool' = pool \ {b} /\ used' = used /\ bno' = [bno EXCEPT ![p] = b]
      BY <3>1, <2>7, <2>fn, AllocTakeKeeps DEF AllocTake
    <3>3. Does(p) = "ask" /\ Does(p)' = "hold"
      BY <2>7, <1>0, <2>fn DEF AllocTake, Goto, DoesIs, Outside
    <3>4. Pool!Becomes(p, "hold", b)
      BY <3>2, <3>3, <2>do, <1>bec
    <3>5. Pool!Take(p)
      BY <3>2, <3>3, <3>4 DEF Pool!Take
    <3> QED
      BY <3>5 DEF Pool!Next
  <2>8. CASE AllocRead(p)
    <3>1. Does(p) = "hold" /\ used' = used
      BY <2>8, <1>0 DEF AllocRead, DoesIs
    <3>2. CASE pc'[p] = "getblk" /\ op' = op /\ bno' = bno /\ pool' = pool
      <4>1. Does(p)' = Does(p)
        BY <3>1, <3>2, <1>0 DEF DoesIs
      <4> QED
        BY <4>1, <3>1, <3>2, <2>st, <1>same
    <3>3. CASE pc'[p] = "user" /\ bno' = [bno EXCEPT ![p] = 0] /\ pool' = {}
      <4>1. Does(p)' = "idle"
        BY <3>3, <1>0 DEF DoesIs, Outside
      <4>2. Pool!Becomes(p, "idle", 0)
        BY <4>1, <3>3, <2>do, <1>bec
      <4>3. Pool!Lose(p)
        BY <4>2, <3>1, <3>3 DEF Pool!Lose
      <4> QED
        BY <4>3 DEF Pool!Next
    <3> QED
      BY <3>2, <3>3, <2>8, AllocReadKeeps
  <2>9. CASE AllocGot(p)
    <3>1. pool' = pool /\ used' = used \cup {bno[p]} /\ bno' = [bno EXCEPT ![p] = 0]
      BY <2>9, AllocGotKeeps DEF AllocGot, Return
    <3>2. Does(p) = "hold" /\ Does(p)' = "idle"
      BY <2>9, <1>0, <2>fn DEF AllocGot, Return, Goto, DoesIs, Outside
    <3>3. Pool!Becomes(p, "idle", 0)
      BY <3>1, <3>2, <2>do, <1>bec
    <3>4. Pool!Deliver(p)
      BY <3>1, <3>2, <3>3 DEF Pool!Deliver
    <3> QED
      BY <3>4 DEF Pool!Next
  <2>10. CASE FreeBad(p) \/ FreePut(p) \/ FreeWritten(p)
    <3>1. pool' = pool \cup ({bno[p]} \cap Block)
      <4>1. CASE FreeBad(p)
        <5>1. {bno[p]} \cap Block = {}
          BY <4>1, FreeListAssumption DEF FreeBad
        <5> QED
          BY <5>1, <4>1, FreeBadKeeps
      <4>2. CASE FreePut(p)
        <5>1. {bno[p]} \cap Block = {bno[p]}
          BY <4>2 DEF FreePut
        <5> QED
          BY <5>1, <4>2, FreePutKeeps
      <4>3. CASE FreeWritten(p)
        <5>1. {bno[p]} \cap Block = {bno[p]}
          BY <4>3, FreeWrittenKeeps
        <5> QED
          BY <5>1, <4>3, FreeWrittenKeeps
      <4> QED
        BY <4>1, <4>2, <4>3, <2>10
    <3>2. used' = used /\ bno' = [bno EXCEPT ![p] = 0] /\ pc'[p] = "user"
      BY <2>10, <2>fn DEF FreeBad, FreePut, FreeWritten, Return, Goto
    <3>3. Does(p) = "give" /\ Does(p)' = "idle"
      <4>1. pc[p] \notin Outside /\ op[p] = "free"
        BY <2>10, <2>fn DEF FreeBad, FreePut, FreeWritten, Busy, Outside
      <4> QED
        BY <4>1, <3>2, <1>0 DEF DoesIs, Outside
    <3>4. Pool!Becomes(p, "idle", 0)
      BY <3>2, <3>3, <2>do, <1>bec
    <3>5. Pool!Put(p)
      BY <3>1, <3>2, <3>3, <3>4 DEF Pool!Put
    <3> QED
      BY <3>5 DEF Pool!Next
  <2>11. CASE FreeFull(p) \/ FreeGot(p)
    <3>1. pool' = pool
      BY <2>11, FreeFullKeeps, FreeGotKeeps
    <3>2. used' = used /\ bno' = bno /\ op' = op
      BY <2>11 DEF FreeFull, FreeGot
    <3>3. op[p] = "free" /\ pc[p] \notin Outside /\ pc'[p] \notin Outside
      BY <2>11, <2>fn DEF FreeFull, FreeGot, Goto, Outside, Busy
    <3>4. Does(p)' = Does(p)
      BY <3>2, <3>3, <1>0 DEF DoesIs
    <3> QED
      BY <3>1, <3>2, <3>4, <2>st, <1>same
  <2> QED
    BY <2>1, <2>2, <2>3, <2>4, <2>5, <2>6, <2>7, <2>8, <2>9, <2>10, <2>11 DEF Kernel
<1> QED
  BY <1>1, <1>2

(* alloc() and free(), with the chain of segments, the lock and update()   *)
(* behind them, implement a pool of blocks: a block given out leaves it,   *)
(* and "no space" is said only when it is empty.                           *)
THEOREM ListIsBlockPool == Spec => IsBlockPool
<1>1. Init => Pool!Init
  BY InitPool
<1>2. IInv /\ [Next]_vars => [Pool!Next]_(Pool!vars)
  BY NextPool
<1> QED
  BY <1>1, <1>2, Invariance, PTL DEF Spec, IsBlockPool, Pool!Spec

=============================================================================

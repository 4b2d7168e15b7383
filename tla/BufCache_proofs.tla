-------------------------- MODULE BufCache_proofs --------------------------
(***************************************************************************)
(* Proofs about BufCache, for any processes, buffers, blocks and devices.  *)
(***************************************************************************)
EXTENDS BufCache, SequenceTheorems, FiniteSetTheorems, TLAPS

-----------------------------------------------------------------------------
(* The available list as a sequence without repetition.                    *)

(* Taking the oldest buffer: the list loses its head and nothing else. *)
LEMMA TailAvail ==
    ASSUME NEW S, NEW s \in Seq(S), s # <<>>, IsInjective(s)
    PROVE  /\ Tail(s) \in Seq(S)
           /\ Head(s) \in S
           /\ Head(s) \in ToSet(s)
           /\ IsInjective(Tail(s))
           /\ ToSet(Tail(s)) = ToSet(s) \ {Head(s)}
<1> DEFINE t == Tail(s)
<1>1. /\ t \in Seq(S) /\ Len(t) = Len(s) - 1 /\ Head(s) = s[1]
      /\ \A i \in 1..Len(t) : t[i] = s[i+1]
  BY HeadTailProperties
<1>2. Len(s) \in Nat /\ Len(s) # 0 /\ DOMAIN s = 1..Len(s) /\ DOMAIN t = 1..Len(t)
  BY <1>1, LenProperties, EmptySeq
<1>3. 1 \in DOMAIN s /\ Head(s) \in S
  BY <1>1, <1>2, HeadTailProperties
<1>4. IsInjective(t)
  BY <1>1, <1>2 DEF IsInjective
<1>5. ASSUME NEW x \in ToSet(t) PROVE x \in ToSet(s) /\ x # Head(s)
  BY <1>1, <1>2, <1>3 DEF ToSet, IsInjective
<1>6. ASSUME NEW x \in ToSet(s), x # Head(s) PROVE x \in ToSet(t)
  <2>1. PICK i \in DOMAIN s : x = s[i]
    BY DEF ToSet
  <2>2. i - 1 \in DOMAIN t /\ t[i-1] = x
    BY <2>1, <1>1, <1>2, <1>6
  <2> QED BY <2>2 DEF ToSet
<1> QED BY <1>1, <1>3, <1>4, <1>5, <1>6 DEF ToSet

(* notavail() of the i-th buffer: the list loses that buffer only. *)
LEMMA RemoveAvail ==
    ASSUME NEW S, NEW s \in Seq(S), IsInjective(s), NEW i \in DOMAIN s
    PROVE  /\ RemoveAt(s, i) \in Seq(S)
           /\ IsInjective(RemoveAt(s, i))
           /\ ToSet(RemoveAt(s, i)) = ToSet(s) \ {s[i]}
<1> DEFINE a == SubSeq(s, 1, i-1)
           c == SubSeq(s, i+1, Len(s))
           t == RemoveAt(s, i)
<1>1. Len(s) \in Nat /\ DOMAIN s = 1..Len(s) /\ i \in 1..Len(s)
  BY LenProperties
<1>2. /\ a \in Seq(S) /\ Len(a) = i - 1
      /\ \A j \in 1..(i-1) : a[j] = s[j]
  BY <1>1, SubSeqProperties
<1>3. /\ c \in Seq(S) /\ Len(c) = Len(s) - i
      /\ \A j \in 1..(Len(s) - i) : c[j] = s[i+j]
  BY <1>1, SubSeqProperties
<1>a. t = a \o c
  BY DEF RemoveAt
<1> HIDE DEF a, c, t
<1>4. /\ t \in Seq(S) /\ Len(t) = Len(s) - 1
      /\ \A j \in 1..(Len(s)-1) : t[j] = IF j < i THEN s[j] ELSE s[j+1]
  <2>1. /\ t \in Seq(S) /\ Len(t) = Len(a) + Len(c)
        /\ \A j \in 1..(Len(a) + Len(c)) :
             t[j] = IF j <= Len(a) THEN a[j] ELSE c[j - Len(a)]
    BY <1>a, <1>2, <1>3, ConcatProperties
  <2>2. Len(a) + Len(c) = Len(s) - 1
    BY <1>1, <1>2, <1>3
  <2>3. ASSUME NEW j \in 1..(Len(s)-1), j < i PROVE t[j] = s[j]
    BY <2>1, <2>2, <2>3, <1>1, <1>2
  <2>4. ASSUME NEW j \in 1..(Len(s)-1), ~(j < i) PROVE t[j] = s[j+1]
    <3>1. j - (i-1) \in 1..(Len(s) - i) /\ i + (j - (i-1)) = j + 1
      BY <2>4, <1>1
    <3>2. ~(j <= Len(a))
      BY <2>4, <1>1, <1>2
    <3> QED BY <2>1, <2>2, <3>1, <3>2, <1>2, <1>3
  <2> QED BY <2>1, <2>2, <2>3, <2>4
<1>5. DOMAIN t = 1..(Len(s)-1)
  BY <1>4, LenProperties
<1>6. IsInjective(t)
  <2>1. SUFFICES ASSUME NEW j \in 1..(Len(s)-1), NEW k \in 1..(Len(s)-1), t[j] = t[k]
                 PROVE  j = k
    BY <1>5 DEF IsInjective
  <2>2. \A m, n \in 1..Len(s) : s[m] = s[n] => m = n
    BY <1>1 DEF IsInjective
  <2>3. j \in 1..Len(s) /\ j+1 \in 1..Len(s) /\ k \in 1..Len(s) /\ k+1 \in 1..Len(s)
    BY <1>1
  <2> QED BY <2>1, <2>2, <2>3, <1>1, <1>4
<1>7. ASSUME NEW x \in ToSet(t) PROVE x \in ToSet(s) /\ x # s[i]
  BY <1>1, <1>4, <1>5 DEF ToSet, IsInjective
<1>8. ASSUME NEW x \in ToSet(s), x # s[i] PROVE x \in ToSet(t)
  <2>1. PICK j \in DOMAIN s : x = s[j]
    BY DEF ToSet
  <2>2. CASE j < i
    <3>1. j \in DOMAIN t /\ t[j] = x
      BY <2>1, <2>2, <1>1, <1>4, <1>5
    <3> QED BY <3>1 DEF ToSet
  <2>3. CASE j > i
    <3>1. j - 1 \in DOMAIN t /\ t[j-1] = x
      BY <2>1, <2>3, <1>1, <1>4, <1>5
    <3> QED BY <3>1 DEF ToSet
  <2> QED BY <2>1, <2>2, <2>3, <1>1, <1>8
<1>9. ToSet(t) = ToSet(s) \ {s[i]}
  BY <1>7, <1>8
<1> QED BY <1>4, <1>6, <1>9 DEF t

(* brelse() of a buffer that is not on the list, at the tail or the head. *)
LEMMA AppendAvail ==
    ASSUME NEW S, NEW s \in Seq(S), IsInjective(s), NEW b \in S, b \notin ToSet(s)
    PROVE  /\ Append(s, b) \in Seq(S)
           /\ IsInjective(Append(s, b))
           /\ ToSet(Append(s, b)) = ToSet(s) \cup {b}
<1> DEFINE t == Append(s, b)
<1>1. /\ t \in Seq(S) /\ Len(t) = Len(s) + 1 /\ t[Len(s)+1] = b
      /\ \A i \in 1..Len(s) : t[i] = s[i]
  BY AppendProperties
<1>2. Len(s) \in Nat /\ DOMAIN s = 1..Len(s) /\ DOMAIN t = 1..(Len(s)+1)
  BY <1>1, LenProperties
<1>3. IsInjective(t)
  BY <1>1, <1>2 DEF IsInjective, ToSet
<1>4. ASSUME NEW x \in ToSet(t) PROVE x \in ToSet(s) \cup {b}
  BY <1>1, <1>2 DEF ToSet
<1>5. ASSUME NEW x \in ToSet(s) PROVE x \in ToSet(t)
  BY <1>1, <1>2 DEF ToSet
<1>6. b \in ToSet(t)
  BY <1>1, <1>2 DEF ToSet
<1> QED BY <1>1, <1>3, <1>4, <1>5, <1>6 DEF ToSet

LEMMA ConsAvail ==
    ASSUME NEW S, NEW s \in Seq(S), IsInjective(s), NEW b \in S, b \notin ToSet(s)
    PROVE  /\ <<b>> \o s \in Seq(S)
           /\ IsInjective(<<b>> \o s)
           /\ ToSet(<<b>> \o s) = ToSet(s) \cup {b}
<1> DEFINE t == <<b>> \o s
<1>1. /\ t \in Seq(S) /\ Len(t) = Len(s) + 1 /\ t[1] = b
      /\ \A i \in 1..Len(s) : t[i+1] = s[i]
  <2>1. <<b>> \in Seq(S) /\ Len(<<b>>) = 1 /\ <<b>>[1] = b
    OBVIOUS
  <2>2. Len(s) \in Nat
    BY LenProperties
  <2>3. /\ t \in Seq(S) /\ Len(t) = Len(<<b>>) + Len(s)
        /\ \A i \in 1..(Len(<<b>>) + Len(s)) :
             t[i] = IF i <= Len(<<b>>) THEN <<b>>[i] ELSE s[i - Len(<<b>>)]
    BY <2>1, ConcatProperties
  <2> QED BY <2>1, <2>2, <2>3
<1>2. Len(s) \in Nat /\ DOMAIN s = 1..Len(s) /\ DOMAIN t = 1..(Len(s)+1)
  BY <1>1, LenProperties
<1>3. \A i \in DOMAIN t : i = 1 \/ (i - 1 \in DOMAIN s /\ t[i] = s[i-1])
  BY <1>1, <1>2
<1>4. IsInjective(t)
  BY <1>1, <1>2, <1>3 DEF IsInjective, ToSet
<1>5. ASSUME NEW x \in ToSet(t) PROVE x \in ToSet(s) \cup {b}
  BY <1>1, <1>2, <1>3 DEF ToSet
<1>6. ASSUME NEW x \in ToSet(s) PROVE x \in ToSet(t)
  <2>1. PICK i \in DOMAIN s : x = s[i]
    BY DEF ToSet
  <2>2. i + 1 \in DOMAIN t /\ t[i+1] = x
    BY <2>1, <1>1, <1>2
  <2> QED BY <2>2 DEF ToSet
<1>7. b \in ToSet(t)
  BY <1>1, <1>2 DEF ToSet
<1> QED BY <1>1, <1>4, <1>5, <1>6, <1>7 DEF ToSet
-----------------------------------------------------------------------------
(* The available list and B_BUSY change together.                          *)

(* brelse() of a busy buffer *)
LEMMA BrelseAvail ==
    ASSUME TypeOK, AvailIffNotBusy,
           NEW b \in Buf, "BUSY" \in flags[b], NEW f \in SUBSET Flag, Brelse(b, f)
    PROVE  /\ flags' \in [Buf -> SUBSET Flag]
           /\ blk' \in [Buf -> Block \cup {NoDev}]
           /\ free' \in Seq(Buf)
           /\ fwanted' \in BOOLEAN
           /\ chan' \in [Proc -> Buf \cup {FreeList, Nil}]
           /\ AvailIffNotBusy'
<1> USE DEF TypeOK, AvailIffNotBusy
<1>1. b \notin ToSet(free)
  OBVIOUS
<1>2. /\ free' \in Seq(Buf) /\ IsInjective(free') /\ ToSet(free') = ToSet(free) \cup {b}
  <2>1. CASE "AGE" \in f
    BY <2>1, <1>1, ConsAvail DEF Brelse
  <2>2. CASE "AGE" \notin f
    BY <2>2, <1>1, AppendAvail DEF Brelse
  <2> QED BY <2>1, <2>2
<1>3. flags' \in [Buf -> SUBSET Flag]
  BY DEF Brelse, Flag
<1>4. \A c \in Buf : "BUSY" \notin flags'[c] <=> c = b \/ "BUSY" \notin flags[c]
  BY DEF Brelse
<1>5. AvailIffNotBusy'
  BY <1>2, <1>4
<1>6. /\ blk' \in [Buf -> Block \cup {NoDev}] /\ fwanted' \in BOOLEAN
      /\ chan' \in [Proc -> Buf \cup {FreeList, Nil}]
  BY DEF Brelse, Awake
<1> QED BY <1>2, <1>3, <1>5, <1>6

(* notavail() of the i-th buffer of the list, which then gets flags f *)
LEMMA UnlinkAvail ==
    ASSUME TypeOK, AvailIffNotBusy, NEW i \in DOMAIN free, NEW f, "BUSY" \in f,
           free' = RemoveAt(free, i), flags' = [flags EXCEPT ![free[i]] = f]
    PROVE  /\ free[i] \in Buf /\ "BUSY" \notin flags[free[i]]
           /\ free' \in Seq(Buf)
           /\ AvailIffNotBusy'
<1> USE DEF TypeOK, AvailIffNotBusy
<1>1. free[i] \in ToSet(free)
  BY DEF ToSet
<1>2. free[i] \in Buf /\ "BUSY" \notin flags[free[i]]
  BY <1>1
<1>3. free' \in Seq(Buf) /\ IsInjective(free') /\ ToSet(free') = ToSet(free) \ {free[i]}
  BY RemoveAvail
<1>4. \A c \in Buf : "BUSY" \notin flags'[c] <=> c # free[i] /\ "BUSY" \notin flags[c]
  BY <1>2
<1> QED BY <1>2, <1>3, <1>4

(* the same for the head of the list *)
LEMMA VictimAvail ==
    ASSUME TypeOK, AvailIffNotBusy, free # <<>>, NEW f, "BUSY" \in f,
           free' = Tail(free), flags' = [flags EXCEPT ![Head(free)] = f]
    PROVE  /\ Head(free) \in Buf /\ "BUSY" \notin flags[Head(free)]
           /\ free' \in Seq(Buf)
           /\ AvailIffNotBusy'
<1> USE DEF TypeOK, AvailIffNotBusy
<1>1. /\ Head(free) \in Buf /\ Head(free) \in ToSet(free)
      /\ free' \in Seq(Buf) /\ IsInjective(free') /\ ToSet(free') = ToSet(free) \ {Head(free)}
  BY TailAvail
<1>2. \A c \in Buf : "BUSY" \notin flags'[c] <=> c # Head(free) /\ "BUSY" \notin flags[c]
  BY <1>1
<1> QED BY <1>1, <1>2

(* A step that leaves the list and B_BUSY alone *)
LEMMA StillAvail ==
    ASSUME AvailIffNotBusy, free' = free,
           \A b \in Buf : "BUSY" \in flags'[b] <=> "BUSY" \in flags[b]
    PROVE  AvailIffNotBusy'
BY DEF AvailIffNotBusy

-----------------------------------------------------------------------------
(* Ownership of the buffers.                                               *)

(* A step that moves no buffer between owners *)
LEMMA OwnersSame ==
    ASSUME OneOwner,
           \A q \in Proc, c \in Buf : Owns(q, c)' <=> Owns(q, c),
           \A c \in Buf : Detached(c)' <=> Detached(c),
           \A c \in Buf : "BUSY" \in flags'[c] <=> "BUSY" \in flags[c],
           \A c \in Buf : c \in ioq' => "BUSY" \in flags'[c]
    PROVE  OneOwner'
BY DEF OneOwner

(* A step by which b leaves its owner and is busy no more *)
LEMMA OwnersLess ==
    ASSUME OneOwner, NEW b \in Buf, b \notin ioq',
           \A q \in Proc, c \in Buf : Owns(q, c)' <=> Owns(q, c) /\ c # b,
           \A c \in Buf : Detached(c)' <=> Detached(c) /\ c # b,
           \A c \in Buf : "BUSY" \in flags'[c] <=> "BUSY" \in flags[c] /\ c # b,
           \A c \in Buf : c \in ioq' => c \in ioq
    PROVE  OneOwner'
BY DEF OneOwner

-----------------------------------------------------------------------------
(* Every step keeps the inductive invariant.                               *)

(* Bread keeps the inductive invariant. *)
LEMMA BreadInv ==
    ASSUME IInv, NEW p \in Proc, NEW x \in Block, Bread(p, x)
    PROVE  IInv'
<1> USE ProcBufAssumption, BlockAssumption, ValAssumption DEF IInv, Getter
<1>1. TypeOK'
  BY DEF TypeOK, Registers, Label, Op, Flag, Bread, At, OnCpu, Goto, bufVars
<1>2. Registers'
  BY DEF Registers, TypeOK, Bread, At, OnCpu, Goto, bufVars
<1>3. Transfers'
  BY DEF Transfers, TypeOK, Registers, Holding, OneOwner, Owns, Detached, Bread, At, OnCpu, Goto, bufVars
<1>4. Holding'
  BY DEF Holding, TypeOK, Registers, Transfers, OneOwner, Owns, Detached, Target, Bread, At, OnCpu, Goto, bufVars
<1>5. AvailIffNotBusy'
  BY StillAvail DEF TypeOK, Registers, Bread, At, OnCpu, Goto, bufVars
<1>6. UniqueBlock'
  BY DEF UniqueBlock, TypeOK, Registers, Bread, At, OnCpu, Goto, bufVars
<1>7. OneOwner'
  <2>1. \A q \in Proc, c \in Buf : Owns(q, c)' <=> Owns(q, c)
    BY DEF Owns, OneOwner, TypeOK, Registers, Bread, At, OnCpu, Goto, bufVars
  <2>2. \A c \in Buf : "BUSY" \in flags'[c] <=> "BUSY" \in flags[c]
    BY DEF TypeOK, Registers, Bread, At, OnCpu, Goto, bufVars
  <2>3. \A c \in Buf : Detached(c)' <=> Detached(c)
    BY DEF Detached, TypeOK, Registers, Bread, At, OnCpu, Goto, bufVars
  <2>4. \A c \in Buf : c \in ioq' => "BUSY" \in flags'[c]
    BY <2>2 DEF OneOwner, Bread, At, OnCpu, Goto, bufVars
  <2> QED BY <2>1, <2>2, <2>3, <2>4, OwnersSame
<1>8. NoLostWakeup'
  BY DEF NoLostWakeup, TypeOK, Registers, Transfers, Holding, OneOwner, Owns, Detached, Bread, At, OnCpu, Goto, bufVars
<1> QED BY <1>1, <1>2, <1>3, <1>4, <1>5, <1>6, <1>7, <1>8

(* Breada keeps the inductive invariant. *)
LEMMA BreadaInv ==
    ASSUME IInv, NEW p \in Proc, NEW x \in Block, NEW y \in Block \cup {Nil}, Breada(p, x, y)
    PROVE  IInv'
<1> USE ProcBufAssumption, BlockAssumption, ValAssumption DEF IInv, Getter
<1>1. TypeOK'
  BY DEF TypeOK, Registers, Label, Op, Flag, Breada, At, OnCpu, Goto, bufVars
<1>2. Registers'
  BY DEF Registers, TypeOK, Breada, At, OnCpu, Goto, bufVars
<1>3. Transfers'
  BY DEF Transfers, TypeOK, Registers, Holding, OneOwner, Owns, Detached, Breada, At, OnCpu, Goto, bufVars
<1>4. Holding'
  BY DEF Holding, TypeOK, Registers, Transfers, OneOwner, Owns, Detached, Target, Breada, At, OnCpu, Goto, bufVars
<1>5. AvailIffNotBusy'
  BY StillAvail DEF TypeOK, Registers, Breada, At, OnCpu, Goto, bufVars
<1>6. UniqueBlock'
  BY DEF UniqueBlock, TypeOK, Registers, Breada, At, OnCpu, Goto, bufVars
<1>7. OneOwner'
  <2>1. \A q \in Proc, c \in Buf : Owns(q, c)' <=> Owns(q, c)
    BY DEF Owns, OneOwner, TypeOK, Registers, Breada, At, OnCpu, Goto, bufVars
  <2>2. \A c \in Buf : "BUSY" \in flags'[c] <=> "BUSY" \in flags[c]
    BY DEF TypeOK, Registers, Breada, At, OnCpu, Goto, bufVars
  <2>3. \A c \in Buf : Detached(c)' <=> Detached(c)
    BY DEF Detached, TypeOK, Registers, Breada, At, OnCpu, Goto, bufVars
  <2>4. \A c \in Buf : c \in ioq' => "BUSY" \in flags'[c]
    BY <2>2 DEF OneOwner, Breada, At, OnCpu, Goto, bufVars
  <2> QED BY <2>1, <2>2, <2>3, <2>4, OwnersSame
<1>8. NoLostWakeup'
  BY DEF NoLostWakeup, TypeOK, Registers, Transfers, Holding, OneOwner, Owns, Detached, Breada, At, OnCpu, Goto, bufVars
<1> QED BY <1>1, <1>2, <1>3, <1>4, <1>5, <1>6, <1>7, <1>8

(* Getblk keeps the inductive invariant. *)
LEMMA GetblkInv ==
    ASSUME IInv, NEW p \in Proc, NEW x \in Block, Getblk(p, x)
    PROVE  IInv'
<1> USE ProcBufAssumption, BlockAssumption, ValAssumption DEF IInv, Getter
<1>1. TypeOK'
  BY DEF TypeOK, Registers, Label, Op, Flag, Getblk, At, OnCpu, Goto, bufVars
<1>2. Registers'
  BY DEF Registers, TypeOK, Getblk, At, OnCpu, Goto, bufVars
<1>3. Transfers'
  BY DEF Transfers, TypeOK, Registers, Holding, OneOwner, Owns, Detached, Getblk, At, OnCpu, Goto, bufVars
<1>4. Holding'
  BY DEF Holding, TypeOK, Registers, Transfers, OneOwner, Owns, Detached, Target, Getblk, At, OnCpu, Goto, bufVars
<1>5. AvailIffNotBusy'
  BY StillAvail DEF TypeOK, Registers, Getblk, At, OnCpu, Goto, bufVars
<1>6. UniqueBlock'
  BY DEF UniqueBlock, TypeOK, Registers, Getblk, At, OnCpu, Goto, bufVars
<1>7. OneOwner'
  <2>1. \A q \in Proc, c \in Buf : Owns(q, c)' <=> Owns(q, c)
    BY DEF Owns, OneOwner, TypeOK, Registers, Getblk, At, OnCpu, Goto, bufVars
  <2>2. \A c \in Buf : "BUSY" \in flags'[c] <=> "BUSY" \in flags[c]
    BY DEF TypeOK, Registers, Getblk, At, OnCpu, Goto, bufVars
  <2>3. \A c \in Buf : Detached(c)' <=> Detached(c)
    BY DEF Detached, TypeOK, Registers, Getblk, At, OnCpu, Goto, bufVars
  <2>4. \A c \in Buf : c \in ioq' => "BUSY" \in flags'[c]
    BY <2>2 DEF OneOwner, Getblk, At, OnCpu, Goto, bufVars
  <2> QED BY <2>1, <2>2, <2>3, <2>4, OwnersSame
<1>8. NoLostWakeup'
  BY DEF NoLostWakeup, TypeOK, Registers, Transfers, Holding, OneOwner, Owns, Detached, Getblk, At, OnCpu, Goto, bufVars
<1> QED BY <1>1, <1>2, <1>3, <1>4, <1>5, <1>6, <1>7, <1>8

(* Geteblk keeps the inductive invariant. *)
LEMMA GeteblkInv ==
    ASSUME IInv, NEW p \in Proc, Geteblk(p)
    PROVE  IInv'
<1> USE ProcBufAssumption, BlockAssumption, ValAssumption DEF IInv, Getter
<1>1. TypeOK'
  BY DEF TypeOK, Registers, Label, Op, Flag, Geteblk, At, OnCpu, Goto, bufVars
<1>2. Registers'
  BY DEF Registers, TypeOK, Geteblk, At, OnCpu, Goto, bufVars
<1>3. Transfers'
  BY DEF Transfers, TypeOK, Registers, Holding, OneOwner, Owns, Detached, Geteblk, At, OnCpu, Goto, bufVars
<1>4. Holding'
  BY DEF Holding, TypeOK, Registers, Transfers, OneOwner, Owns, Detached, Target, Geteblk, At, OnCpu, Goto, bufVars
<1>5. AvailIffNotBusy'
  BY StillAvail DEF TypeOK, Registers, Geteblk, At, OnCpu, Goto, bufVars
<1>6. UniqueBlock'
  BY DEF UniqueBlock, TypeOK, Registers, Geteblk, At, OnCpu, Goto, bufVars
<1>7. OneOwner'
  <2>1. \A q \in Proc, c \in Buf : Owns(q, c)' <=> Owns(q, c)
    BY DEF Owns, OneOwner, TypeOK, Registers, Geteblk, At, OnCpu, Goto, bufVars
  <2>2. \A c \in Buf : "BUSY" \in flags'[c] <=> "BUSY" \in flags[c]
    BY DEF TypeOK, Registers, Geteblk, At, OnCpu, Goto, bufVars
  <2>3. \A c \in Buf : Detached(c)' <=> Detached(c)
    BY DEF Detached, TypeOK, Registers, Geteblk, At, OnCpu, Goto, bufVars
  <2>4. \A c \in Buf : c \in ioq' => "BUSY" \in flags'[c]
    BY <2>2 DEF OneOwner, Geteblk, At, OnCpu, Goto, bufVars
  <2> QED BY <2>1, <2>2, <2>3, <2>4, OwnersSame
<1>8. NoLostWakeup'
  BY DEF NoLostWakeup, TypeOK, Registers, Transfers, Holding, OneOwner, Owns, Detached, Geteblk, At, OnCpu, Goto, bufVars
<1> QED BY <1>1, <1>2, <1>3, <1>4, <1>5, <1>6, <1>7, <1>8

(* Bflush keeps the inductive invariant. *)
LEMMA BflushInv ==
    ASSUME IInv, NEW p \in Proc, NEW d \in Dev \cup {NoDev}, Bflush(p, d)
    PROVE  IInv'
<1> USE ProcBufAssumption, BlockAssumption, ValAssumption DEF IInv, Getter
<1>1. TypeOK'
  BY DEF TypeOK, Registers, Label, Op, Flag, Bflush, At, OnCpu, Goto, bufVars
<1>2. Registers'
  BY DEF Registers, TypeOK, Bflush, At, OnCpu, Goto, bufVars
<1>3. Transfers'
  BY DEF Transfers, TypeOK, Registers, Holding, OneOwner, Owns, Detached, Bflush, At, OnCpu, Goto, bufVars
<1>4. Holding'
  BY DEF Holding, TypeOK, Registers, Transfers, OneOwner, Owns, Detached, Target, Bflush, At, OnCpu, Goto, bufVars
<1>5. AvailIffNotBusy'
  BY StillAvail DEF TypeOK, Registers, Bflush, At, OnCpu, Goto, bufVars
<1>6. UniqueBlock'
  BY DEF UniqueBlock, TypeOK, Registers, Bflush, At, OnCpu, Goto, bufVars
<1>7. OneOwner'
  <2>1. \A q \in Proc, c \in Buf : Owns(q, c)' <=> Owns(q, c)
    BY DEF Owns, OneOwner, TypeOK, Registers, Bflush, At, OnCpu, Goto, bufVars
  <2>2. \A c \in Buf : "BUSY" \in flags'[c] <=> "BUSY" \in flags[c]
    BY DEF TypeOK, Registers, Bflush, At, OnCpu, Goto, bufVars
  <2>3. \A c \in Buf : Detached(c)' <=> Detached(c)
    BY DEF Detached, TypeOK, Registers, Bflush, At, OnCpu, Goto, bufVars
  <2>4. \A c \in Buf : c \in ioq' => "BUSY" \in flags'[c]
    BY <2>2 DEF OneOwner, Bflush, At, OnCpu, Goto, bufVars
  <2> QED BY <2>1, <2>2, <2>3, <2>4, OwnersSame
<1>8. NoLostWakeup'
  BY DEF NoLostWakeup, TypeOK, Registers, Transfers, Holding, OneOwner, Owns, Detached, Bflush, At, OnCpu, Goto, bufVars
<1> QED BY <1>1, <1>2, <1>3, <1>4, <1>5, <1>6, <1>7, <1>8

(* GetblkMatch keeps the inductive invariant. *)
LEMMA GetblkMatchInv ==
    ASSUME IInv, NEW p \in Proc, GetblkMatch(p)
    PROVE  IInv'
<1> USE ProcBufAssumption, BlockAssumption, ValAssumption DEF IInv, Getter
<1>1. TypeOK'
  BY DEF TypeOK, Registers, Label, Op, Flag, GetblkMatch, At, OnCpu, Goto, bufVars, Target
<1>2. Registers'
  BY DEF Registers, TypeOK, GetblkMatch, At, OnCpu, Goto, bufVars, Target
<1>3. Transfers'
  BY DEF Transfers, TypeOK, Registers, Holding, OneOwner, Owns, Detached, GetblkMatch, At, OnCpu, Goto, bufVars, Target
<1>4. Holding'
  BY DEF Holding, TypeOK, Registers, Transfers, OneOwner, Owns, Detached, Target, GetblkMatch, At, OnCpu, Goto, bufVars, Target
<1>5. AvailIffNotBusy'
  BY StillAvail DEF TypeOK, Registers, GetblkMatch, At, OnCpu, Goto, bufVars, Target
<1>6. UniqueBlock'
  BY DEF UniqueBlock, TypeOK, Registers, GetblkMatch, At, OnCpu, Goto, bufVars, Target
<1>7. OneOwner'
  <2>1. \A q \in Proc, c \in Buf : Owns(q, c)' <=> Owns(q, c)
    BY DEF Owns, OneOwner, TypeOK, Registers, GetblkMatch, At, OnCpu, Goto, bufVars, Target
  <2>2. \A c \in Buf : "BUSY" \in flags'[c] <=> "BUSY" \in flags[c]
    BY DEF TypeOK, Registers, GetblkMatch, At, OnCpu, Goto, bufVars, Target
  <2>3. \A c \in Buf : Detached(c)' <=> Detached(c)
    BY DEF Detached, TypeOK, Registers, GetblkMatch, At, OnCpu, Goto, bufVars, Target
  <2>4. \A c \in Buf : c \in ioq' => "BUSY" \in flags'[c]
    BY <2>2 DEF OneOwner, GetblkMatch, At, OnCpu, Goto, bufVars, Target
  <2> QED BY <2>1, <2>2, <2>3, <2>4, OwnersSame
<1>8. NoLostWakeup'
  BY DEF NoLostWakeup, TypeOK, Registers, Transfers, Holding, OneOwner, Owns, Detached, GetblkMatch, At, OnCpu, Goto, bufVars, Target
<1> QED BY <1>1, <1>2, <1>3, <1>4, <1>5, <1>6, <1>7, <1>8

(* GetblkBusy keeps the inductive invariant. *)
LEMMA GetblkBusyInv ==
    ASSUME IInv, NEW p \in Proc, GetblkBusy(p)
    PROVE  IInv'
<1> USE ProcBufAssumption, BlockAssumption, ValAssumption DEF IInv, Getter
<1>1. TypeOK'
  BY DEF TypeOK, Registers, Label, Op, Flag, GetblkBusy, At, OnCpu, Sleep
<1>2. Registers'
  BY DEF Registers, TypeOK, GetblkBusy, At, OnCpu, Sleep
<1>3. Transfers'
  BY DEF Transfers, TypeOK, Registers, Holding, OneOwner, Owns, Detached, GetblkBusy, At, OnCpu, Sleep
<1>4. Holding'
  BY DEF Holding, TypeOK, Registers, Transfers, OneOwner, Owns, Detached, Target, GetblkBusy, At, OnCpu, Sleep
<1>5. AvailIffNotBusy'
  BY StillAvail DEF TypeOK, Registers, GetblkBusy, At, OnCpu, Sleep
<1>6. UniqueBlock'
  BY DEF UniqueBlock, TypeOK, Registers, GetblkBusy, At, OnCpu, Sleep
<1>7. OneOwner'
  <2>1. \A q \in Proc, c \in Buf : Owns(q, c)' <=> Owns(q, c)
    BY DEF Owns, OneOwner, TypeOK, Registers, GetblkBusy, At, OnCpu, Sleep
  <2>2. \A c \in Buf : "BUSY" \in flags'[c] <=> "BUSY" \in flags[c]
    BY DEF TypeOK, Registers, GetblkBusy, At, OnCpu, Sleep
  <2>3. \A c \in Buf : Detached(c)' <=> Detached(c)
    BY DEF Detached, TypeOK, Registers, GetblkBusy, At, OnCpu, Sleep
  <2>4. \A c \in Buf : c \in ioq' => "BUSY" \in flags'[c]
    BY <2>2 DEF OneOwner, GetblkBusy, At, OnCpu, Sleep
  <2> QED BY <2>1, <2>2, <2>3, <2>4, OwnersSame
<1>8. NoLostWakeup'
  BY DEF NoLostWakeup, TypeOK, Registers, Transfers, Holding, OneOwner, Owns, Detached, GetblkBusy, At, OnCpu, Sleep
<1> QED BY <1>1, <1>2, <1>3, <1>4, <1>5, <1>6, <1>7, <1>8

(* GetblkHit keeps the inductive invariant. *)
LEMMA GetblkHitInv ==
    ASSUME IInv, NEW p \in Proc, GetblkHit(p)
    PROVE  IInv'
<1> USE ProcBufAssumption, BlockAssumption, ValAssumption DEF IInv, Getter
<1>i. PICK i \in DOMAIN free : free[i] = gb[p] /\ free' = RemoveAt(free, i)
  BY DEF GetblkHit, Unlink
<1>f. /\ gb[p] \in Buf /\ free' \in Seq(Buf) /\ AvailIffNotBusy'
      /\ flags' = [flags EXCEPT ![gb[p]] = @ \cup {"BUSY"}]
      /\ "BUSY" \notin flags[gb[p]]
  <2>1. /\ flags' = [flags EXCEPT ![free[i]] = flags[free[i]] \cup {"BUSY"}]
        /\ "BUSY" \in flags[free[i]] \cup {"BUSY"}
    BY <1>i DEF GetblkHit
  <2>2. /\ free[i] \in Buf /\ "BUSY" \notin flags[free[i]] /\ free' \in Seq(Buf)
        /\ AvailIffNotBusy'
    BY <1>i, <2>1, UnlinkAvail
  <2> QED BY <1>i, <2>1, <2>2
<1>1. TypeOK'
  BY <1>f DEF TypeOK, Registers, Label, Op, Flag, GetblkHit, At, OnCpu, Goto
<1>2. Registers'
  BY <1>f DEF Registers, TypeOK, GetblkHit, At, OnCpu, Goto
<1>3. Transfers'
  BY <1>f DEF Transfers, TypeOK, Registers, Holding, OneOwner, Owns, Detached, GetblkHit, At, OnCpu, Goto
<1>4. Holding'
  BY <1>f DEF Holding, TypeOK, Registers, Transfers, OneOwner, Owns, Detached, Target, GetblkHit, At, OnCpu, Goto
<1>5. AvailIffNotBusy'
  BY <1>f
<1>6. UniqueBlock'
  BY <1>f DEF UniqueBlock, TypeOK, Registers, GetblkHit, At, OnCpu, Goto
<1>7. OneOwner'
  BY <1>f DEF OneOwner, TypeOK, Registers, Transfers, Holding, Owns, Detached, GetblkHit, At, OnCpu, Goto
<1>8. NoLostWakeup'
  BY <1>f DEF NoLostWakeup, TypeOK, Registers, Transfers, Holding, OneOwner, Owns, Detached, GetblkHit, At, OnCpu, Goto
<1> QED BY <1>1, <1>2, <1>3, <1>4, <1>5, <1>6, <1>7, <1>8

(* WaitAvail keeps the inductive invariant. *)
LEMMA WaitAvailInv ==
    ASSUME IInv, NEW p \in Proc, WaitAvail(p)
    PROVE  IInv'
<1> USE ProcBufAssumption, BlockAssumption, ValAssumption DEF IInv, Getter
<1>1. TypeOK'
  BY DEF TypeOK, Registers, Label, Op, Flag, WaitAvail, At, OnCpu, Sleep, Reassigning
<1>2. Registers'
  BY DEF Registers, TypeOK, WaitAvail, At, OnCpu, Sleep, Reassigning
<1>3. Transfers'
  BY DEF Transfers, TypeOK, Registers, Holding, OneOwner, Owns, Detached, WaitAvail, At, OnCpu, Sleep, Reassigning
<1>4. Holding'
  BY DEF Holding, TypeOK, Registers, Transfers, OneOwner, Owns, Detached, Target, WaitAvail, At, OnCpu, Sleep, Reassigning
<1>5. AvailIffNotBusy'
  BY StillAvail DEF TypeOK, Registers, WaitAvail, At, OnCpu, Sleep, Reassigning
<1>6. UniqueBlock'
  BY DEF UniqueBlock, TypeOK, Registers, WaitAvail, At, OnCpu, Sleep, Reassigning
<1>7. OneOwner'
  <2>1. \A q \in Proc, c \in Buf : Owns(q, c)' <=> Owns(q, c)
    BY DEF Owns, OneOwner, TypeOK, Registers, WaitAvail, At, OnCpu, Sleep, Reassigning
  <2>2. \A c \in Buf : "BUSY" \in flags'[c] <=> "BUSY" \in flags[c]
    BY DEF TypeOK, Registers, WaitAvail, At, OnCpu, Sleep, Reassigning
  <2>3. \A c \in Buf : Detached(c)' <=> Detached(c)
    BY DEF Detached, TypeOK, Registers, WaitAvail, At, OnCpu, Sleep, Reassigning
  <2>4. \A c \in Buf : c \in ioq' => "BUSY" \in flags'[c]
    BY <2>2 DEF OneOwner, WaitAvail, At, OnCpu, Sleep, Reassigning
  <2> QED BY <2>1, <2>2, <2>3, <2>4, OwnersSame
<1>8. NoLostWakeup'
  BY DEF NoLostWakeup, TypeOK, Registers, Transfers, Holding, OneOwner, Owns, Detached, WaitAvail, At, OnCpu, Sleep, Reassigning
<1> QED BY <1>1, <1>2, <1>3, <1>4, <1>5, <1>6, <1>7, <1>8

(* VictimDelayed keeps the inductive invariant. *)
LEMMA VictimDelayedInv ==
    ASSUME IInv, NEW p \in Proc, VictimDelayed(p)
    PROVE  IInv'
<1> USE ProcBufAssumption, BlockAssumption, ValAssumption DEF IInv, Getter
<1> DEFINE b == Head(free)
<1>f. /\ b \in Buf /\ "BUSY" \notin flags[b] /\ free' \in Seq(Buf) /\ AvailIffNotBusy'
      /\ flags' = [flags EXCEPT ![b] = WriteFlags(@ \cup {"ASYNC", "BUSY"})]
      /\ "BUSY" \in flags'[b] /\ "ASYNC" \in flags'[b] /\ "DONE" \notin flags'[b]
  <2> DEFINE f == WriteFlags(flags[b] \cup {"ASYNC", "BUSY"})
  <2>1. "BUSY" \in f /\ "ASYNC" \in f /\ "DONE" \notin f
    BY DEF WriteFlags
  <2>2. free # <<>> /\ free' = Tail(free) /\ flags' = [flags EXCEPT ![b] = f]
    BY DEF VictimDelayed, StartDelayed
  <2>3. b \in Buf /\ "BUSY" \notin flags[b] /\ free' \in Seq(Buf) /\ AvailIffNotBusy'
    <3> HIDE DEF f
    <3> QED BY <2>1, <2>2, VictimAvail
  <2>4. flags'[b] = f
    BY <2>2, <2>3 DEF TypeOK
  <2> QED BY <2>1, <2>2, <2>3, <2>4
<1>g. b \notin ioq /\ blk[b] # NoDev /\ blk' = blk /\ ioq' = ioq \cup {b}
  BY <1>f DEF Transfers, VictimDelayed, StartDelayed
<1> HIDE DEF b
<1>1. TypeOK'
  BY <1>f, <1>g DEF TypeOK, Registers, Label, Op, Flag, VictimDelayed, At, OnCpu, Goto, StartDelayed, WriteFlags, Reassigning
<1>2. Registers'
  BY <1>f, <1>g DEF Registers, TypeOK, VictimDelayed, At, OnCpu, Goto, StartDelayed, WriteFlags, Reassigning
<1>3. Transfers'
  BY <1>f, <1>g DEF Transfers, TypeOK, WriteFlags
<1>4. Holding'
  BY <1>f, <1>g DEF Holding, TypeOK, Registers, Transfers, OneOwner, Owns, Detached, Target, VictimDelayed, At, OnCpu, Goto, StartDelayed, WriteFlags, Reassigning
<1>5. AvailIffNotBusy'
  BY <1>f
<1>6. UniqueBlock'
  BY <1>f, <1>g DEF UniqueBlock, TypeOK, Registers, VictimDelayed, At, OnCpu, Goto, StartDelayed, WriteFlags, Reassigning
<1>7. OneOwner'
  BY <1>f, <1>g DEF OneOwner, TypeOK, Registers, Transfers, Holding, Owns, Detached, VictimDelayed, At, OnCpu, Goto, StartDelayed, WriteFlags, Reassigning
<1>8. NoLostWakeup'
  BY <1>f, <1>g DEF NoLostWakeup, TypeOK, Registers, Transfers, Holding, OneOwner, Owns, Detached, VictimDelayed, At, OnCpu, Goto, StartDelayed, WriteFlags, Reassigning
<1> QED BY <1>1, <1>2, <1>3, <1>4, <1>5, <1>6, <1>7, <1>8

(* Reassign keeps the inductive invariant. *)
LEMMA ReassignInv ==
    ASSUME IInv, NEW p \in Proc, Reassign(p)
    PROVE  IInv'
<1> USE ProcBufAssumption, BlockAssumption, ValAssumption DEF IInv, Getter
<1> DEFINE b == Head(free)
<1>f. /\ b \in Buf /\ "BUSY" \notin flags[b] /\ free' \in Seq(Buf) /\ AvailIffNotBusy'
      /\ flags' = [flags EXCEPT ![b] = {"BUSY"}]
      /\ b \notin ioq
  BY VictimAvail DEF Reassign, Transfers
<1>e. free # <<>>
  BY DEF Reassign
<1> HIDE DEF b
<1>1. TypeOK'
  BY <1>f DEF TypeOK, Registers, Label, Op, Flag, Reassign, At, OnCpu, Goto, Reassigning, Incore, Target
<1>2. Registers'
  BY <1>f DEF Registers, TypeOK, Reassign, At, OnCpu, Goto, Reassigning, Incore, Target
<1>3. Transfers'
  BY <1>f DEF Transfers, TypeOK, Registers, Holding, OneOwner, Owns, Detached, Reassign, At, OnCpu, Goto, Reassigning, Incore, Target
<1>4. Holding'
  BY <1>f DEF Holding, TypeOK, Registers, Transfers, OneOwner, Owns, Detached, Target, Reassign, At, OnCpu, Goto, Reassigning, Incore, Target
<1>5. AvailIffNotBusy'
  BY <1>f
<1>6. UniqueBlock'
  BY <1>f DEF UniqueBlock, TypeOK, Registers, Reassign, At, OnCpu, Goto, Reassigning, Incore, Target
<1>7. OneOwner'
  BY <1>f DEF OneOwner, TypeOK, Registers, Transfers, Holding, Owns, Detached, Reassign, At, OnCpu, Goto, Reassigning, Incore, Target
<1>8. NoLostWakeup'
  <2>1. \A c \in Buf : c # b => flags'[c] = flags[c]
    BY <1>f DEF TypeOK
  <2>2. \A q \in Proc : chan[q] # b /\ chan[q] # FreeList
    BY <1>f, <1>e DEF NoLostWakeup, Transfers
  <2>3. ioq' = ioq /\ chan' = chan /\ bp' = bp /\ \A q \in Proc : q # p => pc'[q] = pc[q]
    BY DEF Reassign, Goto, TypeOK
  <2>4. chan[p] = Nil
    BY DEF Reassign, Reassigning, At, OnCpu
  <2> QED BY <2>1, <2>2, <2>3, <2>4 DEF NoLostWakeup, TypeOK
<1> QED BY <1>1, <1>2, <1>3, <1>4, <1>5, <1>6, <1>7, <1>8

(* Age keeps the inductive invariant. *)
LEMMA AgeInv ==
    ASSUME IInv, NEW p \in Proc, Age(p)
    PROVE  IInv'
<1> USE ProcBufAssumption, BlockAssumption, ValAssumption DEF IInv, Getter
<1>1. TypeOK'
  BY DEF TypeOK, Registers, Label, Op, Flag, Age, At, OnCpu, Goto
<1>2. Registers'
  BY DEF Registers, TypeOK, Age, At, OnCpu, Goto
<1>3. Transfers'
  BY DEF Transfers, TypeOK, Registers, Holding, OneOwner, Owns, Detached, Age, At, OnCpu, Goto
<1>4. Holding'
  BY DEF Holding, TypeOK, Registers, Transfers, OneOwner, Owns, Detached, Target, Age, At, OnCpu, Goto
<1>5. AvailIffNotBusy'
  BY StillAvail DEF TypeOK, Registers, Age, At, OnCpu, Goto
<1>6. UniqueBlock'
  BY DEF UniqueBlock, TypeOK, Registers, Age, At, OnCpu, Goto
<1>7. OneOwner'
  <2>1. \A q \in Proc, c \in Buf : Owns(q, c)' <=> Owns(q, c)
    BY DEF Owns, OneOwner, TypeOK, Registers, Age, At, OnCpu, Goto
  <2>2. \A c \in Buf : "BUSY" \in flags'[c] <=> "BUSY" \in flags[c]
    BY DEF TypeOK, Registers, Age, At, OnCpu, Goto
  <2>3. \A c \in Buf : Detached(c)' <=> Detached(c)
    BY DEF Detached, TypeOK, Registers, Age, At, OnCpu, Goto
  <2>4. \A c \in Buf : c \in ioq' => "BUSY" \in flags'[c]
    BY <2>2 DEF OneOwner, Age, At, OnCpu, Goto
  <2> QED BY <2>1, <2>2, <2>3, <2>4, OwnersSame
<1>8. NoLostWakeup'
  BY DEF NoLostWakeup, TypeOK, Registers, Transfers, Holding, OneOwner, Owns, Detached, Age, At, OnCpu, Goto
<1> QED BY <1>1, <1>2, <1>3, <1>4, <1>5, <1>6, <1>7, <1>8

(* BreadGot keeps the inductive invariant. *)
LEMMA BreadGotInv ==
    ASSUME IInv, NEW p \in Proc, BreadGot(p)
    PROVE  IInv'
<1> USE ProcBufAssumption, BlockAssumption, ValAssumption DEF IInv, Getter
<1>f. /\ gb[p] \in Buf /\ "BUSY" \in flags[gb[p]] /\ flags[gb[p]] \in SUBSET Flag
      /\ gb[p] \notin ioq /\ "ASYNC" \notin flags[gb[p]]
  BY DEF BreadGot, At, Registers, OneOwner, Owns, TypeOK, Transfers, Holding
<1>k. "DONE" \notin flags[gb[p]] => blk[gb[p]] # NoDev
  BY DEF BreadGot, At, Registers, Holding, Target
<1>n. bp[p] = Nil
  BY DEF BreadGot, At, Registers, TypeOK
<1>a. CASE "DONE" \in flags[gb[p]]
  <2>1. TypeOK'
    BY <1>a, <1>f, <1>n DEF TypeOK, Registers, Label, Op, Flag, BreadGot, At, OnCpu, Goto
  <2>2. Registers'
    BY <1>a, <1>f, <1>n DEF Registers, TypeOK, BreadGot, At, OnCpu, Goto
  <2>3. Transfers'
    BY <1>a, <1>f, <1>n DEF Transfers, TypeOK, Registers, Holding, OneOwner, Owns, Detached, BreadGot, At, OnCpu, Goto
  <2>4. Holding'
    BY <1>a, <1>f, <1>n DEF Holding, TypeOK, Registers, Transfers, OneOwner, Owns, Detached, Target, BreadGot, At, OnCpu, Goto
  <2>5. AvailIffNotBusy'
    BY <1>a, StillAvail DEF TypeOK, Registers, BreadGot, At, OnCpu, Goto
  <2>6. UniqueBlock'
    BY <1>a, <1>f, <1>n DEF UniqueBlock, TypeOK, Registers, BreadGot, At, OnCpu, Goto
  <2>7. OneOwner'
    <3>1. \A q \in Proc, c \in Buf : Owns(q, c)' <=> Owns(q, c)
      BY <1>a, <1>f, <1>n DEF Owns, OneOwner, TypeOK, Registers, BreadGot, At, OnCpu, Goto
    <3>2. \A c \in Buf : "BUSY" \in flags'[c] <=> "BUSY" \in flags[c]
      BY <1>a, <1>f, <1>n DEF TypeOK, Registers, BreadGot, At, OnCpu, Goto
    <3>3. \A c \in Buf : Detached(c)' <=> Detached(c)
      BY <1>a, <1>f, <1>n DEF Detached, TypeOK, Registers, BreadGot, At, OnCpu, Goto
    <3>4. \A c \in Buf : c \in ioq' => "BUSY" \in flags'[c]
      BY <1>a, <1>f, <1>n, <3>2 DEF OneOwner, BreadGot, At, OnCpu, Goto
    <3> QED BY <3>1, <3>2, <3>3, <3>4, OwnersSame
  <2>8. NoLostWakeup'
    BY <1>a, <1>f, <1>n DEF NoLostWakeup, TypeOK, Registers, Transfers, Holding, OneOwner, Owns, Detached, BreadGot, At, OnCpu, Goto
  <2> QED BY <2>1, <2>2, <2>3, <2>4, <2>5, <2>6, <2>7, <2>8
<1>b. CASE "DONE" \notin flags[gb[p]]
  <2>1. TypeOK'
    <3>1. flags' \in [Buf -> SUBSET Flag] /\ ioq' \in SUBSET Buf
      BY <1>b, <1>f DEF TypeOK, Flag, BreadGot
    <3> QED BY <1>b, <3>1, <1>f DEF TypeOK, Label, BreadGot, Goto
  <2>2. Registers'
    BY <1>b, <1>f, <1>n DEF Registers, TypeOK, BreadGot, At, OnCpu, Goto
  <2>3. Transfers'
    BY <1>b, <1>f, <1>k DEF TypeOK, Transfers, BreadGot, At, OnCpu, Goto
  <2>4. Holding'
    BY <1>b, <1>f, <1>n DEF Holding, TypeOK, Registers, Transfers, OneOwner, Owns, Detached, Target, BreadGot, At, OnCpu, Goto
  <2>5. AvailIffNotBusy'
    BY <1>b, StillAvail DEF TypeOK, Registers, BreadGot, At, OnCpu, Goto
  <2>6. UniqueBlock'
    BY <1>b, <1>f, <1>n DEF UniqueBlock, TypeOK, Registers, BreadGot, At, OnCpu, Goto
  <2>7. OneOwner'
    <3>1. \A q \in Proc, c \in Buf : Owns(q, c)' <=> Owns(q, c)
      BY <1>b, <1>f, <1>n DEF Owns, OneOwner, TypeOK, Registers, BreadGot, At, OnCpu, Goto
    <3>2. \A c \in Buf : "BUSY" \in flags'[c] <=> "BUSY" \in flags[c]
      BY <1>b, <1>f, <1>n DEF TypeOK, Registers, BreadGot, At, OnCpu, Goto
    <3>3. \A c \in Buf : Detached(c)' <=> Detached(c)
      BY <1>b, <1>f, <1>n DEF Detached, TypeOK, Registers, BreadGot, At, OnCpu, Goto
    <3>4. \A c \in Buf : c \in ioq' => "BUSY" \in flags'[c]
      BY <1>b, <1>f, <1>n, <3>2 DEF OneOwner, BreadGot, At, OnCpu, Goto
    <3> QED BY <3>1, <3>2, <3>3, <3>4, OwnersSame
  <2>8. NoLostWakeup'
    BY <1>b, <1>f, <1>n DEF NoLostWakeup, TypeOK, Registers, Transfers, Holding, OneOwner, Owns, Detached, BreadGot, At, OnCpu, Goto
  <2> QED BY <2>1, <2>2, <2>3, <2>4, <2>5, <2>6, <2>7, <2>8
<1> QED BY <1>a, <1>b

(* BreadaGot keeps the inductive invariant. *)
LEMMA BreadaGotInv ==
    ASSUME IInv, NEW p \in Proc, BreadaGot(p)
    PROVE  IInv'
<1> USE ProcBufAssumption, BlockAssumption, ValAssumption DEF IInv, Getter
<1>f. /\ gb[p] \in Buf /\ "BUSY" \in flags[gb[p]] /\ flags[gb[p]] \in SUBSET Flag
      /\ gb[p] \notin ioq /\ "ASYNC" \notin flags[gb[p]]
  BY DEF BreadaGot, At, Registers, OneOwner, Owns, TypeOK, Transfers, Holding
<1>k. "DONE" \notin flags[gb[p]] => blk[gb[p]] # NoDev
  BY DEF BreadaGot, At, Registers, Holding, Target
<1>n. bp[p] = Nil
  BY DEF BreadaGot, At, Registers, TypeOK
<1>a. CASE "DONE" \in flags[gb[p]]
  <2>1. TypeOK'
    BY <1>a, <1>f, <1>n DEF TypeOK, Registers, Label, Op, Flag, BreadaGot, At, OnCpu, Goto
  <2>2. Registers'
    BY <1>a, <1>f, <1>n DEF Registers, TypeOK, BreadaGot, At, OnCpu, Goto
  <2>3. Transfers'
    BY <1>a, <1>f, <1>n DEF Transfers, TypeOK, Registers, Holding, OneOwner, Owns, Detached, BreadaGot, At, OnCpu, Goto
  <2>4. Holding'
    BY <1>a, <1>f, <1>n DEF Holding, TypeOK, Registers, Transfers, OneOwner, Owns, Detached, Target, BreadaGot, At, OnCpu, Goto
  <2>5. AvailIffNotBusy'
    BY <1>a, StillAvail DEF TypeOK, Registers, BreadaGot, At, OnCpu, Goto
  <2>6. UniqueBlock'
    BY <1>a, <1>f, <1>n DEF UniqueBlock, TypeOK, Registers, BreadaGot, At, OnCpu, Goto
  <2>7. OneOwner'
    <3>1. \A q \in Proc, c \in Buf : Owns(q, c)' <=> Owns(q, c)
      BY <1>a, <1>f, <1>n DEF Owns, OneOwner, TypeOK, Registers, BreadaGot, At, OnCpu, Goto
    <3>2. \A c \in Buf : "BUSY" \in flags'[c] <=> "BUSY" \in flags[c]
      BY <1>a, <1>f, <1>n DEF TypeOK, Registers, BreadaGot, At, OnCpu, Goto
    <3>3. \A c \in Buf : Detached(c)' <=> Detached(c)
      BY <1>a, <1>f, <1>n DEF Detached, TypeOK, Registers, BreadaGot, At, OnCpu, Goto
    <3>4. \A c \in Buf : c \in ioq' => "BUSY" \in flags'[c]
      BY <1>a, <1>f, <1>n, <3>2 DEF OneOwner, BreadaGot, At, OnCpu, Goto
    <3> QED BY <3>1, <3>2, <3>3, <3>4, OwnersSame
  <2>8. NoLostWakeup'
    BY <1>a, <1>f, <1>n DEF NoLostWakeup, TypeOK, Registers, Transfers, Holding, OneOwner, Owns, Detached, BreadaGot, At, OnCpu, Goto
  <2> QED BY <2>1, <2>2, <2>3, <2>4, <2>5, <2>6, <2>7, <2>8
<1>b. CASE "DONE" \notin flags[gb[p]]
  <2>1. TypeOK'
    <3>1. flags' \in [Buf -> SUBSET Flag] /\ ioq' \in SUBSET Buf
      BY <1>b, <1>f DEF TypeOK, Flag, BreadaGot
    <3> QED BY <1>b, <3>1, <1>f DEF TypeOK, Label, BreadaGot, Goto
  <2>2. Registers'
    BY <1>b, <1>f, <1>n DEF Registers, TypeOK, BreadaGot, At, OnCpu, Goto
  <2>3. Transfers'
    BY <1>b, <1>f, <1>k DEF TypeOK, Transfers, BreadaGot, At, OnCpu, Goto
  <2>4. Holding'
    BY <1>b, <1>f, <1>n DEF Holding, TypeOK, Registers, Transfers, OneOwner, Owns, Detached, Target, BreadaGot, At, OnCpu, Goto
  <2>5. AvailIffNotBusy'
    BY <1>b, StillAvail DEF TypeOK, Registers, BreadaGot, At, OnCpu, Goto
  <2>6. UniqueBlock'
    BY <1>b, <1>f, <1>n DEF UniqueBlock, TypeOK, Registers, BreadaGot, At, OnCpu, Goto
  <2>7. OneOwner'
    <3>1. \A q \in Proc, c \in Buf : Owns(q, c)' <=> Owns(q, c)
      BY <1>b, <1>f, <1>n DEF Owns, OneOwner, TypeOK, Registers, BreadaGot, At, OnCpu, Goto
    <3>2. \A c \in Buf : "BUSY" \in flags'[c] <=> "BUSY" \in flags[c]
      BY <1>b, <1>f, <1>n DEF TypeOK, Registers, BreadaGot, At, OnCpu, Goto
    <3>3. \A c \in Buf : Detached(c)' <=> Detached(c)
      BY <1>b, <1>f, <1>n DEF Detached, TypeOK, Registers, BreadaGot, At, OnCpu, Goto
    <3>4. \A c \in Buf : c \in ioq' => "BUSY" \in flags'[c]
      BY <1>b, <1>f, <1>n, <3>2 DEF OneOwner, BreadaGot, At, OnCpu, Goto
    <3> QED BY <3>1, <3>2, <3>3, <3>4, OwnersSame
  <2>8. NoLostWakeup'
    BY <1>b, <1>f, <1>n DEF NoLostWakeup, TypeOK, Registers, Transfers, Holding, OneOwner, Owns, Detached, BreadaGot, At, OnCpu, Goto
  <2> QED BY <2>1, <2>2, <2>3, <2>4, <2>5, <2>6, <2>7, <2>8
<1> QED BY <1>a, <1>b

(* ReadAhead keeps the inductive invariant. *)
LEMMA ReadAheadInv ==
    ASSUME IInv, NEW p \in Proc, ReadAhead(p)
    PROVE  IInv'
<1> USE ProcBufAssumption, BlockAssumption, ValAssumption DEF IInv, Getter
<1>a. CASE ra[p] # Nil /\ ~Incore(ra[p])
  <2>1. TypeOK'
    BY <1>a DEF TypeOK, Label, Op, ReadAhead, Goto, bufVars
  <2>2. Registers'
    BY <1>a DEF Registers, TypeOK, ReadAhead, At, OnCpu, Goto, bufVars
  <2>3. Transfers'
    BY <1>a DEF Transfers, TypeOK, Registers, Holding, OneOwner, Owns, Detached, ReadAhead, At, OnCpu, Goto, bufVars
  <2>4. Holding'
    BY <1>a DEF Holding, TypeOK, Registers, Transfers, OneOwner, Owns, Detached, Target, ReadAhead, At, OnCpu, Goto, bufVars
  <2>5. AvailIffNotBusy'
    BY <1>a, StillAvail DEF TypeOK, Registers, ReadAhead, At, OnCpu, Goto, bufVars
  <2>6. UniqueBlock'
    BY <1>a DEF UniqueBlock, TypeOK, Registers, ReadAhead, At, OnCpu, Goto, bufVars
  <2>7. OneOwner'
    <3>1. \A q \in Proc, c \in Buf : Owns(q, c)' <=> Owns(q, c)
      BY <1>a DEF Owns, OneOwner, TypeOK, Registers, ReadAhead, At, OnCpu, Goto, bufVars
    <3>2. \A c \in Buf : "BUSY" \in flags'[c] <=> "BUSY" \in flags[c]
      BY <1>a DEF TypeOK, Registers, ReadAhead, At, OnCpu, Goto, bufVars
    <3>3. \A c \in Buf : Detached(c)' <=> Detached(c)
      BY <1>a DEF Detached, TypeOK, Registers, ReadAhead, At, OnCpu, Goto, bufVars
    <3>4. \A c \in Buf : c \in ioq' => "BUSY" \in flags'[c]
      BY <1>a, <3>2 DEF OneOwner, ReadAhead, At, OnCpu, Goto, bufVars
    <3> QED BY <3>1, <3>2, <3>3, <3>4, OwnersSame
  <2>8. NoLostWakeup'
    BY <1>a DEF NoLostWakeup, TypeOK, Registers, Transfers, Holding, OneOwner, Owns, Detached, ReadAhead, At, OnCpu, Goto, bufVars
  <2> QED BY <2>1, <2>2, <2>3, <2>4, <2>5, <2>6, <2>7, <2>8
<1>b. CASE ~(ra[p] # Nil /\ ~Incore(ra[p]))
  <2>1. TypeOK'
    BY <1>b DEF TypeOK, Label, Op, ReadAhead, Goto, bufVars
  <2>2. Registers'
    BY <1>b DEF Registers, TypeOK, ReadAhead, At, OnCpu, Goto, bufVars
  <2>3. Transfers'
    BY <1>b DEF Transfers, TypeOK, Registers, Holding, OneOwner, Owns, Detached, ReadAhead, At, OnCpu, Goto, bufVars
  <2>4. Holding'
    BY <1>b DEF Holding, TypeOK, Registers, Transfers, OneOwner, Owns, Detached, Target, ReadAhead, At, OnCpu, Goto, bufVars
  <2>5. AvailIffNotBusy'
    BY <1>b, StillAvail DEF TypeOK, Registers, ReadAhead, At, OnCpu, Goto, bufVars
  <2>6. UniqueBlock'
    BY <1>b DEF UniqueBlock, TypeOK, Registers, ReadAhead, At, OnCpu, Goto, bufVars
  <2>7. OneOwner'
    <3>1. \A q \in Proc, c \in Buf : Owns(q, c)' <=> Owns(q, c)
      BY <1>b DEF Owns, OneOwner, TypeOK, Registers, ReadAhead, At, OnCpu, Goto, bufVars
    <3>2. \A c \in Buf : "BUSY" \in flags'[c] <=> "BUSY" \in flags[c]
      BY <1>b DEF TypeOK, Registers, ReadAhead, At, OnCpu, Goto, bufVars
    <3>3. \A c \in Buf : Detached(c)' <=> Detached(c)
      BY <1>b DEF Detached, TypeOK, Registers, ReadAhead, At, OnCpu, Goto, bufVars
    <3>4. \A c \in Buf : c \in ioq' => "BUSY" \in flags'[c]
      BY <1>b, <3>2 DEF OneOwner, ReadAhead, At, OnCpu, Goto, bufVars
    <3> QED BY <3>1, <3>2, <3>3, <3>4, OwnersSame
  <2>8. NoLostWakeup'
    BY <1>b DEF NoLostWakeup, TypeOK, Registers, Transfers, Holding, OneOwner, Owns, Detached, ReadAhead, At, OnCpu, Goto, bufVars
  <2> QED BY <2>1, <2>2, <2>3, <2>4, <2>5, <2>6, <2>7, <2>8
<1> QED BY <1>a, <1>b

(* ReadaGot keeps the inductive invariant. *)
LEMMA ReadaGotInv ==
    ASSUME IInv, NEW p \in Proc, ReadaGot(p)
    PROVE  IInv'
<1> USE ProcBufAssumption, BlockAssumption, ValAssumption DEF IInv, Getter
<1>f. /\ gb[p] \in Buf /\ "BUSY" \in flags[gb[p]] /\ flags[gb[p]] \in SUBSET Flag
      /\ gb[p] \notin ioq /\ "ASYNC" \notin flags[gb[p]]
  BY DEF ReadaGot, At, Registers, OneOwner, Owns, TypeOK, Transfers, Holding
<1>k. "DONE" \notin flags[gb[p]] => blk[gb[p]] # NoDev
  BY DEF ReadaGot, At, Registers, Holding, Target
<1>g. "DONE" \in flags[gb[p]] => /\ flags' \in [Buf -> SUBSET Flag] /\ blk' \in [Buf -> Block \cup {NoDev}]
                                 /\ free' \in Seq(Buf) /\ fwanted' \in BOOLEAN
                                 /\ chan' \in [Proc -> Buf \cup {FreeList, Nil}]
                                 /\ AvailIffNotBusy'
  BY <1>f, BrelseAvail DEF ReadaGot
<1>a. CASE "DONE" \in flags[gb[p]]
  <2>1. TypeOK'
    BY <1>a, <1>f, <1>g DEF TypeOK, Registers, Label, Op, Flag, ReadaGot, At, OnCpu, Goto, Brelse, Awake
  <2>2. Registers'
    BY <1>a, <1>f, <1>g DEF Registers, TypeOK, ReadaGot, At, OnCpu, Goto, Brelse, Awake
  <2>3. Transfers'
    <3>1. \A c \in Buf : c # gb[p] => flags'[c] = flags[c] /\ blk'[c] = blk[c]
      BY <1>a, <1>f DEF ReadaGot, Brelse, TypeOK
    <3>2. /\ flags'[gb[p]] = flags[gb[p]] \ {"WANTED", "BUSY", "ASYNC", "AGE"} /\ ioq' = ioq
          /\ "ERROR" \notin flags[gb[p]] => blk'[gb[p]] = blk[gb[p]]
      BY <1>a, <1>f DEF ReadaGot, Brelse, TypeOK
    <3> QED BY <3>1, <3>2, <1>f DEF Transfers
  <2>4. Holding'
    <3>1. \A c \in Buf : c # gb[p] => flags'[c] = flags[c] /\ blk'[c] = blk[c]
      BY <1>a, <1>f DEF ReadaGot, Brelse, TypeOK
    <3>3. "DONE" \in flags'[gb[p]] /\ ioq' = ioq
      BY <1>a, <1>f DEF ReadaGot, Brelse, TypeOK
    <3> QED BY <1>a, <1>f, <3>1, <3>3 DEF Holding, TypeOK, Registers, Target, ReadaGot, At, OnCpu, Goto
  <2>5. AvailIffNotBusy'
    BY <1>f, <1>g, <1>a
  <2>6. UniqueBlock'
    BY <1>a, <1>f, <1>g DEF UniqueBlock, TypeOK, Registers, ReadaGot, At, OnCpu, Goto, Brelse, Awake
  <2>7. OneOwner'
    <3>1. \A q \in Proc, c \in Buf : Owns(q, c)' <=> Owns(q, c) /\ c # gb[p]
      BY <1>a, <1>f DEF Owns, OneOwner, TypeOK, Registers, ReadaGot, At, OnCpu, Goto, Brelse, Awake, Holding
    <3>2. \A c \in Buf : "BUSY" \in flags'[c] <=> "BUSY" \in flags[c] /\ c # gb[p]
      BY <1>a, <1>f DEF TypeOK, Registers, ReadaGot, At, OnCpu, Goto, Brelse, Awake
    <3>3. \A c \in Buf : Detached(c)' <=> Detached(c) /\ c # gb[p]
      BY <1>a, <1>f DEF Detached, TypeOK, Registers, ReadaGot, At, OnCpu, Goto, Brelse, Awake
    <3>4. ioq' = ioq
      BY <1>a, <1>f DEF ReadaGot
    <3> QED BY <1>a, <1>f, <3>1, <3>2, <3>3, <3>4, OwnersLess
  <2>8. NoLostWakeup'
    BY <1>a, <1>f, <1>g DEF NoLostWakeup, TypeOK, Registers, Transfers, Holding, OneOwner, Owns, Detached, ReadaGot, At, OnCpu, Goto, Brelse, Awake
  <2> QED BY <2>1, <2>2, <2>3, <2>4, <2>5, <2>6, <2>7, <2>8
<1>b. CASE "DONE" \notin flags[gb[p]]
  <2>1. TypeOK'
    <3>1. flags' \in [Buf -> SUBSET Flag] /\ ioq' \in SUBSET Buf
      BY <1>b, <1>f DEF TypeOK, Flag, ReadaGot
    <3> QED BY <1>b, <3>1, <1>f DEF TypeOK, Label, ReadaGot, Goto
  <2>2. Registers'
    BY <1>b, <1>f DEF Registers, TypeOK, ReadaGot, At, OnCpu, Goto, Brelse, Awake
  <2>3. Transfers'
    BY <1>b, <1>f, <1>k DEF TypeOK, Transfers, ReadaGot, At, OnCpu, Goto
  <2>4. Holding'
    BY <1>b, <1>f DEF Holding, TypeOK, Registers, Transfers, OneOwner, Owns, Detached, Target, ReadaGot, At, OnCpu, Goto, Brelse, Awake
  <2>5. AvailIffNotBusy'
    BY <1>b, <1>f, StillAvail DEF TypeOK, ReadaGot
  <2>6. UniqueBlock'
    BY <1>b, <1>f DEF UniqueBlock, TypeOK, Registers, ReadaGot, At, OnCpu, Goto, Brelse, Awake
  <2>7. OneOwner'
    BY <1>b, <1>f DEF OneOwner, TypeOK, Registers, Transfers, Holding, Owns, Detached, ReadaGot, At, OnCpu, Goto, Brelse, Awake
  <2>8. NoLostWakeup'
    BY <1>b, <1>f DEF NoLostWakeup, TypeOK, Registers, Transfers, Holding, OneOwner, Owns, Detached, ReadaGot, At, OnCpu, Goto, Brelse, Awake
  <2> QED BY <2>1, <2>2, <2>3, <2>4, <2>5, <2>6, <2>7, <2>8
<1> QED BY <1>a, <1>b

(* BreadaEnd keeps the inductive invariant. *)
LEMMA BreadaEndInv ==
    ASSUME IInv, NEW p \in Proc, BreadaEnd(p)
    PROVE  IInv'
<1> USE ProcBufAssumption, BlockAssumption, ValAssumption DEF IInv, Getter
<1>1. TypeOK'
  BY DEF TypeOK, Registers, Label, Op, Flag, BreadaEnd, At, OnCpu, Goto, bufVars
<1>2. Registers'
  BY DEF Registers, TypeOK, BreadaEnd, At, OnCpu, Goto, bufVars
<1>3. Transfers'
  BY DEF Transfers, TypeOK, Registers, Holding, OneOwner, Owns, Detached, BreadaEnd, At, OnCpu, Goto, bufVars
<1>4. Holding'
  BY DEF Holding, TypeOK, Registers, Transfers, OneOwner, Owns, Detached, Target, BreadaEnd, At, OnCpu, Goto, bufVars
<1>5. AvailIffNotBusy'
  BY StillAvail DEF TypeOK, Registers, BreadaEnd, At, OnCpu, Goto, bufVars
<1>6. UniqueBlock'
  BY DEF UniqueBlock, TypeOK, Registers, BreadaEnd, At, OnCpu, Goto, bufVars
<1>7. OneOwner'
  <2>1. \A q \in Proc, c \in Buf : Owns(q, c)' <=> Owns(q, c)
    BY DEF Owns, OneOwner, TypeOK, Registers, BreadaEnd, At, OnCpu, Goto, bufVars
  <2>2. \A c \in Buf : "BUSY" \in flags'[c] <=> "BUSY" \in flags[c]
    BY DEF TypeOK, Registers, BreadaEnd, At, OnCpu, Goto, bufVars
  <2>3. \A c \in Buf : Detached(c)' <=> Detached(c)
    BY DEF Detached, TypeOK, Registers, BreadaEnd, At, OnCpu, Goto, bufVars
  <2>4. \A c \in Buf : c \in ioq' => "BUSY" \in flags'[c]
    BY <2>2 DEF OneOwner, BreadaEnd, At, OnCpu, Goto, bufVars
  <2> QED BY <2>1, <2>2, <2>3, <2>4, OwnersSame
<1>8. NoLostWakeup'
  BY DEF NoLostWakeup, TypeOK, Registers, Transfers, Holding, OneOwner, Owns, Detached, BreadaEnd, At, OnCpu, Goto, bufVars
<1> QED BY <1>1, <1>2, <1>3, <1>4, <1>5, <1>6, <1>7, <1>8

(* GetblkGot keeps the inductive invariant. *)
LEMMA GetblkGotInv ==
    ASSUME IInv, NEW p \in Proc, GetblkGot(p)
    PROVE  IInv'
<1> USE ProcBufAssumption, BlockAssumption, ValAssumption DEF IInv, Getter
<1>n. bp[p] = Nil /\ gb[p] \in Buf
  BY DEF GetblkGot, At, Registers, TypeOK
<1>1. TypeOK'
  BY <1>n DEF TypeOK, Registers, Label, Op, Flag, GetblkGot, At, OnCpu, Goto, bufVars
<1>2. Registers'
  BY <1>n DEF Registers, TypeOK, GetblkGot, At, OnCpu, Goto, bufVars
<1>3. Transfers'
  BY <1>n DEF Transfers, TypeOK, Registers, Holding, OneOwner, Owns, Detached, GetblkGot, At, OnCpu, Goto, bufVars
<1>4. Holding'
  BY <1>n DEF Holding, TypeOK, Registers, Transfers, OneOwner, Owns, Detached, Target, GetblkGot, At, OnCpu, Goto, bufVars
<1>5. AvailIffNotBusy'
  BY StillAvail DEF GetblkGot, bufVars
<1>6. UniqueBlock'
  BY <1>n DEF UniqueBlock, TypeOK, Registers, GetblkGot, At, OnCpu, Goto, bufVars
<1>7. OneOwner'
  <2>1. \A q \in Proc, c \in Buf : Owns(q, c)' <=> Owns(q, c)
    BY <1>n DEF Owns, OneOwner, TypeOK, Registers, GetblkGot, At, OnCpu, Goto, bufVars
  <2>2. \A c \in Buf : "BUSY" \in flags'[c] <=> "BUSY" \in flags[c]
    BY <1>n DEF TypeOK, Registers, GetblkGot, At, OnCpu, Goto, bufVars
  <2>3. \A c \in Buf : Detached(c)' <=> Detached(c)
    BY <1>n DEF Detached, TypeOK, Registers, GetblkGot, At, OnCpu, Goto, bufVars
  <2>4. \A c \in Buf : c \in ioq' => "BUSY" \in flags'[c]
    BY <1>n, <2>2 DEF OneOwner, GetblkGot, At, OnCpu, Goto, bufVars
  <2> QED BY <2>1, <2>2, <2>3, <2>4, OwnersSame
<1>8. NoLostWakeup'
  BY <1>n DEF NoLostWakeup, TypeOK, Registers, Transfers, Holding, OneOwner, Owns, Detached, GetblkGot, At, OnCpu, Goto, bufVars
<1> QED BY <1>1, <1>2, <1>3, <1>4, <1>5, <1>6, <1>7, <1>8

(* IowaitSleep keeps the inductive invariant. *)
LEMMA IowaitSleepInv ==
    ASSUME IInv, NEW p \in Proc, IowaitSleep(p)
    PROVE  IInv'
<1> USE ProcBufAssumption, BlockAssumption, ValAssumption DEF IInv, Getter
<1>1. TypeOK'
  BY DEF TypeOK, Registers, Label, Op, Flag, IowaitSleep, At, OnCpu, Sleep, bufVars
<1>2. Registers'
  BY DEF Registers, TypeOK, IowaitSleep, At, OnCpu, Sleep, bufVars
<1>3. Transfers'
  BY DEF Transfers, TypeOK, Registers, Holding, OneOwner, Owns, Detached, IowaitSleep, At, OnCpu, Sleep, bufVars
<1>4. Holding'
  BY DEF Holding, TypeOK, Registers, Transfers, OneOwner, Owns, Detached, Target, IowaitSleep, At, OnCpu, Sleep, bufVars
<1>5. AvailIffNotBusy'
  BY StillAvail DEF TypeOK, Registers, IowaitSleep, At, OnCpu, Sleep, bufVars
<1>6. UniqueBlock'
  BY DEF UniqueBlock, TypeOK, Registers, IowaitSleep, At, OnCpu, Sleep, bufVars
<1>7. OneOwner'
  <2>1. \A q \in Proc, c \in Buf : Owns(q, c)' <=> Owns(q, c)
    BY DEF Owns, OneOwner, TypeOK, Registers, IowaitSleep, At, OnCpu, Sleep, bufVars
  <2>2. \A c \in Buf : "BUSY" \in flags'[c] <=> "BUSY" \in flags[c]
    BY DEF TypeOK, Registers, IowaitSleep, At, OnCpu, Sleep, bufVars
  <2>3. \A c \in Buf : Detached(c)' <=> Detached(c)
    BY DEF Detached, TypeOK, Registers, IowaitSleep, At, OnCpu, Sleep, bufVars
  <2>4. \A c \in Buf : c \in ioq' => "BUSY" \in flags'[c]
    BY <2>2 DEF OneOwner, IowaitSleep, At, OnCpu, Sleep, bufVars
  <2> QED BY <2>1, <2>2, <2>3, <2>4, OwnersSame
<1>8. NoLostWakeup'
  BY DEF NoLostWakeup, TypeOK, Registers, Transfers, Holding, OneOwner, Owns, Detached, IowaitSleep, At, OnCpu, Sleep, bufVars
<1> QED BY <1>1, <1>2, <1>3, <1>4, <1>5, <1>6, <1>7, <1>8

(* IowaitRead keeps the inductive invariant. *)
LEMMA IowaitReadInv ==
    ASSUME IInv, NEW p \in Proc, IowaitRead(p)
    PROVE  IInv'
<1> USE ProcBufAssumption, BlockAssumption, ValAssumption DEF IInv, Getter
<1>1. TypeOK'
  BY DEF TypeOK, Registers, Label, Op, Flag, IowaitRead, At, OnCpu, Goto, bufVars
<1>2. Registers'
  BY DEF Registers, TypeOK, IowaitRead, At, OnCpu, Goto, bufVars
<1>3. Transfers'
  BY DEF Transfers, TypeOK, Registers, Holding, OneOwner, Owns, Detached, IowaitRead, At, OnCpu, Goto, bufVars
<1>4. Holding'
  BY DEF Holding, TypeOK, Registers, Transfers, OneOwner, Owns, Detached, Target, IowaitRead, At, OnCpu, Goto, bufVars
<1>5. AvailIffNotBusy'
  BY StillAvail DEF TypeOK, Registers, IowaitRead, At, OnCpu, Goto, bufVars
<1>6. UniqueBlock'
  BY DEF UniqueBlock, TypeOK, Registers, IowaitRead, At, OnCpu, Goto, bufVars
<1>7. OneOwner'
  <2>1. \A q \in Proc, c \in Buf : Owns(q, c)' <=> Owns(q, c)
    BY DEF Owns, OneOwner, TypeOK, Registers, IowaitRead, At, OnCpu, Goto, bufVars
  <2>2. \A c \in Buf : "BUSY" \in flags'[c] <=> "BUSY" \in flags[c]
    BY DEF TypeOK, Registers, IowaitRead, At, OnCpu, Goto, bufVars
  <2>3. \A c \in Buf : Detached(c)' <=> Detached(c)
    BY DEF Detached, TypeOK, Registers, IowaitRead, At, OnCpu, Goto, bufVars
  <2>4. \A c \in Buf : c \in ioq' => "BUSY" \in flags'[c]
    BY <2>2 DEF OneOwner, IowaitRead, At, OnCpu, Goto, bufVars
  <2> QED BY <2>1, <2>2, <2>3, <2>4, OwnersSame
<1>8. NoLostWakeup'
  BY DEF NoLostWakeup, TypeOK, Registers, Transfers, Holding, OneOwner, Owns, Detached, IowaitRead, At, OnCpu, Goto, bufVars
<1> QED BY <1>1, <1>2, <1>3, <1>4, <1>5, <1>6, <1>7, <1>8

(* IowaitWrite keeps the inductive invariant. *)
LEMMA IowaitWriteInv ==
    ASSUME IInv, NEW p \in Proc, IowaitWrite(p)
    PROVE  IInv'
<1> USE ProcBufAssumption, BlockAssumption, ValAssumption DEF IInv, Getter
<1>f. bp[p] \in Buf /\ "BUSY" \in flags[bp[p]] /\ flags[bp[p]] \in SUBSET Flag /\ bp[p] \notin ioq
      /\ "ASYNC" \notin flags[bp[p]]
  BY DEF IowaitWrite, At, Registers, OneOwner, Owns, TypeOK, Transfers, Holding
<1>g. /\ flags' \in [Buf -> SUBSET Flag] /\ blk' \in [Buf -> Block \cup {NoDev}]
      /\ free' \in Seq(Buf) /\ fwanted' \in BOOLEAN
      /\ chan' \in [Proc -> Buf \cup {FreeList, Nil}]
      /\ AvailIffNotBusy'
  BY <1>f, BrelseAvail DEF IowaitWrite
<1>1. TypeOK'
  BY <1>g, <1>f DEF TypeOK, Registers, Label, Op, Flag, IowaitWrite, At, OnCpu, Goto, Brelse, Awake, Forget
<1>2. Registers'
  BY <1>g, <1>f DEF Registers, TypeOK, IowaitWrite, At, OnCpu, Goto, Brelse, Awake, Forget
<1>3. Transfers'
  BY <1>g, <1>f DEF Transfers, TypeOK, Registers, Holding, OneOwner, Owns, Detached, IowaitWrite, At, OnCpu, Goto, Brelse, Awake, Forget
<1>4. Holding'
  BY <1>g, <1>f DEF Holding, TypeOK, Registers, Transfers, OneOwner, Owns, Detached, Target, IowaitWrite, At, OnCpu, Goto, Brelse, Awake, Forget
<1>5. AvailIffNotBusy'
  BY <1>g
<1>6. UniqueBlock'
  BY <1>g, <1>f DEF UniqueBlock, TypeOK, Registers, IowaitWrite, At, OnCpu, Goto, Brelse, Awake, Forget
<1>7. OneOwner'
  <2>1. \A q \in Proc, c \in Buf : Owns(q, c)' <=> Owns(q, c) /\ c # bp[p]
    BY <1>f DEF Owns, OneOwner, TypeOK, Registers, IowaitWrite, At, OnCpu, Goto, Brelse, Awake, Forget
  <2>2. \A c \in Buf : "BUSY" \in flags'[c] <=> "BUSY" \in flags[c] /\ c # bp[p]
    BY <1>f DEF TypeOK, Registers, IowaitWrite, At, OnCpu, Goto, Brelse, Awake, Forget
  <2>3. \A c \in Buf : Detached(c)' <=> Detached(c) /\ c # bp[p]
    BY <1>f DEF Detached, TypeOK, Registers, IowaitWrite, At, OnCpu, Goto, Brelse, Awake, Forget
  <2>4. ioq' = ioq
    BY <1>f DEF IowaitWrite
  <2> QED BY <1>f, <2>1, <2>2, <2>3, <2>4, OwnersLess
<1>8. NoLostWakeup'
  BY <1>g, <1>f DEF NoLostWakeup, TypeOK, Registers, Transfers, Holding, OneOwner, Owns, Detached, IowaitWrite, At, OnCpu, Goto, Brelse, Awake, Forget
<1> QED BY <1>1, <1>2, <1>3, <1>4, <1>5, <1>6, <1>7, <1>8

(* Release keeps the inductive invariant. *)
LEMMA ReleaseInv ==
    ASSUME IInv, NEW p \in Proc, Release(p)
    PROVE  IInv'
<1> USE ProcBufAssumption, BlockAssumption, ValAssumption DEF IInv, Getter
<1>f. bp[p] \in Buf /\ "BUSY" \in flags[bp[p]] /\ flags[bp[p]] \in SUBSET Flag /\ bp[p] \notin ioq
      /\ "ASYNC" \notin flags[bp[p]]
  BY DEF Release, At, Registers, OneOwner, Owns, TypeOK, Transfers, Holding
<1>g. /\ flags' \in [Buf -> SUBSET Flag] /\ blk' \in [Buf -> Block \cup {NoDev}]
      /\ free' \in Seq(Buf) /\ fwanted' \in BOOLEAN
      /\ chan' \in [Proc -> Buf \cup {FreeList, Nil}]
      /\ AvailIffNotBusy'
  BY <1>f, BrelseAvail DEF Release
<1>1. TypeOK'
  BY <1>g, <1>f DEF TypeOK, Registers, Label, Op, Flag, Release, At, OnCpu, Goto, Brelse, Awake, Forget
<1>2. Registers'
  BY <1>g, <1>f DEF Registers, TypeOK, Release, At, OnCpu, Goto, Brelse, Awake, Forget
<1>3. Transfers'
  BY <1>g, <1>f DEF Transfers, TypeOK, Registers, Holding, OneOwner, Owns, Detached, Release, At, OnCpu, Goto, Brelse, Awake, Forget
<1>4. Holding'
  BY <1>g, <1>f DEF Holding, TypeOK, Registers, Transfers, OneOwner, Owns, Detached, Target, Release, At, OnCpu, Goto, Brelse, Awake, Forget
<1>5. AvailIffNotBusy'
  BY <1>g
<1>6. UniqueBlock'
  BY <1>g, <1>f DEF UniqueBlock, TypeOK, Registers, Release, At, OnCpu, Goto, Brelse, Awake, Forget
<1>7. OneOwner'
  <2>1. \A q \in Proc, c \in Buf : Owns(q, c)' <=> Owns(q, c) /\ c # bp[p]
    BY <1>f DEF Owns, OneOwner, TypeOK, Registers, Release, At, OnCpu, Goto, Brelse, Awake, Forget
  <2>2. \A c \in Buf : "BUSY" \in flags'[c] <=> "BUSY" \in flags[c] /\ c # bp[p]
    BY <1>f DEF TypeOK, Registers, Release, At, OnCpu, Goto, Brelse, Awake, Forget
  <2>3. \A c \in Buf : Detached(c)' <=> Detached(c) /\ c # bp[p]
    BY <1>f DEF Detached, TypeOK, Registers, Release, At, OnCpu, Goto, Brelse, Awake, Forget
  <2>4. ioq' = ioq
    BY <1>f DEF Release
  <2> QED BY <1>f, <2>1, <2>2, <2>3, <2>4, OwnersLess
<1>8. NoLostWakeup'
  BY <1>g, <1>f DEF NoLostWakeup, TypeOK, Registers, Transfers, Holding, OneOwner, Owns, Detached, Release, At, OnCpu, Goto, Brelse, Awake, Forget
<1> QED BY <1>1, <1>2, <1>3, <1>4, <1>5, <1>6, <1>7, <1>8

(* Bwrite keeps the inductive invariant. *)
LEMMA BwriteInv ==
    ASSUME IInv, NEW p \in Proc, NEW v \in Val, Bwrite(p, v)
    PROVE  IInv'
<1> USE ProcBufAssumption, BlockAssumption, ValAssumption DEF IInv, Getter
<1>f. /\ bp[p] \in Buf /\ "BUSY" \in flags[bp[p]] /\ bp[p] \notin ioq
      /\ "ASYNC" \notin flags[bp[p]]
  BY DEF Bwrite, Writable, At, Registers, OneOwner, Owns, TypeOK, Transfers, Holding
<1>1. TypeOK'
  BY <1>f DEF TypeOK, Registers, Label, Op, Flag, Bwrite, At, OnCpu, Goto, Writable, WriteFlags
<1>2. Registers'
  BY <1>f DEF Registers, TypeOK, Bwrite, At, OnCpu, Goto, Writable, WriteFlags
<1>3. Transfers'
  BY <1>f DEF Transfers, TypeOK, Registers, Holding, OneOwner, Owns, Detached, Bwrite, At, OnCpu, Goto, Writable, WriteFlags
<1>4. Holding'
  BY <1>f DEF Holding, TypeOK, Registers, Transfers, OneOwner, Owns, Detached, Target, Bwrite, At, OnCpu, Goto, Writable, WriteFlags
<1>5. AvailIffNotBusy'
  BY <1>f, StillAvail DEF TypeOK, Bwrite, WriteFlags
<1>6. UniqueBlock'
  BY <1>f DEF UniqueBlock, TypeOK, Registers, Bwrite, At, OnCpu, Goto, Writable, WriteFlags
<1>7. OneOwner'
  <2>1. \A q \in Proc, c \in Buf : Owns(q, c)' <=> Owns(q, c)
    BY <1>f DEF Owns, OneOwner, TypeOK, Registers, Bwrite, At, OnCpu, Goto, Writable, WriteFlags
  <2>2. \A c \in Buf : "BUSY" \in flags'[c] <=> "BUSY" \in flags[c]
    BY <1>f DEF TypeOK, Registers, Bwrite, At, OnCpu, Goto, Writable, WriteFlags
  <2>3. \A c \in Buf : Detached(c)' <=> Detached(c)
    BY <1>f DEF Detached, TypeOK, Registers, Bwrite, At, OnCpu, Goto, Writable, WriteFlags
  <2>4. \A c \in Buf : c \in ioq' => "BUSY" \in flags'[c]
    BY <1>f, <2>2 DEF OneOwner, Bwrite, At, OnCpu, Goto, Writable, WriteFlags
  <2> QED BY <2>1, <2>2, <2>3, <2>4, OwnersSame
<1>8. NoLostWakeup'
  BY <1>f DEF NoLostWakeup, TypeOK, Registers, Transfers, Holding, OneOwner, Owns, Detached, Bwrite, At, OnCpu, Goto, Writable, WriteFlags
<1> QED BY <1>1, <1>2, <1>3, <1>4, <1>5, <1>6, <1>7, <1>8

(* AsyncWrite keeps the inductive invariant. *)
LEMMA AsyncWriteInv ==
    ASSUME IInv, NEW p \in Proc, NEW v \in Val, Writable(p), AsyncWrite(p, v)
    PROVE  IInv'
<1> USE ProcBufAssumption, BlockAssumption, ValAssumption DEF IInv, Getter
<1>f. bp[p] \in Buf /\ flags[bp[p]] \in SUBSET Flag
  BY DEF Writable, At, Registers, TypeOK
<1>a. CASE "DELWRI" \in flags[bp[p]]
  <2>1. TypeOK'
    BY <1>a, <1>f DEF TypeOK, Label, Op, Flag, AsyncWrite, WriteFlags, Forget, Goto
  <2>2. Registers'
    BY <1>a, <1>f DEF Registers, TypeOK, AsyncWrite, At, OnCpu, Goto, WriteFlags, Forget, Writable
  <2>3. Transfers'
    BY <1>a, <1>f DEF Transfers, TypeOK, Registers, Holding, OneOwner, Owns, Detached, AsyncWrite, At, OnCpu, Goto, WriteFlags, Forget, Writable
  <2>4. Holding'
    BY <1>a, <1>f DEF Holding, TypeOK, Registers, Transfers, OneOwner, Owns, Detached, Target, AsyncWrite, At, OnCpu, Goto, WriteFlags, Forget, Writable
  <2>5. AvailIffNotBusy'
    BY <1>a, StillAvail DEF TypeOK, Registers, AsyncWrite, At, OnCpu, Goto, WriteFlags, Forget, Writable
  <2>6. UniqueBlock'
    BY <1>a, <1>f DEF UniqueBlock, TypeOK, Registers, AsyncWrite, At, OnCpu, Goto, WriteFlags, Forget, Writable
  <2>7. OneOwner'
    BY <1>a, <1>f DEF OneOwner, TypeOK, Registers, Transfers, Holding, Owns, Detached, AsyncWrite, At, OnCpu, Goto, WriteFlags, Forget, Writable
  <2>8. NoLostWakeup'
    BY <1>a, <1>f DEF NoLostWakeup, TypeOK, Registers, Transfers, Holding, OneOwner, Owns, Detached, AsyncWrite, At, OnCpu, Goto, WriteFlags, Forget, Writable
  <2> QED BY <2>1, <2>2, <2>3, <2>4, <2>5, <2>6, <2>7, <2>8
<1>b. CASE "DELWRI" \notin flags[bp[p]]
  <2>1. TypeOK'
    BY <1>b, <1>f DEF TypeOK, Label, Op, Flag, AsyncWrite, WriteFlags, Forget, Goto
  <2>2. Registers'
    BY <1>b, <1>f DEF Registers, TypeOK, AsyncWrite, At, OnCpu, Goto, WriteFlags, Forget, Writable
  <2>3. Transfers'
    BY <1>b, <1>f DEF Transfers, TypeOK, Registers, Holding, OneOwner, Owns, Detached, AsyncWrite, At, OnCpu, Goto, WriteFlags, Forget, Writable
  <2>4. Holding'
    BY <1>b, <1>f DEF Holding, TypeOK, Registers, Transfers, OneOwner, Owns, Detached, Target, AsyncWrite, At, OnCpu, Goto, WriteFlags, Forget, Writable
  <2>5. AvailIffNotBusy'
    BY <1>b, StillAvail DEF TypeOK, Registers, AsyncWrite, At, OnCpu, Goto, WriteFlags, Forget, Writable
  <2>6. UniqueBlock'
    BY <1>b, <1>f DEF UniqueBlock, TypeOK, Registers, AsyncWrite, At, OnCpu, Goto, WriteFlags, Forget, Writable
  <2>7. OneOwner'
    BY <1>b, <1>f DEF OneOwner, TypeOK, Registers, Transfers, Holding, Owns, Detached, AsyncWrite, At, OnCpu, Goto, WriteFlags, Forget, Writable
  <2>8. NoLostWakeup'
    BY <1>b, <1>f DEF NoLostWakeup, TypeOK, Registers, Transfers, Holding, OneOwner, Owns, Detached, AsyncWrite, At, OnCpu, Goto, WriteFlags, Forget, Writable
  <2> QED BY <2>1, <2>2, <2>3, <2>4, <2>5, <2>6, <2>7, <2>8
<1> QED BY <1>a, <1>b

(* Bdwrite keeps the inductive invariant. *)
LEMMA BdwriteInv ==
    ASSUME IInv, NEW p \in Proc, NEW v \in Val, Bdwrite(p, v)
    PROVE  IInv'
<1> USE ProcBufAssumption, BlockAssumption, ValAssumption DEF IInv, Getter
<1>z. CASE DevOf[blk[bp[p]]] \in Tape
  BY <1>z, AsyncWriteInv DEF Bdwrite
<1>f. bp[p] \in Buf /\ "BUSY" \in flags[bp[p]] /\ flags[bp[p]] \cup {"DELWRI", "DONE"} \in SUBSET Flag
      /\ bp[p] \notin ioq /\ "ASYNC" \notin flags[bp[p]]
  BY DEF Bdwrite, Writable, At, Registers, OneOwner, Owns, TypeOK, Transfers, Holding, Flag
<1>g. DevOf[blk[bp[p]]] \notin Tape =>
          /\ flags' \in [Buf -> SUBSET Flag] /\ blk' \in [Buf -> Block \cup {NoDev}]
          /\ free' \in Seq(Buf) /\ fwanted' \in BOOLEAN
          /\ chan' \in [Proc -> Buf \cup {FreeList, Nil}]
          /\ AvailIffNotBusy'
  BY <1>f, BrelseAvail DEF Bdwrite
<1>a. CASE DevOf[blk[bp[p]]] \notin Tape
  <2>1. TypeOK'
    <3>1. data' \in [Buf -> Val] /\ UNCHANGED <<ioq, disk, gb, reply, ra>>
      BY <1>a, <1>f DEF TypeOK, Bdwrite, Forget
    <3>2. /\ pc' \in [Proc -> Label] /\ op' \in [Proc -> Op] /\ cur' = Nil
          /\ want' \in [Proc -> Block \cup Dev \cup {NoDev, Nil}]
          /\ bp' \in [Proc -> Buf \cup {Nil}]
      BY <1>a DEF TypeOK, Label, Op, Bdwrite, Forget, Goto
    <3> QED BY <1>a, <1>g, <3>1, <3>2 DEF TypeOK
  <2>2. Registers'
    BY <1>a, <1>f, <1>g DEF Registers, TypeOK, Bdwrite, At, OnCpu, Goto, Brelse, Awake, Forget, Writable
  <2>3. Transfers'
    <3>1. \A c \in Buf : c # bp[p] => flags'[c] = flags[c] /\ blk'[c] = blk[c]
      BY <1>a, <1>f DEF Bdwrite, Brelse, TypeOK
    <3>2. /\ flags'[bp[p]] = (flags[bp[p]] \cup {"DELWRI", "DONE"}) \ {"WANTED", "BUSY", "ASYNC", "AGE"}
          /\ ioq' = ioq /\ "ERROR" \notin flags[bp[p]] /\ blk[bp[p]] # NoDev /\ blk'[bp[p]] = blk[bp[p]]
      BY <1>a, <1>f DEF Bdwrite, Writable, Brelse, TypeOK
    <3> QED BY <3>1, <3>2, <1>f DEF Transfers
  <2>4. Holding'
    BY <1>a, <1>f, <1>g DEF Holding, TypeOK, Registers, Transfers, OneOwner, Owns, Detached, Target, Bdwrite, At, OnCpu, Goto, Brelse, Awake, Forget, Writable
  <2>5. AvailIffNotBusy'
    BY <1>g, <1>a
  <2>6. UniqueBlock'
    BY <1>a, <1>f DEF UniqueBlock, TypeOK, Bdwrite, Brelse
  <2>7. OneOwner'
    <3>1. \A q \in Proc, c \in Buf : Owns(q, c)' <=> Owns(q, c) /\ c # bp[p]
      BY <1>a, <1>f DEF Owns, OneOwner, TypeOK, Registers, Bdwrite, At, OnCpu, Goto, Brelse, Awake, Forget, Writable
    <3>2. \A c \in Buf : "BUSY" \in flags'[c] <=> "BUSY" \in flags[c] /\ c # bp[p]
      BY <1>a, <1>f DEF TypeOK, Registers, Bdwrite, At, OnCpu, Goto, Brelse, Awake, Forget, Writable
    <3>3. \A c \in Buf : Detached(c)' <=> Detached(c) /\ c # bp[p]
      BY <1>a, <1>f DEF Detached, TypeOK, Registers, Bdwrite, At, OnCpu, Goto, Brelse, Awake, Forget, Writable
    <3>4. ioq' = ioq
      BY <1>a, <1>f DEF Bdwrite
    <3> QED BY <1>a, <1>f, <3>1, <3>2, <3>3, <3>4, OwnersLess
  <2>8. NoLostWakeup'
    <3>1. \A q \in Proc : chan'[q] # Nil => chan'[q] = chan[q] /\ pc'[q] = pc[q] /\ bp'[q] = bp[q] /\ q # p
      BY <1>a, <1>f DEF TypeOK, Registers, Bdwrite, Writable, Brelse, Awake, Forget, At, OnCpu, Goto
    <3>2. \A c \in Buf : c # bp[p] => flags'[c] = flags[c]
      BY <1>a, <1>f DEF TypeOK, Bdwrite, Brelse
    <3>3. \A q \in Proc : chan'[q] # FreeList
      BY <1>a, <1>f DEF TypeOK, NoLostWakeup, Bdwrite, Brelse, Awake
    <3>4. ioq' = ioq
      BY <1>a DEF Bdwrite
    <3>5. \A q \in Proc : chan'[q] # bp[p]
      BY <1>a, <1>f DEF TypeOK, NoLostWakeup, Bdwrite, Brelse, Awake
    <3> QED BY <3>1, <3>2, <3>3, <3>4, <3>5 DEF NoLostWakeup, TypeOK
  <2> QED BY <2>1, <2>2, <2>3, <2>4, <2>5, <2>6, <2>7, <2>8
<1> QED BY <1>a, <1>z

(* BflushWrite keeps the inductive invariant. *)
LEMMA BflushWriteInv ==
    ASSUME IInv, NEW p \in Proc, BflushWrite(p)
    PROVE  IInv'
<1> USE ProcBufAssumption, BlockAssumption, ValAssumption DEF IInv, Getter
<1>i. PICK i \in ToFlush(p) : free' = RemoveAt(free, i) /\ StartDelayed(p, free[i])
  BY DEF BflushWrite
<1> DEFINE b == free[i]
<1>d. i \in DOMAIN free /\ "DELWRI" \in flags[b]
  BY DEF ToFlush
<1>f. /\ b \in Buf /\ "BUSY" \notin flags[b] /\ free' \in Seq(Buf) /\ AvailIffNotBusy'
      /\ flags' = [flags EXCEPT ![b] = WriteFlags(@ \cup {"ASYNC", "BUSY"})]
      /\ "BUSY" \in flags'[b] /\ "ASYNC" \in flags'[b] /\ "DONE" \notin flags'[b]
  <2> DEFINE f == WriteFlags(flags[b] \cup {"ASYNC", "BUSY"})
  <2>1. "BUSY" \in f /\ "ASYNC" \in f /\ "DONE" \notin f
    BY DEF WriteFlags
  <2>2. free' = RemoveAt(free, i) /\ flags' = [flags EXCEPT ![b] = f]
    BY <1>i DEF StartDelayed
  <2>3. b \in Buf /\ "BUSY" \notin flags[b] /\ free' \in Seq(Buf) /\ AvailIffNotBusy'
    <3> HIDE DEF f
    <3> QED BY <2>1, <2>2, <1>d, UnlinkAvail
  <2>4. flags'[b] = f
    BY <2>2, <2>3 DEF TypeOK
  <2> QED BY <2>1, <2>2, <2>3, <2>4
<1>g. b \notin ioq /\ blk[b] # NoDev /\ blk' = blk /\ ioq' = ioq \cup {b} /\ StartDelayed(p, b)
  BY <1>d, <1>f, <1>i DEF Transfers, StartDelayed
<1>e. free # <<>>
  BY <1>d DEF TypeOK
<1> HIDE DEF b
<1>1. TypeOK'
  BY <1>f, <1>g, <1>e DEF TypeOK, Registers, Label, Op, Flag, BflushWrite, At, OnCpu, Goto, StartDelayed, WriteFlags
<1>2. Registers'
  BY <1>f, <1>g, <1>e DEF Registers, TypeOK, BflushWrite, At, OnCpu, Goto, StartDelayed, WriteFlags
<1>3. Transfers'
  BY <1>f, <1>g DEF Transfers, TypeOK, WriteFlags
<1>4. Holding'
  BY <1>f, <1>g, <1>e DEF Holding, TypeOK, Registers, Transfers, OneOwner, Owns, Detached, Target, BflushWrite, At, OnCpu, Goto, StartDelayed, WriteFlags
<1>5. AvailIffNotBusy'
  BY <1>f
<1>6. UniqueBlock'
  BY <1>f, <1>g, <1>e DEF UniqueBlock, TypeOK, Registers, BflushWrite, At, OnCpu, Goto, StartDelayed, WriteFlags
<1>7. OneOwner'
  BY <1>f, <1>g, <1>e DEF OneOwner, TypeOK, Registers, Transfers, Holding, Owns, Detached, BflushWrite, At, OnCpu, Goto, StartDelayed, WriteFlags
<1>8. NoLostWakeup'
  BY <1>f, <1>g, <1>e DEF NoLostWakeup, TypeOK, Registers, Transfers, Holding, OneOwner, Owns, Detached, BflushWrite, At, OnCpu, Goto, StartDelayed, WriteFlags
<1> QED BY <1>1, <1>2, <1>3, <1>4, <1>5, <1>6, <1>7, <1>8

(* BflushDone keeps the inductive invariant. *)
LEMMA BflushDoneInv ==
    ASSUME IInv, NEW p \in Proc, BflushDone(p)
    PROVE  IInv'
<1> USE ProcBufAssumption, BlockAssumption, ValAssumption DEF IInv, Getter
<1>1. TypeOK'
  BY DEF TypeOK, Registers, Label, Op, Flag, BflushDone, At, OnCpu, Goto, bufVars
<1>2. Registers'
  BY DEF Registers, TypeOK, BflushDone, At, OnCpu, Goto, bufVars
<1>3. Transfers'
  BY DEF Transfers, TypeOK, Registers, Holding, OneOwner, Owns, Detached, BflushDone, At, OnCpu, Goto, bufVars
<1>4. Holding'
  BY DEF Holding, TypeOK, Registers, Transfers, OneOwner, Owns, Detached, Target, BflushDone, At, OnCpu, Goto, bufVars
<1>5. AvailIffNotBusy'
  BY StillAvail DEF TypeOK, Registers, BflushDone, At, OnCpu, Goto, bufVars
<1>6. UniqueBlock'
  BY DEF UniqueBlock, TypeOK, Registers, BflushDone, At, OnCpu, Goto, bufVars
<1>7. OneOwner'
  <2>1. \A q \in Proc, c \in Buf : Owns(q, c)' <=> Owns(q, c)
    BY DEF Owns, OneOwner, TypeOK, Registers, BflushDone, At, OnCpu, Goto, bufVars
  <2>2. \A c \in Buf : "BUSY" \in flags'[c] <=> "BUSY" \in flags[c]
    BY DEF TypeOK, Registers, BflushDone, At, OnCpu, Goto, bufVars
  <2>3. \A c \in Buf : Detached(c)' <=> Detached(c)
    BY DEF Detached, TypeOK, Registers, BflushDone, At, OnCpu, Goto, bufVars
  <2>4. \A c \in Buf : c \in ioq' => "BUSY" \in flags'[c]
    BY <2>2 DEF OneOwner, BflushDone, At, OnCpu, Goto, bufVars
  <2> QED BY <2>1, <2>2, <2>3, <2>4, OwnersSame
<1>8. NoLostWakeup'
  BY DEF NoLostWakeup, TypeOK, Registers, Transfers, Holding, OneOwner, Owns, Detached, BflushDone, At, OnCpu, Goto, bufVars
<1> QED BY <1>1, <1>2, <1>3, <1>4, <1>5, <1>6, <1>7, <1>8

(* IoDone keeps the inductive invariant. *)
LEMMA IoDoneInv ==
    ASSUME IInv, NEW b \in Buf, NEW ok \in BOOLEAN, IoDone(b, ok)
    PROVE  IInv'
<1> USE ProcBufAssumption, BlockAssumption, ValAssumption DEF IInv, Getter
<1> DEFINE f == flags[b] \cup {"DONE"} \cup (IF ok THEN {} ELSE {"ERROR"})
<1>f. f \in SUBSET Flag /\ "BUSY" \in flags[b] /\ blk[b] \in Block
  BY DEF IoDone, Transfers, TypeOK, Flag
<1>g. "ASYNC" \in flags[b] => Brelse(b, f)
  BY DEF IoDone
<1>h. "ASYNC" \in flags[b] => 
         /\ flags' \in [Buf -> SUBSET Flag] /\ blk' \in [Buf -> Block \cup {NoDev}]
         /\ free' \in Seq(Buf) /\ fwanted' \in BOOLEAN
         /\ chan' \in [Proc -> Buf \cup {FreeList, Nil}]
         /\ AvailIffNotBusy'
  BY <1>f, <1>g, BrelseAvail
<1>a. CASE "ASYNC" \in flags[b]
  <2>1. TypeOK'
    <3>1. data' \in [Buf -> Val] /\ disk' \in [Block -> Val] /\ ioq' \in SUBSET Buf
      BY <1>f DEF TypeOK, IoDone
    <3> QED BY <3>1, <1>a, <1>f, <1>h DEF TypeOK, IoDone
  <2>2. Registers'
    BY <1>a, <1>f, <1>h DEF Registers, TypeOK, IoDone, Brelse, Awake
  <2>3. Transfers'
    BY <1>a, <1>f, <1>h DEF Transfers, TypeOK, Registers, Holding, OneOwner, Owns, Detached, IoDone, Brelse, Awake
  <2>4. Holding'
    <3>1. /\ \A c \in Buf : c # b => flags'[c] = flags[c] /\ blk'[c] = blk[c]
          /\ "DONE" \in flags'[b] /\ ioq' = ioq \ {b}
      <4> HIDE DEF f
      <4>1. "DONE" \in f
        BY DEF f
      <4> QED BY <1>a, <1>g, <4>1 DEF IoDone, Brelse, TypeOK
    <3> QED BY <3>1, <1>f DEF Holding, TypeOK, Registers, Target, IoDone
  <2>5. AvailIffNotBusy'
    BY <1>a, <1>h
  <2>6. UniqueBlock'
    BY <1>a, <1>f, <1>h DEF UniqueBlock, TypeOK, Registers, IoDone, Brelse, Awake
  <2>7. OneOwner'
    BY <1>a, <1>f, <1>h DEF OneOwner, TypeOK, Registers, Transfers, Holding, Owns, Detached, IoDone, Brelse, Awake
  <2>8. NoLostWakeup'
    BY <1>a, <1>f, <1>h DEF NoLostWakeup, TypeOK, Registers, Transfers, Holding, OneOwner, Owns, Detached, IoDone, Brelse, Awake
  <2> QED BY <2>1, <2>2, <2>3, <2>4, <2>5, <2>6, <2>7, <2>8
<1>b. CASE "ASYNC" \notin flags[b]
  <2>1. TypeOK'
    <3>1. data' \in [Buf -> Val] /\ disk' \in [Block -> Val] /\ ioq' \in SUBSET Buf
      BY <1>f DEF TypeOK, IoDone
    <3>2. /\ flags' = [flags EXCEPT ![b] = f \ {"WANTED"}] /\ chan' = Awake({b})
          /\ UNCHANGED <<blk, free, fwanted>>
      BY <1>b DEF IoDone
    <3>3. flags' \in [Buf -> SUBSET Flag] /\ chan' \in [Proc -> Buf \cup {FreeList, Nil}]
      <4> HIDE DEF f
      <4> QED BY <3>2, <1>f DEF TypeOK, Awake
    <3> QED BY <3>1, <3>2, <3>3 DEF TypeOK, IoDone
  <2>2. Registers'
    BY <1>b, <1>f DEF Registers, TypeOK, IoDone, Brelse, Awake
  <2>3. Transfers'
    BY <1>b, <1>f DEF Transfers, TypeOK, Registers, Holding, OneOwner, Owns, Detached, IoDone, Brelse, Awake
  <2>4. Holding'
    BY <1>b, <1>f DEF Holding, TypeOK, Registers, Transfers, OneOwner, Owns, Detached, Target, IoDone, Brelse, Awake
  <2>5. AvailIffNotBusy'
    BY <1>b, <1>f, StillAvail DEF TypeOK, IoDone
  <2>6. UniqueBlock'
    BY <1>b, <1>f DEF UniqueBlock, TypeOK, Registers, IoDone, Brelse, Awake
  <2>7. OneOwner'
    BY <1>b, <1>f DEF OneOwner, TypeOK, Registers, Transfers, Holding, Owns, Detached, IoDone, Brelse, Awake
  <2>8. NoLostWakeup'
    <3>1. \A q \in Proc : chan'[q] # Nil => chan'[q] = chan[q] /\ chan[q] # b
      BY <1>b DEF IoDone, Awake, TypeOK
    <3>2. \A c \in Buf : c # b => flags'[c] = flags[c] /\ (c \in ioq' <=> c \in ioq)
      BY <1>b DEF IoDone, TypeOK
    <3>3. UNCHANGED <<pc, bp, fwanted, free>>
      BY <1>b DEF IoDone
    <3> QED BY <3>1, <3>2, <3>3 DEF NoLostWakeup, TypeOK
  <2> QED BY <2>1, <2>2, <2>3, <2>4, <2>5, <2>6, <2>7, <2>8
<1> QED BY <1>a, <1>b

(* binit() establishes the inductive invariant. *)
LEMMA InitInv == Init => IInv
<1> SUFFICES ASSUME Init PROVE IInv
  OBVIOUS
<1> USE ProcBufAssumption, BlockAssumption, ValAssumption DEF Init
<1>1. free \in Seq(Buf) /\ IsInjective(free) /\ ToSet(free) = Buf
  <2>1. Cardinality(Buf) \in Nat
    BY FiniteAssumption, FS_CardinalityType
  <2> QED BY <2>1
<1>2. TypeOK
  BY <1>1 DEF TypeOK, Label, Op, Flag
<1>3. AvailIffNotBusy
  BY <1>1 DEF AvailIffNotBusy
<1>4. Registers /\ Transfers /\ Holding
  BY DEF Registers, Transfers, Holding, Getter
<1>5. UniqueBlock /\ OneOwner /\ NoLostWakeup
  BY DEF UniqueBlock, OneOwner, Owns, Detached, NoLostWakeup
<1> QED BY <1>2, <1>3, <1>4, <1>5 DEF IInv

(* Every step of a process, of the disk, and no step at all keep it. *)
LEMMA NextInv == IInv /\ [Next]_vars => IInv'
<1> SUFFICES ASSUME IInv, [Next]_vars PROVE IInv'
  OBVIOUS
<1>1. ASSUME NEW p \in Proc, Call(p) PROVE IInv'
  BY <1>1, BreadInv, BreadaInv, GetblkInv, GeteblkInv, BflushInv DEF Call
<1>2. ASSUME NEW p \in Proc, Return(p) PROVE IInv'
  BY <1>2, ReleaseInv, BwriteInv, BdwriteInv, AsyncWriteInv DEF Return, Bawrite
<1>3. ASSUME NEW p \in Proc, Run(p) PROVE IInv'
  BY <1>2, <1>3, GetblkMatchInv, GetblkBusyInv, GetblkHitInv, WaitAvailInv,
     VictimDelayedInv, ReassignInv, AgeInv, BreadGotInv, BreadaGotInv,
     ReadAheadInv, ReadaGotInv, BreadaEndInv, GetblkGotInv, IowaitSleepInv,
     IowaitReadInv, IowaitWriteInv, BflushWriteInv, BflushDoneInv DEF Run
<1>4. ASSUME NEW b \in Buf, Interrupt(b) PROVE IInv'
  BY <1>4, IoDoneInv DEF Interrupt
<1>5. CASE UNCHANGED vars
  BY <1>5 DEF vars, IInv, TypeOK, Registers, Transfers, Holding, AvailIffNotBusy,
     UniqueBlock, OneOwner, Owns, Detached, NoLostWakeup, Target
<1> QED BY <1>1, <1>3, <1>4, <1>5 DEF Next

(* The inductive invariant holds in every reachable state. *)
THEOREM Invariance == Spec => []IInv
BY InitInv, NextInv, PTL DEF Spec

(* Every variable of bio.c stays in its range: in particular no routine    *)
(* uses a buffer pointer or a sleep channel it has not set.                *)
THEOREM TypeCorrect == Spec => []TypeOK
BY Invariance, PTL DEF IInv

(* The statement of buf.h: a buffer is on the available list, once, if and *)
(* only if it is not busy; at every interrupt, errors included.            *)
THEOREM AvailableListCorrect == Spec => []AvailIffNotBusy
BY Invariance, PTL DEF IInv

(* getblk() never makes a second buffer for a block. *)
THEOREM OneBufferPerBlock == Spec => []UniqueBlock
BY Invariance, PTL DEF IInv

(* A busy buffer has exactly one owner, a process or a transfer. *)
THEOREM BusyMeansOwned == Spec => []OneOwner
BY Invariance, PTL DEF IInv

(* Nobody sleeps in bio.c for an event that has already happened. *)
THEOREM WakeupsNotLost == Spec => []NoLostWakeup
BY Invariance, PTL DEF IInv

-----------------------------------------------------------------------------
(* The refinement of BlockStore, as long as no transfer fails.  A failed   *)
(* transfer loses the data of a delayed write and takes a block from a     *)
(* buffer that somebody has found already, so the assumption is needed.    *)

(* No transfer has failed. *)
NoErrors == \A b \in Buf : "ERROR" \notin flags[b]

(* Who has not asked wants no block; whoever has found, got or holds a     *)
(* buffer has that of the block it asked for, and bread() returns it done. *)
Asked ==
    \A p \in Proc :
      /\ pc[p] = "user" \/ op[p] = "bawrite" => want[p] = Nil
      /\ pc[p] \in {"spl6", "got"} => blk[gb[p]] = Target(p)
      /\ bp[p] \in Buf => blk[bp[p]] = want[p]
      /\ pc[p] = "hold" /\ op[p] = "bread" => "DONE" \in flags[bp[p]]

(* A buffer that is done and is no delayed write agrees with the device.   *)
Clean ==
    \A b \in Buf : "DONE" \in flags[b] /\ "DELWRI" \notin flags[b] /\ blk[b] # NoDev
                     => data[b] = disk[blk[b]]

SInv == IInv /\ NoErrors /\ Asked /\ Clean

-----------------------------------------------------------------------------
(* What a client reads.                                                    *)

(* Content is the data of the one buffer that holds the block, or what the *)
(* device has.                                                             *)
Reads ==
    \A x \in Block :
      /\ \A b \in Buf : blk[b] = x /\ Holds(b) => Content[x] = data[b]
      /\ (\A b \in Buf : ~(blk[b] = x /\ Holds(b))) => Content[x] = disk[x]

LEMMA ContentOf == UniqueBlock => Reads
<1> SUFFICES ASSUME UniqueBlock, NEW x \in Block
             PROVE  /\ \A b \in Buf : blk[b] = x /\ Holds(b) => Content[x] = data[b]
                    /\ (\A b \in Buf : ~(blk[b] = x /\ Holds(b))) => Content[x] = disk[x]
  BY DEF Reads
<1> DEFINE c == CHOOSE b \in Buf : blk[b] = x /\ Holds(b)
<1>1. Content[x] = IF \E b \in Buf : blk[b] = x /\ Holds(b) THEN data[c] ELSE disk[x]
  BY DEF Content
<1>2. (\E b \in Buf : blk[b] = x /\ Holds(b)) => c \in Buf /\ blk[c] = x /\ Holds(c)
  BY Zenon
<1>3. \A b \in Buf : blk[b] = x /\ Holds(b) => b = c
  BY <1>2, BlockAssumption DEF UniqueBlock
<1> QED BY <1>1, <1>3

LEMMA ContentOfNext == UniqueBlock' => Reads'
BY ContentOf, PTL

LEMMA ContentType ==
    ASSUME TypeOK, UniqueBlock
    PROVE  Content \in [Block -> Val]
<1>1. ASSUME NEW x \in Block PROVE Content[x] \in Val
  BY ContentOf DEF TypeOK, Reads
<1>2. Content = [x \in Block |-> Content[x]]
  BY DEF Content
<1> QED BY <1>1, <1>2

(* Two states in which the same is read everywhere.                        *)
LEMMA ContentEqual ==
    ASSUME \A x \in Block : Content'[x] = Content[x]
    PROVE  Content' = Content
<1>1. Content = [x \in Block |-> Content[x]]
  BY DEF Content
<1>2. Content' = [x \in Block |-> Content'[x]]
  BY DEF Content
<1>3. [x \in Block |-> Content'[x]] = [x \in Block |-> Content[x]]
  OBVIOUS
<1> QED BY <1>1, <1>2, <1>3

(* A step that moves no data, and after which no buffer is done or holds   *)
(* a block that was not or did not before.                                 *)
Quiet ==
    /\ UNCHANGED <<blk, data, disk>>
    /\ \A b \in Buf :
         /\ Holds(b)' <=> Holds(b)
         /\ "ERROR" \in flags'[b] => "ERROR" \in flags[b]
         /\ "DONE" \in flags'[b] =>
              "DONE" \in flags[b] /\ ("DELWRI" \in flags[b] => "DELWRI" \in flags'[b])

LEMMA QuietStep ==
    ASSUME SInv, UniqueBlock', Quiet
    PROVE  NoErrors' /\ Clean' /\ Content' = Content
<1>1. NoErrors' /\ Clean'
  BY DEF SInv, NoErrors, Clean, Quiet
<1>2. Reads /\ Reads'
  BY ContentOf, ContentOfNext DEF SInv, IInv
<1>3. ASSUME NEW x \in Block PROVE Content'[x] = Content[x]
  BY <1>2 DEF Reads, Quiet
<1> QED BY <1>1, <1>3, ContentEqual

-----------------------------------------------------------------------------
(* Each step of the kernel, except a reassignment and the ends of a        *)
(* client's request, moves no data and keeps what was asked for.           *)

(* brelse() of a buffer without an error *)
LEMMA BrelseQuiet ==
    ASSUME SInv, NEW b \in Buf, Brelse(b, flags[b]), UNCHANGED <<ioq, data, disk>>
    PROVE  Quiet
<1>1. "ERROR" \notin flags[b]
  BY DEF SInv, NoErrors
<1>2. /\ flags' = [flags EXCEPT ![b] = flags[b] \ {"WANTED", "BUSY", "ASYNC", "AGE"}]
      /\ blk' = [blk EXCEPT ![b] = blk[b]]
  BY <1>1 DEF Brelse
<1>3. blk' = blk
  BY <1>2 DEF SInv, IInv, TypeOK
<1> QED BY <1>2, <1>3 DEF Quiet, Holds, SInv, IInv, TypeOK

(* The start of a delayed write: the buffer keeps the block. *)
LEMMA StartQuiet ==
    ASSUME SInv, NEW p \in Proc, NEW b \in Buf, "DELWRI" \in flags[b], StartDelayed(p, b)
    PROVE  Quiet
<1>1. /\ flags' = [flags EXCEPT ![b] = WriteFlags(@ \cup {"ASYNC", "BUSY"})]
      /\ ioq' = ioq \cup {b} /\ UNCHANGED <<blk, data, disk>>
  BY DEF StartDelayed
<1>2. /\ flags'[b] = WriteFlags(flags[b] \cup {"ASYNC", "BUSY"})
      /\ \A c \in Buf : c # b => flags'[c] = flags[c]
  BY <1>1 DEF SInv, IInv, TypeOK
<1>3. /\ "DONE" \in flags[b] /\ "DONE" \notin flags'[b] /\ "READ" \notin flags'[b]
      /\ "ERROR" \notin flags'[b]
  BY <1>2 DEF SInv, IInv, Transfers, WriteFlags
<1> QED BY <1>1, <1>2, <1>3 DEF Quiet, Holds

(* The oldest available buffer is a buffer that nobody has. *)
LEMMA VictimBuf ==
    ASSUME IInv, free # <<>>
    PROVE  /\ Head(free) \in Buf /\ "BUSY" \notin flags[Head(free)] /\ Head(free) \notin ioq
           /\ \A p \in Proc : ~Owns(p, Head(free))
<1>1. Head(free) \in Buf /\ Head(free) \in ToSet(free)
  BY TailAvail DEF IInv, TypeOK, AvailIffNotBusy
<1>2. "BUSY" \notin flags[Head(free)]
  BY <1>1 DEF IInv, AvailIffNotBusy
<1> QED BY <1>1, <1>2 DEF IInv, OneOwner

(* It keeps what was asked for when nobody has the buffer. *)
LEMMA StartAsked ==
    ASSUME SInv, NEW p \in Proc, NEW b \in Buf, \A q \in Proc : ~Owns(q, b),
           StartDelayed(p, b), pc[p] # "user"
    PROVE  Asked'
<1> USE DEF SInv, IInv
<1>1. /\ UNCHANGED <<blk, op, want, ra, bp>> /\ pc' = [pc EXCEPT ![p] = "age"]
      /\ gb' = [gb EXCEPT ![p] = b]
      /\ \A c \in Buf : c # b => flags'[c] = flags[c]
  BY DEF StartDelayed, Goto, TypeOK
<1>2. \A q \in Proc : bp[q] # b
  BY DEF Owns
<1>3. \A q \in Proc : /\ pc'[q] = IF q = p THEN "age" ELSE pc[q]
                      /\ q # p => gb'[q] = gb[q]
                      /\ Target(q)' = Target(q)
  BY <1>1 DEF TypeOK, Target
<1>4. \A q \in Proc : pc[q] = "hold" => bp[q] \in Buf
  BY DEF Registers
<1> QED BY <1>1, <1>2, <1>3, <1>4 DEF Asked

(* GetblkMatch keeps what clients see. *)
LEMMA GetblkMatchStore ==
    ASSUME SInv, NEW p \in Proc, GetblkMatch(p)
    PROVE  Quiet /\ Asked' /\ Asks' = Asks /\ reply' = reply
<1> USE ProcBufAssumption, BlockAssumption DEF SInv, IInv
<1>1. Quiet
  BY DEF Quiet, Holds, TypeOK, NoErrors, Registers, Transfers, Holding, OneOwner, Owns,
         GetblkMatch, At, OnCpu, Goto, bufVars
<1>2. Asked'
  BY DEF Asked, Target, Getter, TypeOK, NoErrors, Registers, Holding, OneOwner, Owns,
         GetblkMatch, At, OnCpu, Goto, bufVars
<1>3. Asks' = Asks
  BY DEF Asks, TypeOK, Registers, Getter, GetblkMatch, At, OnCpu, Goto, bufVars
<1>4. reply' = reply
  BY DEF GetblkMatch, At, OnCpu, Goto, bufVars
<1> QED BY <1>1, <1>2, <1>3, <1>4

(* ReadAhead keeps what clients see. *)
LEMMA ReadAheadStore ==
    ASSUME SInv, NEW p \in Proc, ReadAhead(p)
    PROVE  Quiet /\ Asked' /\ Asks' = Asks /\ reply' = reply
<1> USE ProcBufAssumption, BlockAssumption DEF SInv, IInv
<1>1. Quiet
  BY DEF Quiet, Holds, TypeOK, NoErrors, Registers, Transfers, Holding, OneOwner, Owns,
         ReadAhead, At, OnCpu, Goto, bufVars
<1>2. Asked'
  BY DEF Asked, Target, Getter, TypeOK, NoErrors, Registers, Holding, OneOwner, Owns,
         ReadAhead, At, OnCpu, Goto, bufVars
<1>3. Asks' = Asks
  BY DEF Asks, TypeOK, Registers, Getter, ReadAhead, At, OnCpu, Goto, bufVars
<1>4. reply' = reply
  BY DEF ReadAhead, At, OnCpu, Goto, bufVars
<1> QED BY <1>1, <1>2, <1>3, <1>4

(* BreadaEnd keeps what clients see. *)
LEMMA BreadaEndStore ==
    ASSUME SInv, NEW p \in Proc, BreadaEnd(p)
    PROVE  Quiet /\ Asked' /\ Asks' = Asks /\ reply' = reply
<1> USE ProcBufAssumption, BlockAssumption DEF SInv, IInv
<1>1. Quiet
  BY DEF Quiet, Holds, TypeOK, NoErrors, Registers, Transfers, Holding, OneOwner, Owns,
         BreadaEnd, At, OnCpu, Goto, bufVars
<1>2. Asked'
  BY DEF Asked, Target, Getter, TypeOK, NoErrors, Registers, Holding, OneOwner, Owns,
         BreadaEnd, At, OnCpu, Goto, bufVars
<1>3. Asks' = Asks
  BY DEF Asks, TypeOK, Registers, Getter, BreadaEnd, At, OnCpu, Goto, bufVars
<1>4. reply' = reply
  BY DEF BreadaEnd, At, OnCpu, Goto, bufVars
<1> QED BY <1>1, <1>2, <1>3, <1>4

(* GetblkGot keeps what clients see. *)
LEMMA GetblkGotStore ==
    ASSUME SInv, NEW p \in Proc, GetblkGot(p)
    PROVE  Quiet /\ Asked' /\ Asks' = Asks /\ reply' = reply
<1> USE ProcBufAssumption, BlockAssumption DEF SInv, IInv
<1>1. Quiet
  BY DEF Quiet, Holds, TypeOK, NoErrors, Registers, Transfers, Holding, OneOwner, Owns,
         GetblkGot, At, OnCpu, Goto, bufVars
<1>2. Asked'
  BY DEF Asked, Target, Getter, TypeOK, NoErrors, Registers, Holding, OneOwner, Owns,
         GetblkGot, At, OnCpu, Goto, bufVars
<1>3. Asks' = Asks
  BY DEF Asks, TypeOK, Registers, Getter, GetblkGot, At, OnCpu, Goto, bufVars
<1>4. reply' = reply
  BY DEF GetblkGot, At, OnCpu, Goto, bufVars
<1> QED BY <1>1, <1>2, <1>3, <1>4

(* IowaitSleep keeps what clients see. *)
LEMMA IowaitSleepStore ==
    ASSUME SInv, NEW p \in Proc, IowaitSleep(p)
    PROVE  Quiet /\ Asked' /\ Asks' = Asks /\ reply' = reply
<1> USE ProcBufAssumption, BlockAssumption DEF SInv, IInv
<1>1. Quiet
  BY DEF Quiet, Holds, TypeOK, NoErrors, Registers, Transfers, Holding, OneOwner, Owns,
         IowaitSleep, Sleep, At, OnCpu, Goto, bufVars
<1>2. Asked'
  BY DEF Asked, Target, Getter, TypeOK, NoErrors, Registers, Holding, OneOwner, Owns,
         IowaitSleep, Sleep, At, OnCpu, Goto, bufVars
<1>3. Asks' = Asks
  BY DEF Asks, TypeOK, Registers, Getter, IowaitSleep, Sleep, At, OnCpu, Goto, bufVars
<1>4. reply' = reply
  BY DEF IowaitSleep, Sleep, At, OnCpu, Goto, bufVars
<1> QED BY <1>1, <1>2, <1>3, <1>4

(* IowaitRead keeps what clients see. *)
LEMMA IowaitReadStore ==
    ASSUME SInv, NEW p \in Proc, IowaitRead(p)
    PROVE  Quiet /\ Asked' /\ Asks' = Asks /\ reply' = reply
<1> USE ProcBufAssumption, BlockAssumption DEF SInv, IInv
<1>1. Quiet
  BY DEF Quiet, Holds, TypeOK, NoErrors, Registers, Transfers, Holding, OneOwner, Owns,
         IowaitRead, At, OnCpu, Goto, bufVars
<1>2. Asked'
  BY DEF Asked, Target, Getter, TypeOK, NoErrors, Registers, Holding, OneOwner, Owns,
         IowaitRead, At, OnCpu, Goto, bufVars
<1>3. Asks' = Asks
  BY DEF Asks, TypeOK, Registers, Getter, IowaitRead, At, OnCpu, Goto, bufVars
<1>4. reply' = reply
  BY DEF IowaitRead, At, OnCpu, Goto, bufVars
<1> QED BY <1>1, <1>2, <1>3, <1>4

(* GetblkBusy keeps what clients see. *)
LEMMA GetblkBusyStore ==
    ASSUME SInv, NEW p \in Proc, GetblkBusy(p)
    PROVE  Quiet /\ Asked' /\ Asks' = Asks /\ reply' = reply
<1> USE ProcBufAssumption, BlockAssumption DEF SInv, IInv
<1>1. Quiet
  BY DEF Quiet, Holds, TypeOK, NoErrors, Registers, Transfers, Holding, OneOwner, Owns,
         GetblkBusy, Sleep, At, OnCpu, Goto, bufVars
<1>2. Asked'
  BY DEF Asked, Target, Getter, TypeOK, NoErrors, Registers, Holding, OneOwner, Owns,
         GetblkBusy, Sleep, At, OnCpu, Goto, bufVars
<1>3. Asks' = Asks
  BY DEF Asks, TypeOK, Registers, Getter, GetblkBusy, Sleep, At, OnCpu, Goto, bufVars
<1>4. reply' = reply
  BY DEF GetblkBusy, Sleep, At, OnCpu, Goto, bufVars
<1> QED BY <1>1, <1>2, <1>3, <1>4

(* GetblkHit keeps what clients see. *)
LEMMA GetblkHitStore ==
    ASSUME SInv, NEW p \in Proc, GetblkHit(p)
    PROVE  Quiet /\ Asked' /\ Asks' = Asks /\ reply' = reply
<1> USE ProcBufAssumption, BlockAssumption DEF SInv, IInv
<1>1. Quiet
  BY DEF Quiet, Holds, TypeOK, NoErrors, Registers, Transfers, Holding, OneOwner, Owns,
         GetblkHit, Unlink, At, OnCpu, Goto, bufVars
<1>2. Asked'
  BY DEF Asked, Target, Getter, TypeOK, NoErrors, Registers, Holding, OneOwner, Owns,
         GetblkHit, Unlink, At, OnCpu, Goto, bufVars
<1>3. Asks' = Asks
  BY DEF Asks, TypeOK, Registers, Getter, GetblkHit, Unlink, At, OnCpu, Goto, bufVars
<1>4. reply' = reply
  BY DEF GetblkHit, Unlink, At, OnCpu, Goto, bufVars
<1> QED BY <1>1, <1>2, <1>3, <1>4

(* WaitAvail keeps what clients see. *)
LEMMA WaitAvailStore ==
    ASSUME SInv, NEW p \in Proc, WaitAvail(p)
    PROVE  Quiet /\ Asked' /\ Asks' = Asks /\ reply' = reply
<1> USE ProcBufAssumption, BlockAssumption DEF SInv, IInv
<1>1. Quiet
  BY DEF Quiet, Holds, TypeOK, NoErrors, Registers, Transfers, Holding, OneOwner, Owns,
         WaitAvail, Reassigning, Sleep, At, OnCpu, Goto, bufVars
<1>2. Asked'
  BY DEF Asked, Target, Getter, TypeOK, NoErrors, Registers, Holding, OneOwner, Owns,
         WaitAvail, Reassigning, Sleep, At, OnCpu, Goto, bufVars
<1>3. Asks' = Asks
  BY DEF Asks, TypeOK, Registers, Getter, WaitAvail, Reassigning, Sleep, At, OnCpu, Goto,
         bufVars
<1>4. reply' = reply
  BY DEF WaitAvail, Reassigning, Sleep, At, OnCpu, Goto, bufVars
<1> QED BY <1>1, <1>2, <1>3, <1>4

(* Age keeps what clients see. *)
LEMMA AgeStore ==
    ASSUME SInv, NEW p \in Proc, Age(p)
    PROVE  Quiet /\ Asked' /\ Asks' = Asks /\ reply' = reply
<1> USE ProcBufAssumption, BlockAssumption DEF SInv, IInv
<1>1. Quiet
  BY DEF Quiet, Holds, TypeOK, NoErrors, Registers, Transfers, Holding, OneOwner, Owns, Age,
         At, OnCpu, Goto, bufVars
<1>2. Asked'
  BY DEF Asked, Target, Getter, TypeOK, NoErrors, Registers, Holding, OneOwner, Owns, Age,
         At, OnCpu, Goto, bufVars
<1>3. Asks' = Asks
  BY DEF Asks, TypeOK, Registers, Getter, Age, At, OnCpu, Goto, bufVars
<1>4. reply' = reply
  BY DEF Age, At, OnCpu, Goto, bufVars
<1> QED BY <1>1, <1>2, <1>3, <1>4

(* BreadGot keeps what clients see. *)
LEMMA BreadGotStore ==
    ASSUME SInv, NEW p \in Proc, BreadGot(p)
    PROVE  Quiet /\ Asked' /\ Asks' = Asks /\ reply' = reply
<1> USE ProcBufAssumption, BlockAssumption DEF SInv, IInv
<1>1. Quiet
  BY DEF Quiet, Holds, TypeOK, NoErrors, Registers, Transfers, Holding, OneOwner, Owns,
         BreadGot, At, OnCpu, Goto, bufVars
<1>2. Asked'
  BY DEF Asked, Target, Getter, TypeOK, NoErrors, Registers, Holding, OneOwner, Owns,
         BreadGot, At, OnCpu, Goto, bufVars
<1>3. Asks' = Asks
  BY DEF Asks, TypeOK, Registers, Getter, BreadGot, At, OnCpu, Goto, bufVars
<1>4. reply' = reply
  BY DEF BreadGot, At, OnCpu, Goto, bufVars
<1> QED BY <1>1, <1>2, <1>3, <1>4

(* BreadaGot keeps what clients see. *)
LEMMA BreadaGotStore ==
    ASSUME SInv, NEW p \in Proc, BreadaGot(p)
    PROVE  Quiet /\ Asked' /\ Asks' = Asks /\ reply' = reply
<1> USE ProcBufAssumption, BlockAssumption DEF SInv, IInv
<1>1. Quiet
  BY DEF Quiet, Holds, TypeOK, NoErrors, Registers, Transfers, Holding, OneOwner, Owns,
         BreadaGot, At, OnCpu, Goto, bufVars
<1>2. Asked'
  BY DEF Asked, Target, Getter, TypeOK, NoErrors, Registers, Holding, OneOwner, Owns,
         BreadaGot, At, OnCpu, Goto, bufVars
<1>3. Asks' = Asks
  BY DEF Asks, TypeOK, Registers, Getter, BreadaGot, At, OnCpu, Goto, bufVars
<1>4. reply' = reply
  BY DEF BreadaGot, At, OnCpu, Goto, bufVars
<1> QED BY <1>1, <1>2, <1>3, <1>4

(* ReadaGot keeps what clients see. *)
LEMMA ReadaGotStore ==
    ASSUME SInv, NEW p \in Proc, ReadaGot(p)
    PROVE  Quiet /\ Asked' /\ Asks' = Asks /\ reply' = reply
<1> USE ProcBufAssumption, BlockAssumption DEF SInv, IInv
<1>1. Quiet
  <2>1. CASE "DONE" \in flags[gb[p]]
    BY <2>1, BrelseQuiet DEF TypeOK, Registers, ReadaGot, At
  <2>2. CASE "DONE" \notin flags[gb[p]]
    BY <2>2 DEF Quiet, Holds, TypeOK, Registers, Holding, ReadaGot, At
  <2> QED BY <2>1, <2>2
<1>2. Asked'
  BY DEF Asked, Target, Getter, TypeOK, NoErrors, Registers, Holding, OneOwner, Owns,
         ReadaGot, Brelse, At, OnCpu, Goto, bufVars
<1>3. Asks' = Asks
  BY DEF Asks, TypeOK, Registers, Getter, ReadaGot, Brelse, At, OnCpu, Goto, bufVars
<1>4. reply' = reply
  BY DEF ReadaGot, Brelse, At, OnCpu, Goto, bufVars
<1> QED BY <1>1, <1>2, <1>3, <1>4

(* VictimDelayed keeps what clients see. *)
LEMMA VictimDelayedStore ==
    ASSUME SInv, NEW p \in Proc, VictimDelayed(p)
    PROVE  Quiet /\ Asked' /\ Asks' = Asks /\ reply' = reply
<1> USE ProcBufAssumption, BlockAssumption DEF SInv, IInv
<1>1. Quiet
  BY VictimBuf, StartQuiet DEF VictimDelayed
<1>2. Asked'
  BY VictimBuf, StartAsked DEF VictimDelayed, Reassigning, At
<1>3. Asks' = Asks
  BY DEF Asks, TypeOK, Registers, Getter, VictimDelayed, Reassigning, StartDelayed,
         WriteFlags, At, OnCpu, Goto, bufVars
<1>4. reply' = reply
  BY DEF VictimDelayed, Reassigning, StartDelayed, WriteFlags, At, OnCpu, Goto, bufVars
<1> QED BY <1>1, <1>2, <1>3, <1>4

(* BflushWrite keeps what clients see. *)
LEMMA BflushWriteStore ==
    ASSUME SInv, NEW p \in Proc, BflushWrite(p)
    PROVE  Quiet /\ Asked' /\ Asks' = Asks /\ reply' = reply
<1> USE ProcBufAssumption, BlockAssumption DEF SInv, IInv
<1>1. Quiet
  <2>1. PICK i \in ToFlush(p) : StartDelayed(p, free[i])
    BY DEF BflushWrite
  <2>2. free[i] \in Buf /\ "DELWRI" \in flags[free[i]]
    BY <2>1 DEF ToFlush, TypeOK
  <2> QED BY <2>1, <2>2, StartQuiet
<1>2. Asked'
  <2>1. PICK i \in ToFlush(p) : StartDelayed(p, free[i])
    BY DEF BflushWrite
  <2>2. free[i] \in Buf /\ free[i] \in ToSet(free)
    BY <2>1 DEF ToFlush, TypeOK, ToSet
  <2>3. \A q \in Proc : ~Owns(q, free[i])
    BY <2>2 DEF AvailIffNotBusy, OneOwner
  <2> QED BY <2>1, <2>2, <2>3, StartAsked DEF BflushWrite, At
<1>3. Asks' = Asks
  BY DEF Asks, TypeOK, Registers, Getter, BflushWrite, StartDelayed, WriteFlags, ToFlush,
         At, OnCpu, Goto, bufVars
<1>4. reply' = reply
  BY DEF BflushWrite, StartDelayed, WriteFlags, ToFlush, At, OnCpu, Goto, bufVars
<1> QED BY <1>1, <1>2, <1>3, <1>4

-----------------------------------------------------------------------------
(* The ends of a request are steps of BlockStore.                          *)

(* What p has asked for after a step that only changes its own request *)
LEMMA AsksNext ==
    ASSUME TypeOK, NEW p \in Proc, NEW x, NEW o,
           want' = [want EXCEPT ![p] = x], op' = [op EXCEPT ![p] = o]
    PROVE  Asks' = [Asks EXCEPT ![p] = IF x \in Block /\ o # "bwrite" THEN x ELSE Nil]
<1>1. \A q \in Proc : /\ want'[q] = IF q = p THEN x ELSE want[q]
                      /\ op'[q] = IF q = p THEN o ELSE op[q]
  BY DEF TypeOK
<1> QED BY <1>1 DEF Asks

(* A call from user code is a request. *)
LEMMA AskStep ==
    ASSUME SInv, NEW p \in Proc, pc[p] = "user", NEW x, NEW o, o # "bwrite",
           want' = [want EXCEPT ![p] = x], op' = [op EXCEPT ![p] = o],
           reply' = [reply EXCEPT ![p] = Nil], UNCHANGED bufVars
    PROVE  Quiet /\ Store!Next
<1> DEFINE y == IF x \in Block THEN x ELSE Nil
<1>1. Quiet
  BY DEF Quiet, bufVars, Holds
<1>2. Asks' = [Asks EXCEPT ![p] = y]
  BY AsksNext DEF SInv, IInv
<1>3. Asks[p] = Nil
  BY ProcBufAssumption DEF Asks, SInv, Asked
<1>4. Content' = Content
  BY DEF Content, Holds, bufVars
<1>5. y \in Block \cup {Nil}
  OBVIOUS
<1>6. Store!Ask(p, y)
  BY <1>2, <1>3, <1>4 DEF Store!Ask
<1> QED BY <1>1, <1>5, <1>6 DEF Store!Next

(* It keeps what was asked for. *)
LEMMA CallAsked ==
    ASSUME SInv, NEW p \in Proc, pc[p] = "user", NEW x, NEW o, NEW l,
           o # "bawrite", l \notin {"user", "spl6", "got", "hold"},
           want' = [want EXCEPT ![p] = x], op' = [op EXCEPT ![p] = o],
           pc' = [pc EXCEPT ![p] = l], UNCHANGED <<flags, blk, gb>>,
           \A q \in Proc \ {p} : ra'[q] = ra[q] /\ bp'[q] = bp[q],
           bp'[p] \in {bp[p], Nil}
    PROVE  Asked'
<1>1. bp[p] \notin Buf /\ bp'[p] \notin Buf
  BY ProcBufAssumption DEF SInv, IInv, Registers
<1>2. \A q \in Proc \ {p} : /\ want'[q] = want[q] /\ op'[q] = op[q] /\ pc'[q] = pc[q]
                            /\ Target(q)' = Target(q)
  BY DEF SInv, IInv, TypeOK, Target
<1>3. op'[p] = o /\ pc'[p] = l
  BY DEF SInv, IInv, TypeOK
<1> SUFFICES ASSUME NEW q \in Proc
             PROVE  /\ pc'[q] = "user" \/ op'[q] = "bawrite" => want'[q] = Nil
                    /\ pc'[q] \in {"spl6", "got"} => blk'[gb'[q]] = Target(q)'
                    /\ bp'[q] \in Buf => blk'[bp'[q]] = want'[q]
                    /\ pc'[q] = "hold" /\ op'[q] = "bread" => "DONE" \in flags'[bp'[q]]
  BY DEF Asked
<1>4. CASE q = p
  BY <1>1, <1>3, <1>4
<1>5. CASE q # p
  BY <1>2, <1>5 DEF SInv, Asked
<1> QED BY <1>4, <1>5

LEMMA CallStore ==
    ASSUME SInv, NEW p \in Proc, Call(p)
    PROVE  Quiet /\ Asked' /\ Store!Next
<1> USE ProcBufAssumption, BlockAssumption DEF SInv, IInv
<1>1. ASSUME NEW x \in Block, Bread(p, x) PROVE Quiet /\ Asked' /\ Store!Next
  <2>1. Quiet /\ Store!Next
    BY <1>1, AskStep DEF Bread, At
  <2>2. Asked'
    BY <1>1, CallAsked DEF TypeOK, Bread, At, Goto, bufVars
  <2> QED BY <2>1, <2>2
<1>2. ASSUME NEW x \in Block, NEW y \in Block \cup {Nil}, Breada(p, x, y)
      PROVE  Quiet /\ Asked' /\ Store!Next
  <2>1. Quiet /\ Store!Next
    BY <1>2, AskStep DEF Breada, At
  <2>2. Asked'
    BY <1>2, CallAsked DEF TypeOK, Breada, At, Goto, bufVars
  <2> QED BY <2>1, <2>2
<1>3. ASSUME NEW x \in Block, Getblk(p, x) PROVE Quiet /\ Asked' /\ Store!Next
  <2>1. Quiet /\ Store!Next
    BY <1>3, AskStep DEF Getblk, At
  <2>2. Asked'
    BY <1>3, CallAsked DEF TypeOK, Getblk, At, Goto, bufVars
  <2> QED BY <2>1, <2>2
<1>4. ASSUME Geteblk(p) PROVE Quiet /\ Asked' /\ Store!Next
  <2>1. Quiet /\ Store!Next
    BY <1>4, AskStep DEF Geteblk, At
  <2>2. Asked'
    BY <1>4, CallAsked DEF TypeOK, Geteblk, At, Goto, bufVars
  <2> QED BY <2>1, <2>2
<1>5. ASSUME NEW d \in Dev \cup {NoDev}, Bflush(p, d) PROVE Quiet /\ Asked' /\ Store!Next
  <2>1. Quiet /\ Store!Next
    BY <1>5, AskStep DEF Bflush, At
  <2>2. Asked'
    BY <1>5, CallAsked DEF TypeOK, Bflush, At, Goto, bufVars
  <2> QED BY <2>1, <2>2
<1> QED BY <1>1, <1>2, <1>3, <1>4, <1>5 DEF Call

(* The end of a request keeps what the others have asked for. *)
LEMMA GivenBackAsked ==
    ASSUME SInv, NEW p \in Proc, pc[p] \in {"hold", "iowait"}, NEW l \in {"user", "age"}, NEW o,
           pc' = [pc EXCEPT ![p] = l], op' = [op EXCEPT ![p] = o], Forget(p), UNCHANGED blk,
           \A q \in Proc \ {p} : gb'[q] = gb[q],
           \A c \in Buf : c # bp[p] => flags'[c] = flags[c]
    PROVE  Asked'
<1>1. bp[p] \in Buf /\ want'[p] = Nil /\ bp'[p] = Nil /\ pc'[p] = l
  BY DEF SInv, IInv, TypeOK, Registers, Forget
<1>2. \A q \in Proc \ {p} : /\ want'[q] = want[q] /\ op'[q] = op[q] /\ pc'[q] = pc[q]
                            /\ bp'[q] = bp[q] /\ Target(q)' = Target(q)
  BY DEF SInv, IInv, TypeOK, Target, Forget
<1>3. \A q \in Proc \ {p} : bp[q] # bp[p]
  BY <1>1 DEF SInv, IInv, OneOwner, Owns
<1>4. \A q \in Proc : pc[q] = "hold" => bp[q] \in Buf
  BY DEF SInv, IInv, Registers
<1> SUFFICES ASSUME NEW q \in Proc
             PROVE  /\ pc'[q] = "user" \/ op'[q] = "bawrite" => want'[q] = Nil
                    /\ pc'[q] \in {"spl6", "got"} => blk'[gb'[q]] = Target(q)'
                    /\ bp'[q] \in Buf => blk'[bp'[q]] = want'[q]
                    /\ pc'[q] = "hold" /\ op'[q] = "bread" => "DONE" \in flags'[bp'[q]]
  BY DEF Asked
<1>5. CASE q = p
  BY <1>1, <1>5, ProcBufAssumption
<1>6. CASE q # p
  BY <1>2, <1>3, <1>4, <1>6 DEF SInv, Asked
<1> QED BY <1>5, <1>6

(* bwrite() is over: the request ended when it was called. *)
LEMMA IowaitWriteStore ==
    ASSUME SInv, UniqueBlock', NEW p \in Proc, IowaitWrite(p)
    PROVE  Quiet /\ Asked' /\ Store!Next
<1>1. bp[p] \in Buf /\ pc[p] = "iowait"
  BY DEF SInv, IInv, Registers, IowaitWrite, At
<1>2. Quiet
  BY <1>1, BrelseQuiet DEF IowaitWrite
<1>3. Content' = Content
  BY <1>2, QuietStep
<1>4. Asked'
  BY <1>1, <1>2, GivenBackAsked DEF IowaitWrite, Brelse, Goto, Quiet, SInv, IInv, TypeOK
<1>5. Asks' = [Asks EXCEPT ![p] = Nil]
  BY AsksNext, ProcBufAssumption DEF SInv, IInv, IowaitWrite, Forget
<1>6. Store!Drop(p)
  BY <1>3, <1>5 DEF Store!Drop, IowaitWrite
<1> QED BY <1>2, <1>4, <1>6 DEF Store!Next

(* bflush() is over. *)
LEMMA BflushDoneStore ==
    ASSUME SInv, UniqueBlock', NEW p \in Proc, BflushDone(p)
    PROVE  Quiet /\ Asked' /\ Store!Next
<1>1. UNCHANGED bufVars /\ pc[p] = "bflush" /\ op[p] = "bflush" /\ bp[p] \notin Buf
  BY DEF SInv, IInv, Registers, BflushDone, At
<1>2. Quiet
  BY <1>1 DEF Quiet, bufVars, Holds
<1>3. Content' = Content
  BY <1>2, QuietStep
<1>4. Asked'
  BY <1>1 DEF BflushDone, Goto, SInv, IInv, TypeOK, Asked, Target, bufVars
<1>5. Asks' = [Asks EXCEPT ![p] = Nil]
  BY AsksNext, ProcBufAssumption DEF SInv, IInv, BflushDone
<1>6. Store!Drop(p)
  BY <1>3, <1>5 DEF Store!Drop, BflushDone
<1> QED BY <1>2, <1>4, <1>6 DEF Store!Next

(* A client that reads gets what the block contains. *)
LEMMA ReleaseStore ==
    ASSUME SInv, UniqueBlock', NEW p \in Proc, Release(p)
    PROVE  Quiet /\ Asked' /\ Store!Next
<1>1. bp[p] \in Buf /\ pc[p] = "hold"
  BY DEF SInv, IInv, Registers, Release, At
<1>2. Quiet
  BY <1>1, BrelseQuiet DEF Release
<1>3. Content' = Content
  BY <1>2, QuietStep
<1>4. Asked'
  BY <1>1, <1>2, GivenBackAsked DEF Release, Brelse, Goto, Quiet, SInv, IInv, TypeOK
<1>5. Asks' = [Asks EXCEPT ![p] = Nil]
  BY AsksNext, ProcBufAssumption DEF SInv, IInv, Release, Forget
<1>6. CASE op[p] = "bread"
  <2>1. want[p] \in Block /\ Asks[p] = want[p] /\ Asks[p] # Nil
    BY <1>6, ProcBufAssumption DEF SInv, IInv, Registers, Getter, Asks
  <2>2. blk[bp[p]] = want[p] /\ Holds(bp[p])
    BY <1>1, <1>6 DEF SInv, Asked, Holds
  <2>3. Content[want[p]] = data[bp[p]]
    BY <1>1, <2>1, <2>2, ContentOf DEF SInv, IInv, Reads
  <2>4. reply' = [reply EXCEPT ![p] = data[bp[p]]]
    BY <1>1, <1>6 DEF Release, SInv, NoErrors
  <2>5. Store!Read(p)
    BY <1>3, <1>5, <2>1, <2>3, <2>4 DEF Store!Read
  <2> QED BY <1>2, <1>4, <2>5 DEF Store!Next
<1>7. CASE op[p] # "bread"
  <2>1. Store!Drop(p)
    BY <1>3, <1>5, <1>7 DEF Store!Drop, Release
  <2> QED BY <1>2, <1>4, <2>1 DEF Store!Next
<1> QED BY <1>6, <1>7

-----------------------------------------------------------------------------
(* A client that writes replaces what the block contains: at once, however *)
(* long the transfer takes or is delayed.                                  *)
LEMMA WriteStep ==
    ASSUME SInv, UniqueBlock', NEW p \in Proc, Writable(p), NEW b \in Buf, b = bp[p],
           NEW v \in Val,
           data' = [data EXCEPT ![b] = v], UNCHANGED <<blk, disk, reply>>,
           Holds(b)', \A c \in Buf : c # b => (Holds(c)' <=> Holds(c)),
           \A c \in Buf : c # b => flags'[c] = flags[c],
           "ERROR" \notin flags'[b], "DONE" \in flags'[b] => "DELWRI" \in flags'[b],
           Asks' = [Asks EXCEPT ![p] = Nil]
    PROVE  NoErrors' /\ Clean' /\ Store!Next
<1> DEFINE x == want[p]
<1>1. /\ pc[p] = "hold" /\ blk[b] = x /\ x # NoDev
      /\ op[p] # "bwrite"
  BY DEF SInv, IInv, Registers, Asked, Writable, At
<1>2. x \in Block /\ Asks[p] = x /\ x # Nil
  BY <1>1, ProcBufAssumption DEF SInv, IInv, TypeOK, Asks
<1>3. \A c \in Buf : data'[c] = IF c = b THEN v ELSE data[c]
  BY <1>1 DEF SInv, IInv, TypeOK
<1>4. NoErrors'
  BY <1>1 DEF SInv, NoErrors
<1>5. Clean'
  BY <1>1, <1>3 DEF SInv, Clean
<1>6. Reads /\ Reads'
  BY ContentOf, ContentOfNext DEF SInv, IInv
<1>7. Content'[x] = v
  <2>1. \A c \in Buf : blk'[c] = x /\ Holds(c)' => Content'[x] = data'[c]
    BY <1>2, <1>6 DEF Reads
  <2>2. blk'[b] = x /\ data'[b] = v
    BY <1>1, <1>3
  <2> QED BY <2>1, <2>2
<1>8. ASSUME NEW y \in Block, y # x PROVE Content'[y] = Content[y]
  BY <1>1, <1>3, <1>6, <1>8 DEF Reads
<1>9. Content' = [Content EXCEPT ![x] = v]
  <2>1. Content = [y \in Block |-> Content[y]] /\ Content' = [y \in Block |-> Content'[y]]
    BY DEF Content
  <2>2. [Content EXCEPT ![x] = v] = [y \in Block |-> IF y = x THEN v ELSE Content[y]]
    BY <2>1
  <2>3. [y \in Block |-> Content'[y]] = [y \in Block |-> IF y = x THEN v ELSE Content[y]]
    BY <1>7, <1>8
  <2> QED BY <2>1, <2>2, <2>3
<1>10. Store!Write(p, v)
  BY <1>2, <1>9 DEF Store!Write
<1> QED BY <1>4, <1>5, <1>10 DEF Store!Next

(* bwrite(): the process waits for the transfer. *)
LEMMA BwriteStore ==
    ASSUME SInv, UniqueBlock', NEW p \in Proc, NEW v \in Val, Bwrite(p, v)
    PROVE  NoErrors' /\ Clean' /\ Asked' /\ Store!Next
<1>0. PICK b \in Buf : b = bp[p]
  BY DEF SInv, IInv, Registers, Bwrite, Writable, At
<1>1. /\ pc[p] = "hold" /\ Writable(p)
      /\ pc' = [pc EXCEPT ![p] = "iowait"] /\ op' = [op EXCEPT ![p] = "bwrite"]
      /\ flags' = [flags EXCEPT ![b] = WriteFlags(@)] /\ ioq' = ioq \cup {b}
      /\ data' = [data EXCEPT ![b] = v]
      /\ UNCHANGED <<blk, disk, want, ra, bp, gb, reply>>
  BY <1>0 DEF Bwrite, Writable, At, Goto
<1>2. /\ flags'[b] = WriteFlags(flags[b])
      /\ \A c \in Buf : c # b => flags'[c] = flags[c]
  BY <1>1 DEF SInv, IInv, TypeOK
<1>3. /\ Holds(b)' /\ "ERROR" \notin flags'[b] /\ "DONE" \notin flags'[b]
      /\ \A c \in Buf : c # b => (Holds(c)' <=> Holds(c))
  BY <1>1, <1>2 DEF Holds, WriteFlags
<1>4. Asks' = [Asks EXCEPT ![p] = Nil]
  <2>1. want' = [want EXCEPT ![p] = want[p]]
    BY <1>1 DEF SInv, IInv, TypeOK
  <2> QED BY <1>1, <2>1, AsksNext DEF SInv, IInv
<1>5. NoErrors' /\ Clean' /\ Store!Next
  BY <1>1, <1>2, <1>3, <1>4, <1>0, WriteStep
<1>6. Asked'
  <2>1. \A q \in Proc \ {p} : /\ bp[q] # b /\ op'[q] = op[q] /\ pc'[q] = pc[q]
                              /\ Target(q)' = Target(q)
                              /\ pc[q] = "hold" => bp[q] \in Buf
    BY <1>0, <1>1 DEF SInv, IInv, OneOwner, Owns, TypeOK, Target, Registers
  <2>2. pc'[p] = "iowait" /\ op'[p] = "bwrite"
    BY <1>1 DEF SInv, IInv, TypeOK
  <2> QED BY <1>1, <1>2, <2>1, <2>2 DEF SInv, Asked
<1> QED BY <1>5, <1>6

(* bawrite(), and bdwrite() on a magtape: the process does not wait. *)
LEMMA AsyncWriteStore ==
    ASSUME SInv, UniqueBlock', NEW p \in Proc, NEW v \in Val, Writable(p), AsyncWrite(p, v)
    PROVE  NoErrors' /\ Clean' /\ Asked' /\ Store!Next
<1>0. PICK b \in Buf : b = bp[p]
  BY DEF SInv, IInv, Registers, Writable, At
<1>1. pc[p] = "hold"
  BY DEF Writable, At
<1>2. PICK l \in {"user", "age"}, o \in {"none", "bawrite"} :
        /\ pc' = [pc EXCEPT ![p] = l] /\ op' = [op EXCEPT ![p] = o]
        /\ \A q \in Proc \ {p} : gb'[q] = gb[q]
  BY DEF AsyncWrite, Goto, SInv, IInv, TypeOK
<1>3. /\ flags' = [flags EXCEPT ![b] = WriteFlags(@ \cup {"ASYNC"})]
      /\ ioq' = ioq \cup {b} /\ data' = [data EXCEPT ![b] = v] /\ Forget(p)
      /\ UNCHANGED <<blk, disk, reply>>
  BY <1>0 DEF AsyncWrite
<1>4. /\ flags'[b] = WriteFlags(flags[b] \cup {"ASYNC"})
      /\ \A c \in Buf : c # b => flags'[c] = flags[c]
  BY <1>1, <1>3 DEF SInv, IInv, TypeOK
<1>5. /\ Holds(b)' /\ "ERROR" \notin flags'[b] /\ "DONE" \notin flags'[b]
      /\ \A c \in Buf : c # b => (Holds(c)' <=> Holds(c))
  BY <1>3, <1>4 DEF Holds, WriteFlags
<1>6. Asks' = [Asks EXCEPT ![p] = Nil]
  BY <1>2, <1>3, AsksNext, ProcBufAssumption DEF SInv, IInv, Forget
<1>7. NoErrors' /\ Clean' /\ Store!Next
  BY <1>3, <1>4, <1>5, <1>6, <1>0, WriteStep
<1>8. Asked'
  BY <1>1, <1>2, <1>3, <1>4, <1>0, GivenBackAsked
<1> QED BY <1>7, <1>8

(* bdwrite(): the buffer is the block until it is written. *)
LEMMA BdwriteStore ==
    ASSUME SInv, UniqueBlock', NEW p \in Proc, NEW v \in Val, Bdwrite(p, v)
    PROVE  NoErrors' /\ Clean' /\ Asked' /\ Store!Next
<1>0. PICK b \in Buf : b = bp[p]
  BY DEF SInv, IInv, Registers, Bdwrite, Writable, At
<1>1. CASE DevOf[blk[bp[p]]] \in Tape
  BY <1>1, AsyncWriteStore DEF Bdwrite
<1>2. CASE DevOf[blk[bp[p]]] \notin Tape
  <2> DEFINE f == flags[b] \cup {"DELWRI", "DONE"}
  <2>1. /\ pc[p] = "hold" /\ Writable(p) /\ "ERROR" \notin flags[b]
        /\ data' = [data EXCEPT ![b] = v] /\ Brelse(b, f)
        /\ pc' = [pc EXCEPT ![p] = "user"] /\ op' = [op EXCEPT ![p] = "none"]
        /\ Forget(p) /\ UNCHANGED <<ioq, disk, gb, reply>>
    BY <1>0, <1>2 DEF Bdwrite, Goto, Writable, At
  <2>2. /\ flags' = [flags EXCEPT ![b] = f \ {"WANTED", "BUSY", "ASYNC", "AGE"}]
        /\ blk' = [blk EXCEPT ![b] = blk[b]]
    BY <2>1 DEF Brelse
  <2>3. /\ blk' = blk /\ flags'[b] = f \ {"WANTED", "BUSY", "ASYNC", "AGE"}
        /\ \A c \in Buf : c # b => flags'[c] = flags[c]
    BY <2>2 DEF SInv, IInv, TypeOK
  <2>4. /\ Holds(b)' /\ "ERROR" \notin flags'[b] /\ "DELWRI" \in flags'[b]
        /\ \A c \in Buf : c # b => (Holds(c)' <=> Holds(c))
    BY <2>1, <2>3 DEF Holds
  <2>5. Asks' = [Asks EXCEPT ![p] = Nil]
    BY <2>1, AsksNext, ProcBufAssumption DEF SInv, IInv, Forget
  <2>6. NoErrors' /\ Clean' /\ Store!Next
    BY <1>0, <2>1, <2>3, <2>4, <2>5, WriteStep
  <2>7. Asked'
    BY <1>0, <2>1, <2>3, GivenBackAsked
  <2> QED BY <2>6, <2>7
<1> QED BY <1>1, <1>2

-----------------------------------------------------------------------------
(* A buffer is reassigned: what it held of its old block is on the device, *)
(* and it holds nothing of the new one yet.                                *)
LEMMA ReassignStore ==
    ASSUME SInv, UniqueBlock', NEW p \in Proc, Reassign(p)
    PROVE  /\ NoErrors' /\ Clean' /\ Asked'
           /\ Content' = Content /\ Asks' = Asks /\ reply' = reply
<1> USE DEF SInv, IInv
<1>0. PICK b \in Buf : b = Head(free)
  BY VictimBuf DEF Reassign
<1>1. /\ "DELWRI" \notin flags[b] /\ b \notin ioq /\ \A q \in Proc : ~Owns(q, b)
  BY <1>0, VictimBuf DEF Reassign
<1>2. /\ flags' = [flags EXCEPT ![b] = {"BUSY"}] /\ blk' = [blk EXCEPT ![b] = Target(p)]
      /\ gb' = [gb EXCEPT ![p] = b] /\ pc' = [pc EXCEPT ![p] = "got"]
      /\ UNCHANGED <<data, ioq, disk, op, want, ra, bp, reply>>
  BY <1>0 DEF Reassign, Goto
<1>3. /\ flags'[b] = {"BUSY"} /\ blk'[b] = Target(p)
      /\ \A c \in Buf : c # b => flags'[c] = flags[c] /\ blk'[c] = blk[c]
  BY <1>2 DEF TypeOK
<1>4. NoErrors' /\ Clean'
  BY <1>2, <1>3 DEF NoErrors, Clean
<1>5. Asked'
  <2>1. \A q \in Proc \ {p} : pc[q] \notin {"spl6", "got"}
    BY ProcBufAssumption DEF Registers, Reassign, Reassigning, At, OnCpu, TypeOK
  <2>2. \A q \in Proc : /\ Target(q)' = Target(q) /\ bp[q] # b
                        /\ pc[q] = "hold" => bp[q] \in Buf
    BY <1>1, <1>2 DEF Target, Owns, Registers
  <2>3. pc'[p] = "got" /\ gb'[p] = b /\ \A q \in Proc \ {p} : pc'[q] = pc[q]
    BY <1>2 DEF TypeOK
  <2>4. pc[p] # "user"
    BY DEF Reassign, Reassigning, At
  <2> QED BY <1>2, <1>3, <2>1, <2>2, <2>3, <2>4 DEF Asked
<1>6. ~Holds(b)' /\ \A c \in Buf : c # b => (Holds(c)' <=> Holds(c))
  BY <1>1, <1>2, <1>3 DEF Holds
<1>7. Content' = Content
  <2>1. Reads /\ Reads'
    BY ContentOf, ContentOfNext
  <2>2. ASSUME NEW x \in Block PROVE Content'[x] = Content[x]
    <3>1. CASE blk[b] = x /\ Holds(b)
      <4>1. Content[x] = data[b] /\ data[b] = disk[x]
        BY <1>1, <2>1, <3>1, BlockAssumption DEF Reads, Clean, Holds
      <4>2. \A c \in Buf : ~(blk'[c] = x /\ Holds(c)')
        BY <1>3, <1>6, <3>1, BlockAssumption DEF UniqueBlock
      <4> QED BY <1>2, <2>1, <4>1, <4>2 DEF Reads
    <3>2. CASE ~(blk[b] = x /\ Holds(b))
      <4>1. \A c \in Buf : blk'[c] = x /\ Holds(c)' <=> blk[c] = x /\ Holds(c)
        BY <1>3, <1>6, <3>2
      <4> QED BY <1>2, <2>1, <4>1 DEF Reads
    <3> QED BY <3>1, <3>2
  <2> QED BY <2>2, ContentEqual
<1>8. Asks' = Asks /\ reply' = reply
  BY <1>2 DEF Asks
<1> QED BY <1>4, <1>5, <1>7, <1>8

(* A transfer that succeeds makes buffer and device agree.                 *)
LEMMA IoDoneStore ==
    ASSUME SInv, UniqueBlock', NEW b \in Buf, IoDone(b, TRUE)
    PROVE  /\ NoErrors' /\ Clean' /\ Asked'
           /\ Content' = Content /\ Asks' = Asks /\ reply' = reply
<1> USE DEF SInv, IInv
<1> DEFINE f == flags[b] \cup {"DONE"}
<1>1. /\ b \in ioq /\ ioq' = ioq \ {b} /\ "DONE" \notin flags[b] /\ "ERROR" \notin flags[b]
      /\ blk[b] # NoDev /\ blk[b] \in Block
  BY DEF IoDone, Transfers, NoErrors, TypeOK
<1>2. /\ \/ Brelse(b, f)
         \/ flags' = [flags EXCEPT ![b] = f \ {"WANTED"}] /\ UNCHANGED blk
      /\ UNCHANGED <<pc, op, want, ra, bp, gb, reply>>
  BY DEF IoDone
<1>3. blk' = blk /\ \A c \in Buf : c # b => flags'[c] = flags[c]
  BY <1>1, <1>2 DEF Brelse, TypeOK
<1>4. \A g \in {"DONE", "READ", "ERROR", "DELWRI"} : g \in flags'[b] <=> g \in f
  <2>1. \/ flags'[b] = f \ {"WANTED", "BUSY", "ASYNC", "AGE"}
        \/ flags'[b] = f \ {"WANTED"}
    BY <1>2 DEF Brelse, TypeOK
  <2> QED BY <2>1
<1>5. NoErrors'
  BY <1>1, <1>3, <1>4 DEF NoErrors
<1>6. Asked'
  <2>1. \A q \in Proc : /\ Target(q)' = Target(q)
                        /\ pc[q] = "hold" => bp[q] \in Buf /\ bp[q] # b
    BY <1>1, <1>2 DEF Target, Registers, Holding
  <2> QED BY <1>2, <1>3, <2>1 DEF Asked
<1>7. Holds(b)' /\ \A c \in Buf : c # b => (Holds(c)' <=> Holds(c))
  BY <1>1, <1>3, <1>4 DEF Holds
<1>8. Reads /\ Reads'
  BY ContentOf, ContentOfNext
<1>9. CASE "READ" \in flags[b]
  <2>1. disk' = disk /\ data' = [data EXCEPT ![b] = disk[blk[b]]]
    BY <1>9 DEF IoDone
  <2>2. \A c \in Buf : data'[c] = IF c = b THEN disk[blk[b]] ELSE data[c]
    BY <2>1 DEF TypeOK
  <2>3. Clean'
    BY <1>3, <2>1, <2>2 DEF Clean
  <2>4. ~Holds(b)
    BY <1>1, <1>9 DEF Holds
  <2>5. ASSUME NEW x \in Block PROVE Content'[x] = Content[x]
    <3>1. CASE x = blk[b]
      <4>1. \A c \in Buf : ~(blk[c] = x /\ Holds(c))
        BY <1>1, <2>4, <3>1 DEF UniqueBlock
      <4>2. Content[x] = disk[x]
        BY <1>8, <4>1 DEF Reads
      <4>3. Content'[x] = data'[b]
        BY <1>3, <1>7, <1>8, <3>1 DEF Reads
      <4> QED BY <2>2, <3>1, <4>2, <4>3
    <3>2. CASE x # blk[b]
      BY <1>3, <1>7, <1>8, <2>1, <2>2, <3>2 DEF Reads
    <3> QED BY <3>1, <3>2
  <2> QED BY <1>2, <1>5, <1>6, <2>3, <2>5, ContentEqual DEF Asks
<1>10. CASE "READ" \notin flags[b]
  <2>1. data' = data /\ disk' = [disk EXCEPT ![blk[b]] = data[b]]
    BY <1>10 DEF IoDone
  <2>2. \A x \in Block : disk'[x] = IF x = blk[b] THEN data[b] ELSE disk[x]
    BY <1>1, <2>1 DEF TypeOK
  <2>3. Clean'
    BY <1>1, <1>3, <2>1, <2>2 DEF Clean, UniqueBlock, TypeOK
  <2>4. Holds(b)
    BY <1>1, <1>10 DEF Holds
  <2>5. ASSUME NEW x \in Block PROVE Content'[x] = Content[x]
    <3>1. CASE x = blk[b]
      <4>1. Content[x] = data[b]
        BY <1>8, <2>4, <3>1 DEF Reads
      <4>2. Content'[x] = data'[b]
        BY <1>3, <1>7, <1>8, <3>1 DEF Reads
      <4> QED BY <2>1, <4>1, <4>2
    <3>2. CASE x # blk[b]
      BY <1>3, <1>7, <1>8, <2>1, <2>2, <3>2 DEF Reads
    <3> QED BY <3>1, <3>2
  <2> QED BY <1>2, <1>5, <1>6, <2>3, <2>5, ContentEqual DEF Asks
<1> QED BY <1>9, <1>10

-----------------------------------------------------------------------------
(* binit() leaves what the devices have. *)
LEMMA InitStore == Init => SInv /\ Store!Init
<1> SUFFICES ASSUME Init PROVE SInv /\ Store!Init
  OBVIOUS
<1>1. IInv
  BY InitInv
<1>2. NoErrors /\ Asked /\ Clean
  BY ProcBufAssumption DEF Init, NoErrors, Asked, Clean
<1>3. Content \in [Block -> Val]
  BY <1>1, ContentType DEF IInv
<1>4. Asks = [p \in Proc |-> Nil]
  BY ProcBufAssumption DEF Init, Asks
<1> QED BY <1>1, <1>2, <1>3, <1>4 DEF SInv, Store!Init, Init

(* Every step of the cache keeps the invariant and is a step of BlockStore *)
(* or changes nothing a client sees.                                       *)
LEMMA NextStore ==
    ASSUME ~DiskErrors, SInv, [Next]_vars
    PROVE  SInv' /\ [Store!Next]_(Store!vars)
<1>1. IInv' /\ UniqueBlock'
  BY NextInv DEF SInv, IInv
<1>2. CASE UNCHANGED vars
  <2>1. Quiet /\ Asked' /\ Asks' = Asks /\ reply' = reply
    BY <1>2 DEF vars, Quiet, Holds, SInv, Asked, Target, Asks
  <2> QED BY <1>1, <2>1, QuietStep DEF SInv, Store!vars
<1>3. ASSUME NEW p \in Proc, Call(p)
      PROVE  SInv' /\ [Store!Next]_(Store!vars)
  BY <1>1, <1>3, CallStore, QuietStep DEF SInv
<1>4. ASSUME NEW p \in Proc, Run(p)
      PROVE  SInv' /\ [Store!Next]_(Store!vars)
  <2>1. ASSUME Quiet, Asked', Asks' = Asks, reply' = reply
        PROVE  SInv' /\ [Store!Next]_(Store!vars)
    BY <1>1, <2>1, QuietStep DEF SInv, Store!vars
  <2>2. ASSUME Quiet, Asked', Store!Next
        PROVE  SInv' /\ [Store!Next]_(Store!vars)
    BY <1>1, <2>2, QuietStep DEF SInv
  <2>3. CASE GetblkMatch(p) \/ GetblkBusy(p) \/ GetblkHit(p) \/ WaitAvail(p)
    BY <2>1, <2>3, GetblkMatchStore, GetblkBusyStore, GetblkHitStore, WaitAvailStore
  <2>4. CASE VictimDelayed(p) \/ Age(p) \/ BreadGot(p) \/ BreadaGot(p) \/ ReadAhead(p)
    BY <2>1, <2>4, VictimDelayedStore, AgeStore, BreadGotStore, BreadaGotStore, ReadAheadStore
  <2>5. CASE ReadaGot(p) \/ BreadaEnd(p) \/ GetblkGot(p) \/ IowaitSleep(p) \/ IowaitRead(p)
    BY <2>1, <2>5, ReadaGotStore, BreadaEndStore, GetblkGotStore, IowaitSleepStore,
       IowaitReadStore
  <2>6. CASE BflushWrite(p)
    BY <2>1, <2>6, BflushWriteStore
  <2>7. CASE IowaitWrite(p) \/ Release(p) \/ BflushDone(p)
    BY <1>1, <2>2, <2>7, IowaitWriteStore, ReleaseStore, BflushDoneStore
  <2>8. CASE Reassign(p)
    BY <1>1, <2>8, ReassignStore DEF SInv, Store!vars
  <2>9. ASSUME NEW v \in Val, Bwrite(p, v) \/ Bawrite(p, v) \/ Bdwrite(p, v)
        PROVE  SInv' /\ Store!Next
    BY <1>1, <2>9, BwriteStore, AsyncWriteStore, BdwriteStore DEF SInv, Bawrite
  <2> QED BY <1>4, <2>3, <2>4, <2>5, <2>6, <2>7, <2>8, <2>9 DEF Run, Return
<1>5. ASSUME NEW b \in Buf, Interrupt(b)
      PROVE  SInv' /\ [Store!Next]_(Store!vars)
  <2>1. IoDone(b, TRUE)
    BY <1>5 DEF Interrupt
  <2> QED BY <1>1, <2>1, IoDoneStore DEF SInv, Store!vars
<1> QED BY <1>2, <1>3, <1>4, <1>5 DEF Next

(* While no transfer fails, the invariant of the store holds throughout.   *)
THEOREM StoreInvariance == ASSUME ~DiskErrors PROVE Spec => []SInv
BY InitStore, NextStore, PTL DEF Spec

(* getblk() and bread() return the buffer of the block they were asked     *)
(* for, though they sleep, start again and let interrupts in between.      *)
THEOREM RightBufferReturned == ASSUME ~DiskErrors PROVE Spec => []RightBuffer
<1>1. SInv => RightBuffer
  BY DEF SInv, IInv, Registers, Asked, RightBuffer
<1> QED BY <1>1, StoreInvariance, PTL

(* The cache implements BlockStore: to its clients the blocks are one      *)
(* memory, whatever is delayed, reassigned, flushed or read ahead.         *)
THEOREM CacheIsBlockStore == ASSUME ~DiskErrors PROVE Spec => IsBlockStore
<1>1. Init => Store!Init
  BY InitStore
<1>2. SInv /\ [Next]_vars => [Store!Next]_(Store!vars)
  BY NextStore
<1> QED BY <1>1, <1>2, StoreInvariance, PTL DEF Spec, IsBlockStore, Store!Spec

=============================================================================

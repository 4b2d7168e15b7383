--------------------------- MODULE Inodes_proofs ---------------------------
(***************************************************************************)
(* Proofs about Inodes, for any processes, any sizes of the i-list and of  *)
(* the tables, and any number of faults.                                   *)
(***************************************************************************)
EXTENDS Inodes, SequenceTheorems, FiniteSetTheorems, TLAPS

-----------------------------------------------------------------------------
(* The inductive invariant of the locks and the reference counts.          *)

Inode == [number : {0} \cup Ino, lock : BOOLEAN, want : BOOLEAN, count : Nat,
          mode : 0..1, nlink : Int, upd : BOOLEAN]

Op == {"none", "create", "open", "unlink", "sync", "put"}

Types ==
    /\ inode \in [Slot -> Inode]
    /\ disk \in [Ino -> [mode : 0..1, nlink : Int]]
    /\ sinode \in Seq(Ino) /\ ilock \in Nat
    /\ dir \in SUBSET Ino /\ files \in SUBSET Ino
    /\ pc \in [Proc -> PC] /\ op \in [Proc -> Op]
    /\ ino \in [Proc -> {0} \cup Ino] /\ ip \in [Proc -> {0} \cup Slot]
    /\ adr \in [Proc -> Nat] /\ faults \in Nat

(* Who has a reference to the inode in slot s. *)
Uses(p) == Holds(p) \/ pc[p] \in {"open", "plock", "plockwait"}
Users(s) == {p \in Proc : ip[p] = s /\ Uses(p)}

(* What the variables of a process hold at each place. *)
Reg(p) ==
    /\ Uses(p) \/ pc[p] = "igetwait" => ip[p] \in Slot
    /\ pc[p] \in {"iget", "igetwait", "iread", "got", "wdir"} => ino[p] \in Ino
    /\ pc[p] \in {"iread", "got", "wdir"} => inode[ip[p]].number = ino[p]
    /\ pc[p] \in {"ifree", "itrunc", "iupdat"} => inode[ip[p]].count = 1
Registers == \A p \in Proc : Reg(p)

(* A slot has a number as long as it is referred to. *)
Named == \A s \in Slot : inode[s].number = 0 <=> inode[s].count = 0

IInv == Types /\ Registers /\ Named /\ OneInode /\ References /\ NoLostWakeup

-----------------------------------------------------------------------------
(* What more is true as long as no transfer has failed.                    *)

(* The inode in slot s has been read in. *)
Read(s) == inode[s].number # 0 /\ ~Reading(s)

(* In core an inode is a file or free as it should be, what a directory    *)
(* names is a file with a link, and what need not be written has not       *)
(* changed.                                                                *)
RightIn(x) ==
    /\ x.mode # 0 <=> x.number \in files
    /\ x.number \in dir => x.mode # 0 /\ x.nlink > 0
    /\ ~x.upd => x.mode = disk[x.number].mode /\ x.nlink = disk[x.number].nlink
CoreRight == \A s \in Slot : Read(s) => RightIn(inode[s])

(* So is the inode on the disk, while it is not in core. *)
RightOut(i) ==
    /\ disk[i].mode # 0 <=> i \in files
    /\ i \in dir => disk[i].mode # 0 /\ disk[i].nlink > 0
OutOfCore(i) == \A s \in Slot : inode[s].number = i => Reading(s)
DiskRight == \A i \in Ino : OutOfCore(i) => RightOut(i)

(* creat() enters a file with a link, and iput() frees one without.        *)
Link(p) ==
    /\ pc[p] = "wdir" /\ op[p] = "create" => inode[ip[p]].mode # 0 /\ inode[ip[p]].nlink > 0
    /\ pc[p] \in {"itrunc", "ifree"} => inode[ip[p]].nlink <= 0
Linking == \A p \in Proc : Link(p)

FaultFree == faults = 0 => CoreRight /\ DiskRight /\ Linking

-----------------------------------------------------------------------------
(* What a step does to the processes.                                      *)
Waiting == {q \in Proc : pc[q] \in {"ilockwait", "igetwait", "plockwait"}}

Moves(p, place, woken) ==
    /\ pc' \in [Proc -> PC] /\ pc'[p] = place
    /\ \A q \in Proc \ {p} :
         /\ Holds(q)' <=> Holds(q)
         /\ Uses(q)' <=> Uses(q)
         /\ q \notin woken => pc'[q] = pc[q]
         /\ q \in woken /\ pc[q] = "ilockwait" => pc'[q] = "ialloc"
         /\ q \in woken /\ pc[q] = "igetwait" => pc'[q] = "iget"
         /\ q \in woken /\ pc[q] = "plockwait" => pc'[q] = "plock"
         /\ q \in woken => pc[q] \in {"ilockwait", "igetwait", "plockwait"}

LEMMA GotoMoves ==
    ASSUME Types, NEW p \in Proc, NEW place \in PC, NEW woken \in SUBSET Waiting,
           Goto(p, place, woken)
    PROVE  Moves(p, place, woken)
<1>1. pc' = [q \in Proc |-> IF q = p THEN place
                            ELSE IF q \in woken THEN Woken(pc[q]) ELSE pc[q]]
  BY DEF Goto
<1>2. \A q \in woken : /\ pc[q] \in {"ilockwait", "igetwait", "plockwait"}
                       /\ pc[q] = "ilockwait" => Woken(pc[q]) = "ialloc"
                       /\ pc[q] = "igetwait" => Woken(pc[q]) = "iget"
                       /\ pc[q] = "plockwait" => Woken(pc[q]) = "plock"
  BY DEF Woken, Waiting
<1>3. pc' \in [Proc -> PC] /\ pc'[p] = place
  BY <1>1, <1>2 DEF Types, PC, OnCpu
<1>4. \A q \in Proc \ {p} :
        /\ q \notin woken => pc'[q] = pc[q]
        /\ q \in woken /\ pc[q] = "ilockwait" => pc'[q] = "ialloc"
        /\ q \in woken /\ pc[q] = "igetwait" => pc'[q] = "iget"
        /\ q \in woken /\ pc[q] = "plockwait" => pc'[q] = "plock"
        /\ q \in woken => pc[q] \in {"ilockwait", "igetwait", "plockwait"}
  BY <1>1, <1>2
<1>5. \A q \in Proc \ {p} : (Holds(q)' <=> Holds(q)) /\ (Uses(q)' <=> Uses(q))
  BY <1>4 DEF Holds, Uses
<1> QED BY <1>3, <1>4, <1>5 DEF Moves

LEMMA CallMoves ==
    ASSUME Types, NEW p \in Proc, NEW place \in PC, pc' = [pc EXCEPT ![p] = place]
    PROVE  Moves(p, place, {})
<1>1. pc' \in [Proc -> PC] /\ pc'[p] = place /\ \A q \in Proc \ {p} : pc'[q] = pc[q]
  BY DEF Types
<1> QED BY <1>1 DEF Moves, Holds, Uses

LEMMA WantingType == \A s \in Slot : Wanting(s) \in SUBSET Waiting
BY DEF Wanting, Waiting

LEMMA IlistType == WaitingForIlist \in SUBSET Waiting
BY DEF WaitingForIlist, Waiting

(* OneInode in two parts. *)
Unique ==
    \A s, t \in Slot : s # t /\ inode[s].number = inode[t].number => inode[s].number = 0
HeldBy(p, s) == Holds(p) /\ ip[p] = s
Locking ==
    /\ \A s \in Slot : inode[s].lock <=> \E p \in Proc : HeldBy(p, s)
    /\ \A p, q \in Proc, s \in Slot : HeldBy(p, s) /\ HeldBy(q, s) => p = q

LEMMA OneInodeParts ==
    ASSUME Registers
    PROVE  OneInode <=> Unique /\ Locking
BY DEF OneInode, Unique, Locking, HeldBy, Registers, Reg, Uses

LEMMA OneInodePartsNext ==
    ASSUME Registers'
    PROVE  OneInode' <=> Unique' /\ Locking'
BY DEF OneInode, Unique, Locking, HeldBy, Registers, Reg, Uses

(* The locks when nobody locks or unlocks, when p locks slot s, and when p *)
(* unlocks it.                                                             *)
LEMMA LocksKept ==
    ASSUME Locking, \A s \in Slot : inode'[s].lock = inode[s].lock,
           \A q \in Proc, s \in Slot : HeldBy(q, s)' <=> HeldBy(q, s)
    PROVE  Locking'
BY DEF Locking

LEMMA LockTaken ==
    ASSUME Locking, NEW p \in Proc, NEW s \in Slot, ~inode[s].lock, inode'[s].lock,
           \A t \in Slot \ {s} : inode'[t].lock = inode[t].lock,
           \A q \in Proc, t \in Slot : HeldBy(q, t)' <=> HeldBy(q, t) \/ (q = p /\ t = s)
    PROVE  Locking'
BY DEF Locking

LEMMA LockGiven ==
    ASSUME Locking, NEW p \in Proc, NEW s \in Slot, HeldBy(p, s), ~inode'[s].lock,
           \A t \in Slot \ {s} : inode'[t].lock = inode[t].lock,
           \A q \in Proc, t \in Slot : HeldBy(q, t)' <=> HeldBy(q, t) /\ q # p
    PROVE  Locking'
BY DEF Locking, HeldBy

(* The reference counts when nobody comes or goes, and when p comes or     *)
(* goes.                                                                   *)
LEMMA UsersFinite == \A s : IsFiniteSet(Users(s)) /\ Cardinality(Users(s)) \in Nat
BY FS_Subset, FS_CardinalityType, InodesAssumption DEF Users

LEMMA RefsKept ==
    ASSUME References, \A s \in Slot : inode'[s].count = inode[s].count,
           \A s \in Slot : Users(s)' = Users(s)
    PROVE  References'
BY DEF References, Users, Uses

LEMMA RefAdded ==
    ASSUME References, NEW p \in Proc, NEW s \in Slot, p \notin Users(s),
           inode'[s].count = inode[s].count + 1,
           \A t \in Slot \ {s} : inode'[t].count = inode[t].count /\ Users(t)' = Users(t),
           Users(s)' = Users(s) \cup {p}
    PROVE  References'
<1>1. Cardinality(Users(s)') = Cardinality(Users(s)) + 1
  BY UsersFinite, FS_AddElement
<1>2. \A t \in Slot : inode[t].count = Cardinality(Users(t))
  BY DEF References, Users, Uses
<1>3. \A t \in Slot : inode'[t].count = Cardinality(Users(t)')
  BY <1>1, <1>2
<1> QED BY <1>3 DEF References, Users, Uses

LEMMA RefRemoved ==
    ASSUME References, NEW p \in Proc, NEW s \in Slot, p \in Users(s),
           inode'[s].count = inode[s].count - 1,
           \A t \in Slot \ {s} : inode'[t].count = inode[t].count /\ Users(t)' = Users(t),
           Users(s)' = Users(s) \ {p}
    PROVE  References'
<1>1. Cardinality(Users(s)') = Cardinality(Users(s)) - 1
  BY UsersFinite, FS_RemoveElement
<1>2. \A t \in Slot : inode[t].count = Cardinality(Users(t))
  BY DEF References, Users, Uses
<1>3. \A t \in Slot : inode'[t].count = Cardinality(Users(t)')
  BY <1>1, <1>2
<1> QED BY <1>3 DEF References, Users, Uses

(* A slot that is locked has a user, and is referred to. *)
LEMMA LockedUsed ==
    ASSUME IInv, NEW s \in Slot, inode[s].count = 0
    PROVE  /\ Users(s) = {} /\ ~inode[s].lock /\ inode[s].number = 0
<1>1. inode[s].count = Cardinality(Users(s))
  BY DEF IInv, References, Users, Uses
<1>2. Users(s) = {}
  BY <1>1, UsersFinite, FS_EmptySet
<1>3. ~inode[s].lock
  BY <1>2 DEF IInv, OneInode, Users, Uses
<1> QED BY <1>2, <1>3 DEF IInv, Named

-----------------------------------------------------------------------------
(* The steps of p keep the invariant if they keep the types and the        *)
(* variables of p.                                                         *)

(* A step by which p neither locks nor unlocks an inode. *)
LEMMA KeptInv ==
    ASSUME IInv, Types', NEW p \in Proc, NEW place, NEW woken, Moves(p, place, woken), Reg(p)',
           \A s \in Slot : /\ inode'[s].number = inode[s].number
                           /\ inode'[s].lock = inode[s].lock
                           /\ inode'[s].count = inode[s].count
                           /\ inode[s].want => inode'[s].want \/ Wanting(s) \subseteq woken,
           \A q \in Proc \ {p} : ip'[q] = ip[q] /\ ino'[q] = ino[q],
           Holds(p)' <=> Holds(p), Uses(p)' <=> Uses(p), Uses(p) => ip'[p] = ip[p],
           place \in {"igetwait", "plockwait"} => inode'[ip'[p]].lock /\ inode'[ip'[p]].want,
           \A q \in Proc : pc'[q] = "ilockwait" => ilock' > 0
    PROVE  IInv'
<1>1. Registers'
  <2>1. ASSUME NEW q \in Proc \ {p} PROVE Reg(q)'
    <3>1. /\ pc'[q] = "igetwait" => pc[q] = "igetwait"
          /\ pc'[q] = "iget" => pc[q] \in {"iget", "igetwait"}
          /\ pc'[q] \in {"iread", "got", "wdir", "ifree", "itrunc", "iupdat"} => pc'[q] = pc[q]
          /\ (Uses(q)' <=> Uses(q)) /\ ip'[q] = ip[q] /\ ino'[q] = ino[q]
      BY DEF Moves
    <3>2. pc[q] \in {"iread", "got", "wdir", "ifree", "itrunc", "iupdat"} => ip[q] \in Slot
      BY DEF IInv, Registers, Reg, Uses, Holds
    <3> QED BY <3>1, <3>2 DEF IInv, Registers, Reg
  <2> QED BY <2>1 DEF Registers
<1>2. Named'
  BY DEF IInv, Named
<1>3. OneInode'
  <2>1. Unique /\ Locking
    BY OneInodeParts DEF IInv
  <2>2. Unique'
    BY <2>1 DEF Unique
  <2>3. \A q \in Proc, s \in Slot : HeldBy(q, s)' <=> HeldBy(q, s)
    BY DEF HeldBy, Uses, Moves
  <2>4. Locking'
    BY <2>1, <2>3, LocksKept
  <2> QED BY <1>1, <2>2, <2>4, OneInodePartsNext
<1>4. References'
  <2>1. \A q \in Proc : (Uses(q)' <=> Uses(q)) /\ (Uses(q) => ip'[q] = ip[q])
    BY DEF Moves
  <2>2. \A s \in Slot : Users(s)' = Users(s)
    BY <2>1 DEF Users
  <2> QED BY <2>2, RefsKept DEF IInv
<1>5. NoLostWakeup'
  <2>1. ASSUME NEW q \in Proc, pc'[q] \in {"igetwait", "plockwait"}
        PROVE  inode'[ip'[q]].lock /\ inode'[ip'[q]].want
    <3>1. CASE q = p
      BY <2>1, <3>1 DEF Moves
    <3>2. CASE q # p
      <4>1. pc[q] = pc'[q] /\ ip'[q] = ip[q]
        BY <2>1, <3>2 DEF Moves
      <4>2. inode[ip[q]].lock /\ inode[ip[q]].want /\ ip[q] \in Slot
        BY <2>1, <4>1 DEF IInv, NoLostWakeup, Registers, Reg, Uses
      <4>3. q \notin woken
        BY <2>1, <3>2, <4>1 DEF Moves
      <4>4. q \in Wanting(ip[q])
        BY <2>1, <4>1, <4>2 DEF Wanting
      <4> QED BY <4>1, <4>2, <4>3, <4>4
    <3> QED BY <3>1, <3>2
  <2> QED BY <2>1 DEF NoLostWakeup
<1> QED BY <1>1, <1>2, <1>3, <1>4, <1>5 DEF IInv

(* A step by which p locks slot s. *)
LEMMA TakeInv ==
    ASSUME IInv, Types', NEW p \in Proc, NEW place, NEW s \in Slot, Moves(p, place, {}), Reg(p)',
           ~Holds(p), Holds(p)', ip'[p] = s, ~inode[s].lock, inode'[s].lock,
           Uses(p) => ip[p] = s,
           inode'[s].count = IF Uses(p) THEN inode[s].count ELSE inode[s].count + 1,
           inode'[s].number # 0, Unique',
           \A t \in Slot \ {s} : inode'[t] = inode[t],
           \A q \in Proc \ {p} : ip'[q] = ip[q] /\ ino'[q] = ino[q], ilock' = ilock
    PROVE  IInv'
<1>0. /\ \A q \in Proc : ~HeldBy(q, s)
      /\ \A q \in Proc : pc[q] \in {"igetwait", "plockwait"} => ip[q] \in Slot \ {s}
  BY DEF IInv, OneInode, HeldBy, NoLostWakeup, Registers, Reg, Uses
<1>1. Registers'
  <2>1. ASSUME NEW q \in Proc \ {p} PROVE Reg(q)'
    <3>1. pc'[q] = pc[q] /\ (Uses(q)' <=> Uses(q)) /\ ip'[q] = ip[q] /\ ino'[q] = ino[q]
      BY DEF Moves
    <3>2. pc[q] \in {"iread", "got", "wdir", "ifree", "itrunc", "iupdat"} => ip[q] \in Slot \ {s}
      BY <1>0 DEF IInv, Registers, Reg, Uses, Holds, HeldBy
    <3> QED BY <3>1, <3>2 DEF IInv, Registers, Reg
  <2> QED BY <2>1 DEF Registers
<1>2. Named'
  <2>1. inode[s].count \in Nat /\ inode'[s].count # 0
    <3>1. inode[s].count \in Nat
      BY DEF IInv, Types, Inode
    <3>2. Uses(p) => p \in Users(s)
      BY DEF Users
    <3>3. Uses(p) => inode[s].count # 0
      BY <3>2, LockedUsed
    <3> QED BY <3>1, <3>3
  <2> QED BY <2>1 DEF IInv, Named
<1>3. OneInode'
  <2>1. \A q \in Proc, t \in Slot : HeldBy(q, t)' <=> HeldBy(q, t) \/ (q = p /\ t = s)
    BY DEF HeldBy, Moves
  <2>2. Locking'
    BY <2>1, LockTaken, OneInodeParts DEF IInv
  <2> QED BY <1>1, <2>2, OneInodePartsNext
<1>4. References'
  <2>1. \A q \in Proc \ {p} : (Uses(q)' <=> Uses(q)) /\ ip'[q] = ip[q]
    BY DEF Moves
  <2>2. Uses(p)'
    BY DEF Uses
  <2>3. CASE Uses(p)
    <3>1. \A t \in Slot : Users(t)' = Users(t)
      BY <2>1, <2>2, <2>3 DEF Users
    <3> QED BY <2>3, <3>1, RefsKept DEF IInv
  <2>4. CASE ~Uses(p)
    <3>1. Users(s)' = Users(s) \cup {p} /\ p \notin Users(s)
      BY <2>1, <2>2, <2>4 DEF Users
    <3>2. \A t \in Slot \ {s} : Users(t)' = Users(t)
      BY <2>1, <2>2, <2>4 DEF Users
    <3> QED BY <2>4, <3>1, <3>2, RefAdded DEF IInv
  <2> QED BY <2>3, <2>4
<1>5. NoLostWakeup'
  BY <1>0 DEF IInv, NoLostWakeup, Moves, Holds
<1> QED BY <1>1, <1>2, <1>3, <1>4, <1>5 DEF IInv

(* A step by which p unlocks its slot and wakes those who want it. *)
LEMMA GiveInv ==
    ASSUME IInv, Types', NEW p \in Proc, NEW place, NEW s \in Slot, Moves(p, place, Wanting(s)),
           Reg(p)', Holds(p), ~Holds(p)', ip[p] = s, ~inode'[s].lock,
           Uses(p)' => ip'[p] = s,
           inode'[s].count = IF Uses(p)' THEN inode[s].count ELSE inode[s].count - 1,
           inode'[s].number \in {0, inode[s].number},
           inode'[s].number = 0 <=> inode'[s].count = 0,
           \A t \in Slot \ {s} : inode'[t] = inode[t],
           \A q \in Proc \ {p} : ip'[q] = ip[q] /\ ino'[q] = ino[q], ilock' = ilock,
           place \notin {"ilockwait", "igetwait", "plockwait"}
    PROVE  IInv'
<1>0. \A q \in Proc \ {p} : ~HeldBy(q, s)
  BY DEF IInv, OneInode, HeldBy
<1>1. Registers'
  <2>1. ASSUME NEW q \in Proc \ {p} PROVE Reg(q)'
    <3>1. /\ pc'[q] = "igetwait" => pc[q] = "igetwait"
          /\ pc'[q] = "iget" => pc[q] \in {"iget", "igetwait"}
          /\ pc'[q] \in {"iread", "got", "wdir", "ifree", "itrunc", "iupdat"} => pc'[q] = pc[q]
          /\ (Uses(q)' <=> Uses(q)) /\ ip'[q] = ip[q] /\ ino'[q] = ino[q]
      BY DEF Moves
    <3>2. pc[q] \in {"iread", "got", "wdir", "ifree", "itrunc", "iupdat"} => ip[q] \in Slot \ {s}
      BY <1>0 DEF IInv, Registers, Reg, Uses, Holds, HeldBy
    <3> QED BY <3>1, <3>2 DEF IInv, Registers, Reg
  <2> QED BY <2>1 DEF Registers
<1>2. Named'
  BY DEF IInv, Named
<1>3. OneInode'
  <2>1. \A q \in Proc, t \in Slot : HeldBy(q, t)' <=> HeldBy(q, t) /\ q # p
    BY DEF HeldBy, Moves
  <2>2. Unique /\ Locking /\ HeldBy(p, s)
    BY OneInodeParts DEF IInv, HeldBy
  <2>3. Locking'
    BY <2>1, <2>2, LockGiven
  <2>4. Unique'
    BY <2>2 DEF Unique
  <2> QED BY <1>1, <2>3, <2>4, OneInodePartsNext
<1>4. References'
  <2>1. \A q \in Proc \ {p} : (Uses(q)' <=> Uses(q)) /\ ip'[q] = ip[q]
    BY DEF Moves
  <2>2. Uses(p)
    BY DEF Uses
  <2>3. CASE Uses(p)'
    <3>1. \A t \in Slot : Users(t)' = Users(t)
      BY <2>1, <2>2, <2>3 DEF Users
    <3> QED BY <2>3, <3>1, RefsKept DEF IInv
  <2>4. CASE ~Uses(p)'
    <3>1. Users(s)' = Users(s) \ {p} /\ p \in Users(s)
      BY <2>1, <2>2, <2>4 DEF Users
    <3>2. \A t \in Slot \ {s} : Users(t)' = Users(t)
      BY <2>1, <2>2, <2>4 DEF Users
    <3> QED BY <2>4, <3>1, <3>2, RefRemoved DEF IInv
  <2> QED BY <2>3, <2>4
<1>5. NoLostWakeup'
  <2>1. ASSUME NEW q \in Proc, pc'[q] \in {"igetwait", "plockwait"}
        PROVE  inode'[ip'[q]].lock /\ inode'[ip'[q]].want
    <3>1. q # p /\ q \notin Wanting(s) /\ pc[q] = pc'[q] /\ ip'[q] = ip[q]
      BY <2>1 DEF Moves
    <3>2. inode[ip[q]].lock /\ inode[ip[q]].want /\ ip[q] \in Slot
      BY <2>1, <3>1 DEF IInv, NoLostWakeup, Registers, Reg, Uses
    <3>3. ip[q] # s
      BY <2>1, <3>1, <3>2 DEF Wanting
    <3> QED BY <3>1, <3>2, <3>3
  <2>2. ASSUME NEW q \in Proc, pc'[q] = "ilockwait" PROVE ilock' > 0
    BY <2>2 DEF IInv, NoLostWakeup, Moves
  <2> QED BY <2>1, <2>2 DEF NoLostWakeup
<1> QED BY <1>1, <1>2, <1>3, <1>4, <1>5 DEF IInv

-----------------------------------------------------------------------------
(* What the operations make of an inode of the table.                      *)
LEMMA TakenIs ==
    ASSUME NEW x \in Inode
    PROVE  /\ Taken(x) \in Inode
           /\ Taken(x).lock /\ Taken(x).count = x.count + 1 /\ Taken(x).number = x.number
           /\ Taken(x).upd = x.upd /\ Taken(x).mode = x.mode /\ Taken(x).nlink = x.nlink
<1> DEFINE n == x.count + 1
           y == [x EXCEPT !.lock = TRUE, !.count = n]
<1>0. n \in Nat
  BY DEF Inode
<1> HIDE DEF n
<1>a. y \in Inode
  BY <1>0 DEF Inode
<1>1. Taken(x) \in Inode
  BY <1>a DEF Taken, n, Inode
<1> QED BY <1>1 DEF Inode, Taken

LEMMA PreleIs ==
    ASSUME NEW x \in Inode
    PROVE  /\ Prele(x) \in Inode
           /\ ~Prele(x).lock /\ Prele(x).count = x.count /\ Prele(x).number = x.number
           /\ Prele(x).upd = x.upd /\ Prele(x).mode = x.mode /\ Prele(x).nlink = x.nlink
<1>1. Prele(x) \in Inode
  BY DEF Inode, Prele
<1> QED BY <1>1 DEF Inode, Prele

LEMMA ReleasedIs ==
    ASSUME NEW x \in Inode
    PROVE  /\ Released(x) \in Inode
           /\ ~Released(x).lock /\ Released(x).count = 0 /\ Released(x).number = 0
BY DEF Inode, Released

LEMMA NoFileIs ==
    ASSUME NEW x \in Inode
    PROVE  /\ NoFile(x) \in Inode
           /\ NoFile(x).lock = x.lock /\ NoFile(x).count = x.count /\ NoFile(x).want = x.want
           /\ NoFile(x).number = x.number /\ NoFile(x).mode = 0 /\ NoFile(x).upd
           /\ NoFile(x).nlink = x.nlink
<1>0. 0 \in 0..1
  OBVIOUS
<1>1. NoFile(x) \in Inode
  BY <1>0 DEF Inode, NoFile
<1> QED BY <1>1 DEF Inode, NoFile

LEMMA GetfsType == ASSUME Types PROVE Getfs \in Seq(Ino)
BY EmptySeq DEF Types, Getfs

-----------------------------------------------------------------------------
(* The system calls begin. *)
LEMMA CallInv ==
    ASSUME IInv, NEW p \in Proc,
           \/ Creat(p) \/ Sync(p) \/ \E i \in Ino : Open(p, i) \/ Unlink(p, i)
    PROVE  IInv'
<1>1. PICK o \in {"create", "open", "unlink", "sync"}, place \in {"ialloc", "iget", "update"} :
        /\ Call(p, o, place)
        /\ UNCHANGED <<inode, disk, ilock, dir, adr, files, faults>>
        /\ sinode' \in {sinode, Getfs} /\ ip' \in {ip, [ip EXCEPT ![p] = 0]}
        /\ \/ ino' = ino /\ place # "iget"
           \/ \E i \in Ino : ino' = [ino EXCEPT ![p] = i]
  <2>1. CASE Creat(p)
    BY <2>1 DEF Creat, local, history
  <2>2. CASE Sync(p)
    BY <2>2 DEF Sync, super, history
  <2>3. ASSUME NEW i \in Ino, Open(p, i) \/ Unlink(p, i)
        PROVE  \E o \in {"open", "unlink"} :
                 /\ Call(p, o, "iget") /\ ino' = [ino EXCEPT ![p] = i]
                 /\ UNCHANGED <<inode, disk, ilock, dir, adr, files, faults, sinode, ip>>
    BY <2>3 DEF Open, Unlink, super, history
  <2> QED BY <2>1, <2>2, <2>3
<1>2. /\ place \in PC /\ pc' = [pc EXCEPT ![p] = place] /\ pc[p] = "user"
      /\ op' = [op EXCEPT ![p] = o] /\ o \in Op
  BY <1>1 DEF Call, PC, OnCpu, Op
<1>3. Moves(p, place, {})
  BY <1>2, CallMoves DEF IInv
<1>4. Types'
  <2>1. sinode' \in Seq(Ino)
    BY <1>1, GetfsType DEF IInv, Types
  <2> QED BY <1>1, <1>2, <1>3, <2>1 DEF IInv, Types, Moves
<1>5. pc'[p] = place /\ ~Uses(p) /\ ~Uses(p)' /\ ~Holds(p) /\ ~Holds(p)'
  BY <1>1, <1>2, <1>3 DEF Moves, Uses, Holds
<1>6. Reg(p)'
  BY <1>1, <1>5 DEF IInv, Types, Reg
<1>7. \A q \in Proc \ {p} : ip'[q] = ip[q] /\ ino'[q] = ino[q]
  BY <1>1 DEF IInv, Types
<1>8. \A q \in Proc : pc'[q] = "ilockwait" => ilock' > 0
  BY <1>1, <1>5, <1>3 DEF IInv, NoLostWakeup, Moves
<1> QED BY <1>1, <1>3, <1>4, <1>5, <1>6, <1>7, <1>8, KeptInv

LEMMA CloseInv ==
    ASSUME IInv, NEW p \in Proc, Close(p)
    PROVE  IInv'
<1>1. /\ pc[p] = "open" /\ pc' = [pc EXCEPT ![p] = "plock"] /\ op' = [op EXCEPT ![p] = "put"]
      /\ UNCHANGED <<inode, disk, sinode, ilock, dir, ino, ip, adr, files, faults>>
  BY DEF Close, super, local, history
<1>2. "plock" \in PC /\ "put" \in Op
  BY DEF PC, OnCpu, Op
<1>3. Moves(p, "plock", {})
  BY <1>1, <1>2, CallMoves DEF IInv
<1>4. Types'
  BY <1>1, <1>2, <1>3 DEF IInv, Types, Moves
<1>5. pc'[p] = "plock" /\ Uses(p) /\ Uses(p)' /\ ~Holds(p) /\ ~Holds(p)'
  BY <1>1, <1>3 DEF Moves, Uses, Holds
<1>6. Reg(p)'
  BY <1>1, <1>5 DEF IInv, Registers, Reg
<1>7. \A q \in Proc : pc'[q] = "ilockwait" => ilock' > 0
  BY <1>1, <1>3, <1>5 DEF IInv, NoLostWakeup, Moves
<1> QED BY <1>1, <1>3, <1>4, <1>5, <1>6, <1>7, KeptInv

(* iget(): the inode is in core and locked, in core and not locked, not in *)
(* core, or there is no slot for it.                                       *)
LEMMA IgetInv ==
    ASSUME IInv, NEW p \in Proc, Iget(p)
    PROVE  IInv'
<1>0. /\ pc[p] = "iget" /\ ino[p] \in Ino /\ ino[p] # 0 /\ ~Uses(p) /\ ~Holds(p)
      /\ UNCHANGED <<disk, sinode, ilock, dir, files, faults>>
  <2>1. pc[p] = "iget" /\ UNCHANGED <<disk, sinode, ilock, dir, files, faults>>
    BY DEF Iget, At, super, history
  <2>2. ino[p] \in Ino /\ ~Uses(p) /\ ~Holds(p)
    BY <2>1 DEF IInv, Registers, Reg, Uses, Holds
  <2>3. ino[p] # 0
    BY <2>2, InodesAssumption DEF Ino
  <2> QED BY <2>1, <2>2, <2>3
<1>a. {"igetwait", "got", "iread", "user"} \subseteq PC /\ {} \in SUBSET Waiting /\ "none" \in Op
  BY DEF PC, OnCpu, Asleep, Op
<1>1. ASSUME NEW s \in Slot, inode[s].number = ino[p], ip' = [ip EXCEPT ![p] = s],
             UNCHANGED <<op, ino, adr>>, Locked(inode[s]),
             inode' = [inode EXCEPT ![s].want = TRUE], Goto(p, "igetwait", {})
      PROVE  IInv'
  <2>1. Moves(p, "igetwait", {})
    BY <1>a, <1>1, GotoMoves DEF IInv
  <2>2. /\ inode' \in [Slot -> Inode]
        /\ \A t \in Slot : /\ inode'[t].number = inode[t].number
                           /\ inode'[t].lock = inode[t].lock
                           /\ inode'[t].count = inode[t].count
                           /\ inode[t].want => inode'[t].want
        /\ inode'[s].want /\ inode'[s].lock
    BY <1>1 DEF IInv, Types, Inode, Locked
  <2>3. Types'
    BY <1>0, <1>1, <2>1, <2>2 DEF IInv, Types, Moves
  <2>4. /\ pc'[p] = "igetwait" /\ ~Uses(p)' /\ ~Holds(p)' /\ ip'[p] = s
        /\ \A q \in Proc \ {p} : ip'[q] = ip[q] /\ ino'[q] = ino[q]
    BY <1>1, <2>1 DEF IInv, Types, Moves, Uses, Holds
  <2>5. Reg(p)'
    BY <1>0, <1>1, <2>4 DEF Reg
  <2>6. \A q \in Proc : pc'[q] = "ilockwait" => ilock' > 0
    BY <1>0, <2>1, <2>4 DEF IInv, NoLostWakeup, Moves
  <2> QED BY <1>0, <2>1, <2>2, <2>3, <2>4, <2>5, <2>6, KeptInv
<1>2. ASSUME NEW s \in Slot, inode[s].number = ino[p], ip' = [ip EXCEPT ![p] = s],
             UNCHANGED <<op, ino, adr>>, ~Locked(inode[s]),
             inode' = [inode EXCEPT ![s] = Taken(@)], Goto(p, "got", {})
      PROVE  IInv'
  <2>1. Moves(p, "got", {})
    BY <1>a, <1>2, GotoMoves DEF IInv
  <2>2. /\ inode' \in [Slot -> Inode] /\ inode'[s] = Taken(inode[s])
        /\ \A t \in Slot \ {s} : inode'[t] = inode[t]
    <3>1. inode[s] \in Inode
      BY DEF IInv, Types
    <3>2. Taken(inode[s]) \in Inode
      BY <3>1, TakenIs
    <3> QED BY <1>2, <3>2 DEF IInv, Types
  <2>3. /\ inode'[s].lock /\ inode'[s].count = inode[s].count + 1
        /\ inode'[s].number = inode[s].number
    <3>1. inode[s] \in Inode
      BY DEF IInv, Types
    <3> QED BY <2>2, <3>1, TakenIs
  <2>4. Types'
    BY <1>0, <1>2, <2>1, <2>2 DEF IInv, Types, Moves
  <2>5. /\ pc'[p] = "got" /\ Holds(p)' /\ ip'[p] = s
        /\ \A q \in Proc \ {p} : ip'[q] = ip[q] /\ ino'[q] = ino[q]
    BY <1>2, <2>1 DEF IInv, Types, Moves, Holds
  <2>6. Reg(p)'
    BY <1>0, <1>2, <2>3, <2>5 DEF Reg
  <2>7. Unique'
    BY <2>2, <2>3 DEF IInv, OneInode, Unique
  <2> QED BY <1>0, <1>2, <2>1, <2>2, <2>3, <2>4, <2>5, <2>6, <2>7, TakeInv DEF Locked
<1>3. ASSUME NEW s \in Slot, inode[s].count = 0, ~InCore(ino[p]), ip' = [ip EXCEPT ![p] = s],
             inode' = [inode EXCEPT ![s] = [Taken(@) EXCEPT !.number = ino[p], !.want = FALSE,
                                                            !.upd = FALSE]],
             UNCHANGED <<op, ino, adr>>, Goto(p, "iread", {})
      PROVE  IInv'
  <2>1. Moves(p, "iread", {})
    BY <1>a, <1>3, GotoMoves DEF IInv
  <2>2. /\ inode' \in [Slot -> Inode] /\ \A t \in Slot \ {s} : inode'[t] = inode[t]
        /\ inode'[s].lock /\ inode'[s].count = inode[s].count + 1
        /\ inode'[s].number = ino[p]
    <3> DEFINE x == Taken(inode[s])
               y == [x EXCEPT !.number = ino[p], !.want = FALSE, !.upd = FALSE]
    <3>1. x \in Inode /\ x.lock /\ x.count = inode[s].count + 1
      <4>1. inode[s] \in Inode
        BY DEF IInv, Types
      <4> QED BY <4>1, TakenIs
    <3> HIDE DEF x
    <3>2. y \in Inode /\ y.lock /\ y.count = inode[s].count + 1 /\ y.number = ino[p]
      BY <1>0, <3>1 DEF Inode
    <3>3. inode' = [inode EXCEPT ![s] = y]
      BY <1>3 DEF x
    <3> HIDE DEF y
    <3> QED BY <3>2, <3>3 DEF IInv, Types
  <2>3. Types'
    BY <1>0, <1>3, <2>1, <2>2 DEF IInv, Types, Moves
  <2>4. /\ pc'[p] = "iread" /\ Holds(p)' /\ ip'[p] = s
        /\ \A q \in Proc \ {p} : ip'[q] = ip[q] /\ ino'[q] = ino[q]
    BY <1>3, <2>1 DEF IInv, Types, Moves, Holds
  <2>5. Reg(p)'
    BY <1>0, <1>3, <2>2, <2>4 DEF Reg
  <2>6. Unique'
    BY <1>3, <2>2 DEF IInv, OneInode, Unique, InCore
  <2>7. ~inode[s].lock
    BY <1>3, LockedUsed
  <2> QED BY <1>0, <1>3, <2>1, <2>2, <2>3, <2>4, <2>5, <2>6, <2>7, TakeInv
<1>4. ASSUME Return(p, {}), UNCHANGED inode
      PROVE  IInv'
  <2>1. Moves(p, "user", {}) /\ op' = [op EXCEPT ![p] = "none"]
    BY <1>a, <1>4, GotoMoves DEF IInv, Return
  <2>2. Types'
    BY <1>0, <1>a, <1>4, <2>1 DEF IInv, Types, Moves, Return
  <2>3. /\ pc'[p] = "user" /\ ~Uses(p)' /\ ~Holds(p)'
        /\ \A q \in Proc \ {p} : ip'[q] = ip[q] /\ ino'[q] = ino[q]
    BY <1>4, <2>1 DEF IInv, Types, Moves, Uses, Holds, Return
  <2>4. Reg(p)'
    BY <2>3 DEF Reg
  <2>5. \A q \in Proc : pc'[q] = "ilockwait" => ilock' > 0
    BY <1>0, <2>1, <2>3 DEF IInv, NoLostWakeup, Moves
  <2> QED BY <1>0, <1>4, <2>1, <2>2, <2>3, <2>4, <2>5, KeptInv
<1> QED BY <1>1, <1>2, <1>3, <1>4 DEF Iget

(* A system call returns; where iput() returns to. *)
LEMMA ReturnMoves ==
    ASSUME Types, NEW p \in Proc, NEW woken \in SUBSET Waiting, Return(p, woken)
    PROVE  /\ Moves(p, "user", woken) /\ op' \in [Proc -> Op]
           /\ ino' \in [Proc -> {0} \cup Ino] /\ ip' \in [Proc -> {0} \cup Slot]
           /\ adr' \in [Proc -> Nat]
           /\ \A q \in Proc \ {p} : ip'[q] = ip[q] /\ ino'[q] = ino[q]
           /\ ip'[p] = 0 /\ ino'[p] = 0 /\ \A q \in Proc \ {p} : op'[q] = op[q]
<1>1. Moves(p, "user", woken)
  BY GotoMoves DEF Return, PC
<1>2. op' \in [Proc -> Op]
  BY DEF Return, Types, Op
<1> QED BY <1>1, <1>2 DEF Return, Types

LEMMA IputReturnsMoves ==
    ASSUME Types, NEW p \in Proc, NEW woken \in SUBSET Waiting, IputReturns(p, woken)
    PROVE  /\ \E place \in {"loop", "update", "user"} : Moves(p, place, woken)
           /\ op' \in [Proc -> Op]
           /\ ino' \in [Proc -> {0} \cup Ino] /\ ip' \in [Proc -> {0} \cup Slot]
           /\ adr' \in [Proc -> Nat]
           /\ \A q \in Proc \ {p} : ip'[q] = ip[q] /\ ino'[q] = ino[q] /\ op'[q] = op[q]
<1>1. "loop" \in PC /\ "update" \in PC
  BY DEF PC, OnCpu
<1>2. CASE op[p] = "create"
  <2>1. Goto(p, "loop", woken) /\ UNCHANGED <<op, ino, ip, adr>>
    BY <1>2 DEF IputReturns, local
  <2> QED BY <1>1, <2>1, GotoMoves DEF Types
<1>3. CASE op[p] = "sync"
  <2>1. Goto(p, "update", woken) /\ UNCHANGED <<op, ino, ip, adr>>
    BY <1>3 DEF IputReturns, local
  <2> QED BY <1>1, <2>1, GotoMoves DEF Types
<1>4. CASE op[p] \notin {"create", "sync"}
  <2>1. Return(p, woken)
    BY <1>4 DEF IputReturns
  <2> QED BY <2>1, ReturnMoves
<1> QED BY <1>2, <1>3, <1>4

(* What is known of the slot that p has locked. *)
LEMMA Holding ==
    ASSUME IInv, NEW p \in Proc, Holds(p)
    PROVE  /\ ip[p] \in Slot /\ inode[ip[p]] \in Inode /\ inode[ip[p]].lock /\ Uses(p)
           /\ inode[ip[p]].count > 0 /\ inode[ip[p]].number # 0 /\ inode[ip[p]].number \in Ino
           /\ \A q \in Proc \ {p} : ~(Holds(q) /\ ip[q] = ip[p])
<1>1. ip[p] \in Slot /\ Uses(p)
  BY DEF IInv, Registers, Reg, Uses
<1>2. inode[ip[p]] \in Inode
  BY <1>1 DEF IInv, Types
<1>3. inode[ip[p]].lock /\ \A q \in Proc \ {p} : ~(Holds(q) /\ ip[q] = ip[p])
  BY <1>1 DEF IInv, OneInode
<1>4. inode[ip[p]].count # 0
  BY <1>1, <1>3, LockedUsed
<1>5. inode[ip[p]].number # 0
  BY <1>1, <1>4 DEF IInv, Named
<1> QED BY <1>1, <1>2, <1>3, <1>4, <1>5 DEF Inode

(* iput() and the end of the last reference: p unlocks slot s, which is    *)
(* free when nobody else refers to it.                                     *)
LEMMA PutInv ==
    ASSUME IInv, NEW p \in Proc, Holds(p), NEW s \in Slot, s = ip[p], NEW y \in Inode,
           inode' = [inode EXCEPT ![s] = y], ~y.lock, y.count = inode[s].count - 1,
           y.number = (IF y.count = 0 THEN 0 ELSE inode[s].number),
           IputReturns(p, Wanting(s)), sinode' = sinode, ilock' = ilock,
           disk' \in [Ino -> [mode : 0..1, nlink : Int]], dir' = dir, files' = files,
           faults' \in Nat
    PROVE  IInv'
<1>1. /\ op' \in [Proc -> Op] /\ ino' \in [Proc -> {0} \cup Ino]
      /\ ip' \in [Proc -> {0} \cup Slot] /\ adr' \in [Proc -> Nat]
      /\ \A q \in Proc \ {p} : ip'[q] = ip[q] /\ ino'[q] = ino[q]
  BY IputReturnsMoves, WantingType DEF IInv
<1>2. PICK place \in {"loop", "update", "user"} : Moves(p, place, Wanting(s))
  BY IputReturnsMoves, WantingType DEF IInv
<1>3. /\ inode'[s] = y /\ inode' \in [Slot -> Inode]
      /\ \A t \in Slot \ {s} : inode'[t] = inode[t]
  BY DEF IInv, Types
<1>4. Types'
  BY <1>1, <1>2, <1>3 DEF IInv, Types, Moves
<1>5. pc'[p] = place /\ ~Uses(p)' /\ ~Holds(p)'
  BY <1>2 DEF Moves, Uses, Holds
<1>6. Reg(p)'
  BY <1>2, <1>5 DEF Reg
<1>7. inode[s].number # 0
  BY Holding
<1>8. /\ inode'[s].number \in {0, inode[s].number}
      /\ inode'[s].number = 0 <=> inode'[s].count = 0
      /\ ~inode'[s].lock /\ inode'[s].count = inode[s].count - 1
  BY <1>3, <1>7
<1> QED BY <1>1, <1>2, <1>3, <1>4, <1>5, <1>6, <1>8, GiveInv

(* A step by which p goes on with the slot that it has locked, whose mode, *)
(* links and flag may change.                                              *)
LEMMA HeldInv ==
    ASSUME IInv, NEW p \in Proc, Holds(p), NEW s \in Slot, s = ip[p], NEW y \in Inode,
           inode' = [inode EXCEPT ![s] = y], y.number = inode[s].number, y.lock,
           y.count = inode[s].count, y.want = inode[s].want,
           NEW place \in {"got", "trunc", "wdir", "iput", "ifree", "itrunc", "iupdat", "sync"},
           Goto(p, place, {}), place \in {"got", "wdir"} => pc[p] \in {"iread", "got", "wdir"},
           place \in {"ifree", "itrunc", "iupdat"} => inode[s].count = 1,
           UNCHANGED <<ilock, ino, ip, adr>>, op' \in [Proc -> Op], sinode' \in Seq(Ino),
           disk' \in [Ino -> [mode : 0..1, nlink : Int]], dir' \in SUBSET Ino,
           files' \in SUBSET Ino, faults' \in Nat
    PROVE  IInv'
<1>1. place \in PC
  BY DEF PC, OnCpu, Asleep
<1>2. Moves(p, place, {})
  BY <1>1, GotoMoves DEF IInv
<1>3. /\ inode'[s] = y /\ inode' \in [Slot -> Inode]
      /\ \A t \in Slot \ {s} : inode'[t] = inode[t]
  BY DEF IInv, Types
<1>4. Types'
  BY <1>2, <1>3 DEF IInv, Types, Moves
<1>5. inode[s].lock = y.lock
  BY Holding DEF Inode
<1>6. \A t \in Slot : /\ inode'[t].number = inode[t].number
                      /\ inode'[t].lock = inode[t].lock
                      /\ inode'[t].count = inode[t].count
                      /\ inode[t].want => inode'[t].want
  BY <1>3, <1>5
<1>7. pc'[p] = place /\ Holds(p)' /\ Uses(p)' /\ Uses(p)
  BY <1>2 DEF Moves, Uses, Holds
<1>8. Reg(p)'
  <2>1. pc[p] \in {"iread", "got", "wdir"} => ino[p] \in Ino /\ inode[s].number = ino[p]
    BY DEF IInv, Registers, Reg
  <2>2. place \in {"ifree", "itrunc", "iupdat"} => inode'[s].count = 1
    BY <1>6
  <2> QED BY <1>6, <1>7, <2>1, <2>2 DEF Reg
<1>9. \A q \in Proc : pc'[q] = "ilockwait" => ilock' > 0
  BY <1>2, <1>7 DEF IInv, NoLostWakeup, Moves
<1> QED BY <1>2, <1>4, <1>6, <1>7, <1>8, <1>9, KeptInv

-----------------------------------------------------------------------------
(* The steps of a process that has an inode locked.                        *)
LEMMA IgetReadInv ==
    ASSUME IInv, NEW p \in Proc, IgetRead(p)
    PROVE  IInv'
<1> DEFINE s == ip[p]
           x == inode[s]
<1>0. /\ pc[p] = "iread" /\ Holds(p)
      /\ UNCHANGED <<disk, sinode, ilock, dir, ino, ip, adr, files>>
  BY DEF IgetRead, At, Holds, super, local
<1>1. s \in Slot /\ x \in Inode /\ x.lock /\ ino[p] \in Ino
  BY <1>0, Holding DEF IInv, Registers, Reg
<1>2. CASE /\ Succeeds /\ Goto(p, "got", {}) /\ UNCHANGED op
           /\ inode' = [inode EXCEPT ![ip[p]].mode = disk[ino[p]].mode,
                                     ![ip[p]].nlink = disk[ino[p]].nlink]
  <2> DEFINE d == disk[ino[p]]
             y == [x EXCEPT !.mode = d.mode, !.nlink = d.nlink]
  <2>1. d \in [mode : 0..1, nlink : Int]
    BY <1>1 DEF IInv, Types
  <2>2. inode' = [inode EXCEPT ![s] = y]
    BY <1>1, <1>2 DEF IInv, Types, Inode
  <2> HIDE DEF d
  <2>3. /\ y \in Inode /\ y.number = x.number /\ y.lock /\ y.count = x.count
        /\ y.want = x.want
    BY <1>1, <2>1 DEF Inode
  <2> HIDE DEF y
  <2>4. s = ip[p] /\ op' \in [Proc -> Op] /\ faults' \in Nat
    BY <1>2 DEF Succeeds, IInv, Types
  <2>5. /\ sinode' \in Seq(Ino) /\ disk' \in [Ino -> [mode : 0..1, nlink : Int]]
        /\ dir' \in SUBSET Ino /\ files' \in SUBSET Ino
    BY <1>0 DEF IInv, Types
  <2> HIDE DEF s
  <2> QED BY <1>0, <1>1, <1>2, <2>2, <2>3, <2>4, <2>5, HeldInv
<1>3. CASE /\ Fails /\ op' = [op EXCEPT ![p] = "put"] /\ Goto(p, "iput", {})
           /\ UNCHANGED inode
  <2>1. inode' = [inode EXCEPT ![s] = x]
    BY <1>1, <1>3 DEF IInv, Types
  <2>2. op' \in [Proc -> Op] /\ faults' \in Nat
    BY <1>3 DEF Fails, IInv, Types, Op
  <2>3. /\ sinode' \in Seq(Ino) /\ disk' \in [Ino -> [mode : 0..1, nlink : Int]]
        /\ dir' \in SUBSET Ino /\ files' \in SUBSET Ino
    BY <1>0 DEF IInv, Types
  <2> QED BY <1>0, <1>1, <1>3, <2>1, <2>2, <2>3, HeldInv
<1> QED BY <1>2, <1>3 DEF IgetRead

LEMMA IputInv ==
    ASSUME IInv, NEW p \in Proc, Iput(p)
    PROVE  IInv'
<1> DEFINE s == ip[p]
           x == inode[s]
<1>0. pc[p] = "iput" /\ Holds(p) /\ UNCHANGED <<disk, ilock, dir, files, faults>>
  BY DEF Iput, At, Holds, history
<1>1. s \in Slot /\ x \in Inode /\ x.lock /\ x.count > 0 /\ x.number # 0
  BY <1>0, Holding
<1>2. /\ disk' \in [Ino -> [mode : 0..1, nlink : Int]]
      /\ dir' \in SUBSET Ino /\ files' \in SUBSET Ino /\ faults' \in Nat
  BY <1>0 DEF IInv, Types
<1>3. CASE /\ x.count > 1 /\ inode' = [inode EXCEPT ![s] = Prele([x EXCEPT !.count = @ - 1])]
           /\ IputReturns(p, Wanting(s)) /\ UNCHANGED sinode
  <2> DEFINE n == x.count - 1
             z == [x EXCEPT !.count = n]
  <2>1. n \in Nat /\ n # 0
    BY <1>1, <1>3 DEF Inode
  <2> HIDE DEF n
  <2>2. z \in Inode /\ z.count = n /\ z.number = x.number
    BY <1>1, <2>1 DEF Inode
  <2>3. inode' = [inode EXCEPT ![s] = Prele(z)]
    BY <1>3 DEF n
  <2> HIDE DEF z
  <2>4. /\ Prele(z) \in Inode /\ ~Prele(z).lock /\ Prele(z).count = x.count - 1
        /\ Prele(z).number = (IF Prele(z).count = 0 THEN 0 ELSE x.number)
    BY <2>1, <2>2, PreleIs DEF n
  <2> QED BY <1>0, <1>1, <1>2, <1>3, <2>3, <2>4, PutInv
<1>4. CASE /\ x.count = 1 /\ inode' = [inode EXCEPT ![s] = Released(x)]
           /\ IputReturns(p, Wanting(s)) /\ UNCHANGED sinode
  <2>1. /\ Released(x) \in Inode /\ ~Released(x).lock /\ Released(x).count = x.count - 1
        /\ Released(x).number = (IF Released(x).count = 0 THEN 0 ELSE x.number)
    BY <1>1, <1>4, ReleasedIs
  <2> QED BY <1>0, <1>1, <1>2, <1>4, <2>1, PutInv
<1>5. CASE /\ x.count = 1
           /\ inode' = [inode EXCEPT ![s].lock = TRUE] /\ sinode' = Getfs
           /\ Goto(p, IF ~NoLinks(x) THEN "iupdat"
                      ELSE IF x.mode = 0 THEN "ifree" ELSE "itrunc", {})
           /\ UNCHANGED <<op, local>>
  <2> DEFINE y == [x EXCEPT !.lock = TRUE]
  <2>1. /\ y \in Inode /\ y.number = x.number /\ y.lock /\ y.count = x.count
        /\ y.want = x.want
    BY <1>1 DEF Inode
  <2>2. inode' = [inode EXCEPT ![s] = y]
    BY <1>5
  <2> HIDE DEF y
  <2>3. PICK place \in {"iupdat", "ifree", "itrunc"} : Goto(p, place, {})
    BY <1>5
  <2>4. sinode' \in Seq(Ino) /\ op' \in [Proc -> Op] /\ UNCHANGED <<ino, ip, adr>>
    BY <1>5, GetfsType DEF IInv, Types, local
  <2> HIDE DEF s
  <2>5. s = ip[p]
    BY DEF s
  <2> QED BY <1>0, <1>1, <1>2, <1>5, <2>1, <2>2, <2>3, <2>4, <2>5, HeldInv
<1> QED BY <1>3, <1>4, <1>5 DEF Iput

LEMMA IfreeType == ASSUME Types, NEW i \in Ino PROVE Ifree(i) \in Seq(Ino)
BY GetfsType, AppendProperties DEF Ifree

LEMMA IputFreeInv ==
    ASSUME IInv, NEW p \in Proc, IputFree(p)
    PROVE  IInv'
<1> DEFINE s == ip[p]
           x == inode[s]
<1>0. /\ pc[p] \in {"itrunc", "ifree"} /\ Holds(p)
      /\ UNCHANGED <<disk, ilock, dir, op, ino, ip, adr, faults>>
      /\ inode' = [inode EXCEPT ![s] = NoFile(@)] /\ files' = files \ {x.number}
      /\ sinode' = Ifree(x.number) /\ Goto(p, "iupdat", {})
  BY DEF IputFree, At, Holds, local
<1>1. s \in Slot /\ x \in Inode /\ x.lock /\ x.number \in Ino /\ s = ip[p] /\ x.count = 1
  BY <1>0, Holding DEF IInv, Registers, Reg
<1>2. /\ NoFile(x) \in Inode /\ NoFile(x).lock /\ NoFile(x).count = x.count
      /\ NoFile(x).want = x.want /\ NoFile(x).number = x.number
  BY <1>1, NoFileIs
<1>3. inode' = [inode EXCEPT ![s] = NoFile(x)]
  BY <1>0
<1>4. /\ sinode' \in Seq(Ino) /\ disk' \in [Ino -> [mode : 0..1, nlink : Int]]
      /\ dir' \in SUBSET Ino /\ files' \in SUBSET Ino /\ faults' \in Nat
      /\ op' \in [Proc -> Op]
  BY <1>0, <1>1, IfreeType DEF IInv, Types
<1> HIDE DEF s
<1> QED BY <1>0, <1>1, <1>2, <1>3, <1>4, HeldInv

(* iupdat() changes the disk, if anything. *)
LEMMA IupdatedType ==
    ASSUME Types, NEW x \in Inode, x.number \in Ino, Iupdated(x)
    PROVE  disk' \in [Ino -> [mode : 0..1, nlink : Int]] /\ faults' \in Nat
<1>1. CASE Succeeds /\ disk' = [disk EXCEPT ![x.number] = [mode |-> x.mode, nlink |-> x.nlink]]
  <2>1. [mode |-> x.mode, nlink |-> x.nlink] \in [mode : 0..1, nlink : Int]
    BY DEF Inode
  <2> QED BY <1>1, <2>1 DEF Succeeds, Types
<1>2. CASE Fails /\ UNCHANGED disk
  BY <1>2 DEF Fails, Types
<1> QED BY <1>1, <1>2 DEF Iupdated

LEMMA IputUpdatedInv ==
    ASSUME IInv, NEW p \in Proc, IputUpdated(p)
    PROVE  IInv'
<1> DEFINE s == ip[p]
           x == inode[s]
<1>0. /\ pc[p] = "iupdat" /\ Holds(p) /\ UNCHANGED <<sinode, ilock, dir, files>>
      /\ Iupdated(x) /\ inode' = [inode EXCEPT ![s] = Released(x)]
      /\ IputReturns(p, Wanting(s))
  BY DEF IputUpdated, At, Holds, super
<1>1. s \in Slot /\ x \in Inode /\ x.lock /\ x.number \in Ino /\ s = ip[p] /\ x.count = 1
  BY <1>0, Holding DEF IInv, Registers, Reg
<1>2. /\ Released(x) \in Inode /\ ~Released(x).lock /\ Released(x).count = x.count - 1
      /\ Released(x).number = (IF Released(x).count = 0 THEN 0 ELSE x.number)
  BY <1>1, ReleasedIs
<1>3. disk' \in [Ino -> [mode : 0..1, nlink : Int]] /\ faults' \in Nat
  BY <1>0, <1>1, IupdatedType DEF IInv
<1> HIDE DEF s
<1> QED BY <1>0, <1>1, <1>2, <1>3, PutInv

-----------------------------------------------------------------------------
(* The steps of ialloc().                                                  *)

(* A step of p that has no inode, and leaves the table alone. *)
LEMMA FreeInv ==
    ASSUME IInv, NEW p \in Proc, ~Uses(p), UNCHANGED <<inode, disk, dir, files>>,
           NEW place \in {"user", "loop", "iget", "scan", "ilockwait"},
           NEW woken, Moves(p, place, woken), place = "iget" => ino'[p] \in Ino,
           op' \in [Proc -> Op], ino' \in [Proc -> {0} \cup Ino],
           ip' \in [Proc -> {0} \cup Slot], adr' \in [Proc -> Nat],
           \A q \in Proc \ {p} : ip'[q] = ip[q] /\ ino'[q] = ino[q],
           sinode' \in Seq(Ino), ilock' \in Nat, faults' \in Nat,
           \A q \in Proc : pc'[q] = "ilockwait" => ilock' > 0
    PROVE  IInv'
<1>1. Types'
  BY DEF IInv, Types, Moves
<1>2. pc'[p] = place /\ ~Uses(p)' /\ ~Holds(p)' /\ ~Holds(p)
  BY DEF Moves, Uses, Holds
<1>3. Reg(p)'
  BY <1>2 DEF Reg
<1> QED BY <1>1, <1>2, <1>3, KeptInv

LEMMA IallocInv ==
    ASSUME IInv, NEW p \in Proc, Ialloc(p)
    PROVE  IInv'
<1>1. /\ pc[p] = "ialloc"
      /\ UNCHANGED <<inode, disk, sinode, ilock, dir, op, ino, ip, adr, files, faults>>
  BY DEF Ialloc, At, super, local, history
<1>2. PICK place \in {"ilockwait", "loop"} :
        Goto(p, place, {}) /\ (place = "ilockwait" => ilock > 0)
  BY DEF Ialloc
<1>3. Moves(p, place, {})
  BY <1>2, GotoMoves DEF IInv, PC, OnCpu, Asleep
<1>4. ~Uses(p)
  BY <1>1 DEF Uses, Holds
<1>5. \A q \in Proc : pc'[q] = "ilockwait" => ilock' > 0
  BY <1>1, <1>2, <1>3 DEF IInv, NoLostWakeup, Moves
<1> QED BY <1>1, <1>2, <1>3, <1>4, <1>5, FreeInv DEF IInv, Types

LEMMA IallocLoopInv ==
    ASSUME IInv, NEW p \in Proc, IallocLoop(p)
    PROVE  IInv'
<1>1. /\ pc[p] = "loop" /\ ~Uses(p)
      /\ UNCHANGED <<inode, disk, dir, op, ip, files, faults>>
  BY DEF IallocLoop, At, history, Uses, Holds
<1>2. CASE /\ sinode # <<>>
           /\ ino' = [ino EXCEPT ![p] = sinode[Len(sinode)]]
           /\ sinode' = SubSeq(sinode, 1, Len(sinode) - 1)
           /\ Goto(p, "iget", {})
           /\ UNCHANGED <<ilock, adr>>
  <2>1. sinode[Len(sinode)] \in Ino
    BY <1>2 DEF IInv, Types
  <2>2. sinode' \in Seq(Ino)
    BY <1>2 DEF IInv, Types
  <2>3. Moves(p, "iget", {})
    BY <1>2, GotoMoves DEF IInv, PC, OnCpu
  <2>4. /\ ino' \in [Proc -> {0} \cup Ino] /\ ino'[p] \in Ino
        /\ \A q \in Proc \ {p} : ino'[q] = ino[q]
    BY <1>2, <2>1 DEF IInv, Types
  <2>5. \A q \in Proc : pc'[q] = "ilockwait" => ilock' > 0
    BY <1>2, <2>3 DEF IInv, NoLostWakeup, Moves
  <2> QED BY <1>1, <1>2, <2>2, <2>3, <2>4, <2>5, FreeInv DEF IInv, Types
<1>3. CASE /\ ilock' = ilock + 1
           /\ adr' = [adr EXCEPT ![p] = 0]
           /\ Goto(p, "scan", {})
           /\ UNCHANGED <<sinode, ino>>
  <2>1. ilock' \in Nat /\ ilock' > 0
    BY <1>3 DEF IInv, Types
  <2>2. Moves(p, "scan", {})
    BY <1>3, GotoMoves DEF IInv, PC, Asleep
  <2>3. adr' \in [Proc -> Nat]
    BY <1>3 DEF IInv, Types
  <2> QED BY <1>1, <1>3, <2>1, <2>2, <2>3, FreeInv DEF IInv, Types
<1> QED BY <1>2, <1>3 DEF IallocLoop

LEMMA ScannedType ==
    ASSUME Types, NEW a \in Nat
    PROVE  Scanned(a) \subseteq Seq(Ino)
<1> DEFINE room == IF Len(sinode) < NICINOD THEN NICINOD - Len(sinode) ELSE 1
           found == Cardinality(FreeOf(a))
           n == IF found < room THEN found ELSE room
<1>1. n \in Nat
  <2>0. IsFiniteSet(Ino)
    BY FS_Interval, InodesAssumption DEF Ino
  <2>1. IsFiniteSet(FreeOf(a))
    <3>1. FreeOf(a) \in SUBSET Ino
      BY DEF FreeOf
    <3> QED BY <2>0, <3>1, FS_Subset
  <2>2. found \in Nat
    BY <2>1, FS_CardinalityType
  <2>3. room \in Nat
    BY InodesAssumption DEF Types
  <2> QED BY <2>2, <2>3
<1>2. ASSUME NEW c \in Scanned(a) PROVE c \in Seq(Ino)
  <2>1. PICK t \in [1..n -> FreeOf(a)] : c = sinode \o t
    BY <1>2 DEF Scanned
  <2> HIDE DEF n
  <2>2. t \in Seq(FreeOf(a))
    BY <1>1, <2>1
  <2>3. FreeOf(a) \subseteq Ino
    BY DEF FreeOf
  <2>4. t \in Seq(Ino)
    BY <2>2, <2>3
  <2> QED BY <2>1, <2>4, ConcatProperties DEF Types
<1> QED BY <1>2

LEMMA IallocScanInv ==
    ASSUME IInv, NEW p \in Proc, IallocScan(p)
    PROVE  IInv'
<1>1. pc[p] = "scan" /\ ~Uses(p) /\ UNCHANGED <<inode, disk, dir, files>>
  BY DEF IallocScan, At, Uses, Holds
<1>2. sinode' \in Seq(Ino) /\ faults' \in Nat
  <2>1. adr[p] \in Nat
    BY DEF IInv, Types
  <2>2. Scanned(adr[p]) \subseteq Seq(Ino)
    BY <2>1, ScannedType DEF IInv
  <2>3. sinode \in Seq(Ino) /\ faults \in Nat
    BY DEF IInv, Types
  <2>4. sinode' \in Scanned(adr[p]) \/ sinode' = sinode
    BY DEF IallocScan
  <2>5. faults' \in {faults, faults + 1}
    BY DEF IallocScan, Succeeds, Fails
  <2> QED BY <2>2, <2>3, <2>4, <2>5
<1>4. CASE /\ adr' = [adr EXCEPT ![p] = @ + 1]
           /\ Goto(p, "scan", {})
           /\ UNCHANGED <<ilock, op, ino, ip>>
  <2>1. Moves(p, "scan", {})
    BY <1>4, GotoMoves DEF IInv, PC, Asleep
  <2>2. adr' \in [Proc -> Nat]
    BY <1>4 DEF IInv, Types
  <2>3. \A q \in Proc : pc'[q] = "ilockwait" => ilock' > 0
    BY <1>4, <2>1 DEF IInv, NoLostWakeup, Moves
  <2> QED BY <1>1, <1>2, <1>4, <2>1, <2>2, <2>3, FreeInv DEF IInv, Types
<1>5. CASE ilock' = 0 /\ Return(p, WaitingForIlist)
  <2>1. /\ Moves(p, "user", WaitingForIlist) /\ op' \in [Proc -> Op]
        /\ ino' \in [Proc -> {0} \cup Ino] /\ ip' \in [Proc -> {0} \cup Slot]
        /\ adr' \in [Proc -> Nat]
        /\ \A q \in Proc \ {p} : ip'[q] = ip[q] /\ ino'[q] = ino[q]
    BY <1>5, ReturnMoves, IlistType DEF IInv
  <2>2. \A q \in Proc : pc'[q] # "ilockwait"
    BY <2>1 DEF Moves, WaitingForIlist
  <2> QED BY <1>1, <1>2, <1>5, <2>1, <2>2, FreeInv
<1>6. CASE /\ ilock' = 0 /\ Goto(p, "loop", WaitingForIlist)
           /\ adr' = [adr EXCEPT ![p] = 0] /\ UNCHANGED <<op, ino, ip>>
  <2>1. Moves(p, "loop", WaitingForIlist)
    BY <1>6, GotoMoves, IlistType DEF IInv, PC, OnCpu
  <2>2. \A q \in Proc : pc'[q] # "ilockwait"
    BY <2>1 DEF Moves, WaitingForIlist
  <2>3. adr' \in [Proc -> Nat]
    BY <1>6 DEF IInv, Types
  <2> QED BY <1>1, <1>2, <1>6, <2>1, <2>2, <2>3, FreeInv DEF IInv, Types
<1> QED BY <1>4, <1>5, <1>6 DEF IallocScan, ScanNext

LEMMA IallocGotInv ==
    ASSUME IInv, NEW p \in Proc, IallocGot(p)
    PROVE  IInv'
<1> DEFINE s == ip[p]
           x == inode[s]
<1>0. /\ pc[p] = "got" /\ Holds(p)
      /\ UNCHANGED <<disk, sinode, ilock, dir, op, ino, ip, adr, faults>>
  BY DEF IallocGot, At, Holds, super, local
<1>1. s \in Slot /\ x \in Inode /\ x.lock /\ ino[p] \in Ino /\ s = ip[p]
  BY <1>0, Holding DEF IInv, Registers, Reg
<1>2. /\ sinode' \in Seq(Ino) /\ disk' \in [Ino -> [mode : 0..1, nlink : Int]]
      /\ dir' \in SUBSET Ino /\ faults' \in Nat /\ op' \in [Proc -> Op]
  BY <1>0 DEF IInv, Types
<1>3. CASE /\ inode' = [inode EXCEPT ![ip[p]].mode = 1, ![ip[p]].nlink = 1, ![ip[p]].upd = TRUE]
           /\ files' = files \cup {ino[p]} /\ Goto(p, "wdir", {})
  <2> DEFINE y == [x EXCEPT !.mode = 1, !.nlink = 1, !.upd = TRUE]
  <2>1. inode' = [inode EXCEPT ![s] = y]
    BY <1>1, <1>3 DEF IInv, Types, Inode
  <2>2. 1 \in 0..1 /\ 1 \in Int
    OBVIOUS
  <2>3. /\ y \in Inode /\ y.number = x.number /\ y.lock /\ y.count = x.count
        /\ y.want = x.want
    BY <1>1, <2>2 DEF Inode
  <2> HIDE DEF y
  <2>4. files' \in SUBSET Ino
    BY <1>1, <1>3 DEF IInv, Types
  <2> HIDE DEF s
  <2> QED BY <1>0, <1>1, <1>2, <1>3, <2>1, <2>3, <2>4, HeldInv
<1>4. CASE Goto(p, "iput", {}) /\ UNCHANGED <<inode, files>>
  <2>1. inode' = [inode EXCEPT ![s] = x] /\ files' \in SUBSET Ino
    BY <1>1, <1>4 DEF IInv, Types
  <2> HIDE DEF s
  <2> QED BY <1>0, <1>1, <1>2, <1>4, <2>1, HeldInv
<1> QED BY <1>3, <1>4 DEF IallocGot

-----------------------------------------------------------------------------
(* The steps of open(), creat(), unlink(), close() and sync().             *)
LEMMA OpenedInv ==
    ASSUME IInv, NEW p \in Proc, Holds(p), Opened(p),
           UNCHANGED <<disk, sinode, ilock, ino, ip, adr, files>>,
           dir' \in SUBSET Ino, faults' \in Nat
    PROVE  IInv'
<1> DEFINE s == ip[p]
           x == inode[s]
<1>1. s \in Slot /\ x \in Inode /\ x.lock /\ s = ip[p] /\ x.number # 0 /\ x.count > 0
  BY Holding
<1>2. PICK b \in {x.upd, TRUE} : inode' = [inode EXCEPT ![s] = Prele([x EXCEPT !.upd = b])]
  BY DEF Opened
<1> DEFINE z == [x EXCEPT !.upd = b]
<1>3. b \in BOOLEAN
  BY <1>1 DEF Inode
<1>4. z \in Inode /\ z.count = x.count /\ z.number = x.number
  BY <1>1, <1>3 DEF Inode
<1>5. inode' = [inode EXCEPT ![s] = Prele(z)]
  BY <1>2
<1> HIDE DEF z
<1>6. /\ Prele(z) \in Inode /\ ~Prele(z).lock /\ Prele(z).count = x.count
      /\ Prele(z).number = x.number
  BY <1>4, PreleIs
<1>7. /\ inode' \in [Slot -> Inode] /\ inode'[s] = Prele(z)
      /\ \A t \in Slot \ {s} : inode'[t] = inode[t]
  BY <1>1, <1>5, <1>6 DEF IInv, Types
<1>8. Moves(p, "open", Wanting(s))
  BY <1>1, GotoMoves, WantingType DEF Opened, IInv, PC
<1>9. op' \in [Proc -> Op]
  BY DEF Opened, IInv, Types, Op
<1>10. Types'
  BY <1>7, <1>8, <1>9 DEF IInv, Types, Moves
<1>11. pc'[p] = "open" /\ Uses(p)' /\ ~Holds(p)'
  BY <1>8 DEF Moves, Uses, Holds
<1>12. Reg(p)'
  BY <1>1, <1>11 DEF Reg
<1>13. /\ ~inode'[s].lock /\ inode'[s].count = inode[s].count
       /\ inode'[s].number = inode[s].number
       /\ inode'[s].number = 0 <=> inode'[s].count = 0
  BY <1>1, <1>6, <1>7
<1> HIDE DEF s
<1> QED BY <1>1, <1>7, <1>8, <1>10, <1>11, <1>12, <1>13, GiveInv

(* A step that leaves the inode that p has locked as it is. *)
LEMMA SameInodeInv ==
    ASSUME IInv, NEW p \in Proc, Holds(p), pc[p] \in {"iread", "got", "wdir"},
           NEW place \in {"trunc", "wdir", "iput"}, Goto(p, place, {}),
           UNCHANGED <<inode, disk, sinode, ilock, dir, ino, ip, adr, files>>,
           op' \in [Proc -> Op], faults' \in Nat
    PROVE  IInv'
<1> DEFINE s == ip[p]
           x == inode[s]
<1>1. s \in Slot /\ x \in Inode /\ x.lock /\ s = ip[p]
  BY Holding
<1>2. inode' = [inode EXCEPT ![s] = x]
  BY <1>1 DEF IInv, Types
<1>3. /\ sinode' \in Seq(Ino) /\ disk' \in [Ino -> [mode : 0..1, nlink : Int]]
      /\ dir' \in SUBSET Ino /\ files' \in SUBSET Ino
  BY DEF IInv, Types
<1> HIDE DEF s
<1> QED BY <1>1, <1>2, <1>3, HeldInv

(* falloc() fails, and prele() has woken whoever waits for the inode. *)
LEMMA FallocFailsInv ==
    ASSUME IInv, NEW p \in Proc, Holds(p), FallocFails(p),
           UNCHANGED <<disk, sinode, ilock, ino, ip, adr, files>>,
           dir' \in SUBSET Ino, faults' \in Nat
    PROVE  IInv'
<1> DEFINE s == ip[p]
           x == inode[s]
           y == [x EXCEPT !.want = FALSE]
<1>1. s \in Slot /\ x \in Inode /\ x.lock /\ s = ip[p]
  BY Holding
<1>2. inode' = [inode EXCEPT ![s] = y]
  BY DEF FallocFails
<1>3. y \in Inode /\ y.number = x.number /\ y.lock = x.lock /\ y.count = x.count
  BY <1>1 DEF Inode
<1> HIDE DEF y
<1>4. /\ inode' \in [Slot -> Inode] /\ inode'[s] = y
      /\ \A t \in Slot \ {s} : inode'[t] = inode[t]
  BY <1>1, <1>2, <1>3 DEF IInv, Types
<1>5. Moves(p, "iput", Wanting(s))
  BY <1>1, GotoMoves, WantingType DEF FallocFails, IInv, PC, OnCpu
<1>6. op' \in [Proc -> Op]
  BY DEF FallocFails, IInv, Types, Op
<1>7. Types'
  BY <1>4, <1>5, <1>6 DEF IInv, Types, Moves
<1>8. pc'[p] = "iput" /\ Holds(p)' /\ Uses(p)' /\ Uses(p)
  BY <1>5 DEF Moves, Uses, Holds
<1>9. Reg(p)'
  BY <1>1, <1>8 DEF Reg
<1>10. \A t \in Slot : /\ inode'[t].number = inode[t].number
                       /\ inode'[t].lock = inode[t].lock
                       /\ inode'[t].count = inode[t].count
                       /\ inode[t].want => inode'[t].want \/ Wanting(t) \subseteq Wanting(s)
  BY <1>3, <1>4
<1>11. \A q \in Proc : pc'[q] = "ilockwait" => ilock' > 0
  BY <1>5, <1>8 DEF IInv, NoLostWakeup, Moves
<1> HIDE DEF s
<1> QED BY <1>5, <1>7, <1>8, <1>9, <1>10, <1>11, KeptInv

LEMMA OpenGotInv ==
    ASSUME IInv, NEW p \in Proc, OpenGot(p)
    PROVE  IInv'
<1>1. /\ Holds(p) /\ pc[p] = "got"
      /\ UNCHANGED <<disk, sinode, ilock, dir, ino, ip, adr, files, faults>>
  BY DEF OpenGot, At, Holds, super, local, history
<1>2. dir' \in SUBSET Ino /\ faults' \in Nat
  BY <1>1 DEF IInv, Types
<1>3. CASE Opened(p)
  BY <1>1, <1>2, <1>3, OpenedInv
<1>4. CASE Truncates(p)
  <2>1. op' \in [Proc -> Op]
    BY <1>4 DEF Truncates, IInv, Types
  <2> QED BY <1>1, <1>2, <1>4, <2>1, SameInodeInv DEF Truncates
<1>5. CASE Denied(p)
  <2>1. op' \in [Proc -> Op]
    BY <1>5 DEF Denied, IInv, Types, Op
  <2> QED BY <1>1, <1>2, <1>5, <2>1, SameInodeInv DEF Denied
<1>6. CASE FallocFails(p)
  BY <1>1, <1>2, <1>6, FallocFailsInv
<1> QED BY <1>3, <1>4, <1>5, <1>6 DEF OpenGot

LEMMA OpenTruncatedInv ==
    ASSUME IInv, NEW p \in Proc, OpenTruncated(p)
    PROVE  IInv'
<1>1. /\ Holds(p)
      /\ UNCHANGED <<disk, sinode, ilock, dir, ino, ip, adr, files, faults>>
  BY DEF OpenTruncated, At, Holds, super, local, history
<1>2. dir' \in SUBSET Ino /\ faults' \in Nat
  BY <1>1 DEF IInv, Types
<1> QED BY <1>1, <1>2, OpenedInv, FallocFailsInv DEF OpenTruncated

LEMMA UnlinkGotInv ==
    ASSUME IInv, NEW p \in Proc, UnlinkGot(p)
    PROVE  IInv'
<1>1. /\ Holds(p) /\ pc[p] = "got" /\ (Goto(p, "wdir", {}) \/ Goto(p, "iput", {}))
      /\ UNCHANGED <<inode, disk, sinode, ilock, dir, op, ino, ip, adr, files, faults>>
  BY DEF UnlinkGot, At, Holds, super, local, history
<1>2. op' \in [Proc -> Op] /\ faults' \in Nat
  BY <1>1 DEF IInv, Types
<1> QED BY <1>1, <1>2, SameInodeInv

LEMMA CreatEnteredInv ==
    ASSUME IInv, NEW p \in Proc, CreatEntered(p)
    PROVE  IInv'
<1>1. /\ Holds(p) /\ pc[p] = "wdir"
      /\ UNCHANGED <<disk, sinode, ilock, ino, ip, adr, files>>
  BY DEF CreatEntered, At, Holds, super, local
<1>2. CASE Succeeds /\ dir' = dir \cup {ino[p]} /\ (Opened(p) \/ FallocFails(p))
  <2>1. ino[p] \in Ino
    BY <1>1 DEF IInv, Registers, Reg
  <2>2. dir' \in SUBSET Ino /\ faults' \in Nat
    BY <1>2, <2>1 DEF IInv, Types, Succeeds
  <2> QED BY <1>1, <1>2, <2>2, OpenedInv, FallocFailsInv
<1>3. CASE /\ Fails /\ op' = [op EXCEPT ![p] = "put"] /\ Goto(p, "iput", {})
           /\ UNCHANGED <<inode, dir>>
  <2>1. op' \in [Proc -> Op] /\ faults' \in Nat
    BY <1>3 DEF IInv, Types, Op, Fails
  <2> QED BY <1>1, <1>3, <2>1, SameInodeInv
<1> QED BY <1>2, <1>3 DEF CreatEntered

LEMMA UnlinkRemovedInv ==
    ASSUME IInv, NEW p \in Proc, UnlinkRemoved(p)
    PROVE  IInv'
<1> DEFINE s == ip[p]
           x == inode[s]
           n == x.nlink - 1
           y == [x EXCEPT !.nlink = n, !.upd = TRUE]
<1>0. /\ pc[p] = "wdir" /\ Holds(p) /\ Goto(p, "iput", {}) /\ dir' \in SUBSET dir
      /\ UNCHANGED <<disk, sinode, ilock, op, ino, ip, adr, files>> /\ faults' \in Nat
  BY DEF UnlinkRemoved, At, Holds, super, local, Succeeds, Fails, IInv, Types
<1>1. s \in Slot /\ x \in Inode /\ x.lock /\ s = ip[p]
  BY <1>0, Holding
<1>2. inode' = [inode EXCEPT ![s] = y]
  BY <1>1 DEF UnlinkRemoved, IInv, Types, Inode
<1>3. n \in Int
  BY <1>1 DEF Inode
<1> HIDE DEF n
<1>4. /\ y \in Inode /\ y.number = x.number /\ y.lock /\ y.count = x.count
      /\ y.want = x.want
  BY <1>1, <1>3 DEF Inode
<1> HIDE DEF y
<1>5. /\ sinode' \in Seq(Ino) /\ disk' \in [Ino -> [mode : 0..1, nlink : Int]]
      /\ dir' \in SUBSET Ino /\ files' \in SUBSET Ino /\ faults' \in Nat
      /\ op' \in [Proc -> Op]
  BY <1>0 DEF IInv, Types
<1> HIDE DEF s
<1> QED BY <1>0, <1>1, <1>2, <1>4, <1>5, HeldInv

LEMMA UpdateWrittenInv ==
    ASSUME IInv, NEW p \in Proc, UpdateWritten(p)
    PROVE  IInv'
<1> DEFINE s == ip[p]
           x == inode[s]
           b == x.upd /\ faults' # faults
           y == [x EXCEPT !.upd = b]
<1>0. /\ pc[p] = "sync" /\ Holds(p) /\ Goto(p, "iput", {}) /\ Iupdated(x)
      /\ UNCHANGED <<sinode, ilock, dir, op, ino, ip, adr, files>>
  BY DEF UpdateWritten, At, Holds, super, local
<1>1. s \in Slot /\ x \in Inode /\ x.lock /\ s = ip[p] /\ x.number \in Ino
  BY <1>0, Holding
<1>2. inode' = [inode EXCEPT ![s] = y]
  BY DEF UpdateWritten
<1>a. b \in BOOLEAN
  OBVIOUS
<1> HIDE DEF b
<1>3. /\ y \in Inode /\ y.number = x.number /\ y.lock /\ y.count = x.count
      /\ y.want = x.want
  BY <1>1, <1>a DEF Inode
<1> HIDE DEF y
<1>4. disk' \in [Ino -> [mode : 0..1, nlink : Int]] /\ faults' \in Nat
  BY <1>0, <1>1, IupdatedType DEF IInv
<1>5. /\ sinode' \in Seq(Ino) /\ op' \in [Proc -> Op]
      /\ dir' \in SUBSET Ino /\ files' \in SUBSET Ino
  BY <1>0 DEF IInv, Types
<1> HIDE DEF s
<1> QED BY <1>0, <1>1, <1>2, <1>3, <1>4, <1>5, HeldInv

LEMMA PlockInv ==
    ASSUME IInv, NEW p \in Proc, Plock(p)
    PROVE  IInv'
<1> DEFINE s == ip[p]
           x == inode[s]
<1>0. /\ pc[p] = "plock" /\ Uses(p) /\ ~Holds(p)
      /\ UNCHANGED <<disk, sinode, ilock, dir, op, ino, ip, adr, files, faults>>
  BY DEF Plock, At, Uses, Holds, super, local, history
<1>1. s \in Slot /\ x \in Inode /\ s = ip[p] /\ x.number # 0
  <2>1. s \in Slot
    BY <1>0 DEF IInv, Registers, Reg
  <2>2. x \in Inode
    BY <2>1 DEF IInv, Types
  <2>3. p \in Users(s)
    BY <1>0 DEF Users
  <2>4. x.count # 0
    BY <2>1, <2>3, LockedUsed
  <2> QED BY <2>1, <2>2, <2>4 DEF IInv, Named
<1>2. CASE x.lock /\ inode' = [inode EXCEPT ![s].want = TRUE] /\ Goto(p, "plockwait", {})
  <2>1. Moves(p, "plockwait", {})
    BY <1>2, GotoMoves DEF IInv, PC, Asleep
  <2>2. /\ inode' \in [Slot -> Inode]
        /\ \A t \in Slot : /\ inode'[t].number = inode[t].number
                           /\ inode'[t].lock = inode[t].lock
                           /\ inode'[t].count = inode[t].count
                           /\ inode[t].want => inode'[t].want
        /\ inode'[s].want /\ inode'[s].lock
    BY <1>1, <1>2 DEF IInv, Types, Inode
  <2>3. Types'
    BY <1>0, <2>1, <2>2 DEF IInv, Types, Moves
  <2>4. pc'[p] = "plockwait" /\ Uses(p)' /\ ~Holds(p)'
    BY <2>1 DEF Moves, Uses, Holds
  <2>5. Reg(p)'
    BY <1>0, <1>1, <2>4 DEF Reg
  <2>6. \A q \in Proc : pc'[q] = "ilockwait" => ilock' > 0
    BY <1>0, <2>1, <2>4 DEF IInv, NoLostWakeup, Moves
  <2> QED BY <1>0, <2>1, <2>2, <2>3, <2>4, <2>5, <2>6, KeptInv
<1>3. CASE ~x.lock /\ inode' = [inode EXCEPT ![s].lock = TRUE] /\ Goto(p, "iput", {})
  <2>1. Moves(p, "iput", {})
    BY <1>3, GotoMoves DEF IInv, PC, OnCpu
  <2>2. /\ inode' \in [Slot -> Inode] /\ inode'[s].lock
        /\ inode'[s].count = x.count /\ inode'[s].number = x.number
        /\ \A t \in Slot \ {s} : inode'[t] = inode[t]
    BY <1>1, <1>3 DEF IInv, Types, Inode
  <2>3. Types'
    BY <1>0, <2>1, <2>2 DEF IInv, Types, Moves
  <2>4. pc'[p] = "iput" /\ Holds(p)'
    BY <2>1 DEF Moves, Holds
  <2>5. Reg(p)'
    BY <1>0, <1>1, <2>4 DEF Reg
  <2>6. Unique'
    BY <1>1, <2>2 DEF IInv, OneInode, Unique
  <2> HIDE DEF s
  <2> QED BY <1>0, <1>1, <1>3, <2>1, <2>2, <2>3, <2>4, <2>5, <2>6, TakeInv
<1> QED BY <1>2, <1>3 DEF Plock, Locked

LEMMA UpdateInv ==
    ASSUME IInv, NEW p \in Proc, Update(p)
    PROVE  IInv'
<1>0. /\ pc[p] = "update" /\ ~Uses(p) /\ ~Holds(p)
      /\ UNCHANGED <<disk, ilock, dir, files, faults>>
  BY DEF Update, At, Uses, Holds, history
<1>1. CASE Return(p, {}) /\ UNCHANGED <<inode, sinode>>
  <2>1. /\ Moves(p, "user", {}) /\ op' \in [Proc -> Op]
        /\ ino' \in [Proc -> {0} \cup Ino] /\ ip' \in [Proc -> {0} \cup Slot]
        /\ adr' \in [Proc -> Nat]
        /\ \A q \in Proc \ {p} : ip'[q] = ip[q] /\ ino'[q] = ino[q]
    BY <1>1, ReturnMoves DEF IInv
  <2>2. \A q \in Proc : pc'[q] = "ilockwait" => ilock' > 0
    BY <1>0, <2>1 DEF IInv, NoLostWakeup, Moves
  <2>3. sinode' \in Seq(Ino) /\ ilock' \in Nat /\ faults' \in Nat
    BY <1>0, <1>1 DEF IInv, Types
  <2> QED BY <1>0, <1>1, <2>1, <2>2, <2>3, FreeInv
<1>2. ASSUME NEW s \in Slot, ~Locked(inode[s]), inode[s].count > 0,
             inode' = [inode EXCEPT ![s] = Taken(@)], ip' = [ip EXCEPT ![p] = s],
             Goto(p, IF inode[s].upd THEN "sync" ELSE "iput", {}),
             sinode' = IF inode[s].upd THEN Getfs ELSE sinode,
             UNCHANGED <<op, ino, adr>>
      PROVE  IInv'
  <2>1. PICK place \in {"sync", "iput"} : Goto(p, place, {})
    BY <1>2
  <2>2. Moves(p, place, {})
    BY <2>1, GotoMoves DEF IInv, PC, OnCpu, Asleep
  <2>3. inode[s] \in Inode /\ Taken(inode[s]) \in Inode
    BY TakenIs DEF IInv, Types
  <2>4. /\ inode' \in [Slot -> Inode] /\ inode'[s] = Taken(inode[s])
        /\ \A t \in Slot \ {s} : inode'[t] = inode[t]
    BY <1>2, <2>3 DEF IInv, Types
  <2>5. /\ inode'[s].lock /\ inode'[s].count = inode[s].count + 1
        /\ inode'[s].number = inode[s].number /\ inode[s].number # 0
    BY <1>2, <2>3, <2>4, TakenIs DEF IInv, Named
  <2>6. sinode' \in Seq(Ino)
    BY <1>2, GetfsType DEF IInv, Types
  <2>7. Types'
    BY <1>0, <1>2, <2>2, <2>4, <2>6 DEF IInv, Types, Moves
  <2>8. /\ pc'[p] = place /\ Holds(p)' /\ ip'[p] = s
        /\ \A q \in Proc \ {p} : ip'[q] = ip[q] /\ ino'[q] = ino[q]
    BY <1>2, <2>1, <2>2 DEF IInv, Types, Moves, Holds
  <2>9. Reg(p)'
    BY <2>1, <2>8 DEF Reg
  <2>10. Unique'
    BY <2>4, <2>5 DEF IInv, OneInode, Unique
  <2> QED BY <1>0, <1>2, <2>2, <2>4, <2>5, <2>7, <2>8, <2>9, <2>10, TakeInv DEF Locked
<1>3. \/ Return(p, {}) /\ UNCHANGED <<inode, sinode>>
      \/ \E s \in Slot :
           /\ ~Locked(inode[s]) /\ inode[s].count > 0
           /\ inode' = [inode EXCEPT ![s] = Taken(@)] /\ ip' = [ip EXCEPT ![p] = s]
           /\ Goto(p, IF inode[s].upd THEN "sync" ELSE "iput", {})
           /\ sinode' = IF inode[s].upd THEN Getfs ELSE sinode
           /\ UNCHANGED <<op, ino, adr>>
  BY DEF Update
<1> QED BY <1>1, <1>2, <1>3

-----------------------------------------------------------------------------
LEMMA InitInv == Init => IInv
<1> SUFFICES ASSUME Init PROVE IInv
  OBVIOUS
<1>1. NoInode \in Inode
  BY DEF NoInode, Inode
<1>2. [mode |-> 1, nlink |-> 1] \in [mode : 0..1, nlink : Int]
      /\ [mode |-> 0, nlink |-> 0] \in [mode : 0..1, nlink : Int]
  OBVIOUS
<1>3. Types
  <2>1. inode \in [Slot -> Inode]
    BY <1>1 DEF Init
  <2>2. disk \in [Ino -> [mode : 0..1, nlink : Int]]
    BY <1>2 DEF Init
  <2>3. pc \in [Proc -> PC] /\ op \in [Proc -> Op]
    BY DEF Init, PC, Op
  <2>4. sinode \in Seq(Ino) /\ ilock \in Nat /\ faults \in Nat
    BY EmptySeq DEF Init
  <2>5. dir \in SUBSET Ino /\ files \in SUBSET Ino
    BY DEF Init
  <2>6. /\ ino \in [Proc -> {0} \cup Ino] /\ ip \in [Proc -> {0} \cup Slot]
        /\ adr \in [Proc -> Nat]
    BY DEF Init
  <2> QED BY <2>1, <2>2, <2>3, <2>4, <2>5, <2>6 DEF Types
<1>4. \A p \in Proc : pc[p] = "user" /\ ~Uses(p) /\ ~Holds(p)
  BY DEF Init, Uses, Holds
<1>5. \A s \in Slot : inode[s] = NoInode
  BY DEF Init
<1>6. Registers
  BY <1>4 DEF Registers, Reg
<1>7. Named /\ OneInode /\ NoLostWakeup
  BY <1>4, <1>5 DEF Named, OneInode, NoLostWakeup, NoInode
<1>8. References
  <2>1. \A s \in Slot : Users(s) = {} /\ inode[s].count = 0
    BY <1>4, <1>5 DEF Users, NoInode
  <2>2. \A s \in Slot : inode[s].count = Cardinality(Users(s))
    BY <2>1, FS_EmptySet
  <2> QED BY <2>2 DEF References, Users, Uses
<1> QED BY <1>3, <1>6, <1>7, <1>8 DEF IInv

LEMMA NextInv == IInv /\ [Next]_vars => IInv'
<1> SUFFICES ASSUME IInv, [Next]_vars PROVE IInv'
  OBVIOUS
<1>1. CASE UNCHANGED vars
  <2>1. UNCHANGED <<inode, disk, sinode, ilock, dir, pc, op, ino, ip, adr, files, faults>>
    BY <1>1 DEF vars, super, local, history
  <2>2. Types' /\ Registers' /\ Named'
    BY <2>1 DEF IInv, Types, Registers, Reg, Uses, Holds, Named
  <2>3. OneInode' /\ NoLostWakeup'
    BY <2>1 DEF IInv, OneInode, NoLostWakeup, Holds
  <2>4. References'
    BY <2>1 DEF IInv, References, Holds
  <2> QED BY <2>2, <2>3, <2>4 DEF IInv
<1>2. ASSUME NEW p \in Proc, Kernel(p) PROVE IInv'
  BY <1>2, IgetInv, IgetReadInv, IputInv, IputFreeInv, IputUpdatedInv, IallocInv, IallocLoopInv,
     IallocScanInv, IallocGotInv, OpenGotInv, OpenTruncatedInv, UnlinkGotInv, CreatEnteredInv, UnlinkRemovedInv,
     PlockInv, UpdateInv, UpdateWrittenInv DEF Kernel
<1> QED BY <1>1, <1>2, CallInv, CloseInv DEF Next

(* The invariant of the locks and of the reference counts. *)
THEOREM Invariance == Spec => []IInv
BY InitInv, NextInv, PTL DEF Spec

(* iget(): "There is a unique inode allocated for each active file", and   *)
(* at most one process has an inode locked.                                *)
THEOREM InodeUnique == Spec => []OneInode
<1>1. IInv => OneInode
  BY DEF IInv
<1> QED BY <1>1, Invariance, PTL

(* i_count is the number of the processes that have the inode.             *)
THEOREM CountsReferences == Spec => []References
<1>1. IInv => References
  BY DEF IInv
<1> QED BY <1>1, Invariance, PTL

(* Nobody sleeps in iget(), plock() or ialloc() for what is free.          *)
THEOREM WakeupsNotLost == Spec => []NoLostWakeup
<1>1. IInv => NoLostWakeup
  BY DEF IInv
<1> QED BY <1>1, Invariance, PTL

-----------------------------------------------------------------------------
(* What is right as long as no transfer fails, and what keeps it so.       *)
Right == CoreRight /\ DiskRight /\ Linking

LEMMA ReadingKept ==
    ASSUME NEW p \in Proc, NEW place, NEW woken, Moves(p, place, woken),
           \A q \in Proc \ {p} : ip'[q] = ip[q], pc[p] # "iread", place # "iread"
    PROVE  \A s \in Slot : Reading(s)' <=> Reading(s)
<1>1. \A q \in Proc \ {p} : pc'[q] = "iread" <=> pc[q] = "iread"
  BY DEF Moves
<1>2. pc'[p] # "iread"
  BY DEF Moves
<1> QED BY <1>1, <1>2 DEF Reading

(* What p does not have locked stays linked as it is. *)
LEMMA OthersLink ==
    ASSUME IInv, Linking, NEW p \in Proc, NEW place, NEW woken, Moves(p, place, woken),
           \A q \in Proc \ {p} : ip'[q] = ip[q] /\ op'[q] = op[q],
           \A q \in Proc \ {p} : Holds(q) => /\ inode'[ip[q]].mode = inode[ip[q]].mode
                                             /\ inode'[ip[q]].nlink = inode[ip[q]].nlink,
           Link(p)'
    PROVE  Linking'
<1>1. ASSUME NEW q \in Proc \ {p} PROVE Link(q)'
  <2>1. pc'[q] \in {"wdir", "itrunc", "ifree"} => pc[q] = pc'[q] /\ Holds(q)
    BY DEF Moves, Holds
  <2>2. Link(q) /\ ip'[q] = ip[q] /\ op'[q] = op[q]
    BY DEF Linking
  <2> QED BY <2>1, <2>2 DEF Link
<1> QED BY <1>1 DEF Linking

(* A step that changes no inode, unless it marks it to be written. *)
LEMMA KeptRight ==
    ASSUME IInv, Right, NEW p \in Proc, NEW place, NEW woken, Moves(p, place, woken),
           pc[p] # "iread", place # "iread",
           \A q \in Proc \ {p} : ip'[q] = ip[q] /\ op'[q] = op[q],
           \A s \in Slot : /\ inode'[s].number = inode[s].number
                           /\ inode'[s].mode = inode[s].mode
                           /\ inode'[s].nlink = inode[s].nlink
                           /\ inode[s].upd => inode'[s].upd,
           UNCHANGED <<disk, files, dir>>, Link(p)'
    PROVE  Right'
<1>1. \A s \in Slot : Reading(s)' <=> Reading(s)
  BY ReadingKept
<1>2. CoreRight'
  BY <1>1 DEF Right, CoreRight, Read, RightIn
<1>3. DiskRight'
  BY <1>1 DEF Right, DiskRight, OutOfCore, RightOut
<1>4. \A q \in Proc \ {p} : Holds(q) => ip[q] \in Slot
  BY DEF IInv, Registers, Reg, Uses
<1>5. Linking'
  BY <1>4, OthersLink DEF Right
<1> QED BY <1>2, <1>3, <1>5 DEF Right

(* A step by which p changes the inode that it has locked, alone.          *)
LEMMA HeldRight ==
    ASSUME IInv, Right, NEW p \in Proc, Holds(p), NEW s \in Slot, s = ip[p], NEW y \in Inode,
           inode' = [inode EXCEPT ![s] = y], NEW i \in Ino, i = inode[s].number, y.number = i,
           NEW place, NEW woken, Moves(p, place, woken), pc[p] # "iread", place # "iread",
           \A q \in Proc \ {p} : ip'[q] = ip[q] /\ op'[q] = op[q],
           \A j \in Ino \ {i} : /\ disk'[j] = disk[j] /\ (j \in files' <=> j \in files)
                                /\ (j \in dir' <=> j \in dir),
           RightIn(y)', Link(p)'
    PROVE  Right'
<1>1. \A t \in Slot : Reading(t)' <=> Reading(t)
  BY ReadingKept
<1>2. inode'[s] = y /\ \A t \in Slot \ {s} : inode'[t] = inode[t]
  BY DEF IInv, Types
<1>3. \A t \in Slot \ {s} : inode[t].number # i
  BY InodesAssumption DEF IInv, OneInode, Ino
<1>4. \A t \in Slot : inode[t].number \in {0} \cup Ino
  BY DEF IInv, Types, Inode
<1>5. CoreRight'
  <2>1. ASSUME NEW t \in Slot \ {s}, Read(t)' PROVE RightIn(inode[t])'
    <3> DEFINE x == inode[t]
    <3>1. Read(t) /\ inode'[t] = x
      BY <1>1, <1>2, <2>1 DEF Read
    <3>2. RightIn(x) /\ x.number \in Ino \ {i}
      BY <1>3, <1>4, <3>1 DEF Right, CoreRight, Read
    <3> QED BY <3>1, <3>2 DEF RightIn
  <2>2. RightIn(inode[s])'
    BY <1>2 DEF RightIn
  <2> QED BY <2>1, <2>2 DEF CoreRight
<1>6. DiskRight'
  <2>1. ASSUME NEW j \in Ino, OutOfCore(j)' PROVE RightOut(j)'
    <3>1. ~Reading(s)
      BY DEF IInv, OneInode, Reading, Holds
    <3>2. j # i
      BY <1>1, <1>2, <2>1, <3>1 DEF OutOfCore
    <3>3. OutOfCore(j)
      BY <1>1, <1>2, <2>1, <3>2 DEF OutOfCore
    <3> QED BY <3>2, <3>3 DEF Right, DiskRight, RightOut
  <2> QED BY <2>1 DEF DiskRight
<1>7. Linking'
  <2>1. \A q \in Proc \ {p} : Holds(q) => ip[q] \in Slot \ {s}
    BY Holding
  <2> QED BY <1>2, <2>1, OthersLink DEF Right
<1> QED BY <1>5, <1>6, <1>7 DEF Right

(* A step by which p frees the slot that it has locked. *)
LEMMA FreedRight ==
    ASSUME IInv, Right, NEW p \in Proc, Holds(p), NEW s \in Slot, s = ip[p], NEW y \in Inode,
           inode' = [inode EXCEPT ![s] = y], NEW i \in Ino, i = inode[s].number, y.number = 0,
           NEW place, NEW woken, Moves(p, place, woken), pc[p] # "iread", place # "iread",
           \A q \in Proc \ {p} : ip'[q] = ip[q] /\ op'[q] = op[q],
           \A j \in Ino \ {i} : disk'[j] = disk[j], UNCHANGED <<files, dir>>,
           RightOut(i)', Link(p)'
    PROVE  Right'
<1>1. \A t \in Slot : Reading(t)' <=> Reading(t)
  BY ReadingKept
<1>2. inode'[s] = y /\ \A t \in Slot \ {s} : inode'[t] = inode[t]
  BY DEF IInv, Types
<1>3. \A t \in Slot \ {s} : inode[t].number # i
  BY InodesAssumption DEF IInv, OneInode, Ino
<1>4. \A t \in Slot : inode[t].number \in {0} \cup Ino
  BY DEF IInv, Types, Inode
<1>5. CoreRight'
  <2>1. ASSUME NEW t \in Slot, Read(t)' PROVE RightIn(inode[t])'
    <3> DEFINE x == inode[t]
    <3>1. t # s
      BY <1>2, <2>1 DEF Read
    <3>2. Read(t) /\ inode'[t] = x
      BY <1>1, <1>2, <2>1, <3>1 DEF Read
    <3>3. RightIn(x) /\ x.number \in Ino \ {i}
      BY <1>3, <1>4, <3>1, <3>2 DEF Right, CoreRight, Read
    <3> QED BY <3>2, <3>3 DEF RightIn
  <2> QED BY <2>1 DEF CoreRight
<1>6. DiskRight'
  <2>1. ASSUME NEW j \in Ino \ {i}, OutOfCore(j)' PROVE RightOut(j)'
    <3>1. OutOfCore(j)
      BY <1>1, <1>2, <2>1 DEF OutOfCore
    <3> QED BY <3>1 DEF Right, DiskRight, RightOut
  <2> QED BY <2>1 DEF DiskRight
<1>7. Linking'
  <2>1. \A q \in Proc \ {p} : Holds(q) => ip[q] \in Slot \ {s}
    BY Holding
  <2> QED BY <1>2, <2>1, OthersLink DEF Right
<1> QED BY <1>5, <1>6, <1>7 DEF Right

-----------------------------------------------------------------------------
(* The steps of which none fails.                                          *)

LEMMA NotFailed == ASSUME Types, faults' = 0 PROVE ~Fails
BY DEF Types, Fails

(* The steps of a process that has no inode, or only locks one. *)
LEMMA CallRight ==
    ASSUME IInv, Right, NEW p \in Proc,
           \/ Creat(p) \/ Sync(p) \/ Close(p) \/ \E i \in Ino : Open(p, i) \/ Unlink(p, i)
    PROVE  Right'
<1>1. PICK place \in {"ialloc", "iget", "update", "plock"}, o \in Op :
        /\ pc' = [pc EXCEPT ![p] = place] /\ op' = [op EXCEPT ![p] = o]
        /\ pc[p] \in {"user", "open"} /\ UNCHANGED <<inode, disk, dir, files>>
        /\ ip' \in {ip, [ip EXCEPT ![p] = 0]}
  <2>1. ASSUME NEW o, NEW place, Call(p, o, place)
        PROVE  pc' = [pc EXCEPT ![p] = place] /\ op' = [op EXCEPT ![p] = o] /\ pc[p] = "user"
    BY <2>1 DEF Call
  <2>2. CASE Creat(p)
    BY <2>1, <2>2 DEF Creat, local, history, Op
  <2>3. CASE Sync(p)
    BY <2>1, <2>3 DEF Sync, history, Op
  <2>4. CASE Close(p)
    BY <2>4 DEF Close, local, history, Op
  <2>5. CASE \E i \in Ino : Open(p, i) \/ Unlink(p, i)
    BY <2>1, <2>5 DEF Open, Unlink, history, Op
  <2> QED BY <2>2, <2>3, <2>4, <2>5
<1>2. Moves(p, place, {})
  BY <1>1, CallMoves DEF IInv, PC, OnCpu
<1>3. \A q \in Proc \ {p} : ip'[q] = ip[q] /\ op'[q] = op[q]
  BY <1>1 DEF IInv, Types
<1>4. Link(p)'
  BY <1>1, <1>2 DEF Link, Moves
<1> QED BY <1>1, <1>2, <1>3, <1>4, KeptRight

LEMMA IallocRight ==
    ASSUME IInv, Right, NEW p \in Proc, Ialloc(p) \/ IallocLoop(p) \/ IallocScan(p)
    PROVE  Right'
<1>1. /\ pc[p] \in {"ialloc", "loop", "scan"}
      /\ UNCHANGED <<inode, disk, dir, files>>
  BY DEF Ialloc, IallocLoop, IallocScan, At, history
<1>2. \/ \E place \in {"ilockwait", "loop", "iget", "scan"}, woken \in {{}, WaitingForIlist} :
           Goto(p, place, woken) /\ UNCHANGED <<op, ip>>
      \/ Return(p, WaitingForIlist)
  <2>1. CASE Ialloc(p)
    BY <2>1 DEF Ialloc, local
  <2>2. CASE IallocLoop(p)
    BY <2>2 DEF IallocLoop
  <2>3. CASE IallocScan(p)
    BY <2>3 DEF IallocScan, ScanNext, local
  <2> QED BY <2>1, <2>2, <2>3
<1>3. CASE Return(p, WaitingForIlist)
  <2>1. /\ Moves(p, "user", WaitingForIlist)
        /\ \A q \in Proc \ {p} : ip'[q] = ip[q] /\ op'[q] = op[q]
    BY <1>3, ReturnMoves, IlistType DEF IInv
  <2>2. Link(p)'
    BY <2>1 DEF Link, Moves
  <2> QED BY <1>1, <2>1, <2>2, KeptRight
<1>4. ASSUME NEW place \in {"ilockwait", "loop", "iget", "scan"},
             NEW woken \in {{}, WaitingForIlist}, Goto(p, place, woken), UNCHANGED <<op, ip>>
      PROVE  Right'
  <2>1. Moves(p, place, woken)
    BY <1>4, GotoMoves, IlistType DEF IInv, PC, OnCpu, Asleep
  <2>2. Link(p)'
    BY <1>4, <2>1 DEF Link, Moves
  <2> QED BY <1>1, <1>4, <2>1, <2>2, KeptRight
<1> QED BY <1>2, <1>3, <1>4

LEMMA LockRight ==
    ASSUME IInv, Right, NEW p \in Proc, Plock(p) \/ Update(p)
    PROVE  Right'
<1>1. pc[p] \in {"plock", "update"} /\ UNCHANGED <<disk, dir, files>>
  BY DEF Plock, Update, At, history
<1>2. pc[p] = "plock" => ip[p] \in Slot
  BY DEF IInv, Registers, Reg, Uses
<1>3. \/ \E place \in {"plockwait", "iput", "sync"} : Goto(p, place, {}) /\ UNCHANGED op
      \/ Return(p, {})
  BY DEF Plock, Update
<1>4. \A s \in Slot : /\ inode'[s].number = inode[s].number /\ inode'[s].mode = inode[s].mode
                      /\ inode'[s].nlink = inode[s].nlink /\ (inode[s].upd => inode'[s].upd)
  <2>1. CASE Plock(p)
    <3>1. pc[p] = "plock" /\ \/ inode' = [inode EXCEPT ![ip[p]].want = TRUE]
                             \/ inode' = [inode EXCEPT ![ip[p]].lock = TRUE]
      BY <2>1 DEF Plock, At
    <3>2. CASE inode' = [inode EXCEPT ![ip[p]].want = TRUE]
      BY <1>2, <3>1, <3>2 DEF IInv, Types, Inode
    <3>3. CASE inode' = [inode EXCEPT ![ip[p]].lock = TRUE]
      BY <1>2, <3>1, <3>3 DEF IInv, Types, Inode
    <3> QED BY <3>1, <3>2, <3>3
  <2>2. CASE Update(p)
    <3>1. CASE UNCHANGED inode
      BY <3>1
    <3>2. ASSUME NEW s \in Slot, inode' = [inode EXCEPT ![s] = Taken(@)]
          PROVE  \A t \in Slot :
                   /\ inode'[t].number = inode[t].number /\ inode'[t].mode = inode[t].mode
                   /\ inode'[t].nlink = inode[t].nlink /\ (inode[t].upd => inode'[t].upd)
      <4>1. inode[s] \in Inode
        BY DEF IInv, Types
      <4>2. inode'[s] = Taken(inode[s]) /\ \A t \in Slot \ {s} : inode'[t] = inode[t]
        BY <3>2 DEF IInv, Types
      <4> QED BY <4>1, <4>2, TakenIs
    <3> QED BY <2>2, <3>1, <3>2 DEF Update
  <2> QED BY <2>1, <2>2
<1>5. \A q \in Proc \ {p} : ip'[q] = ip[q]
  BY DEF Plock, Update, Return, local, IInv, Types
<1>6. PICK place \in {"plockwait", "iput", "sync", "user"} :
        Moves(p, place, {}) /\ \A q \in Proc \ {p} : op'[q] = op[q]
  <2>1. CASE Return(p, {})
    BY <2>1, ReturnMoves DEF IInv
  <2>2. ASSUME NEW place \in {"plockwait", "iput", "sync"}, Goto(p, place, {}), UNCHANGED op
        PROVE  Moves(p, place, {})
    BY <2>2, GotoMoves DEF IInv, PC, OnCpu, Asleep
  <2> QED BY <1>3, <2>1, <2>2
<1>7. Link(p)'
  BY <1>6 DEF Link, Moves
<1> QED BY <1>1, <1>4, <1>5, <1>6, <1>7, KeptRight

LEMMA UnlinkGotRight ==
    ASSUME IInv, Right, NEW p \in Proc, UnlinkGot(p)
    PROVE  Right'
<1>1. /\ pc[p] = "got" /\ op[p] = "unlink" /\ (Goto(p, "wdir", {}) \/ Goto(p, "iput", {}))
      /\ UNCHANGED <<inode, disk, dir, files, op, ip>>
  BY DEF UnlinkGot, At, local, history
<1>2. PICK place \in {"wdir", "iput"} : Moves(p, place, {})
  <2>1. PICK place \in {"wdir", "iput"} : Goto(p, place, {})
    BY <1>1
  <2> QED BY <2>1, GotoMoves DEF IInv, PC, OnCpu, Asleep
<1>3. Link(p)'
  BY <1>1, <1>2 DEF Link, Moves
<1> QED BY <1>1, <1>2, <1>3, KeptRight

(* A slot that iget() takes for an inode that is not in core. *)
LEMMA IgetRight ==
    ASSUME IInv, Right, NEW p \in Proc, Iget(p)
    PROVE  Right'
<1>0. /\ pc[p] = "iget" /\ ino[p] \in Ino /\ ~Holds(p) /\ UNCHANGED <<disk, dir, files>>
  <2>1. pc[p] = "iget" /\ UNCHANGED <<disk, dir, files>>
    BY DEF Iget, At, history
  <2> QED BY <2>1 DEF IInv, Registers, Reg, Holds
<1>1. ASSUME NEW s \in Slot, ip' = [ip EXCEPT ![p] = s], UNCHANGED op,
             \/ inode' = [inode EXCEPT ![s].want = TRUE] /\ Goto(p, "igetwait", {})
             \/ inode' = [inode EXCEPT ![s] = Taken(@)] /\ Goto(p, "got", {})
      PROVE  Right'
  <2>1. PICK place \in {"igetwait", "got"} : Goto(p, place, {})
    BY <1>1
  <2>2. Moves(p, place, {})
    BY <2>1, GotoMoves DEF IInv, PC, OnCpu, Asleep
  <2>3. \A q \in Proc \ {p} : ip'[q] = ip[q] /\ op'[q] = op[q]
    BY <1>1 DEF IInv, Types
  <2>4. \A t \in Slot : /\ inode'[t].number = inode[t].number /\ inode'[t].mode = inode[t].mode
                        /\ inode'[t].nlink = inode[t].nlink /\ (inode[t].upd => inode'[t].upd)
    <3>1. CASE inode' = [inode EXCEPT ![s].want = TRUE]
      BY <3>1 DEF IInv, Types, Inode
    <3>2. CASE inode' = [inode EXCEPT ![s] = Taken(@)]
      <4>1. inode[s] \in Inode
        BY DEF IInv, Types
      <4>2. inode'[s] = Taken(inode[s]) /\ \A t \in Slot \ {s} : inode'[t] = inode[t]
        BY <3>2 DEF IInv, Types
      <4> QED BY <4>1, <4>2, TakenIs
    <3> QED BY <1>1, <3>1, <3>2
  <2>5. Link(p)'
    BY <2>2 DEF Link, Moves
  <2> QED BY <1>0, <2>2, <2>3, <2>4, <2>5, KeptRight
<1>2. ASSUME Return(p, {}), UNCHANGED inode
      PROVE  Right'
  <2>1. /\ Moves(p, "user", {})
        /\ \A q \in Proc \ {p} : ip'[q] = ip[q] /\ op'[q] = op[q]
    BY <1>2, ReturnMoves DEF IInv
  <2>2. Link(p)'
    BY <2>1 DEF Link, Moves
  <2> QED BY <1>0, <1>2, <2>1, <2>2, KeptRight
<1>3. ASSUME NEW s \in Slot, inode[s].count = 0, ~InCore(ino[p]), ip' = [ip EXCEPT ![p] = s],
             inode' = [inode EXCEPT ![s] = [Taken(@) EXCEPT !.number = ino[p], !.want = FALSE,
                                                            !.upd = FALSE]],
             UNCHANGED op, Goto(p, "iread", {})
      PROVE  Right'
  <2>1. Moves(p, "iread", {})
    BY <1>3, GotoMoves DEF IInv, PC, Asleep
  <2>2. \A q \in Proc \ {p} : ip'[q] = ip[q] /\ op'[q] = op[q]
    BY <1>3 DEF IInv, Types
  <2>3. /\ \A t \in Slot \ {s} : inode'[t] = inode[t]
        /\ inode'[s].number = ino[p]
    <3> DEFINE x == Taken(inode[s])
               y == [x EXCEPT !.number = ino[p], !.want = FALSE, !.upd = FALSE]
    <3>1. x \in Inode
      <4>1. inode[s] \in Inode
        BY DEF IInv, Types
      <4> QED BY <4>1, TakenIs
    <3> HIDE DEF x
    <3>2. y.number = ino[p]
      BY <3>1 DEF Inode
    <3>3. inode' = [inode EXCEPT ![s] = y]
      BY <1>3 DEF x
    <3> HIDE DEF y
    <3> QED BY <3>2, <3>3 DEF IInv, Types
  <2>4. /\ inode[s].number = 0 /\ \A q \in Proc \ {p} : Holds(q) => ip[q] \in Slot \ {s}
    <3>1. Users(s) = {} /\ inode[s].number = 0
      BY <1>3, LockedUsed
    <3> QED BY <3>1 DEF Users, Uses, IInv, Registers, Reg
  <2>5. Reading(s)' /\ \A t \in Slot \ {s} : Reading(t)' <=> Reading(t)
    <3>1. \A q \in Proc \ {p} : pc'[q] = pc[q]
      BY <2>1 DEF Moves
    <3>2. pc'[p] = "iread" /\ ip'[p] = s
      BY <1>3, <2>1 DEF Moves, IInv, Types
    <3> QED BY <1>0, <2>2, <3>1, <3>2 DEF Reading
  <2>6. CoreRight'
    BY <1>0, <2>3, <2>5 DEF Right, CoreRight, Read, RightIn
  <2>7. DiskRight'
    <3>1. ASSUME NEW j \in Ino, OutOfCore(j)' PROVE RightOut(j)'
      <4>1. OutOfCore(j)
        <5>1. 0 \notin Ino
          BY InodesAssumption DEF Ino
        <5> QED BY <1>3, <2>3, <2>4, <2>5, <3>1, <5>1 DEF OutOfCore, InCore
      <4> QED BY <1>0, <4>1 DEF Right, DiskRight, RightOut
    <3> QED BY <3>1 DEF DiskRight
  <2>8. Linking'
    <3>1. Link(p)'
      BY <2>1 DEF Link, Moves
    <3> QED BY <2>1, <2>2, <2>3, <2>4, <3>1, OthersLink DEF Right
  <2> QED BY <2>6, <2>7, <2>8 DEF Right
<1> QED BY <1>1, <1>2, <1>3 DEF Iget

(* The inode that iget() has read in. *)
LEMMA IgetReadRight ==
    ASSUME IInv, Right, NEW p \in Proc, IgetRead(p), ~Fails
    PROVE  Right'
<1>a. ip[p] \in Slot /\ ino[p] \in Ino
  BY DEF IgetRead, At, IInv, Registers, Reg, Uses, Holds
<1>b. PICK s \in Slot, i \in Ino : s = ip[p] /\ i = ino[p]
  BY <1>a
<1>0. /\ pc[p] = "iread" /\ Holds(p) /\ Goto(p, "got", {})
      /\ UNCHANGED <<disk, dir, files, op, ino, ip>>
      /\ inode' = [inode EXCEPT ![s].mode = disk[i].mode, ![s].nlink = disk[i].nlink]
  BY <1>b DEF IgetRead, At, Holds, local
<1>1. inode[s].number = i
  BY <1>0, <1>b, Holding DEF IInv, Registers, Reg
<1>2. Moves(p, "got", {})
  BY <1>0, GotoMoves DEF IInv, PC, OnCpu
<1>3. /\ inode'[s].number = i /\ inode'[s].mode = disk[i].mode /\ inode'[s].nlink = disk[i].nlink
      /\ \A t \in Slot \ {s} : inode'[t] = inode[t]
  BY <1>0, <1>1 DEF IInv, Types, Inode
<1>4. /\ Reading(s) /\ ~Reading(s)' /\ \A t \in Slot \ {s} : Reading(t)' <=> Reading(t)
  <2>1. \A q \in Proc \ {p} : pc'[q] = pc[q] /\ ~(Holds(q) /\ ip[q] = s)
    BY <1>0, <1>2, <1>b, Holding DEF Moves
  <2>2. pc'[p] = "got"
    BY <1>2 DEF Moves
  <2> QED BY <1>0, <1>b, <2>1, <2>2 DEF Reading, Holds
<1>5. \A t \in Slot \ {s} : inode[t].number # i
  BY <1>1, InodesAssumption DEF IInv, OneInode, Ino
<1>6. RightOut(i)
  BY <1>1, <1>4, <1>5 DEF Right, DiskRight, OutOfCore
<1>7. CoreRight'
  <2>1. RightIn(inode[s])'
    BY <1>0, <1>3, <1>6 DEF RightIn, RightOut
  <2>2. ASSUME NEW t \in Slot \ {s}, Read(t)' PROVE RightIn(inode[t])'
    <3>1. Read(t) /\ inode'[t] = inode[t]
      BY <1>3, <1>4, <2>2 DEF Read
    <3> QED BY <1>0, <3>1 DEF Right, CoreRight, RightIn
  <2> QED BY <2>1, <2>2 DEF CoreRight
<1>8. DiskRight'
  <2>1. ASSUME NEW j \in Ino, OutOfCore(j)' PROVE RightOut(j)'
    <3>1. j # i
      BY <1>1, <1>3, <1>4, <2>1 DEF OutOfCore
    <3>2. OutOfCore(j)
      BY <1>1, <1>3, <1>4, <2>1, <3>1 DEF OutOfCore
    <3> QED BY <1>0, <3>2 DEF Right, DiskRight, RightOut
  <2> QED BY <2>1 DEF DiskRight
<1>9. Linking'
  <2>1. Link(p)'
    BY <1>2 DEF Link, Moves
  <2>2. \A q \in Proc \ {p} : Holds(q) => ip[q] \in Slot \ {s}
    BY <1>0, <1>b, Holding
  <2> QED BY <1>0, <1>2, <1>3, <2>1, <2>2, OthersLink DEF Right
<1> QED BY <1>7, <1>8, <1>9 DEF Right

(* The slot of p, and that what it holds is right unless it is being read. *)
LEMMA HeldIsRight ==
    ASSUME IInv, Right, NEW p \in Proc, Holds(p), pc[p] # "iread"
    PROVE  \E s \in Slot, x \in Inode, i \in Ino :
             /\ s = ip[p] /\ x = inode[s] /\ i = x.number /\ x.lock /\ x.count > 0
             /\ RightIn(x)
<1>1. /\ ip[p] \in Slot /\ inode[ip[p]] \in Inode /\ inode[ip[p]].number \in Ino
      /\ inode[ip[p]].lock /\ inode[ip[p]].count > 0 /\ inode[ip[p]].number # 0
      /\ \A q \in Proc \ {p} : ~(Holds(q) /\ ip[q] = ip[p])
  BY Holding
<1>2. ~Reading(ip[p])
  BY <1>1 DEF Reading, Holds
<1>3. RightIn(inode[ip[p]])
  BY <1>1, <1>2 DEF Right, CoreRight, Read
<1> QED BY <1>1, <1>3

LEMMA IputRight ==
    ASSUME IInv, Right, NEW p \in Proc, Iput(p)
    PROVE  Right'
<1>0. pc[p] = "iput" /\ Holds(p) /\ UNCHANGED <<disk, dir, files>>
  BY DEF Iput, At, Holds, history
<1>1. PICK s \in Slot, x \in Inode, i \in Ino :
        /\ s = ip[p] /\ x = inode[s] /\ i = x.number /\ x.lock /\ x.count > 0
        /\ RightIn(x)
  BY <1>0, HeldIsRight
<1>2. CASE /\ inode' = [inode EXCEPT ![s] = Prele([x EXCEPT !.count = @ - 1])]
           /\ x.count > 1 /\ IputReturns(p, Wanting(s))
  <2>1. PICK place \in {"loop", "update", "user"} : Moves(p, place, Wanting(s))
    BY <1>2, IputReturnsMoves, WantingType DEF IInv
  <2>2. \A q \in Proc \ {p} : ip'[q] = ip[q] /\ op'[q] = op[q]
    BY <1>2, IputReturnsMoves, WantingType DEF IInv
  <2> DEFINE n == x.count - 1
             z == [x EXCEPT !.count = n]
  <2>3. n \in Nat
    BY <1>1, <1>2 DEF Inode
  <2> HIDE DEF n
  <2>4. z \in Inode /\ z.number = i /\ z.mode = x.mode /\ z.nlink = x.nlink /\ z.upd = x.upd
    BY <1>1, <2>3 DEF Inode
  <2>5. inode' = [inode EXCEPT ![s] = Prele(z)]
    BY <1>2 DEF n
  <2> HIDE DEF z
  <2>6. PICK y \in Inode : /\ y = Prele(z) /\ y.number = i /\ y.mode = x.mode
                           /\ y.nlink = x.nlink /\ y.upd = x.upd
    BY <2>4, PreleIs
  <2>7. RightIn(y)'
    BY <1>0, <1>1, <2>6 DEF RightIn
  <2>8. Link(p)'
    BY <2>1 DEF Link, Moves
  <2> QED BY <1>0, <1>1, <2>1, <2>2, <2>5, <2>6, <2>7, <2>8, HeldRight
<1>3. CASE /\ inode' = [inode EXCEPT ![s] = Released(x)]
           /\ ~NoLinks(x) /\ ~x.upd /\ IputReturns(p, Wanting(s))
  <2>1. PICK place \in {"loop", "update", "user"} : Moves(p, place, Wanting(s))
    BY <1>3, IputReturnsMoves, WantingType DEF IInv
  <2>2. \A q \in Proc \ {p} : ip'[q] = ip[q] /\ op'[q] = op[q]
    BY <1>3, IputReturnsMoves, WantingType DEF IInv
  <2>3. PICK y \in Inode : y = Released(x) /\ y.number = 0
    BY ReleasedIs
  <2>4. RightOut(i)'
    BY <1>0, <1>1, <1>3 DEF RightIn, RightOut
  <2>5. Link(p)'
    BY <2>1 DEF Link, Moves
  <2> QED BY <1>0, <1>1, <1>3, <2>1, <2>2, <2>3, <2>4, <2>5, FreedRight
<1>4. CASE /\ inode' = [inode EXCEPT ![s].lock = TRUE]
           /\ Goto(p, IF ~NoLinks(x) THEN "iupdat"
                      ELSE IF x.mode = 0 THEN "ifree" ELSE "itrunc", {})
           /\ UNCHANGED <<op, ip>>
  <2>1. PICK place \in {"iupdat", "ifree", "itrunc"} :
          Goto(p, place, {}) /\ (place \in {"ifree", "itrunc"} => NoLinks(x))
    BY <1>4
  <2>2. Moves(p, place, {})
    BY <2>1, GotoMoves DEF IInv, PC, OnCpu, Asleep
  <2>3. \A t \in Slot : /\ inode'[t].number = inode[t].number /\ inode'[t].mode = inode[t].mode
                        /\ inode'[t].nlink = inode[t].nlink /\ (inode[t].upd => inode'[t].upd)
    BY <1>1, <1>4 DEF IInv, Types, Inode
  <2>4. Link(p)'
    BY <1>1, <1>4, <2>1, <2>2, <2>3 DEF Link, Moves, NoLinks
  <2> QED BY <1>0, <1>4, <2>1, <2>2, <2>3, <2>4, KeptRight
<1> QED BY <1>1, <1>2, <1>3, <1>4 DEF Iput, local

LEMMA IputFreeRight ==
    ASSUME IInv, Right, NEW p \in Proc, IputFree(p)
    PROVE  Right'
<1>0. /\ pc[p] \in {"itrunc", "ifree"} /\ Holds(p) /\ Goto(p, "iupdat", {})
      /\ UNCHANGED <<disk, dir, op, ip>>
  BY DEF IputFree, At, Holds, local
<1>1. PICK s \in Slot, x \in Inode, i \in Ino :
        /\ s = ip[p] /\ x = inode[s] /\ i = x.number /\ x.lock /\ x.count > 0
        /\ RightIn(x)
  BY <1>0, HeldIsRight
<1>2. inode' = [inode EXCEPT ![s] = NoFile(x)] /\ files' = files \ {i}
  BY <1>1 DEF IputFree
<1>3. i \notin dir
  <2>1. x.nlink <= 0
    BY <1>0, <1>1 DEF Right, Linking, Link
  <2> QED BY <1>1, <2>1 DEF RightIn, Inode
<1>4. PICK y \in Inode : y = NoFile(x) /\ y.number = i /\ y.mode = 0 /\ y.upd
  BY <1>1, NoFileIs
<1>5. RightIn(y)'
  BY <1>0, <1>2, <1>3, <1>4 DEF RightIn
<1>6. Moves(p, "iupdat", {})
  BY <1>0, GotoMoves DEF IInv, PC, Asleep
<1>7. Link(p)'
  BY <1>6 DEF Link, Moves
<1> QED BY <1>0, <1>1, <1>2, <1>4, <1>5, <1>6, <1>7, HeldRight

LEMMA IputUpdatedRight ==
    ASSUME IInv, Right, NEW p \in Proc, IputUpdated(p), ~Fails
    PROVE  Right'
<1>0. pc[p] = "iupdat" /\ Holds(p) /\ UNCHANGED <<dir, files>>
  BY DEF IputUpdated, At, Holds
<1>1. PICK s \in Slot, x \in Inode, i \in Ino :
        /\ s = ip[p] /\ x = inode[s] /\ i = x.number /\ x.lock /\ x.count > 0
        /\ RightIn(x)
  BY <1>0, HeldIsRight
<1>2. /\ inode' = [inode EXCEPT ![s] = Released(x)] /\ IputReturns(p, Wanting(s))
      /\ disk' = [disk EXCEPT ![i] = [mode |-> x.mode, nlink |-> x.nlink]]
  BY <1>1 DEF IputUpdated, Iupdated
<1>3. /\ disk'[i].mode = x.mode /\ disk'[i].nlink = x.nlink
      /\ \A j \in Ino \ {i} : disk'[j] = disk[j]
  BY <1>2 DEF IInv, Types
<1>4. PICK place \in {"loop", "update", "user"} : Moves(p, place, Wanting(s))
  BY <1>2, IputReturnsMoves, WantingType DEF IInv
<1>5. \A q \in Proc \ {p} : ip'[q] = ip[q] /\ op'[q] = op[q]
  BY <1>2, IputReturnsMoves, WantingType DEF IInv
<1>6. PICK y \in Inode : y = Released(x) /\ y.number = 0
  BY ReleasedIs
<1>7. RightOut(i)'
  BY <1>0, <1>1, <1>3 DEF RightIn, RightOut
<1>8. Link(p)'
  BY <1>4 DEF Link, Moves
<1> QED BY <1>0, <1>1, <1>2, <1>3, <1>4, <1>5, <1>6, <1>7, <1>8, FreedRight

LEMMA IallocGotRight ==
    ASSUME IInv, Right, NEW p \in Proc, IallocGot(p)
    PROVE  Right'
<1>0. pc[p] = "got" /\ op[p] = "create" /\ Holds(p) /\ UNCHANGED <<disk, dir, op, ip>>
  BY DEF IallocGot, At, Holds, local
<1>1. PICK s \in Slot, x \in Inode, i \in Ino :
        /\ s = ip[p] /\ x = inode[s] /\ i = x.number /\ x.lock /\ x.count > 0
        /\ RightIn(x)
  BY <1>0, HeldIsRight
<1>2. i = ino[p]
  BY <1>0, <1>1 DEF IInv, Registers, Reg
<1>3. CASE /\ inode' = [inode EXCEPT ![s].mode = 1, ![s].nlink = 1, ![s].upd = TRUE]
           /\ files' = files \cup {i} /\ Goto(p, "wdir", {})
  <2>1. 1 \in 0..1 /\ 1 \in Int
    OBVIOUS
  <2> DEFINE z == [x EXCEPT !.mode = 1, !.nlink = 1, !.upd = TRUE]
  <2>a. z \in Inode /\ z.number = i /\ z.mode = 1 /\ z.nlink = 1 /\ z.upd
    BY <1>1, <2>1 DEF Inode
  <2>b. inode' = [inode EXCEPT ![s] = z]
    BY <1>1, <1>3 DEF IInv, Types, Inode
  <2> HIDE DEF z
  <2>2. PICK y \in Inode : y = z /\ y.number = i /\ y.mode = 1 /\ y.nlink = 1 /\ y.upd
    BY <2>a
  <2>3. inode' = [inode EXCEPT ![s] = y]
    BY <2>2, <2>b
  <2>4. RightIn(y)'
    BY <1>0, <1>3, <2>2 DEF RightIn
  <2>5. Moves(p, "wdir", {})
    BY <1>3, GotoMoves DEF IInv, PC, Asleep
  <2>6. inode'[ip'[p]] = y
    BY <1>0, <1>1, <2>3 DEF IInv, Types
  <2>7. Link(p)'
    BY <2>2, <2>5, <2>6 DEF Link, Moves
  <2> QED BY <1>0, <1>1, <1>3, <2>3, <2>2, <2>4, <2>5, <2>7, HeldRight
<1>4. CASE Goto(p, "iput", {}) /\ UNCHANGED <<inode, files>>
  <2>1. Moves(p, "iput", {})
    BY <1>4, GotoMoves DEF IInv, PC, OnCpu
  <2>2. Link(p)'
    BY <2>1 DEF Link, Moves
  <2> QED BY <1>0, <1>4, <2>1, <2>2, KeptRight
<1> QED BY <1>1, <1>2, <1>3, <1>4 DEF IallocGot

(* creat() enters the inode that it opens in the directory; open() does    *)
(* not change the directory.                                               *)
LEMMA OpenedRight ==
    ASSUME IInv, Right, NEW p \in Proc, Holds(p), pc[p] # "iread", Opened(p),
           UNCHANGED <<disk, files, ip>>,
           \/ dir' = dir
           \/ /\ dir' = dir \cup {inode[ip[p]].number}
              /\ inode[ip[p]].mode # 0 /\ inode[ip[p]].nlink > 0
    PROVE  Right'
<1>1. PICK s \in Slot, x \in Inode, i \in Ino :
        /\ s = ip[p] /\ x = inode[s] /\ i = x.number /\ x.lock /\ x.count > 0
        /\ RightIn(x)
  BY HeldIsRight
<1>2. PICK b \in {x.upd, TRUE} : inode' = [inode EXCEPT ![s] = Prele([x EXCEPT !.upd = b])]
  BY <1>1 DEF Opened
<1> DEFINE z == [x EXCEPT !.upd = b]
<1>3. b \in BOOLEAN
  BY <1>1 DEF Inode
<1>4. z \in Inode /\ z.number = i /\ z.mode = x.mode /\ z.nlink = x.nlink /\ z.upd = b
  BY <1>1, <1>3 DEF Inode
<1>5. inode' = [inode EXCEPT ![s] = Prele(z)]
  BY <1>2
<1> HIDE DEF z
<1>6. PICK y \in Inode : /\ y = Prele(z) /\ y.number = i /\ y.mode = x.mode
                         /\ y.nlink = x.nlink /\ y.upd = b
  BY <1>4, PreleIs
<1>7. RightIn(y)'
  BY <1>1, <1>2, <1>6 DEF RightIn
<1>8. Moves(p, "open", Wanting(s))
  BY <1>1, GotoMoves, WantingType DEF Opened, IInv, PC
<1>9. \A q \in Proc \ {p} : op'[q] = op[q]
  BY DEF Opened, IInv, Types
<1>10. Link(p)'
  BY <1>8 DEF Link, Moves
<1>11. \A j \in Ino \ {i} : j \in dir' <=> j \in dir
  BY <1>1
<1> QED BY <1>1, <1>5, <1>6, <1>7, <1>8, <1>9, <1>10, <1>11, HeldRight

LEMMA FallocFailsRight ==
    ASSUME IInv, Right, NEW p \in Proc, Holds(p), pc[p] # "iread", FallocFails(p),
           UNCHANGED <<disk, files, ip>>,
           \/ dir' = dir
           \/ /\ dir' = dir \cup {inode[ip[p]].number}
              /\ inode[ip[p]].mode # 0 /\ inode[ip[p]].nlink > 0
    PROVE  Right'
<1>1. PICK s \in Slot, x \in Inode, i \in Ino :
        /\ s = ip[p] /\ x = inode[s] /\ i = x.number /\ x.lock /\ x.count > 0
        /\ RightIn(x)
  BY HeldIsRight
<1> DEFINE z == [x EXCEPT !.want = FALSE]
<1>2. z \in Inode /\ z.number = i /\ z.mode = x.mode /\ z.nlink = x.nlink /\ z.upd = x.upd
  BY <1>1 DEF Inode
<1>3. inode' = [inode EXCEPT ![s] = z]
  BY <1>1 DEF FallocFails
<1> HIDE DEF z
<1>4. RightIn(z)'
  BY <1>1, <1>2 DEF RightIn
<1>5. Moves(p, "iput", Wanting(s))
  BY <1>1, GotoMoves, WantingType DEF FallocFails, IInv, PC, OnCpu
<1>6. \A q \in Proc \ {p} : op'[q] = op[q]
  BY DEF FallocFails, IInv, Types
<1>7. Link(p)'
  BY <1>5 DEF Link, Moves
<1>8. \A j \in Ino \ {i} : j \in dir' <=> j \in dir
  BY <1>1
<1> QED BY <1>1, <1>2, <1>3, <1>4, <1>5, <1>6, <1>7, <1>8, HeldRight

LEMMA OpenGotRight ==
    ASSUME IInv, Right, NEW p \in Proc, OpenGot(p)
    PROVE  Right'
<1>1. /\ Holds(p) /\ pc[p] = "got" /\ UNCHANGED <<disk, files, ip, dir>>
  BY DEF OpenGot, At, Holds, local, history
<1>2. CASE Opened(p) \/ FallocFails(p)
  BY <1>1, <1>2, OpenedRight, FallocFailsRight
<1>3. CASE Truncates(p) \/ Denied(p)
  <2>1. PICK place \in {"trunc", "iput"} : Goto(p, place, {})
    BY <1>3 DEF Truncates, Denied
  <2>2. Moves(p, place, {})
    BY <2>1, GotoMoves DEF IInv, PC, OnCpu, Asleep
  <2>3. UNCHANGED inode /\ \A q \in Proc \ {p} : op'[q] = op[q]
    BY <1>3 DEF Truncates, Denied, IInv, Types
  <2>4. Link(p)'
    BY <2>2 DEF Link, Moves
  <2> QED BY <1>1, <2>2, <2>3, <2>4, KeptRight
<1> QED BY <1>2, <1>3 DEF OpenGot

LEMMA OpenTruncatedRight ==
    ASSUME IInv, Right, NEW p \in Proc, OpenTruncated(p)
    PROVE  Right'
<1>1. /\ Holds(p) /\ pc[p] = "trunc" /\ UNCHANGED <<disk, files, ip, dir>>
  BY DEF OpenTruncated, At, Holds, local, history
<1> QED BY <1>1, OpenedRight, FallocFailsRight DEF OpenTruncated

LEMMA CreatEnteredRight ==
    ASSUME IInv, Right, NEW p \in Proc, CreatEntered(p), ~Fails
    PROVE  Right'
<1>1. /\ Holds(p) /\ pc[p] = "wdir" /\ op[p] = "create" /\ (Opened(p) \/ FallocFails(p))
      /\ dir' = dir \cup {ino[p]} /\ UNCHANGED <<disk, files, ip>>
  BY DEF CreatEntered, At, Holds, local
<1>2. ino[p] = inode[ip[p]].number
  BY <1>1 DEF IInv, Registers, Reg
<1>3. inode[ip[p]].mode # 0 /\ inode[ip[p]].nlink > 0
  BY <1>1 DEF Right, Linking, Link
<1> QED BY <1>1, <1>2, <1>3, OpenedRight, FallocFailsRight

LEMMA UnlinkRemovedRight ==
    ASSUME IInv, Right, NEW p \in Proc, UnlinkRemoved(p), ~Fails
    PROVE  Right'
<1>0. /\ pc[p] = "wdir" /\ Holds(p) /\ Goto(p, "iput", {}) /\ UNCHANGED <<disk, files, op, ip>>
  BY DEF UnlinkRemoved, At, Holds, local, history
<1>1. PICK s \in Slot, x \in Inode, i \in Ino :
        /\ s = ip[p] /\ x = inode[s] /\ i = x.number /\ x.lock /\ x.count > 0
        /\ RightIn(x)
  BY <1>0, HeldIsRight
<1>2. i = ino[p]
  BY <1>0, <1>1 DEF IInv, Registers, Reg
<1>3. dir' = dir \ {i}
  BY <1>2 DEF UnlinkRemoved
<1> DEFINE n == x.nlink - 1
<1>4. n \in Int
  BY DEF Inode
<1>5. inode' = [inode EXCEPT ![s] = [x EXCEPT !.nlink = n, !.upd = TRUE]]
  BY <1>1 DEF UnlinkRemoved, IInv, Types, Inode
<1> HIDE DEF n
<1> DEFINE z == [x EXCEPT !.nlink = n, !.upd = TRUE]
<1>a. z \in Inode /\ z.number = i /\ z.mode = x.mode /\ z.upd
  BY <1>1, <1>4 DEF Inode
<1>b. inode' = [inode EXCEPT ![s] = z]
  BY <1>5
<1> HIDE DEF z
<1>6. PICK y \in Inode : y = z /\ y.number = i /\ y.mode = x.mode /\ y.upd
  BY <1>a
<1>7. RightIn(y)'
  BY <1>0, <1>1, <1>3, <1>6 DEF RightIn
<1>8. Moves(p, "iput", {})
  BY <1>0, GotoMoves DEF IInv, PC, OnCpu
<1>9. Link(p)'
  BY <1>8 DEF Link, Moves
<1> QED BY <1>0, <1>1, <1>3, <1>b, <1>6, <1>7, <1>8, <1>9, HeldRight

LEMMA UpdateWrittenRight ==
    ASSUME IInv, Right, NEW p \in Proc, UpdateWritten(p), ~Fails
    PROVE  Right'
<1>0. /\ pc[p] = "sync" /\ Holds(p) /\ Goto(p, "iput", {}) /\ UNCHANGED <<dir, files, op, ip>>
  BY DEF UpdateWritten, At, Holds, local
<1>1. PICK s \in Slot, x \in Inode, i \in Ino :
        /\ s = ip[p] /\ x = inode[s] /\ i = x.number /\ x.lock /\ x.count > 0
        /\ RightIn(x)
  BY <1>0, HeldIsRight
<1>2. /\ inode' = [inode EXCEPT ![s] = [x EXCEPT !.upd = FALSE]]
      /\ disk' = [disk EXCEPT ![i] = [mode |-> x.mode, nlink |-> x.nlink]]
  BY <1>1 DEF UpdateWritten, Iupdated, Succeeds
<1>3. /\ disk'[i].mode = x.mode /\ disk'[i].nlink = x.nlink
      /\ \A j \in Ino \ {i} : disk'[j] = disk[j]
  BY <1>2 DEF IInv, Types
<1> DEFINE z == [x EXCEPT !.upd = FALSE]
<1>a. z \in Inode /\ z.number = i /\ z.mode = x.mode /\ z.nlink = x.nlink
  BY <1>1 DEF Inode
<1>b. inode' = [inode EXCEPT ![s] = z]
  BY <1>2
<1> HIDE DEF z
<1>4. PICK y \in Inode : y = z /\ y.number = i /\ y.mode = x.mode /\ y.nlink = x.nlink
  BY <1>a
<1>5. RightIn(y)'
  BY <1>0, <1>1, <1>3, <1>4 DEF RightIn
<1>6. Moves(p, "iput", {})
  BY <1>0, GotoMoves DEF IInv, PC, OnCpu
<1>7. Link(p)'
  BY <1>6 DEF Link, Moves
<1> QED BY <1>0, <1>1, <1>b, <1>3, <1>4, <1>5, <1>6, <1>7, HeldRight

-----------------------------------------------------------------------------
LEMMA FaultFreeInit == Init => FaultFree
<1> SUFFICES ASSUME Init PROVE Right
  BY DEF FaultFree, Right
<1>1. \A s \in Slot : inode[s].number = 0
  BY DEF Init, NoInode
<1>2. CoreRight
  BY <1>1 DEF CoreRight, Read
<1>3. DiskRight
  <2>1. ASSUME NEW i \in Ino PROVE RightOut(i)
    BY DEF Init, RightOut
  <2> QED BY <2>1 DEF DiskRight
<1>4. Linking
  BY DEF Init, Linking, Link
<1> QED BY <1>2, <1>3, <1>4 DEF Right

LEMMA FaultFreeNext == IInv /\ FaultFree /\ [Next]_vars => FaultFree'
<1> SUFFICES ASSUME IInv, FaultFree, [Next]_vars, faults' = 0 PROVE Right'
  BY DEF FaultFree, Right
<1>1. ~Fails
  BY NotFailed DEF IInv
<1>2. faults = 0
  <2>1. UNCHANGED faults \/ Fails
    BY DEF Next, Kernel, Creat, Sync, Close, Open, Unlink, Iget, IgetRead, Iput, IputFree,
           IputUpdated, Iupdated, Ialloc, IallocLoop, IallocScan, IallocGot, OpenGot, OpenTruncated,
           UnlinkGot, CreatEntered, UnlinkRemoved, Plock, Update, UpdateWritten, Succeeds, history, vars
  <2> QED BY <1>1, <2>1
<1>3. Right
  BY <1>2 DEF FaultFree, Right
<1>4. CASE UNCHANGED vars
  <2>1. UNCHANGED <<inode, disk, dir, pc, op, ip, files>>
    BY <1>4 DEF vars, local, history
  <2> QED BY <1>3, <2>1 DEF Right, CoreRight, DiskRight, Linking, Link, Read, Reading, RightIn,
                            RightOut, OutOfCore
<1>5. ASSUME NEW p \in Proc, Kernel(p) PROVE Right'
  BY <1>1, <1>3, <1>5, IgetRight, IgetReadRight, IputRight, IputFreeRight, IputUpdatedRight,
     IallocRight, IallocGotRight, OpenGotRight, OpenTruncatedRight, UnlinkGotRight, CreatEnteredRight,
     UnlinkRemovedRight, LockRight, UpdateWrittenRight DEF Kernel
<1> QED BY <1>3, <1>4, <1>5, CallRight DEF Next

(* The inodes in core and on the disk are right until a transfer fails.    *)
THEOREM RightWithoutFaults == Spec => []FaultFree
BY FaultFreeInit, FaultFreeNext, Invariance, PTL DEF Spec

(* As long as no transfer fails, an inode has a mode if and only if it is  *)
(* a file's: ialloc(), iput(), iupdat() and unlink() lose no file and leak *)
(* no inode.                                                               *)
THEOREM NoFileLost == Spec => []ModesRight
<1>1. ASSUME IInv, FaultFree, faults = 0, NEW i \in Ino
      PROVE  Mode(i) # 0 <=> i \in files
  <2>1. CASE \E s \in Slot : inode[s].number = i /\ ~Reading(s)
    <3>1. PICK s \in Slot : inode[s].number = i /\ ~Reading(s)
      BY <2>1
    <3>2. \A t \in Slot : inode[t].number = i => t = s
      BY <1>1, <3>1, InodesAssumption DEF IInv, OneInode, Ino
    <3>3. (CHOOSE t \in Slot : inode[t].number = i) = s
      BY <3>1, <3>2
    <3>4. Mode(i) = inode[s].mode
      BY <2>1, <3>3 DEF Mode
    <3>5. RightIn(inode[s])
      BY <1>1, <3>1, InodesAssumption DEF FaultFree, CoreRight, Read, Ino
    <3> QED BY <3>1, <3>4, <3>5 DEF RightIn
  <2>2. CASE ~\E s \in Slot : inode[s].number = i /\ ~Reading(s)
    <3>1. RightOut(i)
      BY <1>1, <2>2 DEF FaultFree, DiskRight, OutOfCore
    <3> QED BY <2>2, <3>1 DEF Mode, RightOut
  <2> QED BY <2>1, <2>2
<1>2. IInv /\ FaultFree => ModesRight
  BY <1>1 DEF ModesRight
<1> QED BY <1>2, Invariance, RightWithoutFaults, PTL

(* Nobody else moves a process that has got an inode. *)
LEMMA NotMoved ==
    ASSUME Types, NEW p \in Proc, NEW q \in Proc \ {p}, pc[p] = "got",
           \/ Kernel(q) \/ Creat(q) \/ Sync(q) \/ Close(q)
           \/ \E i \in Ino : Open(q, i) \/ Unlink(q, i)
    PROVE  pc'[p] = "got"
<1>1. ASSUME NEW place, NEW woken \in SUBSET Waiting, Goto(q, place, woken)
      PROVE  pc'[p] = "got"
  BY <1>1 DEF Goto, Waiting
<1>2. ASSUME NEW woken \in SUBSET Waiting, Return(q, woken) \/ IputReturns(q, woken)
      PROVE  pc'[p] = "got"
  BY <1>1, <1>2 DEF Return, IputReturns
<1>3. {} \in SUBSET Waiting /\ WaitingForIlist \in SUBSET Waiting
  BY IlistType
<1>4. \A s : Wanting(s) \in SUBSET Waiting
  BY DEF Wanting, Waiting
<1>5. CASE Creat(q) \/ Sync(q) \/ Close(q) \/ \E i \in Ino : Open(q, i) \/ Unlink(q, i)
  <2>1. \E place : pc' = [pc EXCEPT ![q] = place]
    BY <1>5 DEF Creat, Sync, Close, Open, Unlink, Call
  <2> QED BY <2>1 DEF Types
<1>6. CASE Iget(q) \/ IgetRead(q)
  BY <1>1, <1>2, <1>3, <1>6 DEF Iget, IgetRead
<1>7. CASE Iput(q) \/ IputFree(q) \/ IputUpdated(q)
  BY <1>1, <1>2, <1>3, <1>4, <1>7 DEF Iput, IputFree, IputUpdated
<1>8. CASE Ialloc(q) \/ IallocLoop(q) \/ IallocScan(q) \/ IallocGot(q)
  BY <1>1, <1>2, <1>3, <1>8 DEF Ialloc, IallocLoop, IallocScan, ScanNext, IallocGot
<1>9. CASE OpenGot(q) \/ OpenTruncated(q) \/ UnlinkGot(q) \/ CreatEntered(q) \/ UnlinkRemoved(q)
  BY <1>1, <1>3, <1>4, <1>9 DEF OpenGot, OpenTruncated, UnlinkGot, CreatEntered, UnlinkRemoved,
       Opened, Truncates, Denied, FallocFails
<1>10. CASE Plock(q) \/ Update(q) \/ UpdateWritten(q)
  BY <1>1, <1>2, <1>3, <1>10 DEF Plock, Update, UpdateWritten
<1> QED BY <1>5, <1>6, <1>7, <1>8, <1>9, <1>10 DEF Kernel

(* ialloc(): "Allocate an unused I node": until a transfer fails, creat()  *)
(* gets no inode that is a file's, or that a directory names.              *)
THEOREM AllocatesUnused == Spec => UnusedUnlessFault
<1>1. ASSUME IInv, FaultFree, faults = 0, [Next]_vars, NEW p \in Proc,
             pc[p] = "got", op[p] = "create", pc'[p] = "wdir"
      PROVE  ino[p] \notin files \cup dir
  <2>1. Next
    <3>1. ~UNCHANGED vars
      BY <1>1 DEF vars
    <3> QED BY <1>1, <3>1
  <2>2. \/ Kernel(p) \/ Creat(p) \/ Sync(p) \/ Close(p)
        \/ \E i \in Ino : Open(p, i) \/ Unlink(p, i)
    BY <1>1, <2>1, NotMoved DEF Next, IInv
  <2>3. IallocGot(p)
    BY <1>1, <2>2 DEF Kernel, Creat, Sync, Close, Open, Unlink, Call, At, Iget, IgetRead, Iput,
       IputFree, IputUpdated, Ialloc, IallocLoop, IallocScan, OpenGot, OpenTruncated, UnlinkGot,
       CreatEntered, UnlinkRemoved, Plock, Update, UpdateWritten
  <2>4. IsFree(inode[ip[p]])
    BY <1>1, <2>3 DEF IallocGot, Goto, IInv, Types
  <2>5. Right /\ Holds(p)
    BY <1>1 DEF FaultFree, Right, Holds
  <2>6. RightIn(inode[ip[p]])
    BY <1>1, <2>5, HeldIsRight
  <2>7. inode[ip[p]].number = ino[p]
    BY <1>1 DEF IInv, Registers, Reg
  <2> QED BY <2>4, <2>6, <2>7 DEF RightIn, IsFree
<1>2. IInv /\ FaultFree /\ [Next]_vars => [faults = 0 => GetsUnused]_vars
  BY <1>1 DEF GetsUnused
<1> QED BY <1>2, Invariance, RightWithoutFaults, PTL DEF Spec, UnusedUnlessFault

=============================================================================

---------------------------- MODULE Memory_proofs ----------------------------
(***************************************************************************)
(* Proofs about the users of core: Text, for any number of processes,      *)
(* segments and programs, until a call goes on with an entry of the text   *)
(* table that was freed while it slept; and CoreMap, for any number of     *)
(* units and any size of the map, until it overflows.  The two share no    *)
(* state.                                                                  *)
(***************************************************************************)
EXTENDS Text, CoreMap, FiniteSetTheorems, WellFoundedInduction, TLAPS

-----------------------------------------------------------------------------
(* Who has to do with a segment: its users, those of them in core, those   *)
(* that hold its lock, write it or read it from the file, and the sleepers *)
(* for the lock.                                                           *)
User(p, x) == textp[p] = x
InUser(p, x) == textp[p] = x /\ InCore(p)
Writes(p, x) == (pc[p] = "xfwrite" /\ xp[p] = x) \/ (pc[p] = "wrtext" /\ textp[p] = x)
Waits(p, place) == pc[p] = place \/ (pc[p] = "wrproc" /\ after[p] = place)
Swaps(p, x) == pc[p] = "wrproc" /\ after[p] \in {"attached", "load"} /\ textp[p] = x
Holds(p, x) == Writes(p, x) \/ (pc[p] = "xread" /\ textp[p] = x) \/ Swaps(p, x)
Loader(p) == pc[p] = "readi" \/ Waits(p, "load")
Loads(p, x) == textp[p] = x /\ Loader(p)
Sleeps(p, x) == p \in asleep /\ pc[p] \in InLock /\ xp[p] = x
SchedWrites(x) == spc = "outtext" /\ textp[sproc] = x
SchedHolds(x) == spc \in {"intext", "outtext"} /\ textp[sproc] = x
SchedSleeps(x) == "sched" \in asleep /\ spc = "inlock" /\ textp[sproc] = x

-----------------------------------------------------------------------------
(* The inductive invariant.                                                *)
PC == {"null", "user", "blocked", "xfree", "xfwrite", "expand", "xalloc", "attach", "xread",
       "attached", "load", "readi", "wrtext", "wrproc", "idl", "wrchild", "untext"}
Flags == {"lock", "want", "load", "writ"}
Content == Ino \cup {"none", "junk"}

Types ==
    /\ iptr \in [Seg -> Ino \cup {none}] /\ count \in [Seg -> Int] /\ ccount \in [Seg -> Int]
    /\ flag \in [Seg -> SUBSET Flags] /\ core \in [Seg -> Content] /\ disk \in [Seg -> Content]
    /\ textp \in [Proc -> Seg \cup {none}] /\ prog \in [Proc -> Ino \cup {none}]
    /\ newip \in [Proc -> Ino \cup {none}] /\ xp \in [Proc -> Seg \cup {none}]
    /\ pc \in [Proc -> PC] /\ after \in [Proc -> {"user", "xalloc", "attached", "load"} \cup Proc]
    /\ loaded \in SUBSET Proc /\ slock \in SUBSET Proc /\ asleep \in SUBSET (Proc \cup {"sched"})

(* A process in the middle of a transfer of itself is locked in core.      *)
Placed(p) ==
    /\ pc[p] \in {"wrtext", "wrproc", "readi", "wrchild", "idl", "xread"} => p \in loaded
    /\ pc[p] \in {"wrtext", "wrproc", "readi", "wrchild"} => p \in slock
    /\ pc[p] = "wrtext" => after[p] = "user"
    /\ pc[p] = "wrproc" => after[p] \in {"user", "xalloc", "attached", "load"}
    /\ pc[p] = "idl" => after[p] \in Proc /\ pc[after[p]] = "wrchild"

(* The segment and the inode that a process has where it is.               *)
Has(p) ==
    /\ pc[p] \in {"null", "xfwrite", "expand", "attach"} \/ Waits(p, "xalloc")
         => textp[p] = none /\ prog[p] = none
    /\ Waits(p, "xalloc") => newip[p] # none
    /\ pc[p] \in InLock => xp[p] \in Seg /\ newip[p] # none
    /\ pc[p] = "xfwrite" => xp[p] \in Seg
    /\ pc[p] = "wrtext" => textp[p] # none
    /\ pc[p] = "xread" \/ Waits(p, "attached") \/ Loader(p)
         => textp[p] # none /\ prog[p] = none /\ newip[p] # none /\ iptr[textp[p]] = newip[p]
    /\ textp[p] # none =>
         /\ iptr[textp[p]] # none
         /\ "load" \in flag[textp[p]] <=> Loader(p)
    /\ prog[p] # none => textp[p] # none /\ iptr[textp[p]] = prog[p]

(* An inode has one process that has locked it and one segment; a child    *)
(* has one parent that makes it.                                           *)
Unique ==
    /\ \A p, q \in Proc : newip[p] = newip[q] /\ newip[p] # none => p = q
    /\ \A p, q \in Proc : pc[p] = "idl" /\ pc[q] = "idl" /\ after[p] = after[q] => p = q
    /\ \A x, y \in Seg : iptr[x] = iptr[y] /\ iptr[x] # none => x = y

(* CountsRight. *)
Users(x) == {p \in Proc : User(p, x)}
InUsers(x) == {p \in Proc : InUser(p, x)}
Counted(x) == iptr[x] # none => count[x] = Cardinality(Users(x)) /\ ccount[x] = Cardinality(InUsers(x))

(* LockedOut. *)
Lock(x) ==
    /\ Locked(x) => iptr[x] # none /\ ccount[x] = 0 /\ (SchedHolds(x) \/ \E p \in Proc : Holds(p, x))
    /\ SchedHolds(x) => Locked(x) /\ \A p \in Proc : ~Holds(p, x)
    /\ \A p \in Proc : Holds(p, x) => Locked(x) /\ \A q \in Proc : Holds(q, x) => p = q
    /\ SchedSleeps(x) => {"lock", "want"} \subseteq flag[x]
    /\ \A p \in Proc : Sleeps(p, x) => {"lock", "want"} \subseteq flag[x]

(* RightText: where the text of a segment is. *)
Contents(x) ==
    /\ iptr[x] = none => core[x] = "none" /\ disk[x] = "none"
    /\ iptr[x] # none /\ "load" \in flag[x] => "writ" \notin flag[x] /\ \E p \in Proc : Loads(p, x)
    /\ iptr[x] # none /\ "load" \notin flag[x] =>
         /\ ccount[x] > 0 => core[x] = iptr[x]
         /\ "writ" \in flag[x] => ccount[x] > 0
         /\ "writ" \in flag[x] \/ disk[x] = iptr[x] \/ SchedWrites(x) \/ \E p \in Proc : Writes(p, x)
    /\ SchedWrites(x) \/ (\E p \in Proc : Writes(p, x)) => "load" \notin flag[x] /\ core[x] = iptr[x]
    /\ \A p \in Proc : Swaps(p, x) => core[x] = "none"
    /\ iptr[x] # none /\ ccount[x] > 0 => core[x] # "none"
    /\ iptr[x] # none /\ core[x] # "none" => ccount[x] > 0 \/ Locked(x)

(* The process that sched() moves is out of core; SwapperWoken.            *)
Swapper ==
    /\ spc \in {"loop", "runout", "inlock", "intext", "inproc", "makeroom", "outtext", "outproc"}
    /\ spc \in {"inlock", "intext", "inproc", "outtext", "outproc"} =>
         sproc \in Proc \ loaded /\ pc[sproc] # "null"
    /\ spc \in {"inlock", "intext", "outtext"} => textp[sproc] \in Seg
    /\ spc = "intext" => "load" \notin flag[textp[sproc]]
    /\ "sched" \in asleep => spc \in {"runout", "inlock"}
    /\ SwapperWoken

PInv(p) == Placed(p) /\ Has(p)
XInv(x) == Counted(x) /\ Lock(x) /\ Contents(x)
IInv == /\ Types /\ Unique /\ Swapper
        /\ \A p \in Proc : PInv(p)
        /\ \A x \in Seg : XInv(x)

-----------------------------------------------------------------------------
(* Sets of processes that differ in p.                                     *)
LEMMA CardMove ==
    ASSUME NEW S \in SUBSET Proc, NEW T \in SUBSET Proc, NEW p \in Proc,
           \A q \in Proc \ {p} : q \in S <=> q \in T
    PROVE  /\ Cardinality(S) \in Nat /\ Cardinality(T) \in Nat
           /\ Cardinality(T) = Cardinality(S) + (IF p \in T THEN 1 ELSE 0) - (IF p \in S THEN 1 ELSE 0)
<1>1. IsFiniteSet(S) /\ IsFiniteSet(T)
  BY FS_Subset, TextAssumption
<1>2. Cardinality(S) \in Nat /\ Cardinality(T) \in Nat
  BY <1>1, FS_CardinalityType
<1>3. CASE p \in S /\ p \in T
  <2>1. S = T
    BY <1>3
  <2> QED BY <1>2, <1>3, <2>1
<1>4. CASE p \notin S /\ p \notin T
  <2>1. S = T
    BY <1>4
  <2> QED BY <1>2, <1>4, <2>1
<1>5. CASE p \in S /\ p \notin T
  <2>1. T = S \ {p}
    BY <1>5
  <2>2. Cardinality(T) = Cardinality(S) - 1
    BY <1>1, <1>5, <2>1, FS_RemoveElement
  <2> QED BY <1>2, <1>5, <2>2
<1>6. CASE p \notin S /\ p \in T
  <2>1. T = S \cup {p}
    BY <1>6
  <2>2. Cardinality(T) = Cardinality(S) + 1
    BY <1>1, <1>6, <2>1, FS_AddElement
  <2> QED BY <1>2, <1>6, <2>2
<1> QED BY <1>2, <1>3, <1>4, <1>5, <1>6

LEMMA CardSmall ==
    ASSUME NEW S \in SUBSET Proc
    PROVE  /\ Cardinality(S) \in Nat /\ (Cardinality(S) = 0 <=> S = {})
           /\ \A p \in S : Cardinality(S) > 0
           /\ Cardinality(S) = 1 => \A p, q \in S : p = q
<1>1. IsFiniteSet(S)
  BY FS_Subset, TextAssumption
<1>2. Cardinality(S) \in Nat /\ (Cardinality(S) = 0 <=> S = {})
  BY <1>1, FS_CardinalityType, FS_EmptySet
<1>3. Cardinality(S) = 1 => \A p, q \in S : p = q
  <2>1. ASSUME Cardinality(S) = 1 PROVE \E a : S = {a}
    BY <1>1, <2>1, FS_Singleton
  <2> QED BY <2>1
<1> QED BY <1>2, <1>3

-----------------------------------------------------------------------------
(* What does not change.                                                   *)
TextSame(x) ==
    /\ iptr'[x] = iptr[x] /\ count'[x] = count[x] /\ ccount'[x] = ccount[x]
    /\ flag'[x] = flag[x] /\ core'[x] = core[x] /\ disk'[x] = disk[x]
Own(p) ==
    /\ pc'[p] = pc[p] /\ textp'[p] = textp[p] /\ prog'[p] = prog[p] /\ newip'[p] = newip[p]
    /\ xp'[p] = xp[p] /\ after'[p] = after[p]
    /\ p \in loaded' <=> p \in loaded
    /\ p \in slock' <=> p \in slock
    /\ p \in asleep' => p \in asleep
    /\ (sproc' = p /\ spc' = "inproc") <=> (sproc = p /\ spc = "inproc")
Apart(p, x) ==
    /\ User(p, x)' <=> User(p, x)
    /\ InUser(p, x)' <=> InUser(p, x)
    /\ Writes(p, x)' <=> Writes(p, x)
    /\ Swaps(p, x)' <=> Swaps(p, x)
    /\ Holds(p, x)' <=> Holds(p, x)
    /\ Loads(p, x)' <=> Loads(p, x)
    /\ Sleeps(p, x)' => Sleeps(p, x)
SchedApart(x) ==
    /\ SchedWrites(x)' <=> SchedWrites(x)
    /\ SchedHolds(x)' <=> SchedHolds(x)
    /\ SchedSleeps(x)' => SchedSleeps(x)

LEMMA OwnApart ==
    ASSUME NEW p \in Proc, Own(p), NEW x
    PROVE  Apart(p, x)
<1>1. InCore(p)' <=> InCore(p)
  BY DEF Own, InCore
<1>2. /\ Writes(p, x)' <=> Writes(p, x)
      /\ Swaps(p, x)' <=> Swaps(p, x)
      /\ Holds(p, x)' <=> Holds(p, x)
  BY DEF Own, Writes, Swaps, Holds
<1>3. Loader(p)' <=> Loader(p)
  BY DEF Own, Loader, Waits
<1>4. Sleeps(p, x)' => Sleeps(p, x)
  BY DEF Own, Sleeps
<1> QED BY <1>1, <1>2, <1>3, <1>4 DEF Own, Apart, User, InUser, Loads

LEMMA CountMove ==
    ASSUME NEW p \in Proc, NEW x, \A q \in Proc \ {p} : Apart(q, x)
    PROVE  /\ Cardinality(Users(x)) \in Nat /\ Cardinality(InUsers(x)) \in Nat
           /\ Cardinality(Users(x))' =
                Cardinality(Users(x)) + (IF User(p, x)' THEN 1 ELSE 0) - (IF User(p, x) THEN 1 ELSE 0)
           /\ Cardinality(InUsers(x))' =
                Cardinality(InUsers(x)) + (IF InUser(p, x)' THEN 1 ELSE 0) - (IF InUser(p, x) THEN 1 ELSE 0)
<1>1. /\ Users(x) \in SUBSET Proc /\ Users(x)' \in SUBSET Proc
      /\ \A q \in Proc : (q \in Users(x) <=> User(q, x)) /\ (q \in Users(x)' <=> User(q, x)')
  BY DEF Users
<1>2. /\ InUsers(x) \in SUBSET Proc /\ InUsers(x)' \in SUBSET Proc
      /\ \A q \in Proc : (q \in InUsers(x) <=> InUser(q, x)) /\ (q \in InUsers(x)' <=> InUser(q, x)')
  BY DEF InUsers
<1>3. \A q \in Proc \ {p} : (User(q, x)' <=> User(q, x)) /\ (InUser(q, x)' <=> InUser(q, x))
  BY DEF Apart
<1> DEFINE S == Users(x) T == Users(x)' U == InUsers(x) V == InUsers(x)'
<1>4. S \in SUBSET Proc /\ T \in SUBSET Proc /\ \A q \in Proc \ {p} : q \in S <=> q \in T
  BY <1>1, <1>3
<1>5. U \in SUBSET Proc /\ V \in SUBSET Proc /\ \A q \in Proc \ {p} : q \in U <=> q \in V
  BY <1>2, <1>3
<1> HIDE DEF S, T, U, V
<1>6. /\ Cardinality(S) \in Nat
      /\ Cardinality(T) = Cardinality(S) + (IF p \in T THEN 1 ELSE 0) - (IF p \in S THEN 1 ELSE 0)
  BY <1>4, CardMove
<1>7. /\ Cardinality(U) \in Nat
      /\ Cardinality(V) = Cardinality(U) + (IF p \in V THEN 1 ELSE 0) - (IF p \in U THEN 1 ELSE 0)
  BY <1>5, CardMove
<1> QED BY <1>1, <1>2, <1>6, <1>7 DEF S, T, U, V

LEMMA XFrame ==
    ASSUME IInv, NEW x \in Seg, TextSame(x), SchedApart(x), \A q \in Proc : Apart(q, x)
    PROVE  XInv(x)'
<1>0. XInv(x)
  BY DEF IInv
<1>1. Counted(x)'
  <2>1. Users(x)' = Users(x) /\ InUsers(x)' = InUsers(x)
    BY DEF Users, InUsers, Apart
  <2> QED BY <1>0, <2>1 DEF XInv, Counted, TextSame
<1>2. Lock(x)'
  BY <1>0 DEF XInv, Lock, Locked, TextSame, SchedApart, Apart
<1>3. Contents(x)'
  <2>1. /\ (\E p \in Proc : Loads(p, x))' <=> \E p \in Proc : Loads(p, x)
        /\ (\E p \in Proc : Writes(p, x))' <=> \E p \in Proc : Writes(p, x)
        /\ (\E p \in Proc : Swaps(p, x))' <=> \E p \in Proc : Swaps(p, x)
        /\ SchedWrites(x)' <=> SchedWrites(x)
    BY DEF Apart, SchedApart
  <2> QED BY <1>0, <2>1 DEF XInv, Contents, Locked, TextSame
<1> QED BY <1>1, <1>2, <1>3 DEF XInv

LEMMA PFrame ==
    ASSUME IInv, NEW p \in Proc, Own(p),
           textp[p] # none => /\ iptr'[textp[p]] = iptr[textp[p]]
                              /\ "load" \in flag'[textp[p]] <=> "load" \in flag[textp[p]],
           pc[p] = "idl" => pc'[after[p]] = pc[after[p]]
    PROVE  PInv(p)'
<1>0. PInv(p)
  BY DEF IInv
<1>1. Placed(p)'
  BY <1>0 DEF PInv, Placed, Own
<1>2. Has(p)'
  BY <1>0 DEF PInv, Has, Own, Waits, Loader
<1> QED BY <1>1, <1>2 DEF PInv

-----------------------------------------------------------------------------
(* The swapper is woken when a process that is out of core gets ready.     *)
LEMMA ReschedIs ==
    ASSUME NEW stops, NEW wakes, Resched(stops, wakes), Types,
           stops \in SUBSET Proc, wakes \in SUBSET (Proc \cup {"sched"})
    PROVE  /\ asleep' \in SUBSET (Proc \cup {"sched"})
           /\ "sched" \in asleep' => "sched" \in asleep /\ "sched" \notin wakes
           /\ \A q \in Proc : q \in asleep' <=> (q \in asleep \/ q \in stops) /\ q \notin wakes
           /\ spc = "runout" /\ "sched" \in asleep' => \A q \in wakes \cap asleep : q \notin Proc \ loaded
BY TextAssumption DEF Resched, Types

LEMMA WokenFrame ==
    ASSUME IInv, NEW stops \in SUBSET Proc, NEW wakes \in SUBSET (Proc \cup {"sched"}),
           Resched(stops, wakes), UNCHANGED spc, loaded \subseteq loaded',
           \A q \in Proc : pc'[q] # "null" => pc[q] # "null" \/ q \in loaded'
    PROVE  SwapperWoken'
<1>1. /\ "sched" \in asleep' => "sched" \in asleep /\ "sched" \notin wakes
      /\ \A q \in Proc : q \in asleep' <=> (q \in asleep \/ q \in stops) /\ q \notin wakes
      /\ spc = "runout" /\ "sched" \in asleep' => \A q \in wakes \cap asleep : q \notin Proc \ loaded
  BY ReschedIs DEF IInv
<1> SUFFICES ASSUME spc' = "runout", "sched" \in asleep', NEW q \in Proc, q \in SchedReady'
             PROVE  FALSE
  BY DEF SwapperWoken, SchedReady
<1>2. pc'[q] # "null" /\ q \notin asleep' /\ q \notin loaded'
  BY DEF SchedReady
<1>3. q \in SchedReady
  BY <1>1, <1>2 DEF SchedReady
<1> QED BY <1>1, <1>3 DEF IInv, Swapper, SwapperWoken

LEMMA WokenStays ==
    ASSUME IInv, UNCHANGED <<spc, asleep>>,
           \A q \in Proc : q \in loaded /\ q \notin loaded' => pc'[q] = "null",
           \A q \in Proc : pc'[q] # "null" => pc[q] # "null" \/ q \in loaded'
    PROVE  SwapperWoken'
<1> SUFFICES ASSUME spc' = "runout", "sched" \in asleep', NEW q \in Proc, q \in SchedReady'
             PROVE  FALSE
  BY DEF SwapperWoken, SchedReady
<1>1. q \in SchedReady
  BY DEF SchedReady
<1> QED BY <1>1 DEF IInv, Swapper, SwapperWoken

(* A step of p that is about the segment x. *)
LEMMA StepInv ==
    ASSUME IInv, Types', NEW p \in Proc, NEW x, UNCHANGED <<spc, sproc>>,
           \A q \in Proc \ {p} : Own(q),
           "sched" \in asleep' => "sched" \in asleep,
           \A y \in Seg \ {x} : TextSame(y) /\ Apart(p, y),
           x \in Seg => XInv(x)',
           PInv(p)',
           \A q \in Proc \ {p} : x \in Seg =>
             (textp[q] = x => iptr'[x] = iptr[x] /\ ("load" \in flag'[x] <=> "load" \in flag[x])),
           pc[p] = "wrchild" => pc'[p] = "wrchild",
           pc'[p] # "idl",
           newip'[p] = none \/ \A q \in Proc \ {p} : newip[q] # newip'[p],
           x \in Seg => \/ iptr'[x] \in {iptr[x], none}
                        \/ \A y \in Seg \ {x} : iptr[y] # iptr'[x],
           \/ p \in loaded \/ pc[p] = "null"
           \/ p \notin loaded' /\ textp'[p] = textp[p] /\ pc'[p] # "null",
           spc = "intext" /\ textp[sproc] = x => ("load" \in flag'[x] => "load" \in flag[x]),
           SwapperWoken'
    PROVE  IInv'
<1>1. ASSUME NEW y \in Seg PROVE XInv(y)'
  <2>1. CASE y = x
    BY <2>1
  <2>2. CASE y # x
    <3>1. \A q \in Proc : Apart(q, y)
      BY <2>2, OwnApart
    <3>2. spc \in {"inlock", "intext", "outtext"} => textp'[sproc] = textp[sproc]
      BY DEF IInv, Swapper, Own
    <3>3. SchedApart(y)
      BY <3>2 DEF SchedApart, SchedWrites, SchedHolds, SchedSleeps
    <3> QED BY <2>2, <3>1, <3>3, XFrame
  <2> QED BY <2>1, <2>2
<1>2. ASSUME NEW q \in Proc \ {p} PROVE PInv(q)'
  <2>1. textp[q] # none => /\ iptr'[textp[q]] = iptr[textp[q]]
                           /\ "load" \in flag'[textp[q]] <=> "load" \in flag[textp[q]]
    BY DEF TextSame, IInv, Types
  <2>2. pc[q] = "idl" => pc'[after[q]] = pc[after[q]]
    BY DEF IInv, PInv, Placed, Own
  <2> QED BY <2>1, <2>2, PFrame
<1>3. Unique'
  <2>1. ASSUME NEW q \in Proc, NEW r \in Proc, newip'[q] = newip'[r], newip'[q] # none PROVE q = r
    BY <2>1 DEF IInv, Unique, Own
  <2>2. ASSUME NEW q \in Proc, NEW r \in Proc, pc'[q] = "idl", pc'[r] = "idl", after'[q] = after'[r]
        PROVE  q = r
    BY <2>2 DEF IInv, Unique, Own
  <2>3. ASSUME NEW y \in Seg, NEW z \in Seg, iptr'[y] = iptr'[z], iptr'[y] # none PROVE y = z
    BY <2>3 DEF IInv, Unique, TextSame
  <2> QED BY <2>1, <2>2, <2>3 DEF Unique
<1>4. Swapper'
  <2>1. spc \in {"inlock", "intext", "inproc", "outtext", "outproc"} =>
          /\ sproc \in Proc \ loaded' /\ pc'[sproc] # "null" /\ textp'[sproc] = textp[sproc]
    BY DEF IInv, Swapper, Own
  <2>2. spc = "intext" => "load" \notin flag'[textp[sproc]]
    BY DEF IInv, Swapper, TextSame
  <2> QED BY <2>1, <2>2 DEF IInv, Swapper
<1> QED BY <1>1, <1>2, <1>3, <1>4 DEF IInv

-----------------------------------------------------------------------------
(* Steps that leave the segments alone.                                    *)
LEMMA MoveInv ==
    ASSUME IInv, Types', NEW p \in Proc, UNCHANGED text, UNCHANGED <<spc, sproc>>,
           \A q \in Proc \ {p} : Own(q),
           "sched" \in asleep' => "sched" \in asleep,
           \A y \in Seg : Apart(p, y),
           PInv(p)', pc[p] # "wrchild", pc'[p] # "idl",
           newip'[p] = none \/ \A q \in Proc \ {p} : newip[q] # newip'[p],
           \/ p \in loaded \/ pc[p] = "null"
           \/ p \notin loaded' /\ textp'[p] = textp[p] /\ pc'[p] # "null",
           SwapperWoken'
    PROVE  IInv'
<1>1. none \notin Seg
  BY TextAssumption
<1>2. \A y \in Seg : TextSame(y)
  BY DEF text, TextSame
<1>3. spc = "intext" => textp[sproc] # none
  BY <1>1 DEF IInv, Swapper
<1> DEFINE x == none
<1>4. x \notin Seg
  BY <1>1
<1>5. \A y \in Seg \ {x} : TextSame(y) /\ Apart(p, y)
  BY <1>2
<1>6. spc = "intext" => textp[sproc] # x
  BY <1>3
<1> HIDE DEF x
<1> QED BY <1>4, <1>5, <1>6, StepInv

Quiet == {"null", "user", "blocked", "xfree", "expand", "xalloc", "attach", "untext", "attached"}

LEMMA ApartQuiet ==
    ASSUME NEW p \in Proc, NEW y \in Seg, textp'[p] = textp[p], pc[p] \in Quiet, pc'[p] \in Quiet,
           textp[p] = none \/ (p \in loaded' <=> p \in loaded), UNCHANGED <<spc, sproc>>,
           Sleeps(p, y)' => Sleeps(p, y)
    PROVE  Apart(p, y)
<1>1. InUser(p, y)' <=> InUser(p, y)
  BY TextAssumption DEF InUser, InCore, Quiet
<1>2. /\ ~Writes(p, y) /\ ~Writes(p, y)' /\ ~Swaps(p, y) /\ ~Swaps(p, y)'
      /\ ~Holds(p, y) /\ ~Holds(p, y)' /\ ~Loads(p, y) /\ ~Loads(p, y)'
  BY DEF Writes, Swaps, Holds, Loads, Loader, Waits, Quiet
<1> QED BY <1>1, <1>2 DEF Apart, User

LEMMA ApartNone ==
    ASSUME NEW p \in Proc, NEW y \in Seg, textp'[p] = none, textp[p] = none,
           pc[p] = "xfwrite" => xp[p] # y, pc'[p] = "xfwrite" => xp'[p] # y,
           Sleeps(p, y)' => Sleeps(p, y)
    PROVE  Apart(p, y)
BY TextAssumption DEF Apart, User, InUser, Writes, Swaps, Holds, Loads

LEMMA CallInv ==
    ASSUME IInv, NEW p \in Proc, Exit(p) \/ \E ip \in Ino : Exec(p, ip)
    PROVE  IInv'
<1>1. /\ pc[p] = "user" /\ p \in loaded /\ p \notin asleep /\ pc' = [pc EXCEPT ![p] = "xfree"]
      /\ UNCHANGED text /\ UNCHANGED <<spc, sproc>>
      /\ UNCHANGED <<textp, prog, xp, after, asleep, loaded, slock>>
  BY DEF Exit, Exec, Runs, First, Ready, Goto, user, swapper
<1>2. /\ newip' \in [Proc -> Ino \cup {none}] /\ \A q \in Proc \ {p} : newip'[q] = newip[q]
      /\ newip'[p] = none \/ \A q \in Proc \ {p} : newip[q] # newip'[p]
  <2>1. CASE Exit(p)
    BY <2>1 DEF Exit, user, IInv, Types, Unique
  <2>2. CASE \E ip \in Ino : Exec(p, ip)
    BY <2>2 DEF Exec, IInv, Types
  <2> QED BY <2>1, <2>2
<1>3. Types'
  BY <1>1, <1>2 DEF IInv, Types, text, PC
<1>4. \A q \in Proc \ {p} : Own(q)
  BY <1>1, <1>2 DEF Own, IInv, Types
<1>5. pc'[p] = "xfree"
  BY <1>1 DEF IInv, Types
<1>6. ASSUME NEW y \in Seg PROVE Apart(p, y)
  BY <1>1, <1>5, ApartQuiet DEF Quiet, Sleeps
<1>7. PInv(p)'
  BY <1>1, <1>5 DEF IInv, PInv, Placed, Has, Waits, Loader, InLock, text
<1>8. SwapperWoken'
  BY <1>1, WokenStays
<1> QED BY <1>1, <1>2, <1>3, <1>4, <1>5, <1>6, <1>7, <1>8, MoveInv

LEMMA ExitedInv ==
    ASSUME IInv, NEW p \in Proc, Exited(p)
    PROVE  IInv'
<1>1. /\ pc[p] = "expand" /\ p \in loaded /\ p \notin asleep /\ pc' = [pc EXCEPT ![p] = "null"]
      /\ UNCHANGED text /\ UNCHANGED <<spc, sproc>> /\ loaded' = loaded \ {p}
      /\ UNCHANGED <<textp, prog, newip, xp, after, asleep, slock>>
  BY DEF Exited, Ready, Goto, user, swapper
<1>2. Types'
  BY <1>1 DEF IInv, Types, text, PC
<1>3. \A q \in Proc \ {p} : Own(q)
  BY <1>1 DEF Own, IInv, Types
<1>4. pc'[p] = "null"
  BY <1>1 DEF IInv, Types
<1>5. textp[p] = none /\ prog[p] = none
  BY <1>1 DEF IInv, PInv, Has
<1>6. ASSUME NEW y \in Seg PROVE Apart(p, y)
  BY <1>1, <1>4, <1>5, ApartNone DEF Sleeps
<1>7. PInv(p)'
  BY <1>1, <1>4, <1>5 DEF PInv, Placed, Has, Waits, Loader, InLock
<1>8. SwapperWoken'
  BY <1>1, <1>4, WokenStays
<1>9. newip'[p] = none \/ \A q \in Proc \ {p} : newip[q] # newip'[p]
  BY <1>1 DEF IInv, Unique
<1> QED BY <1>1, <1>2, <1>3, <1>4, <1>6, <1>7, <1>8, <1>9, MoveInv

LEMMA ExecExpandInv ==
    ASSUME IInv, NEW p \in Proc, ExecExpand(p)
    PROVE  IInv'
<1>1. /\ pc[p] = "expand" /\ p \in loaded /\ p \notin asleep /\ newip[p] # none
      /\ UNCHANGED text /\ UNCHANGED <<spc, sproc>>
      /\ UNCHANGED <<textp, prog, newip, xp, asleep, loaded>>
  BY DEF ExecExpand, Ready, user, swapper
<1>2. /\ pc' \in [Proc -> PC] /\ \A q \in Proc \ {p} : pc'[q] = pc[q]
      /\ after' \in [Proc -> {"user", "xalloc", "attached", "load"} \cup Proc]
      /\ \A q \in Proc \ {p} : after'[q] = after[q] /\ (q \in slock' <=> q \in slock)
      /\ slock' \in SUBSET Proc
      /\ pc'[p] = "xalloc" \/ (pc'[p] = "wrproc" /\ after'[p] = "xalloc" /\ p \in slock')
  <2>1. CASE Goto(p, "xalloc") /\ UNCHANGED <<after, slock>>
    BY <2>1 DEF Goto, IInv, Types, PC
  <2>2. CASE Goto(p, "wrproc") /\ SwapSelf(p, "xalloc")
    BY <2>2 DEF Goto, SwapSelf, IInv, Types, PC
  <2> QED BY <2>1, <2>2 DEF ExecExpand
<1>3. Types'
  BY <1>1, <1>2 DEF IInv, Types, text
<1>4. \A q \in Proc \ {p} : Own(q)
  BY <1>1, <1>2 DEF Own
<1>5. textp[p] = none /\ prog[p] = none
  BY <1>1 DEF IInv, PInv, Has
<1>6. ASSUME NEW y \in Seg PROVE Apart(p, y)
  BY <1>1, <1>2, <1>5, ApartNone DEF Sleeps
<1>7. PInv(p)'
  BY <1>1, <1>2, <1>5 DEF PInv, Placed, Has, Waits, Loader, InLock
<1>8. SwapperWoken'
  BY <1>1, <1>2, WokenStays
<1>9. newip'[p] = none \/ \A q \in Proc \ {p} : newip[q] # newip'[p]
  BY <1>1 DEF IInv, Unique
<1> QED BY <1>1, <1>2, <1>3, <1>4, <1>6, <1>7, <1>8, <1>9, MoveInv

LEMMA LoadInv ==
    ASSUME IInv, NEW p \in Proc, Load(p)
    PROVE  IInv'
<1>1. /\ pc[p] = "load" /\ p \in loaded /\ p \notin asleep /\ pc' = [pc EXCEPT ![p] = "readi"]
      /\ UNCHANGED text /\ UNCHANGED <<spc, sproc>> /\ slock' = slock \cup {p}
      /\ UNCHANGED <<textp, prog, newip, xp, after, asleep, loaded>>
  BY DEF Load, Ready, Goto, user, swapper
<1>2. Types'
  BY <1>1 DEF IInv, Types, text, PC
<1>3. \A q \in Proc \ {p} : Own(q)
  BY <1>1 DEF Own, IInv, Types
<1>4. pc'[p] = "readi"
  BY <1>1 DEF IInv, Types
<1>5. ASSUME NEW y \in Seg PROVE Apart(p, y)
  BY <1>1, <1>4 DEF Apart, User, InUser, InCore, Writes, Swaps, Holds, Loads, Loader, Waits, Sleeps
<1>6. PInv(p)'
  BY <1>1, <1>4 DEF IInv, PInv, Placed, Has, Waits, Loader, InLock, text
<1>7. SwapperWoken'
  BY <1>1, WokenStays
<1>8. newip'[p] = none \/ \A q \in Proc \ {p} : newip[q] # newip'[p]
  BY <1>1 DEF IInv, Unique
<1> QED BY <1>1, <1>2, <1>3, <1>4, <1>5, <1>6, <1>7, <1>8, MoveInv

LEMMA BlockInv ==
    ASSUME IInv, NEW p \in Proc, Block(p) \/ Setrun(p)
    PROVE  IInv'
<1>1. /\ pc[p] \in {"user", "blocked"} /\ pc'[p] \in {"user", "blocked"}
      /\ pc' \in [Proc -> PC] /\ \A q \in Proc \ {p} : pc'[q] = pc[q]
      /\ UNCHANGED text /\ UNCHANGED <<spc, sproc>>
      /\ UNCHANGED <<textp, prog, newip, xp, after, loaded, slock>>
  BY DEF Block, Setrun, Runs, Goto, user, swapper, IInv, Types, PC
<1>2. PICK stops \in SUBSET {p}, wakes \in SUBSET {p} : Resched(stops, wakes)
  BY DEF Block, Setrun
<1>3. stops \in SUBSET Proc /\ wakes \in SUBSET (Proc \cup {"sched"})
  OBVIOUS
<1>4. /\ asleep' \in SUBSET (Proc \cup {"sched"})
      /\ "sched" \in asleep' => "sched" \in asleep /\ "sched" \notin wakes
      /\ \A q \in Proc : q \in asleep' <=> (q \in asleep \/ q \in stops) /\ q \notin wakes
  BY <1>2, <1>3, ReschedIs DEF IInv
<1>5. Types'
  BY <1>1, <1>4 DEF IInv, Types, text
<1>6. \A q \in Proc \ {p} : Own(q)
  BY <1>1, <1>4 DEF Own
<1>7. ASSUME NEW y \in Seg PROVE Apart(p, y)
  BY <1>1, ApartQuiet DEF Quiet, Sleeps, InLock
<1>8. PInv(p)'
  BY <1>1 DEF IInv, PInv, Placed, Has, Waits, Loader, InLock, text
<1>9. SwapperWoken'
  BY <1>1, <1>2, <1>3, WokenFrame
<1>10. newip'[p] = none \/ \A q \in Proc \ {p} : newip[q] # newip'[p]
  BY <1>1 DEF IInv, Unique
<1>11. p \in loaded \/ (p \notin loaded' /\ textp'[p] = textp[p] /\ pc'[p] # "null")
  BY <1>1
<1> QED BY <1>1, <1>4, <1>5, <1>6, <1>7, <1>8, <1>9, <1>10, <1>11, MoveInv

LEMMA SpawnInv ==
    ASSUME IInv, NEW p \in Proc, Spawn(p)
    PROVE  IInv'
<1>1. /\ pc[p] = "null" /\ pc' = [pc EXCEPT ![p] = "user"]
      /\ UNCHANGED text /\ UNCHANGED <<spc, sproc>> /\ loaded' = loaded \cup {p}
      /\ UNCHANGED <<textp, prog, newip, xp, after, asleep, slock>>
  BY DEF Spawn, Goto, user, swapper
<1>2. Types'
  BY <1>1 DEF IInv, Types, text, PC
<1>3. \A q \in Proc \ {p} : Own(q)
  BY <1>1 DEF Own, IInv, Types
<1>4. pc'[p] = "user"
  BY <1>1 DEF IInv, Types
<1>5. textp[p] = none /\ prog[p] = none
  BY <1>1 DEF IInv, PInv, Has
<1>6. ASSUME NEW y \in Seg PROVE Apart(p, y)
  BY <1>1, <1>4, <1>5, ApartNone DEF Sleeps, InLock
<1>7. PInv(p)'
  BY <1>1, <1>4, <1>5 DEF PInv, Placed, Has, Waits, Loader, InLock
<1>8. SwapperWoken'
  BY <1>1, <1>3, WokenStays DEF Own
<1>9. newip'[p] = none \/ \A q \in Proc \ {p} : newip[q] # newip'[p]
  BY <1>1 DEF IInv, Unique
<1> QED BY <1>1, <1>2, <1>3, <1>4, <1>6, <1>7, <1>8, <1>9, MoveInv

-----------------------------------------------------------------------------
(* What happens to a segment.  It is not locked while somebody in core     *)
(* uses it.                                                                *)
LEMMA InUserIs ==
    ASSUME IInv, NEW p \in Proc, NEW x \in Seg, InUser(p, x)
    PROVE  /\ iptr[x] # none /\ ccount[x] > 0 /\ count[x] > 0 /\ ccount[x] \in Int /\ count[x] \in Int
           /\ ~Locked(x) /\ ~SchedHolds(x) /\ ~SchedSleeps(x)
           /\ \A q \in Proc : ~Holds(q, x) /\ ~Sleeps(q, x)
           /\ count[x] = 1 => \A q \in Proc : User(q, x) => q = p
           /\ ccount[x] = 1 => \A q \in Proc : InUser(q, x) => q = p
<1>1. iptr[x] # none /\ x # none
  BY TextAssumption DEF IInv, PInv, Has, InUser
<1>2. count[x] = Cardinality(Users(x)) /\ ccount[x] = Cardinality(InUsers(x))
  BY <1>1 DEF IInv, XInv, Counted
<1>3. p \in Users(x) /\ p \in InUsers(x) /\ Users(x) \in SUBSET Proc /\ InUsers(x) \in SUBSET Proc
  BY DEF Users, InUsers, User, InUser
<1>4. /\ ccount[x] > 0 /\ count[x] > 0 /\ ccount[x] \in Int /\ count[x] \in Int
      /\ count[x] = 1 => \A q \in Proc : User(q, x) => q = p
      /\ ccount[x] = 1 => \A q \in Proc : InUser(q, x) => q = p
  <2>1. /\ Cardinality(Users(x)) \in Nat /\ Cardinality(Users(x)) > 0
        /\ Cardinality(Users(x)) = 1 => \A q \in Users(x) : q = p
    BY <1>3, CardSmall
  <2>2. /\ Cardinality(InUsers(x)) \in Nat /\ Cardinality(InUsers(x)) > 0
        /\ Cardinality(InUsers(x)) = 1 => \A q \in InUsers(x) : q = p
    BY <1>3, CardSmall
  <2> QED BY <1>2, <2>1, <2>2 DEF Users, InUsers
<1>5. ~Locked(x)
  BY <1>4 DEF IInv, XInv, Lock
<1> QED BY <1>1, <1>4, <1>5 DEF IInv, XInv, Lock, Locked

(* p leaves the copy in core. *)
LEMMA XccdecX ==
    ASSUME IInv, NEW p \in Proc, NEW x \in Seg, InUser(p, x), Xccdec(x), ~InUser(p, x)',
           \A q \in Proc \ {p} : Apart(q, x),
           iptr'[x] = iptr[x], disk'[x] = disk[x],
           count'[x] = count[x] - (IF User(p, x)' THEN 0 ELSE 1),
           Loads(p, x)' <=> Loads(p, x), ~Sleeps(p, x)', ~Swaps(p, x)', ~SchedSleeps(x)',
           MustWrite(x) => \/ Writes(p, x)' /\ ~SchedHolds(x)'
                           \/ SchedWrites(x)' /\ ~Holds(p, x)',
           ~MustWrite(x) => ~Holds(p, x)' /\ ~SchedHolds(x)'
    PROVE  XInv(x)'
<1>0. /\ iptr[x] # none /\ ccount[x] > 0 /\ count[x] > 0 /\ ccount[x] \in Int /\ count[x] \in Int
      /\ ~Locked(x) /\ ~SchedHolds(x) /\ ~SchedSleeps(x)
      /\ \A q \in Proc : ~Holds(q, x) /\ ~Sleeps(q, x)
  BY InUserIs
<1>1. /\ \A q \in Proc \ {p} : ~Holds(q, x)' /\ ~Sleeps(q, x)' /\ ~Writes(q, x)' /\ ~Swaps(q, x)'
      /\ (\E q \in Proc : Loads(q, x))' <=> \E q \in Proc : Loads(q, x)
  BY <1>0 DEF Apart, Holds
<1>2. XInv(x)
  BY DEF IInv
<1>3. /\ ccount'[x] = ccount[x] - 1
      /\ MustWrite(x) => flag'[x] = (flag[x] \ {"writ"}) \cup {"lock"} /\ core'[x] = core[x]
      /\ ~MustWrite(x) => /\ flag'[x] = flag[x]
                          /\ core'[x] = IF ccount[x] = 1 THEN "none" ELSE core[x]
  BY DEF Xccdec, IInv, Types
<1>4. Counted(x)'
  <2>1. /\ Cardinality(Users(x)) \in Nat /\ Cardinality(InUsers(x)) \in Nat
        /\ Cardinality(Users(x))' =
             Cardinality(Users(x)) + (IF User(p, x)' THEN 1 ELSE 0) - (IF User(p, x) THEN 1 ELSE 0)
        /\ Cardinality(InUsers(x))' =
             Cardinality(InUsers(x)) + (IF InUser(p, x)' THEN 1 ELSE 0) - (IF InUser(p, x) THEN 1 ELSE 0)
    BY CountMove
  <2>2. User(p, x)
    BY DEF User, InUser
  <2> QED BY <1>0, <1>2, <1>3, <2>1, <2>2 DEF XInv, Counted
<1>5. CASE MustWrite(x)
  <2>1. /\ ccount[x] = 1 /\ "writ" \in flag[x] /\ "load" \notin flag[x] /\ core[x] = iptr[x]
        /\ ~ccount'[x] > 0 /\ ccount'[x] = 0
    BY <1>0, <1>2, <1>3, <1>5 DEF MustWrite, XInv, Contents
  <2>2. /\ Locked(x)' /\ "load" \notin flag'[x] /\ "writ" \notin flag'[x] /\ core'[x] = iptr'[x]
    BY <1>3, <1>5, <2>1 DEF Locked
  <2>3. CASE Writes(p, x)' /\ ~SchedHolds(x)'
    <3>1. Holds(p, x)' /\ ~SchedWrites(x)'
      BY <2>3 DEF Holds, SchedHolds, SchedWrites
    <3>2. Lock(x)'
      BY <1>0, <1>1, <2>1, <2>2, <2>3, <3>1 DEF Lock
    <3>3. Contents(x)'
      BY <1>0, <1>1, <2>1, <2>2, <2>3, <3>1 DEF Contents
    <3> QED BY <1>4, <3>2, <3>3 DEF XInv
  <2>4. CASE SchedWrites(x)' /\ ~Holds(p, x)'
    <3>1. SchedHolds(x)' /\ ~Writes(p, x)'
      BY <2>4 DEF Holds, SchedHolds, SchedWrites
    <3>2. Lock(x)'
      BY <1>0, <1>1, <2>1, <2>2, <2>4, <3>1 DEF Lock
    <3>3. Contents(x)'
      BY <1>0, <1>1, <2>1, <2>2, <2>4, <3>1 DEF Contents
    <3> QED BY <1>4, <3>2, <3>3 DEF XInv
  <2> QED BY <1>5, <2>3, <2>4
<1>6. CASE ~MustWrite(x)
  <2>1. /\ ~Holds(p, x)' /\ ~Writes(p, x)' /\ ~SchedHolds(x)' /\ ~SchedWrites(x)' /\ ~Locked(x)'
        /\ flag'[x] = flag[x]
    BY <1>0, <1>3, <1>6 DEF Holds, SchedHolds, SchedWrites, Locked
  <2>2. Lock(x)'
    BY <1>0, <1>1, <2>1 DEF Lock
  <2>3. ~SchedWrites(x) /\ \A q \in Proc : ~Writes(q, x)
    BY <1>0 DEF Holds, SchedHolds, SchedWrites
  <2>4. CASE ccount[x] = 1
    <3>1. ~ccount'[x] > 0 /\ core'[x] = "none" /\ "writ" \notin flag[x]
      BY <1>3, <1>6, <2>4 DEF MustWrite
    <3>2. Contents(x)'
      BY <1>0, <1>1, <1>2, <2>1, <2>3, <3>1 DEF XInv, Contents
    <3> QED BY <1>4, <2>2, <3>2 DEF XInv
  <2>5. CASE ccount[x] # 1
    <3>1. ccount'[x] > 0 /\ core'[x] = core[x]
      BY <1>0, <1>3, <1>6, <2>5
    <3>2. Contents(x)'
      BY <1>0, <1>1, <1>2, <2>1, <2>3, <3>1 DEF XInv, Contents
    <3> QED BY <1>4, <2>2, <3>2 DEF XInv
  <2> QED BY <2>4, <2>5
<1> QED BY <1>5, <1>6

(* xunlock() wakes everybody who sleeps for the lock. *)
LEMMA WantingIs ==
    ASSUME IInv, NEW x \in Seg, NEW wakes, Resched({}, wakes),
           Wanting(x) \subseteq wakes, wakes \subseteq Wanting(x) \cup {"sched"}
    PROVE  /\ wakes \in SUBSET (Proc \cup {"sched"}) /\ asleep' \in SUBSET (Proc \cup {"sched"})
           /\ \A q \in Proc : q \in asleep' => q \in asleep
           /\ "sched" \in asleep' => "sched" \in asleep /\ "sched" \notin wakes
           /\ \A q \in Proc : Sleeps(q, x) => q \notin asleep'
           /\ SchedSleeps(x) => "sched" \notin asleep'
<1>1. wakes \in SUBSET (Proc \cup {"sched"})
  BY DEF Wanting, Sleepers
<1>2. /\ asleep' \in SUBSET (Proc \cup {"sched"})
      /\ "sched" \in asleep' => "sched" \in asleep /\ "sched" \notin wakes
      /\ \A q \in Proc : q \in asleep' <=> q \in asleep /\ q \notin wakes
  BY <1>1, ReschedIs DEF IInv
<1>3. ASSUME NEW q \in Proc, Sleeps(q, x) PROVE q \in Wanting(x)
  BY <1>3 DEF IInv, XInv, Lock, Wanting, Sleepers, Sleeps
<1>4. SchedSleeps(x) => "sched" \in Wanting(x)
  BY DEF IInv, XInv, Lock, Wanting, Sleepers, SchedSleeps
<1> QED BY <1>1, <1>2, <1>3, <1>4

(* The segment is written and unlocked, ... *)
LEMMA WrittenX ==
    ASSUME IInv, NEW x \in Seg, Written(x), SchedWrites(x) \/ \E q \in Proc : Writes(q, x),
           ~SchedHolds(x)', ~SchedSleeps(x)',
           \A q \in Proc :
             /\ User(q, x)' <=> User(q, x)
             /\ InUser(q, x)' <=> InUser(q, x)
             /\ ~Holds(q, x)' /\ ~Sleeps(q, x)'
    PROVE  XInv(x)'
<1>0. XInv(x)
  BY DEF IInv
<1>1. Locked(x) /\ iptr[x] # none /\ ccount[x] = 0 /\ "load" \notin flag[x] /\ core[x] = iptr[x]
  BY <1>0 DEF XInv, Lock, Contents, Holds, SchedHolds, SchedWrites
<1>2. /\ iptr'[x] = iptr[x] /\ count'[x] = count[x] /\ ccount'[x] = ccount[x]
      /\ disk'[x] = core[x] /\ core'[x] = "none" /\ flag'[x] = flag[x] \ {"lock", "want"}
  BY DEF Written, Unlocked, IInv, Types
<1>3. Counted(x)'
  <2>1. Users(x)' = Users(x) /\ InUsers(x)' = InUsers(x)
    BY DEF Users, InUsers
  <2> QED BY <1>0, <1>2, <2>1 DEF XInv, Counted
<1>4. ~Locked(x)'
  BY <1>2 DEF Locked
<1>5. Lock(x)'
  BY <1>4 DEF Lock
<1>6. ~SchedWrites(x)' /\ \A q \in Proc : ~Writes(q, x)' /\ ~Swaps(q, x)'
  BY DEF Holds, SchedHolds, SchedWrites
<1>7. Contents(x)'
  BY <1>0, <1>1, <1>2, <1>6 DEF XInv, Contents
<1> QED BY <1>3, <1>5, <1>7 DEF XInv

(* ... or read in, and p is the first to use it, ... *)
LEMMA ReadX ==
    ASSUME IInv, NEW p \in Proc, NEW x \in Seg, Locked(x), "load" \notin flag[x],
           ~SchedWrites(x), \A q \in Proc : ~Writes(q, x),
           core'[x] = disk[x], ccount'[x] = ccount[x] + 1, flag'[x] = Unlocked(x),
           iptr'[x] = iptr[x], count'[x] = count[x], disk'[x] = disk[x],
           ~SchedHolds(x)', ~SchedSleeps(x)', InUser(p, x)', User(p, x), ~InUser(p, x),
           \A q \in Proc \ {p} : Apart(q, x),
           \A q \in Proc : ~Holds(q, x)' /\ ~Sleeps(q, x)'
    PROVE  XInv(x)'
<1>0. XInv(x)
  BY DEF IInv
<1>1. iptr[x] # none /\ ccount[x] = 0 /\ "writ" \notin flag[x] /\ disk[x] = iptr[x]
  BY <1>0 DEF XInv, Lock, Contents
<1>2. ccount'[x] = 1 /\ flag'[x] = flag[x] \ {"lock", "want"}
  BY <1>1 DEF Unlocked
<1>3. Counted(x)'
  <2>1. User(p, x)'
    BY DEF User, InUser
  <2>2. /\ Cardinality(Users(x)) \in Nat /\ Cardinality(InUsers(x)) \in Nat
        /\ Cardinality(Users(x))' =
             Cardinality(Users(x)) + (IF User(p, x)' THEN 1 ELSE 0) - (IF User(p, x) THEN 1 ELSE 0)
        /\ Cardinality(InUsers(x))' =
             Cardinality(InUsers(x)) + (IF InUser(p, x)' THEN 1 ELSE 0) - (IF InUser(p, x) THEN 1 ELSE 0)
    BY CountMove
  <2> QED BY <1>0, <1>1, <1>2, <2>1, <2>2 DEF XInv, Counted
<1>4. ~Locked(x)'
  BY <1>2 DEF Locked
<1>5. Lock(x)'
  BY <1>4 DEF Lock
<1>6. ~SchedWrites(x)' /\ \A q \in Proc : ~Writes(q, x)' /\ ~Swaps(q, x)'
  BY DEF Holds, SchedHolds, SchedWrites
<1>7. iptr[x] # "none"
  BY <1>1, TextAssumption DEF IInv, Types
<1>8. Contents(x)'
  BY <1>1, <1>2, <1>6, <1>7 DEF Contents
<1> QED BY <1>3, <1>5, <1>8 DEF XInv

(* ... or it is unlocked without core. *)
LEMMA UnlockX ==
    ASSUME IInv, NEW x \in Seg, flag'[x] = Unlocked(x),
           Locked(x) => \E q \in Proc : Swaps(q, x),
           iptr'[x] = iptr[x], count'[x] = count[x], ccount'[x] = ccount[x],
           core'[x] = core[x], disk'[x] = disk[x], ~SchedHolds(x)', ~SchedSleeps(x)',
           \A q \in Proc :
             /\ User(q, x)' <=> User(q, x)
             /\ InUser(q, x)' <=> InUser(q, x)
             /\ Loads(q, x)' <=> Loads(q, x)
             /\ ~Holds(q, x)' /\ ~Sleeps(q, x)'
    PROVE  XInv(x)'
<1>0. XInv(x)
  BY DEF IInv
<1>1. flag'[x] = flag[x] \ {"lock", "want"}
  BY DEF Unlocked
<1>2. Counted(x)'
  <2>1. Users(x)' = Users(x) /\ InUsers(x)' = InUsers(x)
    BY DEF Users, InUsers
  <2> QED BY <1>0, <2>1 DEF XInv, Counted
<1>3. ~Locked(x)'
  BY <1>1 DEF Locked
<1>4. Lock(x)'
  BY <1>3 DEF Lock
<1>5. ~SchedWrites(x)' /\ \A q \in Proc : ~Writes(q, x)' /\ ~Swaps(q, x)'
  BY DEF Holds, SchedHolds, SchedWrites
<1>6. ~SchedWrites(x) /\ \A q \in Proc : ~Writes(q, x)
  <2>1. SchedWrites(x) \/ (\E q \in Proc : Writes(q, x)) =>
          Locked(x) /\ \A q \in Proc : Swaps(q, x) => ~SchedHolds(x) /\ Writes(q, x)
    BY <1>0 DEF XInv, Lock, Holds, SchedHolds, SchedWrites
  <2>2. \A q \in Proc : Swaps(q, x) => ~Writes(q, x)
    BY DEF Swaps, Writes
  <2>3. SchedWrites(x) => SchedHolds(x)
    BY DEF SchedHolds, SchedWrites
  <2> QED BY <2>1, <2>2, <2>3
<1>7. Locked(x) => core[x] = "none"
  BY <1>0 DEF XInv, Contents
<1>8. (\E q \in Proc : Loads(q, x))' <=> \E q \in Proc : Loads(q, x)
  OBVIOUS
<1>9. Contents(x)'
  BY <1>0, <1>1, <1>5, <1>6, <1>7, <1>8 DEF XInv, Contents
<1> QED BY <1>2, <1>4, <1>9 DEF XInv

-----------------------------------------------------------------------------
(* xfree().  A segment that is given up has nobody at its lock.            *)
LEMMA XfreeInv ==
    ASSUME IInv, NEW p \in Proc, Xfree(p)
    PROVE  IInv'
<1>1. /\ pc[p] = "xfree" /\ p \in loaded /\ p \notin asleep
      /\ \A q \in Proc : Ready(q) => pc[q] \notin InLock
      /\ textp' = [textp EXCEPT ![p] = none] /\ prog' = [prog EXCEPT ![p] = none]
      /\ UNCHANGED <<newip, after, asleep, loaded, slock, spc, sproc>>
  BY DEF Xfree, First, Ready, swapper
<1>2. PICK x : x = textp[p]
  OBVIOUS
<1>3. /\ textp' \in [Proc -> Seg \cup {none}] /\ textp'[p] = none
      /\ \A q \in Proc \ {p} : textp'[q] = textp[q]
      /\ prog' \in [Proc -> Ino \cup {none}] /\ prog'[p] = none
      /\ \A q \in Proc \ {p} : prog'[q] = prog[q]
  BY <1>1 DEF IInv, Types
<1>4. newip'[p] = none \/ \A q \in Proc \ {p} : newip[q] # newip'[p]
  BY <1>1 DEF IInv, Unique
<1>5. CASE x = none
  <2>1. pc' = [pc EXCEPT ![p] = "expand"] /\ UNCHANGED text /\ xp' = xp
    BY <1>2, <1>5 DEF Xfree, Goto
  <2>2. pc' \in [Proc -> PC] /\ pc'[p] = "expand" /\ \A q \in Proc \ {p} : pc'[q] = pc[q]
    BY <2>1 DEF IInv, Types, PC
  <2>3. Types'
    BY <1>1, <1>3, <2>1, <2>2 DEF IInv, Types, text
  <2>4. \A q \in Proc \ {p} : Own(q)
    BY <1>1, <1>3, <2>1, <2>2 DEF Own
  <2>5. ASSUME NEW y \in Seg PROVE Apart(p, y)
    BY <1>1, <1>2, <1>3, <1>5, <2>2, ApartNone DEF Sleeps
  <2>6. PInv(p)'
    BY <1>3, <2>2 DEF PInv, Placed, Has, Waits, Loader, InLock
  <2>7. SwapperWoken'
    BY <1>1, <2>2, WokenStays
  <2> QED BY <1>1, <1>4, <2>1, <2>2, <2>3, <2>4, <2>5, <2>6, <2>7, MoveInv
<1>6. CASE x # none
  <2>1. x \in Seg /\ InUser(p, x) /\ User(p, x)
    BY <1>1, <1>2, <1>6 DEF IInv, Types, InUser, InCore, User
  <2>2. /\ iptr[x] # none /\ ccount[x] > 0 /\ count[x] > 0 /\ ccount[x] \in Int /\ count[x] \in Int
        /\ ~Locked(x) /\ ~SchedHolds(x) /\ ~SchedSleeps(x)
        /\ \A q \in Proc : ~Holds(q, x) /\ ~Sleeps(q, x)
        /\ count[x] = 1 => \A q \in Proc : User(q, x) => q = p
    BY <2>1, InUserIs
  <2>3. "load" \notin flag[x]
    BY <1>1, <1>2, <1>6 DEF IInv, PInv, Has, Loader, Waits
  <2>4. ASSUME NEW y \in Seg \ {x} PROVE ~User(p, y) /\ ~User(p, y)'
    BY <1>2, <1>3, TextAssumption DEF User
  <2>5. CASE LastUser(x)
    <3>1. /\ count' = [count EXCEPT ![x] = 0] /\ iptr' = [iptr EXCEPT ![x] = none]
          /\ core' = [core EXCEPT ![x] = "none"] /\ disk' = [disk EXCEPT ![x] = "none"]
          /\ pc' = [pc EXCEPT ![p] = "expand"] /\ UNCHANGED <<ccount, flag, xp>>
      BY <1>2, <1>6, <2>5 DEF Xfree, Goto
    <3>2. pc' \in [Proc -> PC] /\ pc'[p] = "expand" /\ \A q \in Proc \ {p} : pc'[q] = pc[q]
      BY <3>1 DEF IInv, Types, PC
    <3>3. /\ count' \in [Seg -> Int] /\ iptr' \in [Seg -> Ino \cup {none}]
          /\ core' \in [Seg -> Content] /\ disk' \in [Seg -> Content]
          /\ iptr'[x] = none /\ core'[x] = "none" /\ disk'[x] = "none"
          /\ \A y \in Seg \ {x} : TextSame(y)
      BY <2>1, <3>1 DEF IInv, Types, Content, TextSame
    <3>4. Types'
      BY <1>1, <1>3, <3>1, <3>2, <3>3 DEF IInv, Types
    <3>5. \A q \in Proc \ {p} : Own(q)
      BY <1>1, <1>3, <3>1, <3>2 DEF Own
    <3>6. \A q \in Proc \ {p} : Apart(q, x)
      BY <3>5, OwnApart
    <3>7. ASSUME NEW y \in Seg \ {x} PROVE Apart(p, y)
      BY <1>1, <2>4, <3>2 DEF Apart, User, InUser, Writes, Swaps, Holds, Loads, Sleeps
    <3>8. PInv(p)'
      BY <1>3, <3>2 DEF PInv, Placed, Has, Waits, Loader, InLock
    <3>9. XInv(x)'
      <4>1. \A q \in Proc : ~Holds(q, x)' /\ ~Sleeps(q, x)'
        BY <1>1, <2>2, <3>2, <3>6 DEF Apart, Holds, Writes, Swaps, Sleeps
      <4>2. ~SchedHolds(x)' /\ ~SchedSleeps(x)'
        <5>1. spc \in {"inlock", "intext", "outtext"} => textp'[sproc] = textp[sproc]
          BY <1>1, <1>3 DEF IInv, Swapper
        <5> QED BY <1>1, <2>2, <5>1 DEF SchedHolds, SchedSleeps
      <4>3. ~Locked(x)' /\ Lock(x)'
        BY <2>2, <3>1, <4>1, <4>2 DEF Lock, Locked
      <4>4. Contents(x)'
        BY <3>3, <4>1, <4>2 DEF Contents, Holds, SchedHolds, SchedWrites
      <4> QED BY <3>3, <4>3, <4>4 DEF XInv, Counted
    <3>10. ASSUME NEW q \in Proc \ {p} PROVE textp[q] # x
      BY <2>2, <2>5 DEF LastUser, User
    <3>11. SwapperWoken'
      BY <1>1, <3>2, WokenStays
    <3>12. spc = "intext" => textp[sproc] # x
      BY <2>2 DEF SchedHolds
    <3> QED BY <1>1, <1>4, <2>1, <3>2, <3>3, <3>4, <3>5, <3>7, <3>8, <3>9, <3>10, <3>11, <3>12, StepInv
  <2>6. CASE ~LastUser(x)
    <3>1. /\ count' = [count EXCEPT ![x] = @ - 1] /\ Xccdec(x) /\ UNCHANGED <<iptr, disk>>
          /\ \/ MustWrite(x) /\ pc' = [pc EXCEPT ![p] = "xfwrite"] /\ xp' = [xp EXCEPT ![p] = x]
             \/ ~MustWrite(x) /\ pc' = [pc EXCEPT ![p] = "expand"] /\ xp' = xp
      BY <1>2, <1>6, <2>6 DEF Xfree, Goto
    <3>2. /\ pc' \in [Proc -> PC] /\ \A q \in Proc \ {p} : pc'[q] = pc[q]
          /\ xp' \in [Proc -> Seg \cup {none}] /\ \A q \in Proc \ {p} : xp'[q] = xp[q]
          /\ MustWrite(x) => pc'[p] = "xfwrite" /\ xp'[p] = x
          /\ ~MustWrite(x) => pc'[p] = "expand"
      BY <2>1, <3>1 DEF IInv, Types, PC
    <3>3. /\ count' \in [Seg -> Int] /\ count'[x] = count[x] - 1
          /\ ccount' \in [Seg -> Int] /\ flag' \in [Seg -> SUBSET Flags] /\ core' \in [Seg -> Content]
          /\ "load" \notin flag'[x]
          /\ \A y \in Seg \ {x} : TextSame(y)
      BY <2>1, <2>3, <3>1 DEF IInv, Types, Content, TextSame, Xccdec, Flags
    <3>4. Types'
      BY <1>1, <1>3, <3>1, <3>2, <3>3 DEF IInv, Types
    <3>5. \A q \in Proc \ {p} : Own(q)
      BY <1>1, <1>3, <3>2 DEF Own
    <3>6. \A q \in Proc \ {p} : Apart(q, x)
      BY <3>5, OwnApart
    <3>7. ASSUME NEW y \in Seg \ {x} PROVE Apart(p, y)
      BY <1>1, <2>4, <3>2 DEF Apart, User, InUser, Writes, Swaps, Holds, Loads, Sleeps, InLock
    <3>8. PInv(p)'
      BY <1>1, <1>3, <2>1, <3>2 DEF PInv, Placed, Has, Waits, Loader, InLock
    <3>9. XInv(x)'
      <4>1. ~InUser(p, x)' /\ ~User(p, x)' /\ ~Loads(p, x)' /\ ~Loads(p, x) /\ ~Sleeps(p, x)' /\ ~Swaps(p, x)'
        BY <1>1, <1>3, <2>1, <3>2, TextAssumption DEF InUser, User, Loads, Loader, Waits, Sleeps, Swaps
      <4>2. ~SchedHolds(x)' /\ ~SchedSleeps(x)'
        <5>1. spc \in {"inlock", "intext", "outtext"} => textp'[sproc] = textp[sproc]
          BY <1>1, <1>3 DEF IInv, Swapper
        <5> QED BY <1>1, <2>2, <5>1 DEF SchedHolds, SchedSleeps
      <4>3. (MustWrite(x) => Writes(p, x)') /\ (~MustWrite(x) => ~Holds(p, x)')
        BY <3>2 DEF Writes, Holds, Swaps
      <4>4. count'[x] = count[x] - (IF User(p, x)' THEN 0 ELSE 1)
        BY <3>3, <4>1
      <4> QED BY <2>1, <3>1, <3>6, <4>1, <4>2, <4>3, <4>4, XccdecX
    <3>10. SwapperWoken'
      BY <1>1, <3>2, WokenStays
    <3>11. pc'[p] # "idl"
      BY <3>2
    <3> QED BY <1>1, <1>4, <2>1, <2>3, <3>1, <3>3, <3>4, <3>5, <3>7, <3>8, <3>9, <3>10, <3>11, StepInv
  <2> QED BY <2>5, <2>6
<1> QED BY <1>5, <1>6

LEMMA XfreeWrittenInv ==
    ASSUME IInv, NEW p \in Proc, XfreeWritten(p)
    PROVE  IInv'
<1>0. PICK x : x = xp[p]
  OBVIOUS
<1>1. /\ pc[p] = "xfwrite" /\ p \in loaded /\ p \notin asleep /\ pc' = [pc EXCEPT ![p] = "expand"]
      /\ Written(x) /\ Resched({}, Wanting(x)) /\ xp' = [xp EXCEPT ![p] = none]
      /\ UNCHANGED <<textp, prog, newip, after, loaded, slock, spc, sproc>>
  BY <1>0 DEF XfreeWritten, Ready, Goto, swapper
<1>2. x \in Seg /\ textp[p] = none /\ prog[p] = none
  BY <1>0, <1>1 DEF IInv, PInv, Has
<1>3. /\ pc' \in [Proc -> PC] /\ pc'[p] = "expand" /\ \A q \in Proc \ {p} : pc'[q] = pc[q]
      /\ xp' \in [Proc -> Seg \cup {none}] /\ \A q \in Proc \ {p} : xp'[q] = xp[q]
  BY <1>1 DEF IInv, Types, PC
<1>4. /\ asleep' \in SUBSET (Proc \cup {"sched"}) /\ \A q \in Proc : q \in asleep' => q \in asleep
      /\ "sched" \in asleep' => "sched" \in asleep
      /\ \A q \in Proc : Sleeps(q, x) => q \notin asleep'
      /\ SchedSleeps(x) => "sched" \notin asleep'
      /\ Wanting(x) \in SUBSET (Proc \cup {"sched"})
  <2>1. Wanting(x) \subseteq Wanting(x) /\ Wanting(x) \subseteq Wanting(x) \cup {"sched"}
    OBVIOUS
  <2> QED BY <1>1, <1>2, <2>1, WantingIs
<1>5. /\ UNCHANGED <<iptr, count, ccount>>
      /\ disk' \in [Seg -> Content] /\ core' \in [Seg -> Content] /\ flag' \in [Seg -> SUBSET Flags]
      /\ "load" \in flag'[x] <=> "load" \in flag[x]
      /\ \A y \in Seg \ {x} : TextSame(y)
  BY <1>1, <1>2 DEF Written, Unlocked, IInv, Types, Content, TextSame
<1>6. Types'
  BY <1>1, <1>3, <1>4, <1>5 DEF IInv, Types
<1>7. \A q \in Proc \ {p} : Own(q)
  BY <1>1, <1>3, <1>4 DEF Own
<1>8. ASSUME NEW y \in Seg \ {x} PROVE Apart(p, y)
  BY <1>0, <1>1, <1>2, <1>3, <1>4, ApartNone DEF Sleeps
<1>9. PInv(p)'
  BY <1>1, <1>2, <1>3 DEF PInv, Placed, Has, Waits, Loader, InLock
<1>10. XInv(x)'
  <2>1. Writes(p, x) /\ Holds(p, x)
    BY <1>0, <1>1 DEF Writes, Holds
  <2>2. ~SchedHolds(x) /\ \A q \in Proc \ {p} : ~Holds(q, x)
    BY <1>2, <2>1 DEF IInv, XInv, Lock
  <2>3. \A q \in Proc \ {p} : Apart(q, x)
    BY <1>7, OwnApart
  <2>4. ASSUME NEW q \in Proc
        PROVE  /\ User(q, x)' <=> User(q, x)
               /\ InUser(q, x)' <=> InUser(q, x)
               /\ ~Holds(q, x)' /\ ~Sleeps(q, x)'
    <3>1. CASE q = p
      BY <1>1, <1>2, <1>3, <1>4, <3>1, TextAssumption DEF User, InUser, Holds, Writes, Swaps, Sleeps
    <3>2. CASE q # p
      BY <1>4, <2>2, <2>3, <3>2 DEF Apart, Sleeps
    <3> QED BY <3>1, <3>2
  <2>5. ~SchedHolds(x)' /\ ~SchedSleeps(x)'
    BY <1>1, <1>4, <2>2 DEF SchedHolds, SchedSleeps
  <2> QED BY <1>1, <1>2, <2>1, <2>4, <2>5, WrittenX
<1>11. SwapperWoken'
  <2>1. {} \in SUBSET Proc
    OBVIOUS
  <2> QED BY <1>1, <1>3, <1>4, <2>1, WokenFrame
<1>12. newip'[p] = none \/ \A q \in Proc \ {p} : newip[q] # newip'[p]
  BY <1>1 DEF IInv, Unique
<1> QED BY <1>1, <1>2, <1>3, <1>4, <1>5, <1>6, <1>7, <1>8, <1>9, <1>10, <1>11, <1>12, StepInv

-----------------------------------------------------------------------------
(* A process swaps itself out.                                             *)
LEMMA SchedSame ==
    ASSUME IInv, NEW p \in Proc, p \in loaded, UNCHANGED <<spc, sproc>>,
           \A q \in Proc \ {p} : textp'[q] = textp[q], NEW x
    PROVE  /\ SchedHolds(x)' <=> SchedHolds(x)
           /\ SchedWrites(x)' <=> SchedWrites(x)
           /\ SchedSleeps(x)' <=> "sched" \in asleep' /\ spc = "inlock" /\ textp[sproc] = x
<1>1. spc \in {"inlock", "intext", "outtext"} => textp'[sproc] = textp[sproc]
  BY DEF IInv, Swapper
<1> QED BY <1>1 DEF SchedHolds, SchedWrites, SchedSleeps

LEMMA ExpandInv ==
    ASSUME IInv, NEW p \in Proc, Expand(p)
    PROVE  IInv'
<1>0. PICK x : x = textp[p]
  OBVIOUS
<1>1. /\ pc[p] = "user" /\ p \in loaded /\ p \notin asleep
      /\ after' = [after EXCEPT ![p] = "user"] /\ slock' = slock \cup {p}
      /\ UNCHANGED <<textp, prog, newip, xp, asleep, loaded, spc, sproc>>
      /\ \/ x = none /\ pc' = [pc EXCEPT ![p] = "wrproc"] /\ UNCHANGED text
         \/ /\ x # none /\ Xccdec(x) /\ UNCHANGED <<iptr, count, disk>>
            /\ pc' = [pc EXCEPT ![p] = IF MustWrite(x) THEN "wrtext" ELSE "wrproc"]
  BY <1>0 DEF Expand, Runs, First, Ready, SwapSelf, Goto, user, swapper
<1>2. /\ pc' \in [Proc -> PC] /\ \A q \in Proc \ {p} : pc'[q] = pc[q]
      /\ pc'[p] = IF x # none /\ MustWrite(x) THEN "wrtext" ELSE "wrproc"
      /\ after' \in [Proc -> {"user", "xalloc", "attached", "load"} \cup Proc] /\ after'[p] = "user"
      /\ \A q \in Proc \ {p} : after'[q] = after[q]
      /\ slock' \in SUBSET Proc /\ p \in slock' /\ \A q \in Proc \ {p} : q \in slock' <=> q \in slock
  BY <1>1 DEF IInv, Types, PC
<1>3. \A q \in Proc \ {p} : Own(q)
  BY <1>1, <1>2 DEF Own
<1>4. newip'[p] = none \/ \A q \in Proc \ {p} : newip[q] # newip'[p]
  BY <1>1 DEF IInv, Unique
<1>5. SwapperWoken'
  BY <1>1, <1>2, WokenStays
<1>6. CASE x = none
  <2>1. UNCHANGED text
    BY <1>1, <1>6
  <2>2. Types'
    BY <1>1, <1>2, <2>1 DEF IInv, Types, text
  <2>3. ASSUME NEW y \in Seg PROVE Apart(p, y)
    BY <1>0, <1>1, <1>2, <1>6, ApartNone DEF Sleeps
  <2>4. PInv(p)'
    <3>1. pc'[p] = "wrproc" /\ textp'[p] = none /\ prog'[p] = none
      BY <1>0, <1>1, <1>2, <1>6 DEF IInv, PInv, Has
    <3> QED BY <1>1, <1>2, <3>1 DEF PInv, Placed, Has, Waits, Loader, InLock
  <2> QED BY <1>1, <1>2, <1>3, <1>4, <1>5, <1>6, <2>1, <2>2, <2>3, <2>4, MoveInv
<1>7. CASE x # none
  <2>1. x \in Seg /\ InUser(p, x) /\ "load" \notin flag[x]
    BY <1>0, <1>1, <1>7 DEF IInv, Types, InUser, InCore, PInv, Has, Loader, Waits
  <2>2. ~SchedHolds(x) /\ ~SchedSleeps(x) /\ \A q \in Proc : ~Holds(q, x) /\ ~Sleeps(q, x)
    BY <2>1, InUserIs
  <2>3. Xccdec(x) /\ UNCHANGED <<iptr, count, disk>>
    BY <1>1, <1>7
  <2>4. /\ ccount' \in [Seg -> Int] /\ flag' \in [Seg -> SUBSET Flags] /\ core' \in [Seg -> Content]
        /\ "load" \notin flag'[x]
        /\ \A y \in Seg \ {x} : TextSame(y)
    BY <2>1, <2>3 DEF IInv, Types, Content, TextSame, Xccdec, Flags
  <2>5. Types'
    BY <1>1, <1>2, <2>3, <2>4 DEF IInv, Types
  <2>6. ASSUME NEW y \in Seg \ {x} PROVE Apart(p, y)
    BY <1>0, <1>1, <1>2 DEF Apart, User, InUser, Writes, Swaps, Holds, Loads, Sleeps, InLock
  <2>7. PInv(p)'
    BY <1>0, <1>1, <1>2, <1>7, <2>1, <2>3, <2>4 DEF IInv, PInv, Placed, Has, Waits, Loader, InLock
  <2>8. XInv(x)'
    <3>1. \A q \in Proc \ {p} : Apart(q, x)
      BY <1>3, OwnApart
    <3>2. ~SchedHolds(x)' /\ ~SchedSleeps(x)'
      BY <1>1, <2>2 DEF SchedHolds, SchedSleeps
    <3>3. User(p, x)' /\ ~Loads(p, x)' /\ ~Loads(p, x) /\ ~Sleeps(p, x)' /\ ~Swaps(p, x)'
      BY <1>0, <1>1, <1>2 DEF User, Loads, Loader, Waits, Sleeps, Swaps
    <3>4. ~InUser(p, x)'
      BY <1>1, <1>2 DEF InUser, InCore, IInv, Swapper
    <3>5. (MustWrite(x) => Writes(p, x)') /\ (~MustWrite(x) => ~Holds(p, x)')
      BY <1>0, <1>1, <1>2, <1>7 DEF Writes, Holds, Swaps
    <3>6. count'[x] = count[x] - (IF User(p, x)' THEN 0 ELSE 1)
      BY <2>1, <2>3, <3>3 DEF IInv, Types
    <3> QED BY <2>1, <2>3, <3>1, <3>2, <3>3, <3>4, <3>5, <3>6, XccdecX
  <2>9. pc'[p] # "idl"
    BY <1>2
  <2> QED BY <1>1, <1>3, <1>4, <1>5, <2>1, <2>3, <2>4, <2>5, <2>6, <2>7, <2>8, <2>9, StepInv
<1> QED BY <1>6, <1>7

LEMMA ExpandTextInv ==
    ASSUME IInv, NEW p \in Proc, ExpandText(p)
    PROVE  IInv'
<1>0. PICK x : x = textp[p]
  OBVIOUS
<1>1. /\ pc[p] = "wrtext" /\ pc' = [pc EXCEPT ![p] = "wrproc"]
      /\ Written(x) /\ Resched({}, Wanting(x))
      /\ UNCHANGED <<textp, prog, newip, xp, after, loaded, slock, spc, sproc>>
  BY <1>0 DEF ExpandText, Goto, user, swapper
<1>2. x \in Seg /\ p \in loaded /\ p \in slock /\ after[p] = "user"
  BY <1>0, <1>1 DEF IInv, Types, PInv, Has, Placed
<1>3. pc' \in [Proc -> PC] /\ pc'[p] = "wrproc" /\ \A q \in Proc \ {p} : pc'[q] = pc[q]
  BY <1>1 DEF IInv, Types, PC
<1>4. /\ asleep' \in SUBSET (Proc \cup {"sched"}) /\ \A q \in Proc : q \in asleep' => q \in asleep
      /\ "sched" \in asleep' => "sched" \in asleep
      /\ \A q \in Proc : Sleeps(q, x) => q \notin asleep'
      /\ SchedSleeps(x) => "sched" \notin asleep'
      /\ Wanting(x) \in SUBSET (Proc \cup {"sched"})
  <2>1. Wanting(x) \subseteq Wanting(x) /\ Wanting(x) \subseteq Wanting(x) \cup {"sched"}
    OBVIOUS
  <2> QED BY <1>1, <1>2, <2>1, WantingIs
<1>5. /\ UNCHANGED <<iptr, count, ccount>>
      /\ disk' \in [Seg -> Content] /\ core' \in [Seg -> Content] /\ flag' \in [Seg -> SUBSET Flags]
      /\ "load" \in flag'[x] <=> "load" \in flag[x]
      /\ \A y \in Seg \ {x} : TextSame(y)
  BY <1>1, <1>2 DEF Written, Unlocked, IInv, Types, Content, TextSame
<1>6. Types'
  BY <1>1, <1>3, <1>4, <1>5 DEF IInv, Types
<1>7. \A q \in Proc \ {p} : Own(q)
  BY <1>1, <1>3, <1>4 DEF Own
<1>8. ASSUME NEW y \in Seg \ {x} PROVE Apart(p, y)
  BY <1>0, <1>1, <1>3 DEF Apart, User, InUser, Writes, Swaps, Holds, Loads, Sleeps, InLock
<1>9. PInv(p)'
  BY <1>0, <1>1, <1>2, <1>3, <1>5 DEF IInv, PInv, Placed, Has, Waits, Loader, InLock
<1>10. XInv(x)'
  <2>1. Writes(p, x) /\ Holds(p, x)
    BY <1>0, <1>1 DEF Writes, Holds
  <2>2. ~SchedHolds(x) /\ \A q \in Proc \ {p} : ~Holds(q, x)
    BY <1>2, <2>1 DEF IInv, XInv, Lock
  <2>3. \A q \in Proc \ {p} : Apart(q, x)
    BY <1>7, OwnApart
  <2>4. ASSUME NEW q \in Proc
        PROVE  /\ User(q, x)' <=> User(q, x)
               /\ InUser(q, x)' <=> InUser(q, x)
               /\ ~Holds(q, x)' /\ ~Sleeps(q, x)'
    <3>1. CASE q = p
      BY <1>1, <1>2, <1>3, <3>1 DEF User, InUser, InCore, Holds, Writes, Swaps, Sleeps, InLock
    <3>2. CASE q # p
      BY <1>4, <2>2, <2>3, <3>2 DEF Apart, Sleeps
    <3> QED BY <3>1, <3>2
  <2>5. ~SchedHolds(x)' /\ ~SchedSleeps(x)'
    BY <1>1, <1>4, <2>2 DEF SchedHolds, SchedSleeps
  <2> QED BY <1>1, <1>2, <2>1, <2>4, <2>5, WrittenX
<1>11. SwapperWoken'
  <2>1. {} \in SUBSET Proc
    OBVIOUS
  <2> QED BY <1>1, <1>3, <1>4, <2>1, WokenFrame
<1>12. newip'[p] = none \/ \A q \in Proc \ {p} : newip[q] # newip'[p]
  BY <1>1 DEF IInv, Unique
<1> QED BY <1>1, <1>2, <1>3, <1>4, <1>5, <1>6, <1>7, <1>8, <1>9, <1>10, <1>11, <1>12, StepInv

(* The end of xswap(): p is out of core. *)
LEMMA SwappedSelfInv ==
    ASSUME IInv, NEW p \in Proc, SwappedSelf(p)
    PROVE  IInv'
<1>0. PICK x, place : x = textp[p] /\ place = after[p]
  OBVIOUS
<1>1. /\ pc[p] = "wrproc" /\ pc' = [pc EXCEPT ![p] = place] /\ after' = [after EXCEPT ![p] = "user"]
      /\ loaded' = loaded \ {p} /\ slock' = slock \ {p}
      /\ UNCHANGED <<iptr, count, ccount, core, disk, textp, prog, newip, xp, spc, sproc>>
      /\ \/ /\ place \in {"attached", "load"} /\ flag' = [flag EXCEPT ![x] = Unlocked(x)]
            /\ Resched({}, Wanting(x) \cup IF spc = "runout" THEN {"sched"} ELSE {})
         \/ /\ place \notin {"attached", "load"} /\ flag' = flag
            /\ Resched({}, {} \cup IF spc = "runout" THEN {"sched"} ELSE {})
  BY <1>0 DEF SwappedSelf, Goto, Out, user, swapper
<1>2. /\ p \in loaded /\ place \in {"user", "xalloc", "attached", "load"} /\ ~InCore(p)
      /\ ~(spc = "inproc" /\ sproc = p)
  BY <1>0, <1>1 DEF IInv, PInv, Placed, InCore, Swapper
<1>3. /\ pc' \in [Proc -> PC] /\ pc'[p] = place /\ \A q \in Proc \ {p} : pc'[q] = pc[q]
      /\ after' \in [Proc -> {"user", "xalloc", "attached", "load"} \cup Proc]
      /\ \A q \in Proc \ {p} : after'[q] = after[q]
  BY <1>1, <1>2 DEF IInv, Types, PC
<1>4. newip'[p] = none \/ \A q \in Proc \ {p} : newip[q] # newip'[p]
  BY <1>1 DEF IInv, Unique
<1>5. ~InCore(p)'
  BY <1>1, <1>2 DEF InCore
<1>6. CASE place \in {"user", "xalloc"}
  <2> DEFINE wakes == {} \cup IF spc = "runout" THEN {"sched"} ELSE {}
  <2>1. UNCHANGED text /\ Resched({}, wakes)
    BY <1>1, <1>6 DEF text
  <2>2. wakes \in SUBSET (Proc \cup {"sched"}) /\ (spc = "runout" => "sched" \in wakes)
    OBVIOUS
  <2> HIDE DEF wakes
  <2>3. /\ asleep' \in SUBSET (Proc \cup {"sched"})
        /\ "sched" \in asleep' => "sched" \in asleep /\ "sched" \notin wakes
        /\ \A q \in Proc : q \in asleep' => q \in asleep
    <3>1. {} \in SUBSET Proc
      OBVIOUS
    <3> QED BY <2>1, <2>2, <3>1, ReschedIs DEF IInv
  <2>4. Types'
    BY <1>1, <1>3, <2>1, <2>3 DEF IInv, Types, text
  <2>5. \A q \in Proc \ {p} : Own(q)
    BY <1>1, <1>3, <2>3 DEF Own
  <2>6. ASSUME NEW y \in Seg PROVE Apart(p, y)
    <3>1. place \notin InLock
      BY <1>6 DEF InLock
    <3> QED BY <1>0, <1>1, <1>2, <1>3, <1>5, <1>6, <3>1
            DEF Apart, User, InUser, Writes, Swaps, Holds, Loads, Loader, Waits, Sleeps
  <2>7. PInv(p)'
    BY <1>0, <1>1, <1>3, <1>6, <2>1 DEF IInv, PInv, Placed, Has, Waits, Loader, InLock, text
  <2>8. SwapperWoken'
    BY <1>1, <2>2, <2>3 DEF SwapperWoken
  <2>9. pc'[p] # "idl"
    BY <1>3, <1>6
  <2> QED BY <1>1, <1>2, <1>4, <2>1, <2>3, <2>4, <2>5, <2>6, <2>7, <2>8, <2>9, MoveInv
<1>7. CASE place \in {"attached", "load"}
  <2> DEFINE wakes == Wanting(x) \cup IF spc = "runout" THEN {"sched"} ELSE {}
  <2>1. Resched({}, wakes) /\ flag' = [flag EXCEPT ![x] = Unlocked(x)]
    BY <1>1, <1>7
  <2>2. /\ Wanting(x) \subseteq wakes /\ wakes \subseteq Wanting(x) \cup {"sched"}
        /\ (spc = "runout" => "sched" \in wakes)
    OBVIOUS
  <2> HIDE DEF wakes
  <2>3. /\ x \in Seg /\ prog[p] = none /\ newip[p] # none /\ iptr[x] = newip[p]
        /\ "load" \in flag[x] <=> place = "load"
    <3>1. Waits(p, "attached") \/ Loader(p)
      BY <1>0, <1>1, <1>7 DEF Waits, Loader
    <3>2. Loader(p) <=> place = "load"
      BY <1>0, <1>1 DEF Waits, Loader
    <3> QED BY <1>0, <3>1, <3>2 DEF IInv, PInv, Has, Types
  <2>4. /\ asleep' \in SUBSET (Proc \cup {"sched"}) /\ \A q \in Proc : q \in asleep' => q \in asleep
        /\ "sched" \in asleep' => "sched" \in asleep /\ "sched" \notin wakes
        /\ \A q \in Proc : Sleeps(q, x) => q \notin asleep'
        /\ SchedSleeps(x) => "sched" \notin asleep'
    BY <2>1, <2>2, <2>3, WantingIs
  <2>5. /\ flag' \in [Seg -> SUBSET Flags] /\ flag'[x] = Unlocked(x)
        /\ "load" \in flag'[x] <=> "load" \in flag[x]
        /\ \A y \in Seg \ {x} : TextSame(y)
    BY <1>1, <2>1, <2>3 DEF Unlocked, IInv, Types, TextSame
  <2>6. Types'
    BY <1>1, <1>3, <2>4, <2>5 DEF IInv, Types
  <2>7. \A q \in Proc \ {p} : Own(q)
    BY <1>1, <1>3, <2>4 DEF Own
  <2>8. ASSUME NEW y \in Seg \ {x} PROVE Apart(p, y)
    <3>1. place \notin InLock
      BY <1>7 DEF InLock
    <3> QED BY <1>0, <1>1, <1>3, <1>7, <3>1 DEF Apart, User, InUser, Writes, Swaps, Holds, Loads, Sleeps
  <2>9. PInv(p)'
    BY <1>0, <1>1, <1>3, <1>7, <2>3, <2>5, TextAssumption DEF PInv, Placed, Has, Waits, Loader, InLock
  <2>10. XInv(x)'
    <3>1. Swaps(p, x) /\ Holds(p, x)
      BY <1>0, <1>1, <1>7 DEF Swaps, Holds
    <3>2. ~SchedHolds(x) /\ \A q \in Proc \ {p} : ~Holds(q, x)
      BY <2>3, <3>1 DEF IInv, XInv, Lock
    <3>3. \A q \in Proc \ {p} : Apart(q, x)
      BY <2>7, OwnApart
    <3>4. ASSUME NEW q \in Proc
          PROVE  /\ User(q, x)' <=> User(q, x)
                 /\ InUser(q, x)' <=> InUser(q, x)
                 /\ Loads(q, x)' <=> Loads(q, x)
                 /\ ~Holds(q, x)' /\ ~Sleeps(q, x)'
      <4>1. CASE q = p
        <5>1. Loads(p, x)' <=> Loads(p, x)
          BY <1>0, <1>1, <1>3, <1>7 DEF Loads, Loader, Waits
        <5> QED BY <1>1, <1>2, <1>3, <1>5, <1>7, <4>1, <5>1
                DEF User, InUser, Holds, Writes, Swaps, Sleeps, InLock
      <4>2. CASE q # p
        BY <2>4, <3>2, <3>3, <4>2 DEF Apart, Sleeps
      <4> QED BY <4>1, <4>2
    <3>5. ~SchedHolds(x)' /\ ~SchedSleeps(x)'
      BY <1>1, <2>4, <3>2 DEF SchedHolds, SchedSleeps
    <3> QED BY <1>1, <2>3, <2>5, <3>1, <3>4, <3>5, UnlockX
  <2>11. SwapperWoken'
    BY <1>1, <2>2, <2>4 DEF SwapperWoken
  <2>12. pc'[p] # "idl"
    BY <1>3, <1>7
  <2> QED BY <1>1, <1>2, <1>4, <2>3, <2>4, <2>5, <2>6, <2>7, <2>8, <2>9, <2>10, <2>11, <2>12, StepInv
<1> QED BY <1>2, <1>6, <1>7

-----------------------------------------------------------------------------
(* Somebody waits for the lock of a segment, ... *)
LEMMA WantX ==
    ASSUME IInv, NEW x \in Seg, Locked(x), flag'[x] = flag[x] \cup {"want"},
           iptr'[x] = iptr[x], count'[x] = count[x], ccount'[x] = ccount[x],
           core'[x] = core[x], disk'[x] = disk[x],
           SchedHolds(x)' <=> SchedHolds(x), SchedWrites(x)' <=> SchedWrites(x),
           \A q \in Proc :
             /\ User(q, x)' <=> User(q, x)
             /\ InUser(q, x)' <=> InUser(q, x)
             /\ Writes(q, x)' <=> Writes(q, x)
             /\ Swaps(q, x)' <=> Swaps(q, x)
             /\ Holds(q, x)' <=> Holds(q, x)
             /\ Loads(q, x)' <=> Loads(q, x)
    PROVE  XInv(x)'
<1>0. XInv(x)
  BY DEF IInv
<1>1. Counted(x)'
  <2>1. Users(x)' = Users(x) /\ InUsers(x)' = InUsers(x)
    BY DEF Users, InUsers
  <2> QED BY <1>0, <2>1 DEF XInv, Counted
<1>2. Locked(x)' /\ {"lock", "want"} \subseteq flag'[x]
  BY DEF Locked
<1>3. Lock(x)'
  BY <1>0, <1>2 DEF XInv, Lock
<1>4. /\ "load" \in flag'[x] <=> "load" \in flag[x]
      /\ "writ" \in flag'[x] <=> "writ" \in flag[x]
  OBVIOUS
<1>5. Contents(x)'
  BY <1>0, <1>2, <1>4 DEF XInv, Contents
<1> QED BY <1>1, <1>3, <1>5 DEF XInv

(* ... p shares the copy in core, or has core for the text it will load,   *)
LEMMA JoinX ==
    ASSUME IInv, NEW p \in Proc, NEW x \in Seg, iptr[x] # none, ~Locked(x),
           InUser(p, x)', ~InUser(p, x), ccount'[x] = ccount[x] + 1,
           count'[x] = count[x] + (IF User(p, x) THEN 0 ELSE 1),
           iptr'[x] = iptr[x], flag'[x] = flag[x], disk'[x] = disk[x],
           \/ ccount[x] > 0 /\ core'[x] = core[x]
           \/ "load" \in flag[x] /\ core'[x] = "junk",
           ~Holds(p, x)', Loads(p, x)' <=> Loads(p, x), ~Sleeps(p, x)',
           ~SchedHolds(x)', ~SchedSleeps(x)', \A q \in Proc \ {p} : Apart(q, x)
    PROVE  XInv(x)'
<1>0. XInv(x)
  BY DEF IInv
<1>1. /\ ~SchedHolds(x) /\ ~SchedWrites(x)
      /\ \A q \in Proc : ~Holds(q, x) /\ ~Sleeps(q, x) /\ ~Writes(q, x) /\ ~Swaps(q, x)
  BY <1>0 DEF XInv, Lock, Locked, Holds, SchedHolds, SchedWrites
<1>2. /\ ~SchedWrites(x)'
      /\ \A q \in Proc : ~Holds(q, x)' /\ ~Sleeps(q, x)' /\ ~Writes(q, x)' /\ ~Swaps(q, x)'
  BY <1>1 DEF Apart, Holds, SchedHolds, SchedWrites
<1>3. /\ Cardinality(Users(x)) \in Nat /\ Cardinality(InUsers(x)) \in Nat
      /\ Cardinality(Users(x))' =
           Cardinality(Users(x)) + (IF User(p, x)' THEN 1 ELSE 0) - (IF User(p, x) THEN 1 ELSE 0)
      /\ Cardinality(InUsers(x))' =
           Cardinality(InUsers(x)) + (IF InUser(p, x)' THEN 1 ELSE 0) - (IF InUser(p, x) THEN 1 ELSE 0)
  BY CountMove
<1>4. User(p, x)'
  BY DEF User, InUser
<1>5. Counted(x)' /\ ccount'[x] > 0
  BY <1>0, <1>3, <1>4 DEF XInv, Counted
<1>6. Lock(x)'
  BY <1>2 DEF Lock, Locked
<1>7. (\E q \in Proc : Loads(q, x))' <=> \E q \in Proc : Loads(q, x)
  BY DEF Apart
<1>8. Contents(x)'
  <2>1. CASE ccount[x] > 0 /\ core'[x] = core[x]
    BY <1>0, <1>1, <1>2, <1>5, <1>7, <2>1 DEF XInv, Contents
  <2>2. CASE "load" \in flag[x] /\ core'[x] = "junk"
    BY <1>0, <1>1, <1>2, <1>5, <1>7, <2>2 DEF XInv, Contents
  <2> QED BY <2>1, <2>2
<1> QED BY <1>5, <1>6, <1>8 DEF XInv

(* ... or takes the lock, to have the segment read in. *)
LEMMA TakeX ==
    ASSUME IInv, NEW p \in Proc, NEW x \in Seg, iptr[x] # none, ~Locked(x), ccount[x] = 0,
           "load" \notin flag[x], flag'[x] = flag[x] \cup {"lock"}, ccount'[x] = ccount[x],
           User(p, x)', ~InUser(p, x), ~InUser(p, x)',
           count'[x] = count[x] + (IF User(p, x) THEN 0 ELSE 1),
           iptr'[x] = iptr[x], disk'[x] = disk[x],
           \/ core'[x] = "junk" /\ ~Swaps(p, x)'
           \/ core'[x] = core[x],
           ~Writes(p, x)', ~SchedWrites(x)', ~Sleeps(p, x)', ~SchedSleeps(x)',
           \/ Holds(p, x)' /\ ~SchedHolds(x)'
           \/ ~Holds(p, x)' /\ SchedHolds(x)',
           \A q \in Proc \ {p} : Apart(q, x)
    PROVE  XInv(x)'
<1>0. XInv(x)
  BY DEF IInv
<1>1. /\ ~SchedHolds(x) /\ ~SchedWrites(x)
      /\ \A q \in Proc : ~Holds(q, x) /\ ~Sleeps(q, x) /\ ~Writes(q, x) /\ ~Swaps(q, x)
  BY <1>0 DEF XInv, Lock, Locked, Holds, SchedHolds, SchedWrites
<1>2. /\ \A q \in Proc \ {p} : ~Holds(q, x)' /\ ~Writes(q, x)' /\ ~Swaps(q, x)'
      /\ \A q \in Proc : ~Sleeps(q, x)' /\ ~Writes(q, x)'
  BY <1>1 DEF Apart
<1>3. /\ Cardinality(Users(x)) \in Nat /\ Cardinality(InUsers(x)) \in Nat
      /\ Cardinality(Users(x))' =
           Cardinality(Users(x)) + (IF User(p, x)' THEN 1 ELSE 0) - (IF User(p, x) THEN 1 ELSE 0)
      /\ Cardinality(InUsers(x))' =
           Cardinality(InUsers(x)) + (IF InUser(p, x)' THEN 1 ELSE 0) - (IF InUser(p, x) THEN 1 ELSE 0)
  BY CountMove
<1>4. Counted(x)'
  BY <1>0, <1>3 DEF XInv, Counted
<1>5. /\ Locked(x)' /\ "load" \notin flag'[x] /\ ("writ" \in flag'[x] <=> "writ" \in flag[x])
      /\ ccount'[x] = 0 /\ ~ccount'[x] > 0 /\ ~ccount[x] > 0
  BY DEF Locked
<1>6. Lock(x)'
  BY <1>2, <1>5 DEF Lock
<1>7. disk[x] = iptr[x] /\ "writ" \notin flag[x] /\ core[x] = "none"
  BY <1>0, <1>1, <1>5 DEF XInv, Contents
<1>8. \A q \in Proc : Swaps(q, x)' => core'[x] = "none"
  BY <1>2, <1>7
<1>9. Contents(x)'
  BY <1>2, <1>5, <1>7, <1>8 DEF Contents
<1> QED BY <1>4, <1>6, <1>9 DEF XInv

-----------------------------------------------------------------------------
(* xalloc(): the segment is in the table.                                  *)
LEMMA WaitInv ==
    ASSUME IInv, NEW p \in Proc, NEW x \in Seg, NEW place \in InLock, p \in loaded, p \notin asleep,
           Locked(x), flag' = [flag EXCEPT ![x] = @ \cup {"want"}],
           xp' \in [Proc -> Seg \cup {none}], xp'[p] = x, \A q \in Proc \ {p} : xp'[q] = xp[q],
           pc' = [pc EXCEPT ![p] = place], Resched({p}, {}),
           pc[p] \in {"user", "xalloc", "attach", "untext"},
           newip' \in [Proc -> Ino \cup {none}], newip'[p] # none,
           \A q \in Proc \ {p} : newip'[q] = newip[q] /\ newip[q] # newip'[p],
           place = "attach" => textp[p] = none /\ prog[p] = none,
           UNCHANGED <<iptr, count, ccount, core, disk, textp, prog, after, slock, loaded, spc, sproc>>
    PROVE  IInv'
<1>1. {p} \in SUBSET Proc /\ {} \in SUBSET (Proc \cup {"sched"})
  OBVIOUS
<1>2. /\ asleep' \in SUBSET (Proc \cup {"sched"})
      /\ "sched" \in asleep' => "sched" \in asleep
      /\ \A q \in Proc \ {p} : q \in asleep' => q \in asleep
  BY <1>1, ReschedIs DEF IInv
<1>3. pc' \in [Proc -> PC] /\ pc'[p] = place /\ \A q \in Proc \ {p} : pc'[q] = pc[q]
  BY DEF IInv, Types, PC, InLock
<1>4. /\ flag' \in [Seg -> SUBSET Flags] /\ flag'[x] = flag[x] \cup {"want"}
      /\ "load" \in flag'[x] <=> "load" \in flag[x]
      /\ \A y \in Seg \ {x} : TextSame(y)
  BY DEF IInv, Types, Flags, TextSame
<1>5. Types'
  BY <1>2, <1>3, <1>4 DEF IInv, Types
<1>6. \A q \in Proc \ {p} : Own(q)
  BY <1>2, <1>3 DEF Own
<1>7. ASSUME NEW y \in Seg
      PROVE  /\ User(p, y)' <=> User(p, y)
             /\ InUser(p, y)' <=> InUser(p, y)
             /\ ~Writes(p, y) /\ ~Writes(p, y)' /\ ~Swaps(p, y) /\ ~Swaps(p, y)'
             /\ ~Holds(p, y) /\ ~Holds(p, y)' /\ ~Loads(p, y) /\ ~Loads(p, y)'
  BY <1>3 DEF User, InUser, InCore, Writes, Swaps, Holds, Loads, Loader, Waits, InLock
<1>8. ASSUME NEW y \in Seg \ {x} PROVE Apart(p, y)
  BY <1>7 DEF Apart, Sleeps
<1>9. PInv(p)'
  <2>1. Placed(p)'
    BY <1>3 DEF Placed, InLock
  <2>2. CASE place = "attach"
    BY <1>3, <1>4, <2>1, <2>2 DEF PInv, Has, Waits, Loader, InLock
  <2>3. CASE place = "untext"
    <3>1. CASE pc[p] \in {"user", "untext"}
      BY <1>3, <1>4, <2>1, <2>3, <3>1, TextAssumption DEF IInv, Types, TextSame, PInv, Has, Waits, Loader, InLock
    <3>2. CASE pc[p] \notin {"user", "untext"}
      <4>1. textp[p] = none /\ prog[p] = none
        BY <3>2 DEF IInv, PInv, Has, Waits
      <4> QED BY <1>3, <1>4, <2>1, <2>3, <4>1 DEF PInv, Has, Waits, Loader, InLock
    <3> QED BY <3>1, <3>2
  <2> QED BY <2>2, <2>3 DEF InLock
<1>10. XInv(x)'
  <2>1. \A q \in Proc \ {p} : Apart(q, x)
    BY <1>6, OwnApart
  <2>2. (SchedHolds(x)' <=> SchedHolds(x)) /\ (SchedWrites(x)' <=> SchedWrites(x))
    BY DEF SchedHolds, SchedWrites
  <2>3. \A q \in Proc :
             /\ User(q, x)' <=> User(q, x)
             /\ InUser(q, x)' <=> InUser(q, x)
             /\ Writes(q, x)' <=> Writes(q, x)
             /\ Swaps(q, x)' <=> Swaps(q, x)
             /\ Holds(q, x)' <=> Holds(q, x)
             /\ Loads(q, x)' <=> Loads(q, x)
    BY <1>7, <2>1 DEF Apart
  <2> QED BY <1>4, <2>2, <2>3, WantX
<1>11. SwapperWoken'
  BY <1>1, <1>3, WokenFrame DEF InLock
<1>12. newip'[p] = none \/ \A q \in Proc \ {p} : newip[q] # newip'[p]
  OBVIOUS
<1>13. pc[p] # "wrchild" /\ pc'[p] # "idl"
  BY <1>3 DEF InLock
<1> QED BY <1>2, <1>4, <1>5, <1>6, <1>8, <1>9, <1>10, <1>11, <1>12, <1>13, StepInv

LEMMA StartIs ==
    ASSUME IInv, NEW p \in Proc, Start(p)
    PROVE  /\ pc' \in [Proc -> PC] /\ pc'[p] = "user" /\ \A q \in Proc \ {p} : pc'[q] = pc[q]
           /\ prog' \in [Proc -> Ino \cup {none}] /\ prog'[p] = newip[p]
           /\ \A q \in Proc \ {p} : prog'[q] = prog[q]
           /\ newip' \in [Proc -> Ino \cup {none}] /\ newip'[p] = none
           /\ \A q \in Proc \ {p} : newip'[q] = newip[q]
           /\ xp' \in [Proc -> Seg \cup {none}] /\ xp'[p] = none
           /\ \A q \in Proc \ {p} : xp'[q] = xp[q]
<1>1. pc' \in [Proc -> PC] /\ pc'[p] = "user" /\ \A q \in Proc \ {p} : pc'[q] = pc[q]
  BY DEF Start, Goto, IInv, Types, PC
<1> QED BY <1>1 DEF Start, IInv, Types

LEMMA AttachInv ==
    ASSUME IInv, NEW p \in Proc, NEW x \in Seg, Attach(p, x), p \in loaded, p \notin asleep,
           pc[p] \in {"xalloc", "attach"}, newip[p] # none, iptr[x] = newip[p],
           textp[p] = none, prog[p] = none, UNCHANGED <<loaded, spc, sproc>>
    PROVE  IInv'
<1>1. /\ ~Locked(x) /\ iptr[x] # none /\ x # none /\ UNCHANGED <<iptr, disk, asleep>>
      /\ count' = [count EXCEPT ![x] = @ + 1] /\ textp' = [textp EXCEPT ![p] = x]
  BY TextAssumption DEF Attach
<1>2. "load" \notin flag[x]
  <2> SUFFICES ASSUME "load" \in flag[x] PROVE FALSE
    OBVIOUS
  <2>1. PICK q \in Proc : Loads(q, x)
    BY <1>1 DEF IInv, XInv, Contents
  <2>2. textp[q] = x /\ iptr[x] = newip[q]
    BY <2>1 DEF Loads, IInv, PInv, Has
  <2> QED BY <1>1, <2>2 DEF IInv, Unique
<1>3. /\ textp' \in [Proc -> Seg \cup {none}] /\ textp'[p] = x
      /\ \A q \in Proc \ {p} : textp'[q] = textp[q]
      /\ count' \in [Seg -> Int] /\ count'[x] = count[x] + 1
      /\ \A y \in Seg \ {x} : count'[y] = count[y]
  BY <1>1 DEF IInv, Types
<1>4. ~SchedHolds(x)' /\ ~SchedSleeps(x)' /\ ~SchedHolds(x)
  <2>1. ~SchedHolds(x) /\ ~SchedSleeps(x)
    BY <1>1 DEF IInv, XInv, Lock, Locked
  <2> QED BY <1>1, <1>3, <2>1, SchedSame DEF SchedSleeps
<1>5. ~User(p, x) /\ ~InUser(p, x) /\ ~Loads(p, x)
  BY <1>1 DEF User, InUser, Loads
<1>6. newip'[p] \in {newip[p], none} =>
        newip'[p] = none \/ \A q \in Proc \ {p} : newip[q] # newip'[p]
  BY DEF IInv, Unique
<1>7. CASE ccount[x] > 0 /\ ccount' = [ccount EXCEPT ![x] = @ + 1] /\ Start(p)
           /\ UNCHANGED <<flag, core, after, slock>>
  <2>1. /\ pc' \in [Proc -> PC] /\ pc'[p] = "user" /\ \A q \in Proc \ {p} : pc'[q] = pc[q]
        /\ prog' \in [Proc -> Ino \cup {none}] /\ prog'[p] = newip[p]
        /\ \A q \in Proc \ {p} : prog'[q] = prog[q]
        /\ newip' \in [Proc -> Ino \cup {none}] /\ newip'[p] = none
        /\ \A q \in Proc \ {p} : newip'[q] = newip[q]
        /\ xp' \in [Proc -> Seg \cup {none}] /\ xp'[p] = none
        /\ \A q \in Proc \ {p} : xp'[q] = xp[q]
    BY <1>7, StartIs
  <2>2. /\ ccount' \in [Seg -> Int] /\ ccount'[x] = ccount[x] + 1
        /\ \A y \in Seg \ {x} : TextSame(y)
    BY <1>1, <1>3, <1>7 DEF IInv, Types, TextSame
  <2>3. Types'
    BY <1>1, <1>3, <1>7, <2>1, <2>2 DEF IInv, Types
  <2>4. \A q \in Proc \ {p} : Own(q)
    BY <1>1, <1>3, <1>7, <2>1 DEF Own
  <2>5. ASSUME NEW y \in Seg \ {x} PROVE Apart(p, y)
    BY <1>1, <1>3, <2>1, TextAssumption DEF Apart, User, InUser, Writes, Swaps, Holds, Loads, Sleeps
  <2>6. PInv(p)'
    BY <1>1, <1>2, <1>3, <1>7, <2>1 DEF PInv, Placed, Has, Waits, Loader, InLock
  <2>7. XInv(x)'
    <3>1. InUser(p, x)' /\ ~Holds(p, x)' /\ ~Loads(p, x)' /\ ~Sleeps(p, x)'
      BY <1>1, <1>3, <2>1
         DEF InUser, InCore, Holds, Writes, Swaps, Loads, Loader, Waits, Sleeps
    <3>2. \A q \in Proc \ {p} : Apart(q, x)
      BY <2>4, OwnApart
    <3> QED BY <1>1, <1>3, <1>4, <1>5, <1>7, <2>2, <3>1, <3>2, JoinX
  <2>8. SwapperWoken'
    BY <1>1, <2>1, WokenStays
  <2> QED BY <1>1, <1>7, <2>1, <2>2, <2>3, <2>4, <2>5, <2>6, <2>7, <2>8, StepInv
<1>8. CASE /\ ccount[x] = 0 /\ flag' = [flag EXCEPT ![x] = @ \cup {"lock"}]
           /\ UNCHANGED <<ccount, prog, newip, xp>>
           /\ \/ core' = [core EXCEPT ![x] = "junk"] /\ Goto(p, "xread") /\ UNCHANGED <<after, slock>>
              \/ Goto(p, "wrproc") /\ SwapSelf(p, "attached") /\ UNCHANGED core
  <2>1. /\ pc' \in [Proc -> PC] /\ \A q \in Proc \ {p} : pc'[q] = pc[q]
        /\ after' \in [Proc -> {"user", "xalloc", "attached", "load"} \cup Proc]
        /\ \A q \in Proc \ {p} : after'[q] = after[q] /\ (q \in slock' <=> q \in slock)
        /\ slock' \in SUBSET Proc
        /\ \/ pc'[p] = "xread" /\ core'[x] = "junk"
           \/ pc'[p] = "wrproc" /\ after'[p] = "attached" /\ p \in slock' /\ core'[x] = core[x]
    <3>1. CASE core' = [core EXCEPT ![x] = "junk"] /\ Goto(p, "xread") /\ UNCHANGED <<after, slock>>
      BY <3>1 DEF Goto, IInv, Types, PC
    <3>2. CASE Goto(p, "wrproc") /\ SwapSelf(p, "attached") /\ UNCHANGED core
      BY <3>2 DEF Goto, SwapSelf, IInv, Types, PC
    <3> QED BY <1>8, <3>1, <3>2
  <2>2. /\ flag' \in [Seg -> SUBSET Flags] /\ flag'[x] = flag[x] \cup {"lock"}
        /\ core' \in [Seg -> Content] /\ "load" \notin flag'[x]
        /\ \A y \in Seg \ {x} : TextSame(y)
    BY <1>1, <1>2, <1>3, <1>8 DEF IInv, Types, Flags, Content, TextSame
  <2>3. Types'
    BY <1>1, <1>3, <1>8, <2>1, <2>2 DEF IInv, Types
  <2>4. \A q \in Proc \ {p} : Own(q)
    BY <1>1, <1>3, <1>8, <2>1 DEF Own
  <2>5. ASSUME NEW y \in Seg \ {x} PROVE Apart(p, y)
    BY <1>1, <1>3, <2>1, TextAssumption DEF Apart, User, InUser, Writes, Swaps, Holds, Loads, Sleeps
  <2>6. PInv(p)'
    BY <1>1, <1>3, <1>8, <2>1, <2>2 DEF PInv, Placed, Has, Waits, Loader, InLock
  <2>7. XInv(x)'
    <3>1. /\ ~InUser(p, x)' /\ User(p, x)' /\ Holds(p, x)' /\ ~Writes(p, x)' /\ ~Sleeps(p, x)'
          /\ Swaps(p, x)' => core'[x] = core[x]
      <4>1. ~(spc' = "inproc" /\ sproc' = p)
        BY DEF IInv, Swapper
      <4> QED BY <1>1, <1>3, <2>1, <4>1
         DEF User, InUser, InCore, Holds, Writes, Swaps, Sleeps
    <3>2. \A q \in Proc \ {p} : Apart(q, x)
      BY <2>4, OwnApart
    <3>3. ~SchedWrites(x)'
      BY <1>4 DEF SchedHolds, SchedWrites
    <3>4. \/ core'[x] = "junk" /\ ~Swaps(p, x)'
          \/ core'[x] = core[x]
      BY <2>1, <3>1
    <3> QED BY <1>1, <1>2, <1>3, <1>4, <1>5, <1>8, <2>2, <3>1, <3>2, <3>3, <3>4, TakeX
  <2>8. SwapperWoken'
    BY <1>1, <2>1, WokenStays
  <2>9. pc'[p] # "idl"
    BY <2>1
  <2> QED BY <1>1, <1>2, <1>6, <1>8, <2>1, <2>2, <2>3, <2>4, <2>5, <2>6, <2>7, <2>8, <2>9, StepInv
<1> QED BY <1>7, <1>8 DEF Attach

(* What a process that waits leaves as it was. *)
LEMMA WaitSame ==
    ASSUME IInv, NEW p \in Proc, NEW x \in Seg, AttachWait(p, x), newip[p] # none
    PROVE  /\ xp' \in [Proc -> Seg \cup {none}] /\ xp'[p] = x /\ \A q \in Proc \ {p} : xp'[q] = xp[q]
           /\ newip' \in [Proc -> Ino \cup {none}] /\ newip'[p] # none
           /\ \A q \in Proc \ {p} : newip'[q] = newip[q] /\ newip[q] # newip'[p]
<1>1. /\ xp' \in [Proc -> Seg \cup {none}] /\ xp'[p] = x /\ \A q \in Proc \ {p} : xp'[q] = xp[q]
      /\ newip' = newip /\ newip \in [Proc -> Ino \cup {none}]
  BY DEF AttachWait, IInv, Types
<1>2. \A q \in Proc \ {p} : newip[q] # newip[p]
  BY DEF IInv, Unique
<1> QED BY <1>1, <1>2

(* A process that was woken in xlock() still waits, or finds the segment   *)
(* that it slept for.                                                      *)
LEMMA AttachWokenInv ==
    ASSUME IInv, ~astray', NEW p \in Proc, AttachWoken(p)
    PROVE  IInv'
<1>0. PICK x : x = xp[p]
  OBVIOUS
<1>1. /\ pc[p] = "attach" /\ p \in loaded /\ p \notin asleep /\ UNCHANGED <<loaded, spc, sproc>>
      /\ AttachWait(p, x) \/ (Attach(p, x) /\ iptr[x] = newip[p])
  BY <1>0 DEF AttachWoken, Ready, swapper
<1>2. x \in Seg /\ newip[p] # none /\ textp[p] = none /\ prog[p] = none
  BY <1>0, <1>1 DEF IInv, PInv, Has, InLock
<1>3. CASE AttachWait(p, x)
  <2>1. "attach" \in InLock
    BY DEF InLock
  <2> QED BY <1>1, <1>2, <1>3, <2>1, WaitSame, WaitInv DEF AttachWait, Goto
<1>4. CASE Attach(p, x) /\ iptr[x] = newip[p]
  BY <1>1, <1>2, <1>4, AttachInv
<1> QED BY <1>1, <1>3, <1>4

(* A free entry has nobody. *)
LEMMA FreeIs ==
    ASSUME IInv, NEW x \in Seg, iptr[x] = none
    PROVE  /\ ~Locked(x) /\ ~SchedHolds(x) /\ ~SchedSleeps(x)
           /\ \A q \in Proc : /\ ~User(q, x) /\ ~InUser(q, x) /\ ~Holds(q, x) /\ ~Sleeps(q, x)
                              /\ textp[q] # x
           /\ Cardinality(Users(x)) = 0 /\ Cardinality(InUsers(x)) = 0
<1>1. ~Locked(x) /\ ~SchedHolds(x) /\ ~SchedSleeps(x) /\ \A q \in Proc : ~Holds(q, x) /\ ~Sleeps(q, x)
  BY DEF IInv, XInv, Lock, Locked
<1>2. \A q \in Proc : textp[q] # x
  BY TextAssumption DEF IInv, PInv, Has
<1>3. Users(x) = {} /\ InUsers(x) = {}
  BY <1>2 DEF Users, InUsers, User, InUser
<1>4. Cardinality(Users(x)) = 0 /\ Cardinality(InUsers(x)) = 0
  BY <1>3, FS_EmptySet
<1> QED BY <1>1, <1>2, <1>4 DEF User, InUser

LEMMA NewInv ==
    ASSUME IInv, NEW p \in Proc, NEW x \in Seg, New(p, x), p \in loaded, p \notin asleep,
           pc[p] = "xalloc", newip[p] # none, \A y \in Seg : iptr[y] # newip[p],
           textp[p] = none, prog[p] = none, UNCHANGED <<loaded, spc, sproc>>
    PROVE  IInv'
<1>1. /\ iptr[x] = none /\ x # none /\ UNCHANGED <<prog, newip, xp, asleep>>
      /\ iptr' = [iptr EXCEPT ![x] = newip[p]] /\ count' = [count EXCEPT ![x] = 1]
      /\ disk' = [disk EXCEPT ![x] = "junk"] /\ textp' = [textp EXCEPT ![p] = x]
  BY TextAssumption DEF New
<1>2. PICK with \in BOOLEAN :
        /\ flag' = [flag EXCEPT ![x] = IF with THEN {"load"} ELSE {"load", "lock"}]
        /\ ccount' = [ccount EXCEPT ![x] = IF with THEN 1 ELSE 0]
        /\ core' = IF with THEN [core EXCEPT ![x] = "junk"] ELSE core
        /\ pc' = [pc EXCEPT ![p] = IF with THEN "readi" ELSE "wrproc"]
        /\ after' = IF with THEN after ELSE [after EXCEPT ![p] = "load"]
        /\ slock' = slock \cup {p}
  <2>1. CASE /\ flag' = [flag EXCEPT ![x] = {"load"}] /\ ccount' = [ccount EXCEPT ![x] = 1]
             /\ core' = [core EXCEPT ![x] = "junk"]
             /\ Goto(p, "readi") /\ slock' = slock \cup {p} /\ UNCHANGED after
    <3> WITNESS TRUE \in BOOLEAN
    <3> QED BY <2>1 DEF Goto
  <2>2. CASE /\ flag' = [flag EXCEPT ![x] = {"load", "lock"}] /\ ccount' = [ccount EXCEPT ![x] = 0]
             /\ Goto(p, "wrproc") /\ SwapSelf(p, "load") /\ UNCHANGED core
    <3> WITNESS FALSE \in BOOLEAN
    <3> QED BY <2>2 DEF Goto, SwapSelf
  <2> QED BY <2>1, <2>2 DEF New
<1>3. /\ textp' \in [Proc -> Seg \cup {none}] /\ textp'[p] = x
      /\ \A q \in Proc \ {p} : textp'[q] = textp[q]
      /\ pc' \in [Proc -> PC] /\ pc'[p] = (IF with THEN "readi" ELSE "wrproc")
      /\ \A q \in Proc \ {p} : pc'[q] = pc[q]
  BY <1>1, <1>2 DEF IInv, Types, PC
<1>4. /\ after' \in [Proc -> {"user", "xalloc", "attached", "load"} \cup Proc]
      /\ ~with => after'[p] = "load"
      /\ \A q \in Proc \ {p} : after'[q] = after[q] /\ (q \in slock' <=> q \in slock)
      /\ slock' \in SUBSET Proc /\ p \in slock'
  BY <1>2 DEF IInv, Types
<1>5. /\ count' \in [Seg -> Int] /\ count'[x] = 1
      /\ ccount' \in [Seg -> Int] /\ ccount'[x] = IF with THEN 1 ELSE 0
      /\ \A y \in Seg \ {x} : count'[y] = count[y] /\ ccount'[y] = ccount[y]
  BY <1>1, <1>2 DEF IInv, Types
<1>6. /\ iptr' \in [Seg -> Ino \cup {none}] /\ iptr'[x] = newip[p]
      /\ disk' \in [Seg -> Content] /\ disk'[x] = "junk"
      /\ core' \in [Seg -> Content] /\ (with => core'[x] = "junk") /\ (~with => core'[x] = core[x])
      /\ \A y \in Seg \ {x} : iptr'[y] = iptr[y] /\ disk'[y] = disk[y] /\ core'[y] = core[y]
  BY <1>1, <1>2 DEF IInv, Types, Content
<1>7. /\ flag' \in [Seg -> SUBSET Flags] /\ \A y \in Seg \ {x} : flag'[y] = flag[y]
      /\ flag'[x] = IF with THEN {"load"} ELSE {"load", "lock"}
  BY <1>2 DEF IInv, Types, Flags
<1>8. Types'
  BY <1>1, <1>3, <1>4, <1>5, <1>6, <1>7 DEF IInv, Types
<1>9. \A q \in Proc \ {p} : Own(q)
  BY <1>1, <1>3, <1>4 DEF Own
<1>10. ASSUME NEW y \in Seg \ {x} PROVE TextSame(y) /\ Apart(p, y)
  <2>1. TextSame(y)
    BY <1>5, <1>6, <1>7 DEF TextSame
  <2>2. Apart(p, y)
    BY <1>1, <1>3, TextAssumption DEF Apart, User, InUser, Writes, Swaps, Holds, Loads, Sleeps
  <2> QED BY <2>1, <2>2
<1>11. ~SchedHolds(x) /\ \A q \in Proc : textp[q] # x
  BY <1>1, FreeIs
<1>12. PInv(p)'
  BY <1>1, <1>3, <1>4, <1>6, <1>7 DEF PInv, Placed, Has, Waits, Loader, InLock
<1>13. XInv(x)'
  <2>1. ~Locked(x) /\ ~SchedHolds(x) /\ ~SchedSleeps(x) /\ core[x] = "none"
    BY <1>1, FreeIs DEF IInv, XInv, Contents
  <2>2. ~SchedHolds(x)' /\ ~SchedSleeps(x)' /\ ~SchedWrites(x)'
    <3>1. ~SchedHolds(x)' /\ ~SchedSleeps(x)'
      BY <1>1, <1>3, <2>1, SchedSame DEF SchedSleeps
    <3> QED BY <3>1 DEF SchedHolds, SchedWrites
  <2>3. \A q \in Proc \ {p} : Apart(q, x)
    BY <1>9, OwnApart
  <2>4. \A q \in Proc \ {p} : ~Holds(q, x)' /\ ~Sleeps(q, x)' /\ ~Writes(q, x)' /\ ~Swaps(q, x)'
    <3>1. \A q \in Proc \ {p} : ~Holds(q, x) /\ ~Sleeps(q, x)
      BY <1>1, FreeIs
    <3> QED BY <2>3, <3>1 DEF Apart, Holds
  <2>5. /\ User(p, x)' /\ Loads(p, x)' /\ ~Writes(p, x)' /\ ~Sleeps(p, x)'
        /\ Holds(p, x)' <=> ~with
        /\ Swaps(p, x)' <=> ~with
    BY <1>1, <1>3, <1>4 DEF User, Loads, Loader, Waits, Writes, Holds, Swaps, Sleeps
  <2>6. InUser(p, x)' <=> with
    <3>1. ~(spc' = "inproc" /\ sproc' = p)
      BY DEF IInv, Swapper
    <3> QED BY <1>3, <3>1 DEF InUser, InCore
  <2>7. Counted(x)'
    <3>1. /\ Cardinality(Users(x))' =
               Cardinality(Users(x)) + (IF User(p, x)' THEN 1 ELSE 0) - (IF User(p, x) THEN 1 ELSE 0)
          /\ Cardinality(InUsers(x))' =
               Cardinality(InUsers(x)) + (IF InUser(p, x)' THEN 1 ELSE 0) - (IF InUser(p, x) THEN 1 ELSE 0)
      BY <2>3, CountMove
    <3>2. ~User(p, x) /\ ~InUser(p, x) /\ Cardinality(Users(x)) = 0 /\ Cardinality(InUsers(x)) = 0
      BY <1>1, FreeIs
    <3> QED BY <1>5, <2>5, <2>6, <3>1, <3>2 DEF Counted
  <2>8. Locked(x)' <=> ~with
    BY <1>7 DEF Locked
  <2>9. Lock(x)'
    BY <1>5, <1>6, <2>2, <2>4, <2>5, <2>8 DEF Lock
  <2>10. Contents(x)'
    <3>1. "load" \in flag'[x] /\ "writ" \notin flag'[x] /\ iptr'[x] # none
      BY <1>6, <1>7
    <3>2. CASE with
      <4>1. core'[x] = "junk" /\ ccount'[x] > 0
        BY <1>5, <1>6, <3>2
      <4> QED BY <2>2, <2>4, <2>5, <3>1, <3>2, <4>1 DEF Contents
    <3>3. CASE ~with
      <4>1. core'[x] = "none" /\ ~ccount'[x] > 0
        BY <1>5, <1>6, <2>1, <3>3
      <4> QED BY <2>2, <2>4, <2>5, <3>1, <3>3, <4>1 DEF Contents
    <3> QED BY <3>2, <3>3
  <2> QED BY <2>7, <2>9, <2>10 DEF XInv
<1>14. SwapperWoken'
  BY <1>1, <1>3, WokenStays
<1>15. newip'[p] = none \/ \A q \in Proc \ {p} : newip[q] # newip'[p]
  BY <1>1 DEF IInv, Unique
<1>16. pc'[p] # "idl" /\ (spc = "intext" => textp[sproc] # x)
  BY <1>3, <1>11 DEF SchedHolds
<1> QED BY <1>1, <1>6, <1>8, <1>9, <1>10, <1>11, <1>12, <1>13, <1>14, <1>15, <1>16, StepInv

LEMMA XallocInv ==
    ASSUME IInv, NEW p \in Proc, Xalloc(p)
    PROVE  IInv'
<1>1. /\ pc[p] = "xalloc" /\ p \in loaded /\ p \notin asleep /\ UNCHANGED <<loaded, spc, sproc>>
      /\ newip[p] # none /\ textp[p] = none /\ prog[p] = none
  BY DEF Xalloc, Ready, swapper, IInv, PInv, Has, Waits
<1>2. CASE \E x \in Seg : iptr[x] = newip[p] /\ (AttachWait(p, x) \/ Attach(p, x))
  <2>1. PICK x \in Seg : iptr[x] = newip[p] /\ (AttachWait(p, x) \/ Attach(p, x))
    BY <1>2
  <2>2. CASE AttachWait(p, x)
    <3>1. "attach" \in InLock
      BY DEF InLock
    <3> QED BY <1>1, <2>1, <2>2, <3>1, WaitSame, WaitInv DEF AttachWait, Goto
  <2>3. CASE Attach(p, x)
    BY <1>1, <2>1, <2>3, AttachInv
  <2> QED BY <2>1, <2>2, <2>3
<1>3. CASE NoText(p)
  <2>1. /\ pc' = [pc EXCEPT ![p] = "xfree"] /\ newip' = [newip EXCEPT ![p] = none]
        /\ UNCHANGED text /\ UNCHANGED <<textp, prog, xp, after, asleep, slock>>
    BY <1>3 DEF NoText, Goto
  <2>2. /\ pc' \in [Proc -> PC] /\ pc'[p] = "xfree" /\ \A q \in Proc \ {p} : pc'[q] = pc[q]
        /\ newip' \in [Proc -> Ino \cup {none}] /\ newip'[p] = none
        /\ \A q \in Proc \ {p} : newip'[q] = newip[q]
    BY <2>1 DEF IInv, Types, PC
  <2>3. Types'
    BY <1>1, <2>1, <2>2 DEF IInv, Types, text
  <2>4. \A q \in Proc \ {p} : Own(q)
    BY <1>1, <2>1, <2>2 DEF Own
  <2>5. ASSUME NEW y \in Seg PROVE Apart(p, y)
    BY <1>1, <2>1, <2>2, ApartNone DEF Sleeps
  <2>6. PInv(p)'
    BY <1>1, <2>1, <2>2 DEF PInv, Placed, Has, Waits, Loader, InLock
  <2>7. SwapperWoken'
    BY <1>1, <2>1, <2>2, WokenStays
  <2> QED BY <1>1, <2>1, <2>2, <2>3, <2>4, <2>5, <2>6, <2>7, MoveInv
<1>4. CASE (\A y \in Seg : iptr[y] # newip[p]) /\ \E x \in Seg : New(p, x)
  BY <1>1, <1>4, NewInv
<1> QED BY <1>2, <1>3, <1>4 DEF Xalloc

-----------------------------------------------------------------------------
(* The segment is there, and exec is through.                              *)
LEMMA XreadDoneInv ==
    ASSUME IInv, NEW p \in Proc, XreadDone(p)
    PROVE  IInv'
<1>0. PICK x : x = textp[p]
  OBVIOUS
<1>1. /\ pc[p] = "xread" /\ p \in loaded /\ p \notin asleep /\ Start(p)
      /\ core' = [core EXCEPT ![x] = disk[x]] /\ ccount' = [ccount EXCEPT ![x] = @ + 1]
      /\ flag' = [flag EXCEPT ![x] = Unlocked(x)] /\ Resched({}, Wanting(x))
      /\ UNCHANGED <<iptr, count, disk, textp, after, loaded, slock, spc, sproc>>
  BY <1>0 DEF XreadDone, Ready, swapper
<1>2. x \in Seg /\ x # none /\ prog[p] = none /\ newip[p] # none /\ iptr[x] = newip[p] /\ "load" \notin flag[x]
  <2>1. ~Loader(p)
    BY <1>1 DEF Loader, Waits
  <2> QED BY <1>0, <1>1, <2>1 DEF IInv, PInv, Has, Types
<1>3. /\ pc' \in [Proc -> PC] /\ pc'[p] = "user" /\ \A q \in Proc \ {p} : pc'[q] = pc[q]
      /\ prog' \in [Proc -> Ino \cup {none}] /\ prog'[p] = newip[p]
      /\ \A q \in Proc \ {p} : prog'[q] = prog[q]
      /\ newip' \in [Proc -> Ino \cup {none}] /\ newip'[p] = none
      /\ \A q \in Proc \ {p} : newip'[q] = newip[q]
      /\ xp' \in [Proc -> Seg \cup {none}] /\ xp'[p] = none
      /\ \A q \in Proc \ {p} : xp'[q] = xp[q]
  BY <1>1, StartIs
<1>4. /\ asleep' \in SUBSET (Proc \cup {"sched"}) /\ \A q \in Proc : q \in asleep' => q \in asleep
      /\ "sched" \in asleep' => "sched" \in asleep
      /\ \A q \in Proc : Sleeps(q, x) => q \notin asleep'
      /\ SchedSleeps(x) => "sched" \notin asleep'
      /\ Wanting(x) \in SUBSET (Proc \cup {"sched"})
  <2>1. Wanting(x) \subseteq Wanting(x) /\ Wanting(x) \subseteq Wanting(x) \cup {"sched"}
    OBVIOUS
  <2> QED BY <1>1, <1>2, <2>1, WantingIs
<1>5. /\ core' \in [Seg -> Content] /\ core'[x] = disk[x]
      /\ ccount' \in [Seg -> Int] /\ ccount'[x] = ccount[x] + 1
      /\ flag' \in [Seg -> SUBSET Flags] /\ flag'[x] = Unlocked(x) /\ "load" \notin flag'[x]
      /\ \A y \in Seg \ {x} : TextSame(y)
  BY <1>1, <1>2 DEF Unlocked, IInv, Types, Content, TextSame
<1>6. Types'
  BY <1>1, <1>3, <1>4, <1>5 DEF IInv, Types
<1>7. \A q \in Proc \ {p} : Own(q)
  BY <1>1, <1>3, <1>4 DEF Own
<1>8. ASSUME NEW y \in Seg \ {x} PROVE Apart(p, y)
  BY <1>0, <1>1, <1>3 DEF Apart, User, InUser, Writes, Swaps, Holds, Loads, Sleeps, InLock
<1>9. PInv(p)'
  BY <1>0, <1>1, <1>2, <1>3, <1>5 DEF PInv, Placed, Has, Waits, Loader, InLock
<1>10. XInv(x)'
  <2>1. Holds(p, x) /\ User(p, x) /\ ~Writes(p, x)
    BY <1>0, <1>1 DEF Writes, Holds, User
  <2>2. Locked(x) /\ ~SchedHolds(x) /\ \A q \in Proc \ {p} : ~Holds(q, x)
    BY <1>2, <2>1 DEF IInv, XInv, Lock
  <2>3. ~SchedWrites(x) /\ \A q \in Proc : ~Writes(q, x)
    BY <2>1, <2>2 DEF Holds, SchedHolds, SchedWrites
  <2>4. \A q \in Proc \ {p} : Apart(q, x)
    BY <1>7, OwnApart
  <2>5. ~Holds(p, x)' /\ ~Sleeps(p, x)' /\ InUser(p, x)'
    BY <1>0, <1>1, <1>3 DEF InUser, InCore, Holds, Writes, Swaps, Sleeps, InLock
  <2>6. ~InUser(p, x)
    BY <1>1 DEF InUser, InCore, IInv, Swapper
  <2>7. \A q \in Proc : ~Holds(q, x)' /\ ~Sleeps(q, x)'
    BY <1>4, <2>2, <2>4, <2>5 DEF Apart, Sleeps
  <2>8. ~SchedHolds(x)' /\ ~SchedSleeps(x)'
    BY <1>1, <1>4, <2>2 DEF SchedHolds, SchedSleeps
  <2> QED BY <1>1, <1>2, <1>5, <2>1, <2>2, <2>3, <2>4, <2>5, <2>6, <2>7, <2>8, ReadX
<1>11. SwapperWoken'
  <2>1. {} \in SUBSET Proc
    OBVIOUS
  <2> QED BY <1>1, <1>3, <1>4, <2>1, WokenFrame
<1> QED BY <1>1, <1>2, <1>3, <1>4, <1>5, <1>6, <1>7, <1>8, <1>9, <1>10, <1>11, StepInv

LEMMA AttachedInv ==
    ASSUME IInv, NEW p \in Proc, Attached(p)
    PROVE  IInv'
<1>0. PICK x : x = textp[p]
  OBVIOUS
<1>1. /\ pc[p] = "attached" /\ p \in loaded /\ p \notin asleep /\ Start(p)
      /\ flag' = [flag EXCEPT ![x] = Unlocked(x)] /\ Resched({}, Wanting(x))
      /\ UNCHANGED <<iptr, count, ccount, core, disk, textp, after, loaded, slock, spc, sproc>>
  BY <1>0 DEF Attached, Ready, swapper
<1>2. x \in Seg /\ x # none /\ prog[p] = none /\ newip[p] # none /\ iptr[x] = newip[p] /\ "load" \notin flag[x]
  <2>1. ~Loader(p) /\ Waits(p, "attached")
    BY <1>1 DEF Loader, Waits
  <2> QED BY <1>0, <1>1, <2>1 DEF IInv, PInv, Has, Types
<1>3. /\ pc' \in [Proc -> PC] /\ pc'[p] = "user" /\ \A q \in Proc \ {p} : pc'[q] = pc[q]
      /\ prog' \in [Proc -> Ino \cup {none}] /\ prog'[p] = newip[p]
      /\ \A q \in Proc \ {p} : prog'[q] = prog[q]
      /\ newip' \in [Proc -> Ino \cup {none}] /\ newip'[p] = none
      /\ \A q \in Proc \ {p} : newip'[q] = newip[q]
      /\ xp' \in [Proc -> Seg \cup {none}] /\ xp'[p] = none
      /\ \A q \in Proc \ {p} : xp'[q] = xp[q]
  BY <1>1, StartIs
<1>4. /\ asleep' \in SUBSET (Proc \cup {"sched"}) /\ \A q \in Proc : q \in asleep' => q \in asleep
      /\ "sched" \in asleep' => "sched" \in asleep
      /\ Wanting(x) \in SUBSET (Proc \cup {"sched"})
  <2>1. Wanting(x) \subseteq Wanting(x) /\ Wanting(x) \subseteq Wanting(x) \cup {"sched"}
    OBVIOUS
  <2> QED BY <1>1, <1>2, <2>1, WantingIs
<1>5. /\ flag' \in [Seg -> SUBSET Flags] /\ flag'[x] = Unlocked(x) /\ "load" \notin flag'[x]
      /\ \A y \in Seg \ {x} : TextSame(y)
  BY <1>1, <1>2 DEF Unlocked, IInv, Types, TextSame
<1>6. Types'
  BY <1>1, <1>3, <1>4, <1>5 DEF IInv, Types
<1>7. \A q \in Proc \ {p} : Own(q)
  BY <1>1, <1>3, <1>4 DEF Own
<1>8. ASSUME NEW y \in Seg PROVE Apart(p, y)
  BY <1>1, <1>3, <1>4, ApartQuiet DEF Quiet, Sleeps
<1>9. PInv(p)'
  BY <1>0, <1>1, <1>2, <1>3, <1>5 DEF PInv, Placed, Has, Waits, Loader, InLock
<1>10. XInv(x)'
  <2>1. InUser(p, x)
    BY <1>0, <1>1 DEF InUser, InCore
  <2>2. ~Locked(x) /\ ~SchedHolds(x) /\ ~SchedSleeps(x) /\ \A q \in Proc : ~Holds(q, x) /\ ~Sleeps(q, x)
    BY <1>2, <2>1, InUserIs
  <2>3. \A q \in Proc : Apart(q, x)
    BY <1>2, <1>7, <1>8, OwnApart
  <2>4. \A q \in Proc :
             /\ User(q, x)' <=> User(q, x)
             /\ InUser(q, x)' <=> InUser(q, x)
             /\ Loads(q, x)' <=> Loads(q, x)
             /\ ~Holds(q, x)' /\ ~Sleeps(q, x)'
    BY <2>2, <2>3 DEF Apart
  <2>5. ~SchedHolds(x)' /\ ~SchedSleeps(x)'
    BY <1>1, <1>4, <2>2 DEF SchedHolds, SchedSleeps
  <2> QED BY <1>1, <1>2, <1>5, <2>2, <2>4, <2>5, UnlockX
<1>11. SwapperWoken'
  <2>1. {} \in SUBSET Proc
    OBVIOUS
  <2> QED BY <1>1, <1>3, <1>4, <2>1, WokenFrame
<1> QED BY <1>1, <1>2, <1>3, <1>4, <1>5, <1>6, <1>7, <1>8, <1>9, <1>10, <1>11, StepInv

LEMMA LoadedInv ==
    ASSUME IInv, NEW p \in Proc, Loaded(p)
    PROVE  IInv'
<1>0. PICK x : x = textp[p]
  OBVIOUS
<1>1. /\ pc[p] = "readi" /\ slock' = slock \ {p} /\ Start(p)
      /\ core' = [core EXCEPT ![x] = newip[p]] /\ flag' = [flag EXCEPT ![x] = {"writ"}]
      /\ UNCHANGED <<iptr, count, ccount, disk, textp, after, asleep, loaded, spc, sproc>>
  BY <1>0 DEF Loaded, swapper
<1>2. /\ x \in Seg /\ x # none /\ prog[p] = none /\ newip[p] # none /\ iptr[x] = newip[p]
      /\ "load" \in flag[x] /\ p \in loaded
  <2>1. Loader(p)
    BY <1>1 DEF Loader
  <2> QED BY <1>0, <1>1, <2>1 DEF IInv, PInv, Has, Types, Placed
<1>3. /\ pc' \in [Proc -> PC] /\ pc'[p] = "user" /\ \A q \in Proc \ {p} : pc'[q] = pc[q]
      /\ prog' \in [Proc -> Ino \cup {none}] /\ prog'[p] = newip[p]
      /\ \A q \in Proc \ {p} : prog'[q] = prog[q]
      /\ newip' \in [Proc -> Ino \cup {none}] /\ newip'[p] = none
      /\ \A q \in Proc \ {p} : newip'[q] = newip[q]
      /\ xp' \in [Proc -> Seg \cup {none}] /\ xp'[p] = none
      /\ \A q \in Proc \ {p} : xp'[q] = xp[q]
  BY <1>1, StartIs
<1>4. ASSUME NEW q \in Proc \ {p} PROVE textp[q] # x
  <2>1. textp[q] = x => Loader(q)
    BY <1>2 DEF IInv, PInv, Has
  <2>2. Loader(q) => iptr[textp[q]] = newip[q]
    BY DEF IInv, PInv, Has
  <2> QED BY <1>2, <2>1, <2>2 DEF IInv, Unique
<1>5. /\ core' \in [Seg -> Content] /\ core'[x] = iptr[x]
      /\ flag' \in [Seg -> SUBSET Flags] /\ flag'[x] = {"writ"}
      /\ \A y \in Seg \ {x} : TextSame(y)
  BY <1>1, <1>2 DEF IInv, Types, Content, Flags, TextSame
<1>6. Types'
  BY <1>1, <1>3, <1>5 DEF IInv, Types
<1>7. \A q \in Proc \ {p} : Own(q)
  BY <1>1, <1>3 DEF Own
<1>8. ASSUME NEW y \in Seg \ {x} PROVE Apart(p, y)
  BY <1>0, <1>1, <1>3 DEF Apart, User, InUser, Writes, Swaps, Holds, Loads, Sleeps, InLock
<1>9. PInv(p)'
  BY <1>0, <1>1, <1>2, <1>3, <1>5 DEF PInv, Placed, Has, Waits, Loader, InLock
<1>10. InUser(p, x)
  BY <1>0, <1>1, <1>2 DEF InUser, InCore
<1>11. /\ ~Locked(x) /\ ~SchedHolds(x) /\ ~SchedSleeps(x) /\ ccount[x] > 0 /\ iptr[x] # none
       /\ \A q \in Proc : ~Holds(q, x) /\ ~Sleeps(q, x)
  BY <1>2, <1>10, InUserIs
<1>12. XInv(x)'
  <2>1. \A q \in Proc \ {p} : Apart(q, x)
    BY <1>7, OwnApart
  <2>2. InUser(p, x)' /\ User(p, x)' /\ User(p, x) /\ ~Holds(p, x)' /\ ~Sleeps(p, x)'
    BY <1>0, <1>1, <1>2, <1>3 DEF InUser, InCore, User, Holds, Writes, Swaps, Sleeps, InLock
  <2>3. Counted(x)'
    <3>1. /\ \A q \in Proc : User(q, x)' <=> User(q, x)
          /\ \A q \in Proc : InUser(q, x)' <=> InUser(q, x)
      BY <1>10, <2>1, <2>2 DEF Apart
    <3>2. Users(x)' = Users(x) /\ InUsers(x)' = InUsers(x)
      BY <3>1 DEF Users, InUsers
    <3> QED BY <1>1, <1>2, <3>2 DEF IInv, XInv, Counted
  <2>4. \A q \in Proc : ~Holds(q, x)' /\ ~Sleeps(q, x)' /\ ~Writes(q, x)' /\ ~Swaps(q, x)'
    BY <1>11, <2>1, <2>2 DEF Apart, Holds
  <2>5. ~SchedHolds(x)' /\ ~SchedSleeps(x)' /\ ~SchedWrites(x)'
    BY <1>1, <1>11 DEF SchedHolds, SchedSleeps, SchedWrites
  <2>6. Lock(x)'
    BY <1>5, <2>4, <2>5 DEF Lock, Locked
  <2>7. iptr[x] # "none"
    BY <1>2, TextAssumption DEF IInv, Types
  <2>8. Contents(x)'
    BY <1>1, <1>5, <1>11, <2>4, <2>5, <2>7 DEF Contents
  <2> QED BY <2>3, <2>6, <2>8 DEF XInv
<1>13. SwapperWoken'
  BY <1>1, <1>3, WokenStays
<1>14. "load" \notin flag'[x]
  BY <1>5
<1> QED BY <1>1, <1>2, <1>3, <1>4, <1>6, <1>5, <1>7, <1>8, <1>9, <1>12, <1>13, <1>14, StepInv

-----------------------------------------------------------------------------
(* xuntext(), from xrele() or when it is woken: it waits for the lock, or  *)
(* removes a segment that is in the table and that nobody uses.            *)
LEMMA UntextInv ==
    ASSUME IInv, ~astray', NEW p \in Proc, NEW x \in Seg, NEW ip \in Ino, Untext(p, x, ip),
           \A q \in Proc \ {p} : newip[q] # ip,
           pc[p] \in {"user", "untext"}, p \in loaded, p \notin asleep,
           UNCHANGED <<count, ccount, core, textp, prog, after, loaded, slock, spc, sproc>>
    PROVE  IInv'
<1>1. pc[p] \in {"user", "untext"} /\ p \in loaded /\ p \notin asleep
      /\ UNCHANGED <<count, ccount, core, textp, prog, after, loaded, slock, spc, sproc>>
  OBVIOUS
<1>2. x \in Seg /\ ip # none
  BY TextAssumption
<1>3. CASE Locked(x)
  <2>1. /\ flag' = [flag EXCEPT ![x] = @ \cup {"want"}] /\ pc' = [pc EXCEPT ![p] = "untext"]
        /\ Resched({p}, {}) /\ UNCHANGED <<iptr, disk>>
        /\ newip' = [newip EXCEPT ![p] = ip] /\ xp' = [xp EXCEPT ![p] = x]
    BY <1>3 DEF Untext, Goto
  <2>2. "untext" \in InLock
    BY DEF InLock
  <2>3. /\ xp' \in [Proc -> Seg \cup {none}] /\ xp'[p] = x /\ \A q \in Proc \ {p} : xp'[q] = xp[q]
        /\ newip' \in [Proc -> Ino \cup {none}] /\ newip'[p] # none
        /\ \A q \in Proc \ {p} : newip'[q] = newip[q] /\ newip[q] # newip'[p]
    BY <1>2, <2>1 DEF IInv, Types
  <2> QED BY <1>1, <1>2, <1>3, <2>1, <2>2, <2>3, WaitInv
<1>4. CASE ~Locked(x)
  <2>1. /\ pc' = [pc EXCEPT ![p] = "user"] /\ newip' = [newip EXCEPT ![p] = none]
        /\ xp' = [xp EXCEPT ![p] = none] /\ UNCHANGED <<flag, asleep>>
        /\ \/ count[x] > 0 /\ UNCHANGED <<iptr, disk>>
           \/ /\ ~count[x] > 0 /\ iptr' = [iptr EXCEPT ![x] = none]
              /\ disk' = [disk EXCEPT ![x] = "none"] /\ iptr[x] # none
    BY <1>4 DEF Untext, Goto
  <2>2. /\ pc' \in [Proc -> PC] /\ pc'[p] = "user" /\ \A q \in Proc \ {p} : pc'[q] = pc[q]
        /\ newip' \in [Proc -> Ino \cup {none}] /\ newip'[p] = none
        /\ \A q \in Proc \ {p} : newip'[q] = newip[q]
        /\ xp' \in [Proc -> Seg \cup {none}] /\ \A q \in Proc \ {p} : xp'[q] = xp[q]
    BY <2>1 DEF IInv, Types, PC
  <2>3. \A q \in Proc \ {p} : Own(q)
    BY <1>1, <2>1, <2>2 DEF Own
  <2>4. ASSUME NEW y \in Seg PROVE Apart(p, y)
    BY <1>1, <2>1, <2>2, ApartQuiet DEF Quiet, Sleeps
  <2>5. SwapperWoken'
    BY <1>1, <2>1, <2>2, WokenStays
  <2>6. CASE count[x] > 0 /\ UNCHANGED <<iptr, disk>>
    <3>1. UNCHANGED text
      BY <1>1, <2>1, <2>6 DEF text
    <3>2. Types'
      BY <1>1, <2>1, <2>2, <2>6 DEF IInv, Types
    <3>3. PInv(p)'
      BY <1>1, <2>1, <2>2, <2>6 DEF IInv, PInv, Placed, Has, Waits, Loader, InLock
    <3> QED BY <1>1, <2>1, <2>2, <2>3, <2>4, <2>5, <3>1, <3>2, <3>3, MoveInv
  <2>7. CASE /\ ~count[x] > 0 /\ iptr[x] # none
             /\ iptr' = [iptr EXCEPT ![x] = none] /\ disk' = [disk EXCEPT ![x] = "none"]
    <3>1. /\ iptr' \in [Seg -> Ino \cup {none}] /\ iptr'[x] = none
          /\ disk' \in [Seg -> Content] /\ disk'[x] = "none"
          /\ \A y \in Seg \ {x} : TextSame(y)
      BY <1>1, <1>2, <2>1, <2>7 DEF IInv, Types, Content, TextSame
    <3>2. Types'
      BY <1>1, <2>1, <2>2, <3>1 DEF IInv, Types
    <3>3. Users(x) = {} /\ ccount[x] = 0
      <4>1. Users(x) \in SUBSET Proc /\ InUsers(x) \in SUBSET Users(x)
        BY DEF Users, InUsers, User, InUser
      <4>2. count[x] = Cardinality(Users(x)) /\ ccount[x] = Cardinality(InUsers(x))
        BY <2>7 DEF IInv, XInv, Counted
      <4>3. Cardinality(Users(x)) \in Nat /\ (Cardinality(Users(x)) = 0 <=> Users(x) = {})
        BY <4>1, CardSmall
      <4>4. Users(x) = {}
        BY <2>7, <4>2, <4>3
      <4>5. InUsers(x) = {}
        BY <4>1, <4>4
      <4> QED BY <4>2, <4>4, <4>5, FS_EmptySet
    <3>4. ASSUME NEW q \in Proc PROVE textp[q] # x
      BY <3>3 DEF Users, User
    <3>6. PInv(p)'
      <4>1. textp[p] # none => iptr'[textp[p]] = iptr[textp[p]]
        BY <3>1, <3>4 DEF IInv, Types, TextSame
      <4>2. PInv(p) /\ (prog[p] # none => textp[p] # none)
        BY DEF IInv, PInv, Has
      <4> QED BY <1>1, <2>1, <2>2, <4>1, <4>2 DEF PInv, Placed, Has, Waits, Loader, InLock
    <3>7. /\ ~SchedHolds(x) /\ ~SchedSleeps(x) /\ core[x] = "none"
          /\ \A q \in Proc : ~Holds(q, x) /\ ~Sleeps(q, x)
      BY <1>4, <2>7, <3>3 DEF IInv, XInv, Lock, Contents, Locked
    <3>8. XInv(x)'
      <4>1. \A q \in Proc : ~Holds(q, x)' /\ ~Sleeps(q, x)'
        <5>1. \A q \in Proc : Apart(q, x)
          BY <1>2, <2>3, <2>4, OwnApart
        <5> QED BY <3>7, <5>1 DEF Apart
      <4>2. ~SchedHolds(x)' /\ ~SchedSleeps(x)'
        BY <1>1, <2>1, <3>7 DEF SchedHolds, SchedSleeps
      <4>3. Lock(x)'
        BY <1>4, <2>1, <4>1, <4>2 DEF Lock, Locked
      <4>4. ~SchedWrites(x)' /\ \A q \in Proc : ~Writes(q, x)' /\ ~Swaps(q, x)'
        BY <4>1, <4>2 DEF Holds, SchedHolds, SchedWrites
      <4>5. Contents(x)'
        BY <1>1, <3>1, <3>7, <4>4 DEF Contents
      <4> QED BY <3>1, <4>3, <4>5 DEF XInv, Counted
    <3> QED BY <1>1, <1>2, <2>1, <2>2, <2>3, <2>4, <2>5, <3>1, <3>2, <3>4, <3>6, <3>8, StepInv
  <2> QED BY <2>1, <2>6, <2>7
<1> QED BY <1>3, <1>4

LEMMA XuntextInv ==
    ASSUME IInv, ~astray', NEW p \in Proc, Xuntext(p)
    PROVE  IInv'
<1>1. /\ pc[p] = "untext" /\ p \in loaded /\ p \notin asleep /\ Untext(p, xp[p], newip[p])
      /\ UNCHANGED <<count, ccount, core, textp, prog, after, loaded, slock, spc, sproc>>
  BY DEF Xuntext, Ready, swapper
<1>2. xp[p] \in Seg /\ newip[p] \in Ino
  BY <1>1 DEF IInv, Types, PInv, Has, InLock
<1>3. \A q \in Proc \ {p} : newip[q] # newip[p]
  BY <1>2, TextAssumption DEF IInv, Unique
<1> QED BY <1>1, <1>2, <1>3, UntextInv

LEMMA XreleInv ==
    ASSUME IInv, ~astray', NEW p \in Proc, NEW x \in Seg, Xrele(p, x)
    PROVE  IInv'
<1>1. /\ pc[p] = "user" /\ p \in loaded /\ p \notin asleep /\ Untext(p, x, iptr[x])
      /\ iptr[x] # none /\ \A q \in Proc : newip[q] # iptr[x]
      /\ UNCHANGED <<count, ccount, core, textp, prog, after, loaded, slock, spc, sproc>>
  BY DEF Xrele, Runs, First, Ready, swapper
<1>2. iptr[x] \in Ino
  BY <1>1 DEF IInv, Types
<1> QED BY <1>1, <1>2, UntextInv

-----------------------------------------------------------------------------
(* newproc().  Parent and child change.                                    *)
LEMMA PairInv ==
    ASSUME IInv, Types', NEW p \in Proc, NEW c \in Proc, p # c,
           UNCHANGED <<spc, sproc, iptr, flag, newip>>, "sched" \in asleep' => "sched" \in asleep,
           \A q \in Proc \ {p, c} : Own(q),
           PInv(p)', PInv(c)', \A y \in Seg : XInv(y)',
           pc'[c] # "idl",
           \A q \in Proc \ {p, c} : pc[q] = "idl" =>
             after[q] # p /\ after[q] # c /\ (pc'[p] = "idl" => after[q] # after'[p]),
           p \in loaded, p \in loaded', c \in loaded \/ pc[c] = "null",
           SwapperWoken'
    PROVE  IInv'
<1>1. ASSUME NEW q \in Proc \ {p, c} PROVE PInv(q)'
  <2>1. pc[q] = "idl" => pc'[after[q]] = pc[after[q]]
    BY DEF IInv, PInv, Placed, Own
  <2> QED BY <2>1, PFrame
<1>2. Unique'
  <2>1. ASSUME NEW q \in Proc, NEW r \in Proc, pc'[q] = "idl", pc'[r] = "idl", after'[q] = after'[r]
        PROVE  q = r
    BY <2>1 DEF IInv, Unique, Own
  <2> QED BY <2>1 DEF IInv, Unique
<1>3. Swapper'
  <2>1. spc \in {"inlock", "intext", "inproc", "outtext", "outproc"} =>
          /\ sproc \in Proc \ loaded' /\ pc'[sproc] # "null" /\ textp'[sproc] = textp[sproc]
    BY DEF IInv, Swapper, Own
  <2> QED BY <2>1 DEF IInv, Swapper
<1> QED BY <1>1, <1>2, <1>3 DEF IInv

(* Another user, who is not in core. *)
LEMMA ShareX ==
    ASSUME IInv, NEW p \in Proc, NEW x \in Seg, count'[x] = count[x] + 1,
           UNCHANGED <<iptr, ccount, flag, core, disk>>, User(p, x)', ~User(p, x),
           ~InUser(p, x)', ~InUser(p, x), ~Loads(p, x)', ~Loads(p, x),
           ~Holds(p, x)', ~Holds(p, x), ~Sleeps(p, x)', SchedApart(x),
           \A q \in Proc \ {p} : Apart(q, x)
    PROVE  XInv(x)'
<1>0. XInv(x)
  BY DEF IInv
<1>1. ~Writes(p, x)' /\ ~Writes(p, x) /\ ~Swaps(p, x)' /\ ~Swaps(p, x)
  BY DEF Holds
<1>2. Counted(x)'
  <2>1. /\ Cardinality(Users(x)) \in Nat /\ Cardinality(InUsers(x)) \in Nat
        /\ Cardinality(Users(x))' =
             Cardinality(Users(x)) + (IF User(p, x)' THEN 1 ELSE 0) - (IF User(p, x) THEN 1 ELSE 0)
        /\ Cardinality(InUsers(x))' =
             Cardinality(InUsers(x)) + (IF InUser(p, x)' THEN 1 ELSE 0) - (IF InUser(p, x) THEN 1 ELSE 0)
    BY CountMove
  <2> QED BY <1>0, <2>1 DEF XInv, Counted
<1>3. Lock(x)'
  BY <1>0 DEF XInv, Lock, Locked, SchedApart, Apart
<1>4. /\ (\E q \in Proc : Loads(q, x))' <=> \E q \in Proc : Loads(q, x)
      /\ (\E q \in Proc : Writes(q, x))' <=> \E q \in Proc : Writes(q, x)
      /\ (\E q \in Proc : Swaps(q, x))' <=> \E q \in Proc : Swaps(q, x)
      /\ SchedWrites(x)' <=> SchedWrites(x)
  BY <1>1 DEF Apart, SchedApart
<1>5. Contents(x)'
  BY <1>0, <1>4 DEF XInv, Contents, Locked
<1> QED BY <1>2, <1>3, <1>5 DEF XInv

LEMMA ForkInv ==
    ASSUME IInv, NEW p \in Proc, NEW c \in Proc, Fork(p, c)
    PROVE  IInv'
<1>0. PICK x : x = textp[p]
  OBVIOUS
<1>1. /\ pc[p] = "user" /\ p \in loaded /\ p \notin asleep /\ pc[c] = "null" /\ p # c
      /\ textp' = [textp EXCEPT ![c] = x] /\ prog' = [prog EXCEPT ![c] = prog[p]]
      /\ loaded' = loaded \cup {c}
      /\ count' = IF x = none THEN count ELSE [count EXCEPT ![x] = @ + 1]
      /\ UNCHANGED <<iptr, flag, core, disk, newip, xp, asleep, spc, sproc>>
  BY <1>0 DEF Fork, Runs, First, Ready, swapper
<1>2. textp[c] = none /\ prog[c] = none /\ ~(spc = "inproc" /\ sproc = c) /\ ~(spc = "inproc" /\ sproc = p)
  BY <1>1 DEF IInv, PInv, Has, Swapper
<1>3. /\ textp' \in [Proc -> Seg \cup {none}] /\ textp'[c] = x
      /\ \A q \in Proc \ {c} : textp'[q] = textp[q]
      /\ prog' \in [Proc -> Ino \cup {none}] /\ prog'[c] = prog[p]
      /\ \A q \in Proc \ {c} : prog'[q] = prog[q]
      /\ count' \in [Seg -> Int] /\ (x # none => count'[x] = count[x] + 1)
      /\ \A y \in Seg \ {x} : count'[y] = count[y]
      /\ x \in Seg \cup {none}
  BY <1>0, <1>1 DEF IInv, Types
<1>4. x # none => /\ InUser(p, x) /\ "load" \notin flag[x] /\ ~Locked(x) /\ ccount[x] > 0 /\ iptr[x] # none
                  /\ ~SchedHolds(x) /\ ~SchedSleeps(x)
  <2>1. x # none => InUser(p, x) /\ x \in Seg
    BY <1>0, <1>1, <1>3 DEF InUser, InCore
  <2>2. x # none => "load" \notin flag[x]
    BY <1>0, <1>1 DEF IInv, PInv, Has, Loader, Waits
  <2> QED BY <2>1, <2>2, InUserIs
<1>5. prog[p] # none => x # none /\ iptr[x] = prog[p]
  BY <1>0 DEF IInv, PInv, Has
<1>6. spc \in {"inlock", "intext", "outtext"} => textp'[sproc] = textp[sproc]
  BY <1>1, <1>3 DEF IInv, Swapper
<1>7. \A y \in Seg : SchedApart(y) /\ (~SchedHolds(y) => ~SchedHolds(y)') /\ (~SchedSleeps(y) => ~SchedSleeps(y)')
  BY <1>1, <1>6 DEF SchedApart, SchedHolds, SchedSleeps, SchedWrites
<1>8. newip'[c] = none \/ \A q \in Proc \ {c} : newip[q] # newip'[c]
  BY <1>1 DEF IInv, Unique
<1>9. CASE /\ ccount' = IF textp[p] = none THEN ccount ELSE [ccount EXCEPT ![textp[p]] = @ + 1]
           /\ pc' = [pc EXCEPT ![c] = "user"] /\ UNCHANGED <<slock, after>>
  <2>1. /\ pc' \in [Proc -> PC] /\ pc'[c] = "user" /\ \A q \in Proc \ {c} : pc'[q] = pc[q]
        /\ ccount' \in [Seg -> Int] /\ (x # none => ccount'[x] = ccount[x] + 1)
        /\ \A y \in Seg \ {x} : ccount'[y] = ccount[y]
    BY <1>0, <1>3, <1>9 DEF IInv, Types, PC
  <2>2. Types'
    BY <1>1, <1>3, <1>9, <2>1 DEF IInv, Types
  <2>3. \A q \in Proc \ {c} : Own(q)
    BY <1>1, <1>3, <1>9, <2>1 DEF Own
  <2>4. ASSUME NEW y \in Seg \ {x} PROVE TextSame(y) /\ Apart(c, y)
    <3>1. TextSame(y)
      BY <1>1, <1>3, <2>1 DEF TextSame
    <3>2. Apart(c, y)
      BY <1>1, <1>2, <1>3, <2>1, TextAssumption
         DEF Apart, User, InUser, Writes, Swaps, Holds, Loads, Sleeps, InLock
    <3> QED BY <3>1, <3>2
  <2>5. PInv(c)'
    BY <1>1, <1>3, <1>4, <1>5, <2>1 DEF PInv, Placed, Has, Waits, Loader, InLock
  <2>6. ASSUME x \in Seg PROVE XInv(x)'
    <3>0. x # none
      BY <2>6, TextAssumption
    <3>1. /\ InUser(c, x)' /\ ~Holds(c, x)' /\ ~Loads(c, x)' /\ ~Sleeps(c, x)'
          /\ ~InUser(c, x) /\ ~User(c, x) /\ ~Loads(c, x)
      BY <1>1, <1>2, <1>3, <2>1, <3>0
         DEF User, InUser, InCore, Holds, Writes, Swaps, Loads, Loader, Waits, Sleeps, InLock
    <3>2. \A q \in Proc \ {c} : Apart(q, x)
      BY <2>3, OwnApart
    <3>3. count'[x] = count[x] + 1 /\ ccount'[x] = ccount[x] + 1
      BY <1>3, <2>1, <3>0
    <3>4. ~SchedHolds(x)' /\ ~SchedSleeps(x)'
      BY <1>4, <1>7, <2>6, <3>0
    <3> QED BY <1>1, <1>4, <2>6, <3>0, <3>1, <3>2, <3>3, <3>4, JoinX
  <2>7. SwapperWoken'
    BY <1>1, <2>1, WokenStays
  <2> QED BY <1>1, <1>8, <2>1, <2>2, <2>3, <2>4, <2>5, <2>6, <2>7, StepInv
<1>10. CASE /\ pc' = [pc EXCEPT ![p] = "idl", ![c] = "wrchild"]
            /\ slock' = slock \cup {c} /\ after' = [after EXCEPT ![p] = c] /\ UNCHANGED ccount
  <2>1. /\ pc' \in [Proc -> PC] /\ pc'[p] = "idl" /\ pc'[c] = "wrchild"
        /\ \A q \in Proc \ {p, c} : pc'[q] = pc[q]
        /\ after' \in [Proc -> {"user", "xalloc", "attached", "load"} \cup Proc] /\ after'[p] = c
        /\ \A q \in Proc \ {p} : after'[q] = after[q]
        /\ slock' \in SUBSET Proc /\ c \in slock' /\ \A q \in Proc \ {c} : q \in slock' <=> q \in slock
    BY <1>1, <1>10 DEF IInv, Types, PC
  <2>2. Types'
    BY <1>1, <1>3, <1>10, <2>1 DEF IInv, Types
  <2>3. \A q \in Proc \ {p, c} : Own(q)
    BY <1>1, <1>3, <2>1 DEF Own
  <2>4. ASSUME NEW y \in Seg PROVE Apart(p, y)
    BY <1>1, <1>3, <2>1
       DEF Apart, User, InUser, InCore, Writes, Swaps, Holds, Loads, Loader, Waits, Sleeps, InLock
  <2>5. PInv(c)'
    BY <1>1, <1>3, <1>4, <1>5, <2>1 DEF PInv, Placed, Has, Waits, Loader, InLock
  <2>6. PInv(p)'
    <3>1. Placed(p)'
      BY <1>1, <2>1 DEF Placed
    <3>2. Has(p)'
      BY <1>0, <1>1, <1>3, <1>4, <1>5, <2>1 DEF Has, Waits, Loader, InLock
    <3> QED BY <3>1, <3>2 DEF PInv
  <2>7. ASSUME NEW y \in Seg PROVE XInv(y)'
    <3>1. \A q \in Proc \ {c} : Apart(q, y)
      BY <2>3, <2>4, OwnApart
    <3>2. CASE y # x
      <4>1. TextSame(y)
        BY <1>1, <1>3, <1>10, <3>2 DEF TextSame
      <4>2. Apart(c, y)
        BY <1>1, <1>2, <1>3, <2>1, <3>2, TextAssumption
           DEF Apart, User, InUser, Writes, Swaps, Holds, Loads, Sleeps, InLock
      <4> QED BY <1>7, <3>1, <4>1, <4>2, XFrame
    <3>3. CASE y = x
      <4>0. x # none
        BY <3>3, TextAssumption
      <4>1. /\ User(c, y)' /\ ~User(c, y) /\ ~InUser(c, y)' /\ ~InUser(c, y)
            /\ ~Loads(c, y)' /\ ~Loads(c, y) /\ ~Holds(c, y)' /\ ~Holds(c, y) /\ ~Sleeps(c, y)'
        BY <1>1, <1>2, <1>3, <2>1, <3>3, <4>0
           DEF User, InUser, InCore, Holds, Writes, Swaps, Loads, Loader, Waits, Sleeps, InLock
      <4>2. count'[y] = count[y] + 1
        BY <1>3, <3>3, <4>0
      <4> QED BY <1>1, <1>7, <1>10, <3>1, <4>1, <4>2, ShareX
    <3> QED BY <3>2, <3>3
  <2>8. ASSUME NEW q \in Proc \ {p, c}, pc[q] = "idl" PROVE after[q] # p /\ after[q] # c
    BY <1>1, <2>8 DEF IInv, PInv, Placed
  <2>9. SwapperWoken'
    BY <1>1, <2>1, WokenStays
  <2> QED BY <1>1, <2>1, <2>2, <2>3, <2>5, <2>6, <2>7, <2>8, <2>9, PairInv
<1> QED BY <1>9, <1>10 DEF Fork

LEMMA ForkedInv ==
    ASSUME IInv, NEW p \in Proc, Forked(p)
    PROVE  IInv'
<1>0. PICK c : c = after[p]
  OBVIOUS
<1> DEFINE wakes == {} \cup IF spc = "runout" THEN {"sched"} ELSE {}
<1>1. /\ pc[p] = "idl" /\ pc' = [pc EXCEPT ![p] = "user", ![c] = "user"]
      /\ loaded' = loaded \ {c} /\ slock' = slock \ {c} /\ Resched({}, wakes)
      /\ after' = [after EXCEPT ![p] = "user"]
      /\ UNCHANGED text /\ UNCHANGED <<textp, prog, newip, xp, spc, sproc>>
  BY <1>0 DEF Forked, Out, user, swapper
<1>2. wakes \in SUBSET (Proc \cup {"sched"}) /\ (spc = "runout" => "sched" \in wakes)
  OBVIOUS
<1> HIDE DEF wakes
<1>3. c \in Proc /\ pc[c] = "wrchild" /\ p # c /\ p \in loaded /\ c \in loaded
  BY <1>0, <1>1 DEF IInv, PInv, Placed
<1>4. /\ asleep' \in SUBSET (Proc \cup {"sched"}) /\ \A q \in Proc : q \in asleep' => q \in asleep
      /\ "sched" \in asleep' => "sched" \in asleep /\ "sched" \notin wakes
  <2>1. {} \in SUBSET Proc
    OBVIOUS
  <2> QED BY <1>1, <1>2, <2>1, ReschedIs DEF IInv
<1>5. /\ pc' \in [Proc -> PC] /\ pc'[p] = "user" /\ pc'[c] = "user"
      /\ \A q \in Proc \ {p, c} : pc'[q] = pc[q]
      /\ after' \in [Proc -> {"user", "xalloc", "attached", "load"} \cup Proc]
      /\ \A q \in Proc \ {p} : after'[q] = after[q]
  BY <1>1, <1>3 DEF IInv, Types, PC
<1>6. Types'
  BY <1>1, <1>4, <1>5 DEF IInv, Types, text
<1>7. \A q \in Proc \ {p, c} : Own(q)
  BY <1>1, <1>4, <1>5 DEF Own
<1>8. ASSUME NEW y \in Seg PROVE Apart(p, y)
  BY <1>1, <1>3, <1>5
     DEF Apart, User, InUser, InCore, Writes, Swaps, Holds, Loads, Loader, Waits, Sleeps, InLock
<1>9. ASSUME NEW y \in Seg PROVE Apart(c, y)
  <2>1. ~(spc = "inproc" /\ sproc = c)
    BY <1>3 DEF IInv, Swapper
  <2> QED BY <1>1, <1>3, <1>5, <2>1
     DEF Apart, User, InUser, InCore, Writes, Swaps, Holds, Loads, Loader, Waits, Sleeps, InLock
<1>10. ASSUME NEW y \in Seg PROVE XInv(y)'
  <2>1. \A q \in Proc : Apart(q, y)
    BY <1>7, <1>8, <1>9, OwnApart
  <2>2. SchedApart(y)
    BY <1>1, <1>4 DEF SchedApart, SchedHolds, SchedSleeps, SchedWrites
  <2>3. TextSame(y)
    BY <1>1 DEF text, TextSame
  <2> QED BY <2>1, <2>2, <2>3, XFrame
<1>11. PInv(p)' /\ PInv(c)'
  <2>1. ASSUME NEW q \in {p, c} PROVE PInv(q)'
    BY <1>1, <1>3, <1>5 DEF IInv, PInv, Placed, Has, Waits, Loader, InLock, text
  <2> QED BY <2>1
<1>12. ASSUME NEW q \in Proc \ {p, c}, pc[q] = "idl" PROVE after[q] # p /\ after[q] # c
  <2>1. after[q] # p
    BY <1>1, <1>12 DEF IInv, PInv, Placed
  <2>2. after[q] # c
    BY <1>0, <1>1, <1>12 DEF IInv, Unique
  <2> QED BY <2>1, <2>2
<1>13. SwapperWoken'
  BY <1>1, <1>2, <1>4 DEF SwapperWoken
<1> QED BY <1>1, <1>3, <1>4, <1>5, <1>6, <1>7, <1>10, <1>11, <1>12, <1>13, PairInv DEF text

-----------------------------------------------------------------------------
(* sched().  Processes stay where they are.                                *)
ProcSame == UNCHANGED <<pc, after, textp, prog, newip, xp>>

LEMMA SchedInv ==
    ASSUME IInv, Types', ProcSame, UNCHANGED iptr,
           \A y \in Seg : "load" \in flag'[y] <=> "load" \in flag[y],
           \A q \in Proc : Placed(q)', \A y \in Seg : XInv(y)', Swapper'
    PROVE  IInv'
<1>1. ASSUME NEW q \in Proc PROVE PInv(q)'
  <2>1. textp[q] # none => textp[q] \in Seg
    BY DEF IInv, Types
  <2>2. Has(q)
    BY DEF IInv, PInv
  <2>3. textp[q] # none => ("load" \in flag'[textp[q]] <=> "load" \in flag[textp[q]])
    BY <2>1
  <2>4. Has(q)'
    BY <2>2, <2>3 DEF ProcSame, Has, Waits, Loader
  <2> QED BY <2>4 DEF PInv
<1>2. Unique'
  BY DEF IInv, Unique, ProcSame
<1> QED BY <1>1, <1>2 DEF IInv

(* Only s is moved. *)
Moves(s) ==
    /\ \A q \in Proc : /\ q # s => (q \in loaded' <=> q \in loaded)
                       /\ q # s => ((sproc' = q /\ spc' = "inproc") <=> (sproc = q /\ spc = "inproc"))
                       /\ q \in asleep' => q \in asleep

LEMMA MovesApart ==
    ASSUME ProcSame, NEW s, Moves(s), NEW q \in Proc, NEW y
    PROVE  /\ User(q, y)' <=> User(q, y)
           /\ Writes(q, y)' <=> Writes(q, y)
           /\ Swaps(q, y)' <=> Swaps(q, y)
           /\ Holds(q, y)' <=> Holds(q, y)
           /\ Loads(q, y)' <=> Loads(q, y)
           /\ Sleeps(q, y)' => Sleeps(q, y)
           /\ q # s \/ textp[s] # y \/ (InCore(s)' <=> InCore(s)) => Apart(q, y)
<1>1. /\ User(q, y)' <=> User(q, y)
      /\ Writes(q, y)' <=> Writes(q, y)
      /\ Swaps(q, y)' <=> Swaps(q, y)
      /\ Holds(q, y)' <=> Holds(q, y)
      /\ Loads(q, y)' <=> Loads(q, y)
  BY DEF ProcSame, User, Writes, Swaps, Holds, Loads, Loader, Waits
<1>2. Sleeps(q, y)' => Sleeps(q, y)
  BY DEF ProcSame, Moves, Sleeps
<1>3. ASSUME q # s \/ textp[s] # y \/ (InCore(s)' <=> InCore(s)) PROVE InUser(q, y)' <=> InUser(q, y)
  <2>1. q # s => (InCore(q)' <=> InCore(q))
    BY DEF ProcSame, Moves, InCore
  <2> QED BY <1>3, <2>1 DEF ProcSame, InUser
<1> QED BY <1>1, <1>2, <1>3 DEF Apart

LEMMA PlacedStays ==
    ASSUME IInv, ProcSame, \A q \in Proc : q \in loaded => q \in loaded',
           \A q \in Proc : q \in slock /\ q \in loaded => q \in slock'
    PROVE  \A q \in Proc : Placed(q)'
<1> SUFFICES ASSUME NEW q \in Proc PROVE Placed(q)'
  OBVIOUS
<1>1. Placed(q)
  BY DEF IInv, PInv
<1> QED BY <1>1 DEF ProcSame, Placed

(* A step that leaves the segments alone. *)
LEMMA SchedMove ==
    ASSUME IInv, ProcSame, UNCHANGED text, NEW s, Moves(s),
           textp[s] \in Seg => (InCore(s)' <=> InCore(s)),
           loaded' \in SUBSET Proc, slock' \in SUBSET Proc, asleep' \in SUBSET (Proc \cup {"sched"}),
           \A q \in Proc : q \in loaded => q \in loaded',
           \A q \in Proc : q \in slock /\ q \in loaded => q \in slock',
           spc' \notin {"intext", "outtext"}, spc \notin {"intext", "outtext"},
           spc' = "inlock" => "sched" \notin asleep',
           Swapper'
    PROVE  IInv'
<1>1. Types'
  BY DEF IInv, Types, ProcSame, text
<1>2. \A q \in Proc : Placed(q)'
  BY PlacedStays
<1>3. ASSUME NEW y \in Seg PROVE XInv(y)'
  <2>1. \A q \in Proc : Apart(q, y)
    BY MovesApart
  <2>2. SchedApart(y)
    BY DEF SchedApart, SchedHolds, SchedWrites, SchedSleeps
  <2>3. TextSame(y)
    BY DEF text, TextSame
  <2> QED BY <2>1, <2>2, <2>3, XFrame
<1> QED BY <1>1, <1>2, <1>3, SchedInv DEF text

LEMMA IdleInv ==
    ASSUME IInv, SchedIdle
    PROVE  IInv'
<1>1. /\ spc = "loop" /\ SchedReady = {} /\ spc' = "runout" /\ Resched({"sched"}, {}) /\ ProcSame
      /\ UNCHANGED text /\ UNCHANGED <<loaded, slock, sproc>>
  BY DEF SchedIdle, ProcSame, user
<1>2. asleep' = asleep \cup {"sched"}
  BY <1>1 DEF Resched
<1>3. asleep' \in SUBSET (Proc \cup {"sched"}) /\ loaded' \in SUBSET Proc /\ slock' \in SUBSET Proc
  BY <1>1, <1>2 DEF IInv, Types
<1>4. SchedReady' = {}
  BY <1>1, <1>2 DEF SchedReady, ProcSame
<1>5. Swapper'
  BY <1>1, <1>4 DEF Swapper, SwapperWoken
<1>6. Moves(none)
  BY <1>1, <1>2, TextAssumption DEF Moves
<1>7. InCore(none)' <=> InCore(none)
  BY <1>1 DEF InCore, ProcSame
<1> QED BY <1>1, <1>3, <1>5, <1>6, <1>7, SchedMove

LEMMA LoopInv ==
    ASSUME IInv, SchedWoken \/ Runin \/ SwapOutDone \/ SwapinDone
    PROVE  IInv'
<1>1. /\ spc \in {"runout", "makeroom", "outproc", "inproc"} /\ spc' = "loop" /\ ProcSame
      /\ spc = "runout" => "sched" \notin asleep
      /\ UNCHANGED text /\ UNCHANGED asleep
      /\ loaded' = loaded \cup (IF spc = "inproc" THEN {sproc} ELSE {})
      /\ slock' = slock \ (IF spc = "outproc" THEN {sproc} ELSE {})
  BY DEF SchedWoken, Runin, SwapOutDone, SwapinDone, ProcSame, user
<1>2. spc \in {"inproc", "outproc"} => sproc \in Proc \ loaded
  BY DEF IInv, Swapper
<1>3. asleep' \in SUBSET (Proc \cup {"sched"}) /\ loaded' \in SUBSET Proc /\ slock' \in SUBSET Proc
  BY <1>1, <1>2 DEF IInv, Types
<1>4. Swapper'
  BY <1>1 DEF IInv, Swapper, SwapperWoken
<1>0. PICK s : s = sproc
  OBVIOUS
<1>5. Moves(s)
  BY <1>0, <1>1, <1>2 DEF Moves
<1>6. InCore(s)' <=> InCore(s)
  <2>1. CASE spc = "inproc"
    <3>1. pc[s] \notin {"wrtext", "wrproc", "xread", "wrchild"}
      BY <1>0, <1>2, <2>1 DEF IInv, PInv, Placed
    <3> QED BY <1>0, <1>1, <2>1, <3>1 DEF InCore, ProcSame
  <2>2. CASE spc # "inproc"
    BY <1>0, <1>1, <2>2 DEF InCore, ProcSame
  <2> QED BY <2>1, <2>2
<1>7. /\ \A q \in Proc : q \in loaded => q \in loaded'
      /\ \A q \in Proc : q \in slock /\ q \in loaded => q \in slock'
  BY <1>1, <1>2
<1> QED BY <1>1, <1>3, <1>4, <1>5, <1>6, <1>7, SchedMove

LEMMA SwapinInv ==
    ASSUME IInv, NEW p \in Proc, Swapin(p)
    PROVE  IInv'
<1>1. /\ spc = "loop" /\ p \notin loaded /\ pc[p] # "null" /\ sproc' = p /\ ProcSame
      /\ \/ spc' = "inproc" /\ textp[p] = none
         \/ spc' = "inlock" /\ textp[p] # none
         \/ spc' = "makeroom"
      /\ UNCHANGED text /\ UNCHANGED <<asleep, loaded, slock>>
  BY DEF Swapin, SchedReady, ProcSame, user
<1>2. "sched" \notin asleep
  BY <1>1 DEF IInv, Swapper
<1>3. asleep' \in SUBSET (Proc \cup {"sched"}) /\ loaded' \in SUBSET Proc /\ slock' \in SUBSET Proc
  BY <1>1 DEF IInv, Types
<1>4. Swapper'
  BY <1>1, <1>2 DEF IInv, Types, Swapper, SwapperWoken, ProcSame
<1>5. Moves(p)
  BY <1>1 DEF Moves
<1>6. textp[p] \in Seg => (InCore(p)' <=> InCore(p))
  BY <1>1, TextAssumption DEF InCore, ProcSame
<1>7. spc' \notin {"intext", "outtext"} /\ spc' = "inlock" => "sched" \notin asleep'
  BY <1>1, <1>2
<1> QED BY <1>1, <1>2, <1>3, <1>4, <1>5, <1>6, <1>7, SchedMove

(* A step about the segment of s. *)
LEMMA SchedSeg ==
    ASSUME IInv, Types', ProcSame, NEW s \in Proc, NEW x \in Seg, textp[s] = x, Moves(s),
           sproc' = s, sproc = s \/ spc = "makeroom", UNCHANGED iptr,
           \A y \in Seg \ {x} : TextSame(y), "load" \in flag'[x] <=> "load" \in flag[x],
           \A q \in Proc : Placed(q)', XInv(x)', Swapper'
    PROVE  IInv'
<1>1. ASSUME NEW y \in Seg PROVE XInv(y)'
  <2>1. CASE y = x
    BY <2>1
  <2>2. CASE y # x
    <3>1. \A q \in Proc : Apart(q, y)
      BY <2>2, MovesApart
    <3>2. SchedApart(y)
      BY <2>2 DEF ProcSame, SchedApart, SchedHolds, SchedWrites, SchedSleeps
    <3> QED BY <2>2, <3>1, <3>2, XFrame
  <2> QED BY <2>1, <2>2
<1>2. \A y \in Seg : "load" \in flag'[y] <=> "load" \in flag[y]
  BY DEF TextSame
<1> QED BY <1>1, <1>2, SchedInv

LEMMA SwapinLockInv ==
    ASSUME IInv, SwapinLock
    PROVE  IInv'
<1>0. PICK s, x : s = sproc /\ x = textp[s]
  OBVIOUS
<1>1. /\ spc = "inlock" /\ "sched" \notin asleep /\ ProcSame
      /\ UNCHANGED <<iptr, count, disk, loaded, slock, sproc>>
  BY DEF SwapinLock, ProcSame, user
<1>2. s \in Proc /\ s \notin loaded /\ pc[s] # "null" /\ x \in Seg /\ sproc = s /\ sproc' = s
  BY <1>0, <1>1 DEF IInv, Swapper
<1>3. x # none /\ iptr[x] # none
  BY <1>0, <1>2, TextAssumption DEF IInv, PInv, Has
<1>4. \A q \in Proc : Placed(q)'
  BY <1>1, PlacedStays
<1>5. CASE Locked(x)
  <2>1. /\ flag' = [flag EXCEPT ![x] = @ \cup {"want"}] /\ Resched({"sched"}, {})
        /\ UNCHANGED <<core, ccount, spc>>
    BY <1>0, <1>5 DEF SwapinLock
  <2>2. asleep' = asleep \cup {"sched"}
    BY <1>1, <2>1 DEF Resched
  <2>3. /\ flag' \in [Seg -> SUBSET Flags] /\ flag'[x] = flag[x] \cup {"want"}
        /\ "load" \in flag'[x] <=> "load" \in flag[x]
        /\ \A y \in Seg \ {x} : TextSame(y)
    BY <1>1, <1>2, <2>1 DEF IInv, Types, Flags, TextSame
  <2>4. Types'
    BY <1>1, <2>1, <2>2, <2>3 DEF IInv, Types, ProcSame
  <2>5. Moves(s)
    BY <1>1, <2>1, <2>2, TextAssumption DEF Moves
  <2>6. InCore(s)' <=> InCore(s)
    BY <1>1, <2>1 DEF InCore, ProcSame
  <2>7. XInv(x)'
    <3>1. \A q \in Proc : Apart(q, x)
      BY <1>1, <2>5, <2>6, MovesApart
    <3>2. (SchedHolds(x)' <=> SchedHolds(x)) /\ (SchedWrites(x)' <=> SchedWrites(x))
      BY <1>1, <2>1 DEF SchedHolds, SchedWrites
    <3>3. \A q \in Proc :
             /\ User(q, x)' <=> User(q, x)
             /\ InUser(q, x)' <=> InUser(q, x)
             /\ Writes(q, x)' <=> Writes(q, x)
             /\ Swaps(q, x)' <=> Swaps(q, x)
             /\ Holds(q, x)' <=> Holds(q, x)
             /\ Loads(q, x)' <=> Loads(q, x)
      BY <3>1 DEF Apart
    <3> QED BY <1>1, <1>2, <1>5, <2>1, <2>3, <3>2, <3>3, WantX
  <2>8. Swapper'
    BY <1>0, <1>1, <1>2, <2>1 DEF Swapper, SwapperWoken, ProcSame
  <2> QED BY <1>0, <1>1, <1>2, <1>4, <2>3, <2>4, <2>5, <2>7, <2>8, SchedSeg
<1>6. CASE ~Locked(x) /\ UNCHANGED asleep
  <2>1. /\ ~SchedHolds(x) /\ ~SchedSleeps(x) /\ \A q \in Proc : ~Holds(q, x) /\ ~Sleeps(q, x)
    BY <1>2, <1>6 DEF IInv, XInv, Lock, Locked
  <2>2. ~InUser(s, x) /\ User(s, x)
    BY <1>0, <1>1, <1>2 DEF InUser, InCore, User
  <2>3. Moves(s)
    BY <1>1, <1>2, <1>6 DEF Moves
  <2>4. /\ \A q \in Proc \ {s} : Apart(q, x)
        /\ Loads(s, x)' <=> Loads(s, x)
        /\ ~Holds(s, x)' /\ ~Sleeps(s, x)' /\ User(s, x)'
    BY <1>1, <1>2, <2>1, <2>2, <2>3, MovesApart
  <2>5. ~SchedSleeps(x)'
    BY <1>1, <1>6 DEF SchedSleeps
  <2>6. CASE /\ spc' = "inproc" /\ ccount' = [ccount EXCEPT ![x] = @ + 1] /\ UNCHANGED flag
             /\ \/ ccount[x] > 0 /\ UNCHANGED core
                \/ "load" \in flag[x] /\ core' = [core EXCEPT ![x] = "junk"]
    <3>1. /\ ccount' \in [Seg -> Int] /\ ccount'[x] = ccount[x] + 1 /\ core' \in [Seg -> Content]
          /\ \/ ccount[x] > 0 /\ core'[x] = core[x]
             \/ "load" \in flag[x] /\ core'[x] = "junk"
          /\ \A y \in Seg \ {x} : TextSame(y)
      BY <1>1, <1>2, <2>6 DEF IInv, Types, Content, TextSame
    <3>2. Types'
      BY <1>1, <1>6, <2>6, <3>1 DEF IInv, Types, ProcSame
    <3>3. InUser(s, x)' /\ ~SchedHolds(x)'
      BY <1>0, <1>1, <1>2, <2>6 DEF InUser, InCore, SchedHolds, ProcSame
    <3>4. count'[x] = count[x] + (IF User(s, x) THEN 0 ELSE 1)
      BY <1>1, <1>2, <2>2 DEF IInv, Types
    <3>5. XInv(x)'
      BY <1>1, <1>2, <1>3, <1>6, <2>2, <2>4, <2>5, <2>6, <3>1, <3>3, <3>4, JoinX
    <3>6. Swapper'
      BY <1>1, <1>2, <1>6, <2>6 DEF Swapper, SwapperWoken, ProcSame
    <3> QED BY <1>0, <1>1, <1>2, <1>4, <2>3, <2>6, <3>1, <3>2, <3>5, <3>6, SchedSeg
  <2>7. CASE spc' = "makeroom" /\ UNCHANGED <<flag, core, ccount>>
    <3>1. UNCHANGED text
      BY <1>1, <2>7 DEF text
    <3>2. Swapper'
      BY <1>1, <1>6, <2>7 DEF Swapper, SwapperWoken
    <3>3. InCore(s)' <=> InCore(s)
      BY <1>1, <1>2, <2>7 DEF InCore, ProcSame
    <3>4. asleep' \in SUBSET (Proc \cup {"sched"}) /\ loaded' \in SUBSET Proc /\ slock' \in SUBSET Proc
      BY <1>1, <1>6 DEF IInv, Types
    <3> QED BY <1>1, <2>3, <2>7, <3>1, <3>2, <3>3, <3>4, SchedMove
  <2>8. CASE /\ ccount[x] = 0 /\ "load" \notin flag[x] /\ core' = [core EXCEPT ![x] = "junk"]
             /\ flag' = [flag EXCEPT ![x] = @ \cup {"lock"}]
             /\ spc' = "intext" /\ UNCHANGED ccount
    <3>1. /\ core' \in [Seg -> Content] /\ core'[x] = "junk"
          /\ flag' \in [Seg -> SUBSET Flags] /\ flag'[x] = flag[x] \cup {"lock"} /\ "load" \notin flag'[x]
          /\ \A y \in Seg \ {x} : TextSame(y)
      BY <1>1, <1>2, <2>8 DEF IInv, Types, Content, Flags, TextSame
    <3>2. Types'
      BY <1>1, <1>6, <2>8, <3>1 DEF IInv, Types, ProcSame
    <3>3. ~InUser(s, x)' /\ SchedHolds(x)' /\ ~SchedWrites(x)' /\ ~Writes(s, x)' /\ ~Swaps(s, x)'
      BY <1>0, <1>1, <1>2, <2>4, <2>8 DEF InUser, InCore, SchedHolds, SchedWrites, Holds, ProcSame
    <3>4. count'[x] = count[x] + (IF User(s, x) THEN 0 ELSE 1)
      BY <1>1, <1>2, <2>2 DEF IInv, Types
    <3>5. XInv(x)'
      BY <1>1, <1>2, <1>3, <1>6, <2>2, <2>4, <2>5, <2>8, <3>1, <3>3, <3>4, TakeX
    <3>6. Swapper'
      BY <1>0, <1>1, <1>2, <1>6, <2>8, <3>1 DEF Swapper, SwapperWoken, ProcSame
    <3> QED BY <1>0, <1>1, <1>2, <1>4, <2>3, <2>8, <3>1, <3>2, <3>5, <3>6, SchedSeg
  <2> QED BY <1>0, <1>6, <2>6, <2>7, <2>8 DEF SwapinLock
<1> QED BY <1>0, <1>5, <1>6 DEF SwapinLock

LEMMA SwapinTextInv ==
    ASSUME IInv, SwapinText
    PROVE  IInv'
<1>0. PICK s, x : s = sproc /\ x = textp[s]
  OBVIOUS
<1>1. /\ spc = "intext" /\ spc' = "inproc" /\ ProcSame
      /\ core' = [core EXCEPT ![x] = disk[x]] /\ ccount' = [ccount EXCEPT ![x] = @ + 1]
      /\ flag' = [flag EXCEPT ![x] = Unlocked(x)] /\ Resched({}, Wanting(x))
      /\ UNCHANGED <<iptr, count, disk, loaded, slock, sproc>>
  BY <1>0 DEF SwapinText, ProcSame, user
<1>2. /\ s \in Proc /\ s \notin loaded /\ pc[s] # "null" /\ x \in Seg /\ sproc = s /\ sproc' = s
      /\ "load" \notin flag[x] /\ "sched" \notin asleep
  BY <1>0, <1>1 DEF IInv, Swapper
<1>3. \A q \in Proc : Placed(q)'
  BY <1>1, PlacedStays
<1>4. /\ asleep' \in SUBSET (Proc \cup {"sched"}) /\ \A q \in Proc : q \in asleep' => q \in asleep
      /\ "sched" \in asleep' => "sched" \in asleep
      /\ \A q \in Proc : Sleeps(q, x) => q \notin asleep'
  <2>1. Wanting(x) \subseteq Wanting(x) /\ Wanting(x) \subseteq Wanting(x) \cup {"sched"}
    OBVIOUS
  <2> QED BY <1>1, <1>2, <2>1, WantingIs
<1>5. /\ core' \in [Seg -> Content] /\ core'[x] = disk[x]
      /\ ccount' \in [Seg -> Int] /\ ccount'[x] = ccount[x] + 1
      /\ flag' \in [Seg -> SUBSET Flags] /\ flag'[x] = Unlocked(x) /\ "load" \notin flag'[x]
      /\ \A y \in Seg \ {x} : TextSame(y)
  BY <1>1, <1>2 DEF Unlocked, IInv, Types, Content, TextSame
<1>6. Types'
  BY <1>1, <1>4, <1>5 DEF IInv, Types, ProcSame
<1>7. Moves(s)
  BY <1>1, <1>2, <1>4 DEF Moves
<1>8. XInv(x)'
  <2>1. SchedHolds(x) /\ ~SchedWrites(x) /\ User(s, x)
    BY <1>0, <1>1, <1>2 DEF SchedHolds, SchedWrites, User
  <2>2. Locked(x) /\ \A q \in Proc : ~Holds(q, x) /\ ~Writes(q, x)
    BY <1>2, <2>1 DEF IInv, XInv, Lock, Holds
  <2>3. ~SchedHolds(x)' /\ ~SchedSleeps(x)'
    BY <1>1 DEF SchedHolds, SchedSleeps
  <2>4. InUser(s, x)' /\ ~InUser(s, x)
    BY <1>0, <1>1, <1>2 DEF InUser, InCore, ProcSame
  <2>5. /\ \A q \in Proc \ {s} : Apart(q, x)
        /\ \A q \in Proc : ~Holds(q, x)' /\ ~Sleeps(q, x)'
    <3>1. ASSUME NEW q \in Proc
          PROVE  (Holds(q, x)' <=> Holds(q, x)) /\ (Sleeps(q, x)' => Sleeps(q, x)) /\ (q # s => Apart(q, x))
      BY <1>1, <1>7, MovesApart
    <3>2. \A q \in Proc : ~Sleeps(q, x)'
      BY <1>4, <3>1 DEF Sleeps
    <3> QED BY <2>2, <3>1, <3>2
  <2> QED BY <1>1, <1>2, <1>5, <2>1, <2>2, <2>3, <2>4, <2>5, ReadX
<1>9. Swapper'
  BY <1>1, <1>2, <1>4 DEF Swapper, SwapperWoken, ProcSame
<1> QED BY <1>0, <1>1, <1>2, <1>3, <1>5, <1>6, <1>7, <1>8, <1>9, SchedSeg

(* The process to swap out uses the copy in core. *)
LEMMA SwapOutInv ==
    ASSUME IInv, NEW p \in Proc, SwapOut(p)
    PROVE  IInv'
<1>0. PICK x : x = textp[p]
  OBVIOUS
<1>1. /\ spc = "makeroom" /\ p \in loaded /\ p \notin slock /\ sproc' = p /\ ProcSame
      /\ pc[p] \notin {"null", "idl"}
      /\ x # none => ~Locked(x)
      /\ loaded' = loaded \ {p} /\ slock' = slock \cup {p} /\ UNCHANGED asleep
  BY <1>0 DEF SwapOut, Victims, ProcSame, user
<1>2. /\ \/ spc' = "outproc" /\ UNCHANGED text /\ (x = none \/ ccount[x] = 0)
         \/ /\ x # none /\ Xccdec(x) /\ UNCHANGED <<iptr, count, disk>>
            /\ spc' = IF MustWrite(x) THEN "outtext" ELSE "outproc"
  BY <1>0 DEF SwapOut
<1>3. pc[p] \notin {"wrtext", "wrproc", "readi", "wrchild"} /\ "sched" \notin asleep /\ x \in Seg \cup {none}
  BY <1>0, <1>1 DEF IInv, PInv, Placed, Swapper, Types
<1>4. pc[p] # "xread"
  <2>1. ASSUME pc[p] = "xread" PROVE FALSE
    <3>1. x # none /\ x \in Seg /\ Holds(p, x)
      BY <1>0, <1>3, <2>1 DEF IInv, PInv, Has, Holds
    <3> QED BY <1>1, <3>1 DEF IInv, XInv, Lock
  <2> QED BY <2>1
<1>5. InCore(p) /\ ~InCore(p)'
  BY <1>1, <1>2, <1>3, <1>4 DEF InCore, ProcSame
<1>6. Moves(p)
  BY <1>1, <1>2 DEF Moves
<1>7. \A q \in Proc : Placed(q)'
  <2>1. ASSUME NEW q \in Proc PROVE Placed(q)'
    <3>1. Placed(q)
      BY DEF IInv, PInv
    <3> QED BY <1>1, <1>3, <1>4, <3>1 DEF ProcSame, Placed
  <2> QED BY <2>1
<1>8. asleep' \in SUBSET (Proc \cup {"sched"}) /\ loaded' \in SUBSET Proc /\ slock' \in SUBSET Proc
  BY <1>1 DEF IInv, Types
<1>9. CASE x = none
  <2>1. spc' = "outproc" /\ UNCHANGED text
    BY <1>2, <1>9
  <2>2. Types'
    BY <1>1, <1>8, <2>1 DEF IInv, Types, ProcSame, text
  <2>3. ASSUME NEW y \in Seg PROVE XInv(y)'
    <3>1. \A q \in Proc : Apart(q, y)
      BY <1>0, <1>1, <1>6, <1>9, MovesApart, TextAssumption
    <3>2. SchedApart(y)
      BY <1>1, <2>1 DEF SchedApart, SchedHolds, SchedWrites, SchedSleeps
    <3>3. TextSame(y)
      BY <2>1 DEF text, TextSame
    <3> QED BY <3>1, <3>2, <3>3, XFrame
  <2>4. Swapper'
    BY <1>1, <1>3, <2>1 DEF Swapper, SwapperWoken, ProcSame
  <2> QED BY <1>1, <1>7, <2>1, <2>2, <2>3, <2>4, SchedInv DEF text
<1>10. CASE x # none
  <2>1. x \in Seg /\ InUser(p, x) /\ ~InUser(p, x)' /\ User(p, x)'
    BY <1>0, <1>1, <1>3, <1>5, <1>10 DEF InUser, User, ProcSame
  <2>2. ccount[x] > 0 /\ ~Holds(p, x) /\ ~Sleeps(p, x) /\ count[x] \in Int
    BY <2>1, InUserIs
  <2>3. /\ Xccdec(x) /\ UNCHANGED <<iptr, count, disk>>
        /\ spc' = IF MustWrite(x) THEN "outtext" ELSE "outproc"
    BY <1>2, <1>10, <2>2
  <2>4. /\ ccount' \in [Seg -> Int] /\ flag' \in [Seg -> SUBSET Flags] /\ core' \in [Seg -> Content]
        /\ "load" \in flag'[x] <=> "load" \in flag[x]
        /\ \A y \in Seg \ {x} : TextSame(y)
    BY <2>1, <2>3 DEF IInv, Types, Content, TextSame, Xccdec, Flags
  <2>5. Types'
    BY <1>1, <1>8, <2>3, <2>4 DEF IInv, Types, ProcSame
  <2>6. XInv(x)'
    <3>1. \A q \in Proc \ {p} : Apart(q, x)
      BY <1>1, <1>6, MovesApart
    <3>2. /\ Loads(p, x)' <=> Loads(p, x)
          /\ ~Holds(p, x)' /\ ~Sleeps(p, x)' /\ ~Swaps(p, x)'
      BY <1>1, <1>6, <2>2, MovesApart DEF Holds
    <3>3. (MustWrite(x) => SchedWrites(x)') /\ (~MustWrite(x) => ~SchedHolds(x)') /\ ~SchedSleeps(x)'
      BY <1>0, <1>1, <2>3 DEF SchedWrites, SchedHolds, SchedSleeps, ProcSame
    <3>4. count'[x] = count[x] - (IF User(p, x)' THEN 0 ELSE 1)
      BY <2>1, <2>2, <2>3
    <3> QED BY <2>1, <2>3, <3>1, <3>2, <3>3, <3>4, XccdecX
  <2>7. Swapper'
    BY <1>0, <1>1, <1>3, <2>1, <2>3 DEF Swapper, SwapperWoken, ProcSame
  <2> QED BY <1>0, <1>1, <1>6, <1>7, <2>1, <2>3, <2>4, <2>5, <2>6, <2>7, SchedSeg
<1> QED BY <1>9, <1>10

LEMMA SwapOutTextInv ==
    ASSUME IInv, SwapOutText
    PROVE  IInv'
<1>0. PICK s, x : s = sproc /\ x = textp[s]
  OBVIOUS
<1>1. /\ spc = "outtext" /\ spc' = "outproc" /\ ProcSame /\ Written(x) /\ Resched({}, Wanting(x))
      /\ UNCHANGED <<loaded, slock, sproc>>
  BY <1>0 DEF SwapOutText, ProcSame, user
<1>2. /\ s \in Proc /\ s \notin loaded /\ pc[s] # "null" /\ x \in Seg /\ sproc = s /\ sproc' = s
      /\ "sched" \notin asleep
  BY <1>0, <1>1 DEF IInv, Swapper
<1>3. \A q \in Proc : Placed(q)'
  BY <1>1, PlacedStays
<1>4. /\ asleep' \in SUBSET (Proc \cup {"sched"}) /\ \A q \in Proc : q \in asleep' => q \in asleep
      /\ "sched" \in asleep' => "sched" \in asleep
      /\ \A q \in Proc : Sleeps(q, x) => q \notin asleep'
  <2>1. Wanting(x) \subseteq Wanting(x) /\ Wanting(x) \subseteq Wanting(x) \cup {"sched"}
    OBVIOUS
  <2> QED BY <1>1, <1>2, <2>1, WantingIs
<1>5. /\ UNCHANGED <<iptr, count, ccount>>
      /\ disk' \in [Seg -> Content] /\ core' \in [Seg -> Content] /\ flag' \in [Seg -> SUBSET Flags]
      /\ "load" \in flag'[x] <=> "load" \in flag[x]
      /\ \A y \in Seg \ {x} : TextSame(y)
  BY <1>1, <1>2 DEF Written, Unlocked, IInv, Types, Content, TextSame
<1>6. Types'
  BY <1>1, <1>4, <1>5 DEF IInv, Types, ProcSame
<1>7. Moves(s) /\ (InCore(s)' <=> InCore(s))
  BY <1>1, <1>2, <1>4 DEF Moves, InCore, ProcSame
<1>8. XInv(x)'
  <2>1. SchedHolds(x) /\ SchedWrites(x)
    BY <1>0, <1>1, <1>2 DEF SchedHolds, SchedWrites
  <2>2. \A q \in Proc : ~Holds(q, x)
    BY <1>2, <2>1 DEF IInv, XInv, Lock
  <2>3. ~SchedHolds(x)' /\ ~SchedSleeps(x)'
    BY <1>1 DEF SchedHolds, SchedSleeps
  <2>4. ASSUME NEW q \in Proc
        PROVE  /\ User(q, x)' <=> User(q, x)
               /\ InUser(q, x)' <=> InUser(q, x)
               /\ ~Holds(q, x)' /\ ~Sleeps(q, x)'
    <3>1. Apart(q, x)
      BY <1>1, <1>7, MovesApart
    <3> QED BY <1>4, <2>2, <3>1 DEF Apart, Sleeps
  <2> QED BY <1>1, <1>2, <2>1, <2>3, <2>4, WrittenX
<1>9. Swapper'
  BY <1>1, <1>2, <1>4 DEF Swapper, SwapperWoken, ProcSame
<1> QED BY <1>0, <1>1, <1>2, <1>3, <1>5, <1>6, <1>7, <1>8, <1>9, SchedSeg

-----------------------------------------------------------------------------
(* The invariant holds.                                                    *)
LEMMA InitInv == Init => IInv
<1> SUFFICES ASSUME Init PROVE IInv
  OBVIOUS
<1>1. Types
  BY DEF Init, Types, Content, PC
<1>2. Unique /\ Swapper
  BY DEF Init, Unique, Swapper, SwapperWoken
<1>3. \A p \in Proc : PInv(p)
  BY DEF Init, PInv, Placed, Has, Waits, Loader, InLock
<1>4. ASSUME NEW x \in Seg PROVE XInv(x)
  <2>1. iptr[x] = none /\ ~Locked(x) /\ core[x] = "none" /\ disk[x] = "none"
    BY DEF Init, Locked
  <2>2. ~SchedHolds(x) /\ ~SchedWrites(x) /\ ~SchedSleeps(x)
    BY DEF Init, SchedHolds, SchedWrites, SchedSleeps
  <2>3. \A p \in Proc : ~Holds(p, x) /\ ~Writes(p, x) /\ ~Swaps(p, x) /\ ~Sleeps(p, x)
    BY DEF Init, Holds, Writes, Swaps, Sleeps
  <2> QED BY <2>1, <2>2, <2>3 DEF XInv, Counted, Lock, Contents
<1> QED BY <1>1, <1>2, <1>3, <1>4 DEF IInv

LEMMA StutterInv ==
    ASSUME IInv, UNCHANGED vars
    PROVE  IInv'
<1>1. ProcSame /\ UNCHANGED text /\ UNCHANGED <<asleep, loaded, slock, spc, sproc>>
  BY DEF vars, user, swapper, ProcSame
<1>2. Types' /\ Unique'
  BY <1>1 DEF IInv, Types, Unique, ProcSame, text
<1>3. \A q \in Proc : Placed(q)'
  BY <1>1, PlacedStays
<1>4. Swapper'
  BY <1>1 DEF IInv, Swapper, SwapperWoken, SchedReady, ProcSame, text
<1>5. ASSUME NEW y \in Seg PROVE XInv(y)'
  <2>1. \A q \in Proc : Own(q)
    BY <1>1 DEF Own, ProcSame
  <2>2. \A q \in Proc : Apart(q, y)
    BY <2>1, OwnApart
  <2>3. SchedApart(y) /\ TextSame(y)
    BY <1>1 DEF SchedApart, SchedHolds, SchedWrites, SchedSleeps, TextSame, text, ProcSame
  <2> QED BY <2>2, <2>3, XFrame
<1> QED BY <1>1, <1>2, <1>3, <1>4, <1>5, SchedInv DEF text

LEMMA NextInv ==
    ASSUME IInv, ~astray', [Next]_vars
    PROVE  IInv'
<1>1. CASE Sched
  <2>1. CASE \E p \in Proc : Swapin(p) \/ SwapOut(p)
    BY <2>1, SwapinInv, SwapOutInv
  <2> QED BY <1>1, <2>1, IdleInv, LoopInv, SwapinLockInv, SwapinTextInv, SwapOutTextInv DEF Sched
<1>2. ASSUME NEW p \in Proc,
             \/ Xfree(p) \/ XfreeWritten(p) \/ Expand(p) \/ ExpandText(p) \/ SwappedSelf(p)
             \/ \E ip \in Ino : Exec(p, ip)
             \/ Exit(p) \/ Exited(p) \/ ExecExpand(p) \/ Xalloc(p)
             \/ XreadDone(p) \/ Attached(p) \/ Load(p) \/ Loaded(p)
             \/ Spawn(p) \/ Forked(p) \/ \E c \in Proc : Fork(p, c)
             \/ Block(p) \/ Setrun(p)
      PROVE  IInv'
  BY <1>2, XfreeInv, XfreeWrittenInv, ExpandInv, ExpandTextInv, SwappedSelfInv, CallInv, ExitedInv,
     ExecExpandInv, XallocInv, XreadDoneInv, AttachedInv, LoadInv, LoadedInv,
     SpawnInv, ForkedInv, ForkInv, BlockInv
<1>3. ASSUME NEW p \in Proc, AttachWoken(p) \/ Xuntext(p) \/ \E x \in Seg : Xrele(p, x)
      PROVE  IInv'
  BY <1>3, AttachWokenInv, XuntextInv, XreleInv
<1>4. CASE UNCHANGED vars
  BY <1>4, StutterInv
<1> QED BY <1>1, <1>2, <1>3, <1>4 DEF Next

(* Until a call goes on with an entry that was freed, every state of the   *)
(* program has the invariant.                                              *)
THEOREM Invariance == Spec => [](~astray => IInv)
<1>1. Init => (~astray => IInv)
  BY InitInv
<1>2. [Next]_vars /\ ~astray' => ~astray
  BY DEF Next, vars
<1>3. (~astray => IInv) /\ [Next]_vars => (~astray => IInv)'
  BY <1>2, NextInv
<1> QED BY <1>1, <1>3, PTL DEF Spec

(* A process that runs has the text of the program that it executed, in    *)
(* core: no order of exec, fork, exit, unlink and swapping by xalloc(),    *)
(* xfree(), xccdec() and swapin() gives it another one or an old one.      *)
THEOREM TextIsRight == Spec => []RightText
<1>1. (~astray => IInv) => RightText
  <2> SUFFICES ASSUME IInv, NEW p \in Proc, p \in loaded, pc[p] = "user", prog[p] # none
               PROVE  textp[p] # none /\ iptr[textp[p]] = prog[p] /\ core[textp[p]] = prog[p]
    BY DEF RightText, IInv, Types
  <2>1. textp[p] # none /\ iptr[textp[p]] = prog[p] /\ "load" \notin flag[textp[p]] /\ textp[p] \in Seg
    BY DEF IInv, Types, PInv, Has, Loader, Waits
  <2>2. InUser(p, textp[p])
    BY DEF InUser, InCore
  <2>3. ccount[textp[p]] > 0 /\ iptr[textp[p]] # none
    BY <2>1, <2>2, InUserIs
  <2> QED BY <2>1, <2>3 DEF IInv, XInv, Contents
<1> QED BY <1>1, Invariance, PTL

(* x_count and x_ccount count the users and the users in core through      *)
(* exec, fork, exit and swapping; core is there for a segment as long as   *)
(* one of the latter is.                                                   *)
THEOREM TextCounted == Spec => []CountsRight
<1>1. (~astray => IInv) => CountsRight
  <2> SUFFICES ASSUME IInv, NEW x \in Seg
               PROVE  /\ iptr[x] # none =>
                           /\ count[x] = Cardinality({p \in Proc : textp[p] = x})
                           /\ ccount[x] = Cardinality({p \in Proc : textp[p] = x /\ InCore(p)})
                           /\ ccount[x] > 0 => core[x] # "none"
                           /\ core[x] # "none" => ccount[x] > 0 \/ Locked(x)
                      /\ iptr[x] = none =>
                           core[x] = "none" /\ disk[x] = "none" /\ \A p \in Proc : textp[p] # x
    BY DEF CountsRight
  <2>1. /\ Users(x) = {p \in Proc : textp[p] = x}
        /\ InUsers(x) = {p \in Proc : textp[p] = x /\ InCore(p)}
    BY DEF Users, InUsers, User, InUser
  <2>2. XInv(x)
    BY DEF IInv
  <2>3. iptr[x] = none => \A p \in Proc : textp[p] # x
    BY FreeIs
  <2> QED BY <2>1, <2>2, <2>3 DEF XInv, Counted, Contents
<1> QED BY <1>1, Invariance, PTL

(* A segment is locked exactly while one process or sched() moves it, only *)
(* while nobody in core uses it, and whoever sleeps in xlock() is noted    *)
(* for xunlock().                                                          *)
THEOREM TextLocked == Spec => []LockedOut
<1>1. (~astray => IInv) => LockedOut
  <2> SUFFICES ASSUME IInv, NEW x \in Seg
               PROVE  /\ Locked(x) => ccount[x] = 0
                      /\ Cardinality(Holders(x)) = IF Locked(x) THEN 1 ELSE 0
                      /\ Sleepers(x) \cap asleep # {} => {"lock", "want"} \subseteq flag[x]
    BY DEF LockedOut
  <2>1. Lock(x)
    BY DEF IInv, XInv
  <2>2. \A h : h \in Holders(x) <=> (h \in Proc /\ Holds(h, x)) \/ (h = "sched" /\ SchedHolds(x))
    BY DEF Holders, Holds, Writes, Swaps, SchedHolds
  <2>3. CASE ~Locked(x)
    <3>1. Holders(x) = {}
      BY <2>1, <2>2, <2>3 DEF Lock
    <3> QED BY <2>1, <2>3, <3>1, FS_EmptySet DEF Lock, Locked, Sleepers, Sleeps, SchedSleeps
  <2>4. CASE Locked(x)
    <3>1. \E h : Holders(x) = {h}
      <4>1. CASE SchedHolds(x)
        <5>1. Holders(x) = {"sched"}
          BY <2>1, <2>2, <4>1 DEF Lock
        <5> QED BY <5>1
      <4>2. CASE ~SchedHolds(x)
        <5>1. PICK p \in Proc : Holds(p, x)
          BY <2>1, <2>4, <4>2 DEF Lock
        <5>2. Holders(x) = {p}
          BY <2>1, <2>2, <4>2, <5>1 DEF Lock
        <5> QED BY <5>2
      <4> QED BY <4>1, <4>2
    <3>2. Cardinality(Holders(x)) = 1
      BY <3>1, FS_Singleton
    <3>3. Sleepers(x) \cap asleep # {} => {"lock", "want"} \subseteq flag[x]
      BY <2>1 DEF Lock, Sleepers, Sleeps, SchedSleeps
    <3> QED BY <2>1, <2>4, <3>2, <3>3 DEF Lock
  <2> QED BY <2>3, <2>4
<1> QED BY <1>1, Invariance, PTL

(* setrun() and xswap() do not leave a process ready outside while sched() *)
(* sleeps for runout.                                                      *)
THEOREM SwapperIsWoken == Spec => []SwapperWoken
<1> DEFINE J == (~astray => IInv) /\ SwapperWoken
<1>1. Init => J
  BY InitInv DEF IInv, Swapper
<1>2. ASSUME J, [Next]_vars PROVE J'
  <2>1. CASE ~astray'
    <3>1. ~astray
      BY <1>2, <2>1 DEF Next, vars
    <3> QED BY <1>2, <2>1, <3>1, NextInv DEF IInv, Swapper
  <2>2. CASE astray' /\ astray
    <3>1. UNCHANGED vars
      BY <1>2, <2>2 DEF Next
    <3> QED BY <1>2, <2>2, <3>1 DEF vars, swapper, SwapperWoken, SchedReady
  <2>3. CASE astray' /\ ~astray
    <3>1. PICK p \in Proc : AttachWoken(p) \/ Xuntext(p) \/ \E x \in Seg : Xrele(p, x)
      BY <1>2, <2>3 DEF Next, vars
    <3>2. /\ UNCHANGED <<spc, asleep, loaded>>
          /\ \E place : pc' = [pc EXCEPT ![p] = place] /\ pc[p] # "null"
      BY <2>3, <3>1 DEF AttachWoken, Attach, AttachWait, Xuntext, Xrele, Untext, Runs, Start, Goto, swapper
    <3>3. \A q \in Proc : pc'[q] # "null" => pc[q] # "null"
      BY <1>2, <2>3, <3>2 DEF IInv, Types
    <3> QED BY <1>2, <2>3, <3>2, <3>3, WokenStays
  <2> QED BY <2>1, <2>2, <2>3
<1>3. J /\ [Next]_vars => J'
  BY <1>2
<1> QED BY <1>1, <1>3, PTL DEF Spec

-----------------------------------------------------------------------------
(* The counts of a free entry are what its last user left.                 *)
LEMMA LeftAlone ==
    ASSUME IInv, ~astray', [Next]_vars, NEW x \in Seg, iptr'[x] = none
    PROVE  ccount'[x] = ccount[x] /\ count'[x] \in {count[x], 0}
<1>1. \A p \in Proc : textp[p] # none => textp[p] \in Seg /\ iptr[textp[p]] # none
  BY DEF IInv, Types, PInv, Has
<1>2. count \in [Seg -> Int] /\ ccount \in [Seg -> Int] /\ iptr \in [Seg -> Ino \cup {none}]
  BY DEF IInv, Types
<1>3. CASE Sched
  <2>1. UNCHANGED <<iptr, count>>
    BY <1>3 DEF Sched, SchedIdle, SchedWoken, SwapinLock, SwapinText, SwapinDone, SwapOutText, SwapOutDone,
       Runin, Swapin, SwapOut, text, Written
  <2>2. spc \in {"inlock", "intext"} => textp[sproc] # x
    BY <1>1, <2>1, TextAssumption DEF IInv, Swapper
  <2>3. CASE SwapinLock \/ SwapinText
    BY <1>2, <2>1, <2>2, <2>3 DEF SwapinLock, SwapinText
  <2>4. CASE \E p \in Proc : SwapOut(p)
    BY <1>1, <1>2, <2>1, <2>4 DEF SwapOut, Xccdec, text
  <2>5. CASE ~(SwapinLock \/ SwapinText) /\ ~\E p \in Proc : SwapOut(p)
    <3>1. UNCHANGED ccount
      BY <1>3, <2>5 DEF Sched, SchedIdle, SchedWoken, SwapinDone, SwapOutText, SwapOutDone,
         Runin, Swapin, text, Written
    <3> QED BY <2>1, <3>1
  <2> QED BY <2>3, <2>4, <2>5
<1>4. ASSUME NEW p \in Proc, Xfree(p)
      PROVE  ccount'[x] = ccount[x] /\ count'[x] \in {count[x], 0}
  BY <1>1, <1>2, <1>4 DEF Xfree, Xccdec, text
<1>5. ASSUME NEW p \in Proc, Expand(p) \/ XreadDone(p) \/ \E c \in Proc : Fork(p, c)
      PROVE  ccount'[x] = ccount[x] /\ count'[x] \in {count[x], 0}
  <2>1. UNCHANGED iptr
    BY <1>5 DEF Expand, XreadDone, Fork, text
  <2>2. textp[p] # x
    BY <1>1, <2>1, TextAssumption
  <2>3. CASE Expand(p)
    BY <1>2, <2>2, <2>3 DEF Expand, Xccdec, text
  <2>4. CASE XreadDone(p)
    BY <1>2, <2>2, <2>4 DEF XreadDone
  <2>5. CASE \E c \in Proc : Fork(p, c)
    BY <1>2, <2>2, <2>5 DEF Fork
  <2> QED BY <1>5, <2>3, <2>4, <2>5
<1>6. ASSUME NEW p \in Proc, Xalloc(p) \/ AttachWoken(p)
      PROVE  ccount'[x] = ccount[x] /\ count'[x] \in {count[x], 0}
  <2>1. newip[p] # none
    BY <1>6 DEF IInv, PInv, Has, Waits, InLock, Xalloc, AttachWoken
  <2>2. CASE \E y \in Seg : iptr[y] = newip[p] /\ (AttachWait(p, y) \/ Attach(p, y))
    <3>1. PICK y \in Seg : iptr[y] = newip[p] /\ (AttachWait(p, y) \/ Attach(p, y))
      BY <2>2
    <3>2. y # x
      BY <2>1, <3>1 DEF AttachWait, Attach
    <3> QED BY <1>2, <3>1, <3>2 DEF AttachWait, Attach
  <2>3. CASE \E y \in Seg : New(p, y)
    <3>1. PICK y \in Seg : New(p, y)
      BY <2>3
    <3>2. y # x
      BY <1>2, <2>1, <3>1 DEF New
    <3> QED BY <1>2, <3>1, <3>2 DEF New
  <2>4. CASE NoText(p)
    BY <2>4 DEF NoText, text
  <2>5. CASE \E y \in Seg : AttachWait(p, y)
    BY <2>5 DEF AttachWait
  <2>6. AttachWoken(p) => xp[p] \in Seg /\ (AttachWait(p, xp[p]) \/ iptr[xp[p]] = newip[p])
    BY DEF IInv, PInv, Has, InLock, AttachWoken
  <2> QED BY <1>6, <2>2, <2>3, <2>4, <2>5, <2>6 DEF Xalloc, AttachWoken
<1>7. ASSUME NEW p \in Proc,
             \/ XfreeWritten(p) \/ ExpandText(p) \/ SwappedSelf(p)
             \/ \E ip \in Ino : Exec(p, ip)
             \/ Exit(p) \/ Exited(p) \/ ExecExpand(p) \/ Attached(p) \/ Load(p) \/ Loaded(p)
             \/ Xuntext(p) \/ (\E y \in Seg : Xrele(p, y))
             \/ Spawn(p) \/ Forked(p) \/ Block(p) \/ Setrun(p)
      PROVE  ccount'[x] = ccount[x] /\ count'[x] \in {count[x], 0}
  BY <1>7 DEF XfreeWritten, ExpandText, SwappedSelf, Exec, Exit, Exited, ExecExpand, Attached, Load, Loaded,
     Xuntext, Xrele, Untext, Spawn, Forked, Block, Setrun, Written, text
<1>8. CASE UNCHANGED vars
  BY <1>8 DEF vars, text
<1> QED BY <1>3, <1>4, <1>5, <1>6, <1>7, <1>8 DEF Next

(* The counts, flags and contents of the text table stay in their range.   *)
THEOREM TypeCorrect == Spec => [](~astray => TypeOK)
<1> DEFINE Bounded == \A x \in Seg : /\ count[x] \in 0..Cardinality(Proc)
                                     /\ ccount[x] \in 0..Cardinality(Proc)
           Small == \A x \in Seg : iptr[x] # none => /\ count[x] \in 0..Cardinality(Proc)
                                                     /\ ccount[x] \in 0..Cardinality(Proc)
<1>1. Cardinality(Proc) \in Nat
  BY FS_CardinalityType, TextAssumption
<1>2. IInv => Small
  <2> SUFFICES ASSUME IInv, NEW x \in Seg, iptr[x] # none
               PROVE  count[x] \in 0..Cardinality(Proc) /\ ccount[x] \in 0..Cardinality(Proc)
    OBVIOUS
  <2>1. Users(x) \subseteq Proc /\ InUsers(x) \subseteq Proc
    BY DEF Users, InUsers
  <2>2. /\ Cardinality(Users(x)) \in Nat /\ Cardinality(Users(x)) <= Cardinality(Proc)
        /\ Cardinality(InUsers(x)) \in Nat /\ Cardinality(InUsers(x)) <= Cardinality(Proc)
    <3>1. IsFiniteSet(Users(x)) /\ IsFiniteSet(InUsers(x))
      BY <2>1, FS_Subset, TextAssumption
    <3> QED BY <2>1, <3>1, FS_Subset, FS_CardinalityType, TextAssumption
  <2>3. count[x] = Cardinality(Users(x)) /\ ccount[x] = Cardinality(InUsers(x))
    BY DEF IInv, XInv, Counted
  <2> QED BY <1>1, <2>2, <2>3
<1>3. Init => Bounded
  BY <1>1 DEF Init
<1>4. IInv /\ Bounded /\ ~astray' /\ [Next]_vars /\ Small' => Bounded'
  <2> SUFFICES ASSUME IInv, Bounded, ~astray', [Next]_vars, Small', NEW x \in Seg
               PROVE  count'[x] \in 0..Cardinality(Proc) /\ ccount'[x] \in 0..Cardinality(Proc)
    OBVIOUS
  <2>1. CASE iptr'[x] = none
    BY <1>1, <2>1, LeftAlone
  <2>2. CASE iptr'[x] # none
    BY <2>2
  <2> QED BY <2>1, <2>2
<1>5. IInv /\ Bounded => TypeOK
  <2> SUFFICES ASSUME IInv, Bounded PROVE TypeOK
    OBVIOUS
  <2>1. count \in [Seg -> 0..Cardinality(Proc)] /\ ccount \in [Seg -> 0..Cardinality(Proc)]
    BY DEF IInv, Types
  <2> QED BY <2>1 DEF IInv, Types, TypeOK, Flags, Content
<1> DEFINE J == ~astray => IInv /\ Bounded
<1> HIDE DEF Bounded, Small
<1>6. (IInv => Small)'
  BY <1>2, PTL
<1>7. Init => J
  BY <1>3, InitInv
<1>8. J /\ [Next]_vars => J'
  <2>1. [Next]_vars /\ ~astray' => ~astray
    BY DEF Next, vars
  <2> QED BY <1>4, <1>6, <2>1, NextInv
<1>9. J => (~astray => TypeOK)
  BY <1>5
<1> HIDE DEF J
<1> QED BY <1>7, <1>8, <1>9, PTL DEF Spec

-----------------------------------------------------------------------------
(* CoreMap: the map stays well formed, describes exactly the units that    *)
(* nobody holds, and implements first-fit allocation.                      *)
USE UnitsAssumption, MapAssumption

-----------------------------------------------------------------------------
(* The scans of malloc.c stop at the lowest entry that satisfies a test. *)
LEMMA LowestIn ==
    ASSUME NEW S \in SUBSET Nat, S # {}
    PROVE  Lowest(S) \in S /\ \A j \in S : Lowest(S) <= j
<1> DEFINE R == {p \in Nat \X Nat : p[1] < p[2]}
<1>1. IsWellFoundedOn(R, Nat)
  BY NatLessThanWellFounded, Zenon DEF OpToRel
<1> HIDE DEF R
<1>2. PICK i \in S : \A j \in S : ~(<<j, i>> \in R)
  BY <1>1, WFMin
<1>3. ASSUME NEW j \in S PROVE i <= j
  <2>1. <<j, i>> \notin R /\ <<j, i>> \in Nat \X Nat
    BY <1>2
  <2> QED BY <2>1 DEF R
<1> QED BY <1>3 DEF Lowest

(* Behind the first end of the map there are only ends. *)
OnlyEnds == \A i, j \in Index : i < j /\ size[i] = 0 => size[j] = 0

LEMMA OnlyEndsNow == EndsFollow => OnlyEnds
BY DEF EndsFollow, OnlyEnds, Index

(* The room an entry needs is what its neighbours leave. *)
LEMMA EndsFromSpaced ==
    ASSUME MapTypeOK, OnlyEnds, Spaced
    PROVE  EndsFollow
<1> SUFFICES ASSUME NEW i \in Index, size[i] # 0
             PROVE  addr[i] > 2 * i /\ \A j \in 0..i : size[j] # 0
  BY DEF EndsFollow
<1>1. \A j \in Index : /\ size[j] \in 0..Units /\ addr[j] \in 0..Units
                       /\ size[j] # 0 => addr[j] >= 1
  BY DEF MapTypeOK
<1>2. \A j \in 0..i : size[j] # 0
  BY DEF OnlyEnds, Index
<1>3. CASE i = 0
  BY <1>1, <1>2, <1>3
<1>4. CASE i > 0
  <2>1. 0 \in Index /\ size[0] # 0 /\ i \in Nat
    BY <1>2 DEF Index
  <2>2. addr[0] + size[0] + 2 * (i - 0) <= addr[i] + 1
    BY <1>4, <2>1 DEF Spaced
  <2>3. addr[0] \in Nat /\ addr[0] >= 1 /\ size[0] \in Nat /\ size[0] >= 1 /\ addr[i] \in Nat
    BY <1>1, <2>1
  <2>4. addr[i] > 2 * i
    BY <2>1, <2>2, <2>3
  <2> QED BY <1>2, <2>4
<1> QED BY <1>3, <1>4 DEF Index

(* The entries in use are the ones before the first end. *)
LEMMA UsedIs ==
    ASSUME OnlyEnds
    PROVE  Used = {j \in Index : size[j] # 0}
BY DEF Used, Index, OnlyEnds

(* Unless it has overflowed, the map has an end. *)
LEMMA EndIs ==
    ASSUME MapTypeOK, EndsFollow, ~Overflowed
    PROVE  /\ End \in Index
           /\ size[End] = 0
           /\ \A j \in Index : j < End <=> size[j] # 0
<1> DEFINE S == {i \in Index : size[i] = 0}
<1>1. S \in SUBSET Nat /\ MAPSIZ - 1 \in S
  BY DEF Index, Overflowed
<1>2. End \in S /\ \A j \in S : End <= j
  BY <1>1, LowestIn DEF End
<1>3. \A j \in Index : j < End <=> size[j] # 0
  BY <1>2, OnlyEndsNow DEF OnlyEnds, Index
<1> QED BY <1>2, <1>3

(* A unit is free when some entry of the map covers it. *)
Covered == \A u \in 1..Units :
             u \in Free <=> \E i \in Index : addr[i] <= u /\ u < addr[i] + size[i]

LEMMA MapFreeIs == MapTypeOK /\ OnlyEnds => Covered /\ Free \subseteq 1..Units
<1> SUFFICES ASSUME MapTypeOK, OnlyEnds PROVE Covered /\ Free \subseteq 1..Units
  OBVIOUS
<1>1. \A i \in Index : size[i] \in 0..Units /\ addr[i] \in 0..Units
                       /\ (size[i] # 0 => addr[i] >= 1 /\ addr[i] + size[i] <= Units + 1)
  BY DEF MapTypeOK
<1>2. \A u : u \in Free <=> \E i \in Index : size[i] # 0 /\ u \in Run(addr[i], size[i])
  BY UsedIs DEF Free
<1>3. Free \subseteq 1..Units
  BY <1>1, <1>2 DEF Run
<1>4. Covered
  BY <1>1, <1>2 DEF Run, Covered
<1> QED BY <1>3, <1>4

(* Spaced entries are sorted by address and never touch. *)
LEMMA SpacedIsCoalesced ==
    ASSUME MapTypeOK, Spaced
    PROVE  Coalesced
<1> SUFFICES ASSUME NEW i \in Index, NEW j \in Index, i < j, size[j] # 0
             PROVE  addr[i] + size[i] < addr[j]
  BY DEF Coalesced
<1>1. addr[i] \in Nat /\ size[i] \in Nat /\ addr[j] \in Nat /\ i \in Nat /\ j \in Nat
  BY DEF MapTypeOK, Index
<1>2. addr[i] + size[i] + 2 * (j - i) <= addr[j] + 1
  BY DEF Spaced
<1> QED BY <1>1, <1>2

(* Free units in a row all belong to one entry. *)
LEMMA RunInOneEntry ==
    ASSUME MapTypeOK, EndsFollow, Coalesced,
           NEW n \in 1..Units, NEW b \in 1..Units, Run(b, n) \subseteq Free
    PROVE  \E j \in Index : /\ size[j] >= n
                            /\ addr[j] <= b /\ b + n <= addr[j] + size[j]
<1>1. \A i \in Index : size[i] \in 0..Units /\ addr[i] \in 0..Units
  BY DEF MapTypeOK
<1>2. b \in Free
  BY DEF Run
<1>3. PICK j \in Index : addr[j] <= b /\ b < addr[j] + size[j]
  BY <1>2, MapFreeIs, OnlyEndsNow DEF Covered
<1>4. ASSUME b + n > addr[j] + size[j] PROVE FALSE
  <2> DEFINE e == addr[j] + size[j]
  <2>1. e \in Run(b, n) /\ e \in Free
    BY <1>1, <1>3, <1>4 DEF Run
  <2>2. PICK k \in Index : addr[k] <= e /\ e < addr[k] + size[k]
    BY <2>1, MapFreeIs, OnlyEndsNow DEF Covered
  <2>3. size[j] # 0 /\ size[k] # 0 /\ k # j
    BY <1>1, <1>3, <2>2
  <2> QED BY <1>1, <1>3, <2>2, <2>3 DEF Coalesced, Index
<1> QED BY <1>1, <1>3, <1>4

-----------------------------------------------------------------------------
(* The invariant after a step that leaves the map well formed, from how    *)
(* the units the map covers have changed.                                  *)
LEMMA ConservedStep ==
    ASSUME MapTypeOK', OnlyEnds',
           \A u \in 1..Units : (\E k \in Index : addr'[k] <= u /\ u < addr'[k] + size'[k])
                               <=> u \notin held'
    PROVE  Conserved'
<1>1. Covered' /\ (Free \subseteq 1..Units)'
  BY MapFreeIs, PTL
<1> QED BY <1>1 DEF Covered, Conserved

(* The units covered by the map before a step. *)
LEMMA ConservedNow ==
    ASSUME MapTypeOK, EndsFollow, Conserved
    PROVE  \A u \in 1..Units : (\E k \in Index : addr[k] <= u /\ u < addr[k] + size[k])
                               <=> u \notin held
BY MapFreeIs, OnlyEndsNow DEF Covered, Conserved

-----------------------------------------------------------------------------
(* malloc(): what entry it takes the units from. *)
LEMMA FitIs ==
    ASSUME MapInv, ~Overflowed, NEW n \in 1..Units, Fitting(n) # {}
    PROVE  LET i == Lowest(Fitting(n))
           IN  /\ i \in Index /\ i < End /\ size[i] >= n
               /\ \A j \in Index : size[j] >= n => i <= j
<1>1. Fitting(n) \in SUBSET Nat
  BY DEF Fitting, Index
<1>2. \A j \in Index : size[j] >= n => j \in Fitting(n)
  BY EndIs DEF MapInv, Fitting, MapTypeOK
<1> QED BY <1>1, <1>2, LowestIn DEF Fitting

(* malloc() that uses an entry up preserves the shape of the map. *)
LEMMA TakeAllStep ==
    ASSUME MapInv, ~Overflowed, NEW i \in Index, i < End,
           size' = Closed(size, i), addr' = Closed(addr, i),
           UNCHANGED <<runin, want>>, ret' \in 0..Units,
           held' = held \cup Run(addr[i], size[i])
    PROVE  MapInv'
<1>1. /\ End \in Index /\ size[End] = 0
      /\ \A j \in Index : j < End <=> size[j] # 0
  BY EndIs DEF MapInv
<1>2. \A j \in Index : /\ size[j] \in 0..Units /\ addr[j] \in 0..Units
                       /\ size[j] # 0 => addr[j] >= 1 /\ addr[j] + size[j] <= Units + 1
                       /\ size[j] = 0 => addr[j] = 0
  BY DEF MapInv, MapTypeOK, EndsClear
<1>3. \A j \in Index : /\ j >= i /\ j < End => /\ j + 1 \in Index
                                             /\ size'[j] = size[j + 1]
                                             /\ addr'[j] = addr[j + 1]
                       /\ ~(j >= i /\ j < End) => size'[j] = size[j] /\ addr'[j] = addr[j]
  BY <1>1 DEF Closed, Index
<1>4. size' \in [Index -> 0..Units] /\ addr' \in [Index -> 0..Units]
  BY <1>1, <1>2 DEF Closed, Index
<1>5. MapTypeOK'
  <2>1. Run(addr[i], size[i]) \subseteq 1..Units
    BY <1>1, <1>2 DEF Run
  <2> QED BY <1>2, <1>3, <1>4, <2>1 DEF MapInv, MapTypeOK
<1>6. OnlyEnds'
  BY <1>1, <1>3 DEF OnlyEnds, Index
<1>7. EndsClear'
  BY <1>2, <1>3 DEF EndsClear
<1>8. Spaced'
  <2> SUFFICES ASSUME NEW p \in Index, NEW q \in Index, p < q, size'[q] # 0
               PROVE  addr'[p] + size'[p] + 2 * (q - p) <= addr'[q] + 1
    BY DEF Spaced
  <2>1. \A x, y \in Index : x < y /\ size[y] # 0 =>
          addr[x] + size[x] + 2 * (y - x) <= addr[y] + 1
    BY DEF MapInv, Spaced
  <2>2. q < End
    BY <1>1, <1>3 DEF Index
  <2>3. CASE q < i
    BY <2>1, <2>3, <1>3 DEF Index
  <2>4. CASE p >= i
    <3>1. p + 1 \in Index /\ q + 1 \in Index /\ p + 1 < q + 1
      BY <2>2, <2>4, <1>3 DEF Index
    <3>2. /\ size'[p] = size[p + 1] /\ size'[q] = size[q + 1]
          /\ addr'[p] = addr[p + 1] /\ addr'[q] = addr[q + 1]
      BY <2>2, <2>4, <1>1, <1>3 DEF Index
    <3>3. (q + 1) - (p + 1) = q - p
      BY DEF Index
    <3> QED BY <3>1, <3>2, <3>3, <2>1
  <2>5. CASE p < i /\ q >= i
    <3>1. q + 1 \in Index /\ p < q + 1 /\ size'[q] = size[q + 1] /\ addr'[q] = addr[q + 1]
      BY <2>2, <2>5, <1>3 DEF Index
    <3>2. size'[p] = size[p] /\ addr'[p] = addr[p]
      BY <2>5, <1>3 DEF Index
    <3>3. addr[p] + size[p] + 2 * ((q + 1) - p) <= addr[q + 1] + 1
      BY <3>1, <2>1
    <3> QED BY <3>1, <3>2, <3>3, <1>2 DEF Index
  <2> QED BY <2>3, <2>4, <2>5 DEF Index
<1>9. Conserved'
  <2>1. ASSUME NEW u \in 1..Units
        PROVE (\E k \in Index : addr'[k] <= u /\ u < addr'[k] + size'[k]) <=> u \notin held'
    <3>1. (\E k \in Index : addr[k] <= u /\ u < addr[k] + size[k]) <=> u \notin held
      BY ConservedNow DEF MapInv
    <3>2. u \in Run(addr[i], size[i]) <=> addr[i] <= u /\ u < addr[i] + size[i]
      BY <1>2 DEF Run
    <3>3. ASSUME NEW k \in Index, addr'[k] <= u /\ u < addr'[k] + size'[k]
          PROVE  u \notin held'
      <4>1. PICK l \in Index : l # i /\ addr[l] <= u /\ u < addr[l] + size[l]
        BY <1>1, <1>2, <1>3, <3>3 DEF Index
      <4>2. ~(addr[i] <= u /\ u < addr[i] + size[i])
        BY <4>1, <1>2, SpacedIsCoalesced DEF MapInv, Coalesced, Index
      <4> QED BY <4>1, <4>2, <3>1, <3>2
    <3>4. ASSUME u \notin held'
          PROVE  \E k \in Index : addr'[k] <= u /\ u < addr'[k] + size'[k]
      <4>1. PICK l \in Index : l # i /\ addr[l] <= u /\ u < addr[l] + size[l]
        BY <3>1, <3>2, <3>4
      <4>2. l < End
        BY <4>1, <1>1, <1>2
      <4>3. CASE l < i
        BY <4>1, <4>3, <1>3 DEF Index
      <4>4. CASE l > i
        <5>1. l - 1 \in Index /\ l - 1 >= i /\ l - 1 < End /\ (l - 1) + 1 = l
          BY <4>2, <4>4, <1>1 DEF Index
        <5> QED BY <5>1, <4>1, <1>3
      <4> QED BY <4>1, <4>3, <4>4 DEF Index
    <3> QED BY <3>3, <3>4
  <2> QED BY <2>1, <1>5, <1>6, ConservedStep
<1>10. NoMissedCore'
  <2> SUFFICES ASSUME want # 0 PROVE runin /\ (Fitting(want))' = {}
    BY DEF NoMissedCore, Fitting
  <2>1. runin /\ \A j \in Index : ~(j < End /\ size[j] >= want)
    BY DEF MapInv, NoMissedCore, Fitting
  <2>2. want \in 1..Units
    BY DEF MapInv, MapTypeOK
  <2>3. \A j \in Index : ~(size'[j] >= want)
    BY <1>1, <1>2, <1>3, <2>1, <2>2 DEF Index
  <2> QED BY <2>1, <2>3 DEF Fitting
<1>11. EndsFollow'
  BY <1>5, <1>6, <1>8, EndsFromSpaced, PTL
<1> QED BY <1>5, <1>7, <1>8, <1>9, <1>10, <1>11 DEF MapInv

(* One entry in use is changed, and stays within the gap its neighbours    *)
(* leave: malloc() that takes a part of an entry, mfree() that enlarges    *)
(* one.  The units it covered before and now account for held'.            *)
LEMMA OneEntryStep ==
    ASSUME MapInv, ~Overflowed, NEW i \in Index, i < End, NEW s \in 1..Units, NEW a \in 1..Units,
           a + s <= Units + 1,
           size' = [size EXCEPT ![i] = s], addr' = [addr EXCEPT ![i] = a],
           \A p \in Index : p < i => addr[p] + size[p] + 2 * (i - p) <= a + 1,
           \A q \in Index : q > i /\ size[q] # 0 => a + s + 2 * (q - i) <= addr[q] + 1,
           runin' \in BOOLEAN, want' \in 0..Units, ret' \in 0..Units,
           held' \subseteq 1..Units,
           \A u \in 1..Units :
             u \notin held' <=> ((u \notin held /\ ~(addr[i] <= u /\ u < addr[i] + size[i]))
                                 \/ (a <= u /\ u < a + s))
    PROVE  MapTypeOK' /\ EndsFollow' /\ EndsClear' /\ Spaced' /\ Conserved'
<1>1. /\ End \in Index /\ size[End] = 0
      /\ \A j \in Index : j < End <=> size[j] # 0
  BY EndIs DEF MapInv
<1>2. \A j \in Index : /\ size[j] \in 0..Units /\ addr[j] \in 0..Units
                       /\ size[j] # 0 => addr[j] >= 1 /\ addr[j] + size[j] <= Units + 1
                       /\ size[j] = 0 => addr[j] = 0
  BY DEF MapInv, MapTypeOK, EndsClear
<1>3. /\ size \in [Index -> 0..Units] /\ addr \in [Index -> 0..Units]
      /\ size' \in [Index -> 0..Units] /\ addr' \in [Index -> 0..Units]
  BY DEF MapInv, MapTypeOK
<1>4. /\ size'[i] = s /\ addr'[i] = a
      /\ \A j \in Index : j # i => size'[j] = size[j] /\ addr'[j] = addr[j]
  BY <1>3
<1>5. MapTypeOK'
  BY <1>2, <1>3, <1>4 DEF MapTypeOK
<1>6. OnlyEnds'
  <2>2. ASSUME NEW p \in Index, NEW q \in Index, p < q, size'[p] = 0
        PROVE  size'[q] = 0
    BY <2>2, <1>1, <1>4 DEF Index
  <2> QED BY <2>2 DEF OnlyEnds
<1>7. EndsClear'
  BY <1>2, <1>4 DEF EndsClear
<1>8. Spaced'
  <2> SUFFICES ASSUME NEW p \in Index, NEW q \in Index, p < q, size'[q] # 0
               PROVE  addr'[p] + size'[p] + 2 * (q - p) <= addr'[q] + 1
    BY DEF Spaced
  <2>1. CASE p = i
    BY <2>1, <1>4 DEF Index
  <2>2. CASE q = i
    BY <2>2, <1>4 DEF Index
  <2>3. CASE p # i /\ q # i
    BY <2>3, <1>4 DEF MapInv, Spaced
  <2> QED BY <2>1, <2>2, <2>3
<1>9. Conserved'
  <2>1. ASSUME NEW u \in 1..Units
        PROVE (\E k \in Index : addr'[k] <= u /\ u < addr'[k] + size'[k]) <=> u \notin held'
    <3>1. (\E k \in Index : addr[k] <= u /\ u < addr[k] + size[k]) <=> u \notin held
      BY ConservedNow DEF MapInv
    <3>2. ASSUME NEW k \in Index, k # i, addr[k] <= u /\ u < addr[k] + size[k]
          PROVE  ~(addr[i] <= u /\ u < addr[i] + size[i])
      BY <3>2, <1>1, <1>2, SpacedIsCoalesced DEF MapInv, Coalesced, Index
    <3>3. u \notin held' => \E k \in Index : addr'[k] <= u /\ u < addr'[k] + size'[k]
      BY <3>1, <1>4
    <3>4. (\E k \in Index : addr'[k] <= u /\ u < addr'[k] + size'[k]) => u \notin held'
      BY <3>1, <3>2, <1>4
    <3> QED BY <3>3, <3>4
  <2> QED BY <2>1, <1>5, <1>6, ConservedStep
<1>10. EndsFollow'
  BY <1>5, <1>6, <1>8, EndsFromSpaced, PTL
<1> QED BY <1>5, <1>7, <1>8, <1>9, <1>10

(* A step that leaves the map alone. *)
LEMMA SameMapStep ==
    ASSUME MapInv, UNCHANGED <<size, addr, held>>,
           runin' \in BOOLEAN, want' \in 0..Units, ret' \in 0..Units,
           want' # 0 => runin' /\ Fitting(want') = {}
    PROVE  MapInv'
<1>1. End' = End /\ Free' = Free
  BY DEF End, Free, Used, Run
<1>2. MapTypeOK' /\ EndsFollow' /\ EndsClear' /\ Spaced' /\ Conserved'
  BY <1>1 DEF MapInv, MapTypeOK, EndsFollow, EndsClear, Spaced, Conserved
<1>3. NoMissedCore'
  BY <1>1 DEF NoMissedCore, Fitting
<1> QED BY <1>2, <1>3 DEF MapInv

(* malloc() preserves the invariant. *)
LEMMA MallocStep ==
    ASSUME MapInv, ~Overflowed, NEW n \in 1..Units, Malloc(n)
    PROVE  MapInv'
<1>1. CASE Fitting(n) = {}
  BY <1>1, SameMapStep DEF Malloc, MapInv, MapTypeOK, NoMissedCore
<1>2. CASE Fitting(n) # {}
  <2> DEFINE i == Lowest(Fitting(n))
  <2>1. /\ i \in Index /\ i < End /\ size[i] >= n
        /\ TakeFrom(i, n) /\ ret' = addr[i] /\ held' = held \cup Run(addr[i], n)
        /\ UNCHANGED <<runin, want>>
    BY <1>2, FitIs DEF Malloc
  <2> HIDE DEF i
  <2>2. /\ size \in [Index -> 0..Units] /\ addr \in [Index -> 0..Units]
        /\ addr[i] >= 1 /\ addr[i] + size[i] <= Units + 1 /\ size[i] \in 1..Units
        /\ addr[i] \in 1..Units /\ held \subseteq 1..Units
    BY <2>1 DEF MapInv, MapTypeOK, Index
  <2>3. CASE size[i] = n
    BY <2>1, <2>2, <2>3, TakeAllStep DEF TakeFrom
  <2>4. CASE size[i] # n
    <3> DEFINE s == size[i] - n
               a == addr[i] + n
    <3>1. /\ s \in 1..Units /\ a \in 1..Units /\ a + s <= Units + 1
          /\ size' = [size EXCEPT ![i] = s] /\ addr' = [addr EXCEPT ![i] = a]
      BY <2>1, <2>2, <2>4 DEF TakeFrom
    <3>2. /\ \A p \in Index : p < i => addr[p] + size[p] + 2 * (i - p) <= a + 1
          /\ \A q \in Index : q > i /\ size[q] # 0 => a + s + 2 * (q - i) <= addr[q] + 1
      <4>1. \A x, y \in Index : x < y /\ size[y] # 0 =>
              addr[x] + size[x] + 2 * (y - x) <= addr[y] + 1
        BY DEF MapInv, Spaced
      <4>2. a + s = addr[i] + size[i] /\ a >= addr[i]
        BY <2>2
      <4>3. \A x \in Index : addr[x] \in Nat /\ size[x] \in Nat
        BY <2>2
      <4>4. ASSUME NEW p \in Index, p < i PROVE addr[p] + size[p] + 2 * (i - p) <= a + 1
        <5>1. addr[p] + size[p] + 2 * (i - p) <= addr[i] + 1
          BY <2>1, <2>2, <4>1, <4>4
        <5>2. addr[i] + 1 <= a + 1
          BY <2>2
        <5>3. addr[p] + size[p] + 2 * (i - p) \in Int /\ a + 1 \in Int /\ addr[i] + 1 \in Int
          <6>1. i \in Int /\ p \in Int /\ addr[i] \in Int /\ addr[p] \in Int /\ size[p] \in Int
            BY <2>1, <4>3 DEF Index
          <6> QED BY <6>1
        <5> HIDE DEF a
        <5> QED BY <5>1, <5>2, <5>3
      <4>5. ASSUME NEW q \in Index, q > i, size[q] # 0
            PROVE  a + s + 2 * (q - i) <= addr[q] + 1
        <5>1. addr[i] + size[i] + 2 * (q - i) <= addr[q] + 1
          BY <2>1, <4>1, <4>5
        <5> QED BY <5>1, <4>2
      <4> QED BY <4>4, <4>5
    <3>3. /\ runin' \in BOOLEAN /\ want' \in 0..Units /\ ret' \in 0..Units
          /\ held' \subseteq 1..Units
      <4>1. runin' \in BOOLEAN /\ want' \in 0..Units
        BY <2>1 DEF MapInv, MapTypeOK
      <4>2. ret' \in 0..Units
        BY <2>1, <2>2
      <4>3. held' \subseteq 1..Units
        <5>1. Run(addr[i], n) \subseteq 1..Units
          <6> DEFINE x == addr[i]
                     y == size[i]
          <6>1. x \in 1..Units /\ y \in 1..Units /\ n <= y /\ x + y <= Units + 1
            BY <2>1, <2>2
          <6> HIDE DEF x, y
          <6>2. Run(x, n) \subseteq 1..Units
            BY <6>1 DEF Run
          <6> QED BY <6>2 DEF x
        <5> QED BY <2>1, <2>2, <5>1
      <4> QED BY <4>1, <4>2, <4>3
    <3>4. \A u \in 1..Units :
            u \notin held' <=> ((u \notin held /\ ~(addr[i] <= u /\ u < addr[i] + size[i]))
                                \/ (a <= u /\ u < a + s))
      <4> SUFFICES ASSUME NEW u \in 1..Units
                   PROVE  u \notin held' <=> ((u \notin held /\ ~(addr[i] <= u /\ u < addr[i] + size[i]))
                                               \/ (a <= u /\ u < a + s))
        OBVIOUS
      <4>1. addr[i] <= u /\ u < addr[i] + size[i] => u \notin held
        BY <2>1, ConservedNow DEF MapInv
      <4>2. u \in held' <=> u \in held \/ (addr[i] <= u /\ u < addr[i] + n)
        BY <2>1, <2>2 DEF Run
      <4> QED BY <4>1, <4>2, <2>1, <2>2
    <3> HIDE DEF s, a
    <3>5. MapTypeOK' /\ EndsFollow' /\ EndsClear' /\ Spaced' /\ Conserved'
      BY <2>1, <3>1, <3>2, <3>3, <3>4, OneEntryStep
    <3>6. NoMissedCore'
      <4> SUFFICES ASSUME want # 0 PROVE runin /\ (Fitting(want))' = {}
        BY <2>1 DEF NoMissedCore, Fitting
      <4>1. runin /\ want \in 1..Units /\ \A j \in Index : ~(j < End /\ size[j] >= want)
        BY DEF MapInv, NoMissedCore, Fitting, MapTypeOK
      <4>2. \A j \in Index : size[j] >= want => j < End
        BY <4>1, EndIs, <2>2 DEF MapInv
      <4>3. \A j \in Index : ~(size'[j] >= want)
        BY <4>1, <4>2, <3>1, <2>1, <2>2 DEF s
      <4> QED BY <2>1, <4>1, <4>3 DEF Fitting
    <3> QED BY <3>5, <3>6 DEF MapInv
  <2> QED BY <2>3, <2>4
<1> QED BY <1>1, <1>2

-----------------------------------------------------------------------------
(* mfree(): the entries before the place of the units end at or below      *)
(* them, the others begin at or above their end.                           *)
LEMMA PlaceIs ==
    ASSUME MapInv, ~Overflowed, NEW a \in 1..Units, NEW n \in 1..Units, Run(a, n) \subseteq held
    PROVE  /\ Place(a) \in Index /\ Place(a) <= End
           /\ a + n <= Units + 1
           /\ \A j \in Index : j < Place(a) => size[j] # 0 /\ addr[j] + size[j] <= a
           /\ \A j \in Index : j >= Place(a) /\ size[j] # 0 => a + n <= addr[j]
<1> DEFINE S == {j \in Index : addr[j] > a \/ size[j] = 0}
           i == Place(a)
<1>1. /\ End \in Index /\ size[End] = 0
      /\ \A j \in Index : j < End <=> size[j] # 0
  BY EndIs DEF MapInv
<1>2. \A j \in Index : /\ size[j] \in 0..Units /\ addr[j] \in 0..Units
                       /\ size[j] # 0 => addr[j] >= 1 /\ addr[j] + size[j] <= Units + 1
  BY DEF MapInv, MapTypeOK
<1>3. i \in S /\ \A j \in S : i <= j
  <2>1. S \in SUBSET Nat /\ End \in S
    BY <1>1 DEF Index
  <2> HIDE DEF S
  <2>2. S # {}
    BY <2>1
  <2>3. i = Lowest(S)
    BY DEF Place, S
  <2> QED BY <2>1, <2>2, <2>3, LowestIn
<1>4. i \in Index /\ i <= End /\ \A j \in Index : j < i => size[j] # 0 /\ addr[j] <= a
  BY <1>1, <1>2, <1>3 DEF Index
<1>5. a + n - 1 \in 1..Units
  BY DEF Run, MapInv, MapTypeOK
<1>6. ASSUME NEW u \in 1..Units, a <= u, u < a + n, NEW k \in Index
      PROVE  ~(addr[k] <= u /\ u < addr[k] + size[k])
  <2>1. u \in held
    BY <1>6 DEF Run
  <2> QED BY <2>1, <1>6, ConservedNow DEF MapInv
<1> HIDE DEF i
<1>7. ASSUME NEW j \in Index, j < i PROVE size[j] # 0 /\ addr[j] + size[j] <= a
  BY <1>2, <1>4, <1>6, <1>7
<1>8. ASSUME NEW j \in Index, j >= i, size[j] # 0 PROVE a + n <= addr[j]
  <2>1. addr[j] > a
    <3>1. size[i] # 0
      BY <1>1, <1>4, <1>8 DEF Index
    <3>2. addr[i] > a
      BY <1>3, <3>1
    <3>3. j = i \/ addr[i] + size[i] < addr[j]
      BY <1>4, <1>8, SpacedIsCoalesced DEF MapInv, Coalesced, Index
    <3> QED BY <1>2, <1>4, <3>2, <3>3
  <2>2. addr[j] \in 1..Units /\ addr[j] < addr[j] + size[j]
    BY <1>2, <1>8
  <2> QED BY <1>6, <2>1, <2>2
<1> QED BY <1>4, <1>5, <1>7, <1>8 DEF i

(* When the units do not touch the entry before them, or not the one       *)
(* behind them, there is room for an entry of their own on that side.      *)
LEMMA Gaps ==
    ASSUME MapInv, ~Overflowed, NEW a \in 1..Units, NEW n \in 1..Units, Run(a, n) \subseteq held,
           NEW i \in Index, i = Place(a)
    PROVE  /\ ~(i > 0 /\ addr[i - 1] + size[i - 1] = a) =>
                \A p \in Index : p < i => addr[p] + size[p] + 2 * (i - p) <= a + 1
           /\ ~(a + n = addr[i] /\ size[i] # 0) =>
                \A q \in Index : q >= i /\ size[q] # 0 =>
                                   a + n + 2 * (q + 1 - i) <= addr[q] + 1
<1>1. /\ \A j \in Index : j < i => size[j] # 0 /\ addr[j] + size[j] <= a
      /\ \A j \in Index : j >= i /\ size[j] # 0 => a + n <= addr[j]
  BY PlaceIs
<1>2. \A j \in Index : size[j] \in 0..Units /\ addr[j] \in 0..Units
  BY DEF MapInv, MapTypeOK
<1>3. \A x, y \in Index : x < y /\ size[y] # 0 =>
        addr[x] + size[x] + 2 * (y - x) <= addr[y] + 1
  BY DEF MapInv, Spaced
<1>4. \A x, y \in Index : x < y /\ size[y] # 0 => size[x] # 0
  BY OnlyEndsNow DEF MapInv, OnlyEnds
<1>5. ASSUME ~(i > 0 /\ addr[i - 1] + size[i - 1] = a), NEW p \in Index, p < i
      PROVE  addr[p] + size[p] + 2 * (i - p) <= a + 1
  <2>1. i - 1 \in Index /\ i > 0
    BY <1>5 DEF Index
  <2>2. addr[i - 1] + size[i - 1] + 1 <= a /\ size[i - 1] >= 1
    BY <1>1, <1>2, <1>5, <2>1 DEF Index
  <2>3. CASE p = i - 1
    <3>1. 2 * (i - p) = 2
      BY <2>3 DEF Index
    <3>2. addr[p] + size[p] + 1 <= a /\ addr[p] \in Int /\ size[p] \in Int
      BY <2>2, <2>3, <1>2
    <3> QED BY <3>1, <3>2
  <2>4. CASE p < i - 1
    <3>1. addr[p] + size[p] + 2 * ((i - 1) - p) <= addr[i - 1] + 1
      BY <1>2, <1>3, <2>1, <2>2, <2>4
    <3> QED BY <1>2, <2>1, <2>2, <3>1 DEF Index
  <2> QED BY <2>3, <2>4, <1>5 DEF Index
<1>6. ASSUME ~(a + n = addr[i] /\ size[i] # 0), NEW q \in Index, q >= i, size[q] # 0
      PROVE  a + n + 2 * (q + 1 - i) <= addr[q] + 1
  <2>1. size[i] # 0
    BY <1>4, <1>6 DEF Index
  <2>2. a + n + 1 <= addr[i] /\ size[i] >= 1
    BY <1>1, <1>2, <1>6, <2>1 DEF Index
  <2>3. CASE q = i
    <3>1. 2 * (q + 1 - i) = 2
      BY <2>3 DEF Index
    <3>2. a + n + 1 <= addr[q] /\ addr[q] \in Int
      BY <2>2, <2>3, <1>2
    <3> QED BY <3>1, <3>2
  <2>4. CASE q > i
    <3>1. addr[i] + size[i] + 2 * (q - i) <= addr[q] + 1
      BY <1>3, <1>6, <2>4
    <3> QED BY <1>2, <2>2, <3>1 DEF Index
  <2> QED BY <2>3, <2>4, <1>6 DEF Index
<1> QED BY <1>5, <1>6

(* mfree() that adds an entry, be it the last one of the array. *)
LEMMA OpenStep ==
    ASSUME MapInv, ~Overflowed, NEW a \in 1..Units, NEW n \in 1..Units, Run(a, n) \subseteq held,
           NEW i \in Index, i = Place(a),
           ~(i > 0 /\ addr[i - 1] + size[i - 1] = a), ~(a + n = addr[i] /\ size[i] # 0),
           size' = Opened(size, i, n), addr' = Opened(addr, i, a),
           runin' \in BOOLEAN, want' \in 0..Units, ret' \in 0..Units,
           held' = held \ Run(a, n)
    PROVE  MapTypeOK' /\ EndsFollow' /\ EndsClear' /\ Spaced' /\ Conserved'
<1>1. /\ End \in Index /\ size[End] = 0
      /\ \A j \in Index : j < End <=> size[j] # 0
  BY EndIs DEF MapInv
<1>2. \A j \in Index : /\ size[j] \in 0..Units /\ addr[j] \in 0..Units
                       /\ size[j] # 0 => addr[j] >= 1 /\ addr[j] + size[j] <= Units + 1
                       /\ size[j] = 0 => addr[j] = 0
  BY DEF MapInv, MapTypeOK, EndsClear
<1>3. i <= End /\ a + n <= Units + 1
  BY PlaceIs
<1>4. /\ \A p \in Index : p < i => addr[p] + size[p] + 2 * (i - p) <= a + 1
      /\ \A q \in Index : q >= i /\ size[q] # 0 => a + n + 2 * (q + 1 - i) <= addr[q] + 1
  BY Gaps
<1>5. \A x, y \in Index : x < y /\ size[y] # 0 =>
        addr[x] + size[x] + 2 * (y - x) <= addr[y] + 1
  BY DEF MapInv, Spaced
<1>6. size'[i] = n /\ addr'[i] = a
  BY DEF Opened
<1>7. \A j \in Index : j < i \/ j > End => size'[j] = size[j] /\ addr'[j] = addr[j]
  BY <1>1, <1>3 DEF Opened, Index
<1>8. \A j \in Index : j > i /\ j <= End => /\ j - 1 \in Index /\ j - 1 >= i /\ j - 1 < End
                                          /\ size'[j] = size[j - 1] /\ addr'[j] = addr[j - 1]
  BY <1>1, <1>3 DEF Opened, Index
<1>10. size' \in [Index -> 0..Units] /\ addr' \in [Index -> 0..Units]
  BY <1>1, <1>2, <1>3 DEF Opened, Index
<1>11. MapTypeOK'
  <2>1. ASSUME NEW j \in Index, size'[j] # 0
        PROVE  addr'[j] >= 1 /\ addr'[j] + size'[j] <= Units + 1
    <3>1. CASE j = i
      BY <3>1, <1>3, <1>6
    <3>2. CASE j < i \/ j > End
      BY <3>2, <2>1, <1>2, <1>7
    <3>3. CASE j > i /\ j <= End
      BY <3>3, <2>1, <1>2, <1>8
    <3> QED BY <3>1, <3>2, <3>3, <1>1 DEF Index
  <2> QED BY <2>1, <1>10 DEF MapTypeOK, MapInv
<1>12. \A j \in Index : size'[j] # 0 <=> j <= End
  <2> SUFFICES ASSUME NEW j \in Index PROVE size'[j] # 0 <=> j <= End
    OBVIOUS
  <2>1. CASE j = i
    BY <2>1, <1>3, <1>6
  <2>2. CASE j < i \/ j > End
    BY <2>2, <1>1, <1>3, <1>7 DEF Index
  <2>3. CASE j > i /\ j <= End
    BY <2>3, <1>1, <1>8
  <2> QED BY <2>1, <2>2, <2>3, <1>1 DEF Index
<1>13. OnlyEnds'
  BY <1>1, <1>12 DEF OnlyEnds, Index
<1>14. EndsClear'
  <2>1. ASSUME NEW j \in Index, size'[j] = 0 PROVE addr'[j] = 0
    BY <2>1, <1>1, <1>2, <1>7, <1>12 DEF Index
  <2> QED BY <2>1 DEF EndsClear
<1>15. Spaced'
  <2> SUFFICES ASSUME NEW p \in Index, NEW q \in Index, p < q, size'[q] # 0
               PROVE  addr'[p] + size'[p] + 2 * (q - p) <= addr'[q] + 1
    BY DEF Spaced
  <2>1. q <= End
    BY <1>12
  <2>2. CASE q < i
    BY <2>2, <1>5, <1>7 DEF Index
  <2>3. CASE q = i
    BY <2>3, <1>4, <1>6, <1>7 DEF Index
  <2>4. CASE q > i
    <3>1. /\ q - 1 \in Index /\ q - 1 >= i /\ size[q - 1] # 0
          /\ size'[q] = size[q - 1] /\ addr'[q] = addr[q - 1]
      BY <2>1, <2>4, <1>1, <1>8
    <3>2. a + n + 2 * ((q - 1) + 1 - i) <= addr[q - 1] + 1
      BY <3>1, <1>4
    <3>3. CASE p < i
      <4>1. addr[p] + size[p] + 2 * (i - p) <= a + 1 /\ addr'[p] = addr[p] /\ size'[p] = size[p]
        BY <3>3, <1>4, <1>7
      <4> QED BY <4>1, <3>1, <3>2, <1>2 DEF Index
    <3>4. CASE p = i
      BY <3>4, <3>1, <3>2, <1>2, <1>6 DEF Index
    <3>5. CASE p > i
      <4>1. /\ p - 1 \in Index /\ p - 1 < q - 1
            /\ size'[p] = size[p - 1] /\ addr'[p] = addr[p - 1]
        BY <3>5, <2>1, <1>1, <1>8 DEF Index
      <4>2. addr[p - 1] + size[p - 1] + 2 * ((q - 1) - (p - 1)) <= addr[q - 1] + 1
        BY <4>1, <3>1, <1>5
      <4>3. (q - 1) - (p - 1) = q - p
        BY DEF Index
      <4> QED BY <4>1, <4>2, <4>3, <3>1
    <3> QED BY <3>3, <3>4, <3>5 DEF Index
  <2> QED BY <2>2, <2>3, <2>4 DEF Index
<1>16. Conserved'
  <2>1. ASSUME NEW u \in 1..Units
        PROVE (\E k \in Index : addr'[k] <= u /\ u < addr'[k] + size'[k]) <=> u \notin held'
    <3>1. (\E k \in Index : addr[k] <= u /\ u < addr[k] + size[k]) <=> u \notin held
      BY ConservedNow DEF MapInv
    <3>2. u \in held' <=> u \in held /\ ~(a <= u /\ u < a + n)
      BY DEF Run
    <3>3. ASSUME NEW k \in Index, addr'[k] <= u /\ u < addr'[k] + size'[k]
          PROVE  u \notin held'
      <4>1. CASE k = i
        BY <4>1, <3>2, <3>3, <1>6
      <4>2. CASE k < i \/ k > End
        BY <4>2, <3>1, <3>2, <3>3, <1>7
      <4>3. CASE k > i /\ k <= End
        BY <4>3, <3>1, <3>2, <3>3, <1>8
      <4> QED BY <4>1, <4>2, <4>3, <1>1 DEF Index
    <3>4. ASSUME NEW k \in Index, addr[k] <= u /\ u < addr[k] + size[k]
          PROVE  \E l \in Index : addr'[l] <= u /\ u < addr'[l] + size'[l]
      <4>1. k < End
        BY <3>4, <1>1, <1>2
      <4>2. CASE k < i
        BY <4>2, <3>4, <1>7
      <4>3. CASE k >= i
        <5>1. k + 1 \in Index /\ k + 1 > i /\ k + 1 <= End /\ (k + 1) - 1 = k
          BY <4>1, <4>3, <1>1 DEF Index
        <5>2. size'[k + 1] = size[k] /\ addr'[k + 1] = addr[k]
          BY <5>1, <1>8
        <5> QED BY <5>1, <5>2, <3>4
      <4> QED BY <4>2, <4>3 DEF Index
    <3> QED BY <3>1, <3>2, <3>3, <3>4, <1>6
  <2> QED BY <2>1, <1>11, <1>13, ConservedStep
<1>17. EndsFollow'
  BY <1>11, <1>13, <1>15, EndsFromSpaced, PTL
<1> QED BY <1>11, <1>14, <1>15, <1>16, <1>17

(* mfree() that closes the gap between two entries. *)
LEMMA JoinStep ==
    ASSUME MapInv, ~Overflowed, NEW a \in 1..Units, NEW n \in 1..Units, Run(a, n) \subseteq held,
           NEW i \in Index,
           i > 0, addr[i - 1] + size[i - 1] = a, a + n = addr[i],
           NEW g, g[i - 1] = size[i - 1] + n + size[i],
           \A j \in Index : j # i - 1 => g[j] = size[j],
           size' = Closed(g, i), addr' = Closed(addr, i),
           runin' \in BOOLEAN, want' \in 0..Units, ret' \in 0..Units,
           held' = held \ Run(a, n)
    PROVE  MapTypeOK' /\ EndsFollow' /\ EndsClear' /\ Spaced' /\ Conserved'
<1>1. /\ End \in Index /\ size[End] = 0
      /\ \A j \in Index : j < End <=> size[j] # 0
  BY EndIs DEF MapInv
<1>2. \A j \in Index : /\ size[j] \in 0..Units /\ addr[j] \in 0..Units
                       /\ size[j] # 0 => addr[j] >= 1 /\ addr[j] + size[j] <= Units + 1
                       /\ size[j] = 0 => addr[j] = 0
  BY DEF MapInv, MapTypeOK, EndsClear
<1>3. i < End /\ i - 1 \in Index /\ size[i - 1] # 0 /\ size[i] # 0
  <2>1. addr[i] # 0
    OBVIOUS
  <2>2. size[i] # 0
    BY <2>1, <1>2
  <2> QED BY <2>2, <1>1 DEF Index
<1>4. \A x, y \in Index : x < y /\ size[y] # 0 =>
        addr[x] + size[x] + 2 * (y - x) <= addr[y] + 1
  BY DEF MapInv, Spaced
<1>7. \A j \in Index : /\ size'[j] = IF j >= i /\ j < End THEN g[j + 1] ELSE g[j]
                       /\ addr'[j] = IF j >= i /\ j < End THEN addr[j + 1] ELSE addr[j]
  BY DEF Closed
<1>8. /\ addr'[i - 1] = addr[i - 1]
      /\ size'[i - 1] = size[i - 1] + n + size[i]
      /\ addr[i - 1] + size'[i - 1] = addr[i] + size[i]
      /\ size'[i - 1] \in 1..Units
  <2>1. size'[i - 1] = size[i - 1] + n + size[i] /\ addr'[i - 1] = addr[i - 1]
    BY <1>3, <1>7 DEF Index
  <2>2. addr[i - 1] \in Nat /\ addr[i - 1] >= 1 /\ size[i - 1] \in 1..Units
        /\ size[i] \in 1..Units /\ addr[i] + size[i] <= Units + 1
    BY <1>2, <1>3
  <2> QED BY <2>1, <2>2
<1>9. \A j \in Index : (j < i /\ j # i - 1) \/ j >= End =>
        size'[j] = size[j] /\ addr'[j] = addr[j]
  <2> SUFFICES ASSUME NEW j \in Index, (j < i /\ j # i - 1) \/ j >= End
               PROVE  size'[j] = size[j] /\ addr'[j] = addr[j]
    OBVIOUS
  <2>1. ~(j >= i /\ j < End) /\ j # i - 1
    BY <1>1, <1>3 DEF Index
  <2> QED BY <2>1, <1>7
<1>10. \A j \in Index : j >= i /\ j < End =>
         j + 1 \in Index /\ size'[j] = size[j + 1] /\ addr'[j] = addr[j + 1]
  BY <1>1, <1>3, <1>7 DEF Index
<1>11. \A j \in Index : \/ j = i - 1
                        \/ (j < i /\ j # i - 1) \/ j >= End
                        \/ j >= i /\ j < End
  BY <1>1 DEF Index
<1>12. \A j \in Index : /\ size'[j] \in 0..Units /\ addr'[j] \in 0..Units
                        /\ size'[j] # 0 => addr'[j] >= 1 /\ addr'[j] + size'[j] <= Units + 1
                        /\ size'[j] = 0 => addr'[j] = 0
  <2> SUFFICES ASSUME NEW j \in Index
               PROVE /\ size'[j] \in 0..Units /\ addr'[j] \in 0..Units
                     /\ size'[j] # 0 => addr'[j] >= 1 /\ addr'[j] + size'[j] <= Units + 1
                     /\ size'[j] = 0 => addr'[j] = 0
    OBVIOUS
  <2>1. CASE j = i - 1
    <3>1. /\ size'[j] \in 1..Units /\ addr'[j] = addr[i - 1]
          /\ addr'[j] + size'[j] = addr[i] + size[i]
      BY <2>1, <1>8
    <3> QED BY <3>1, <1>2, <1>3
  <2>2. CASE (j < i /\ j # i - 1) \/ j >= End
    BY <2>2, <1>2, <1>9
  <2>3. CASE j >= i /\ j < End
    BY <2>3, <1>2, <1>10
  <2> QED BY <2>1, <2>2, <2>3, <1>11
<1>13. MapTypeOK'
  <2>1. size' \in [Index -> 0..Units] /\ addr' \in [Index -> 0..Units]
    <3>1. size' = [j \in Index |-> size'[j]] /\ addr' = [j \in Index |-> addr'[j]]
      BY DEF Closed
    <3> QED BY <3>1, <1>12
  <2> QED BY <2>1, <1>12 DEF MapTypeOK, MapInv
<1>14. OnlyEnds'
  <2>1. \A j \in Index : size'[j] # 0 <=> j < End - 1
    <3> SUFFICES ASSUME NEW j \in Index PROVE size'[j] # 0 <=> j < End - 1
      OBVIOUS
    <3>1. CASE j = i - 1
      BY <3>1, <1>1, <1>3, <1>8 DEF Index
    <3>2. CASE (j < i /\ j # i - 1) \/ j >= End
      BY <3>2, <1>1, <1>3, <1>9 DEF Index
    <3>3. CASE j >= i /\ j < End
      BY <3>3, <1>1, <1>10 DEF Index
    <3> QED BY <3>1, <3>2, <3>3, <1>11
  <2> QED BY <2>1, <1>1 DEF OnlyEnds, Index
<1>15. EndsClear'
  BY <1>12 DEF EndsClear
<1>16. Spaced'
  <2> SUFFICES ASSUME NEW p \in Index, NEW q \in Index, p < q, size'[q] # 0
               PROVE  addr'[p] + size'[p] + 2 * (q - p) <= addr'[q] + 1
    BY DEF Spaced
  <2>1. q < End
    BY <1>1, <1>9 DEF Index
  <2>2. CASE q < i
    <3>1. p < i /\ p # i - 1 /\ addr'[p] = addr[p] /\ size'[p] = size[p]
      BY <2>2, <1>9 DEF Index
    <3>2. addr'[q] = addr[q] /\ size[q] # 0
      BY <2>1, <2>2, <1>1, <1>8, <1>9
    <3> QED BY <3>1, <3>2, <1>4
  <2>3. CASE q >= i
    <3>1. q + 1 \in Index /\ size'[q] = size[q + 1] /\ addr'[q] = addr[q + 1] /\ size[q + 1] # 0
      BY <2>1, <2>3, <1>10
    <3>2. CASE p < i - 1
      <4>1. addr'[p] = addr[p] /\ size'[p] = size[p]
        BY <3>2, <1>9 DEF Index
      <4>2. p < q + 1
        BY DEF Index
      <4>3. addr[p] + size[p] + 2 * ((q + 1) - p) <= addr[q + 1] + 1
        BY <3>1, <4>2, <1>4
      <4> QED BY <4>1, <4>3, <3>1, <1>2 DEF Index
    <3>3. CASE p = i - 1
      <4>1. addr'[p] + size'[p] = addr[i] + size[i]
        BY <3>3, <1>8
      <4>2. i < q + 1 /\ (q + 1) - i = q - p
        BY <2>3, <3>3 DEF Index
      <4>3. addr[i] + size[i] + 2 * ((q + 1) - i) <= addr[q + 1] + 1
        BY <3>1, <4>2, <1>4
      <4> QED BY <4>1, <4>2, <4>3, <3>1
    <3>4. CASE p >= i
      <4>1. /\ p + 1 \in Index /\ p + 1 < q + 1
            /\ size'[p] = size[p + 1] /\ addr'[p] = addr[p + 1]
        BY <3>4, <2>1, <1>1, <1>10 DEF Index
      <4>2. addr[p + 1] + size[p + 1] + 2 * ((q + 1) - (p + 1)) <= addr[q + 1] + 1
        BY <4>1, <3>1, <1>4
      <4>3. (q + 1) - (p + 1) = q - p
        BY DEF Index
      <4> QED BY <4>1, <4>2, <4>3, <3>1
    <3> QED BY <3>2, <3>3, <3>4 DEF Index
  <2> QED BY <2>2, <2>3 DEF Index
<1>17. Conserved'
  <2>1. ASSUME NEW u \in 1..Units
        PROVE (\E k \in Index : addr'[k] <= u /\ u < addr'[k] + size'[k]) <=> u \notin held'
    <3>1. (\E k \in Index : addr[k] <= u /\ u < addr[k] + size[k]) <=> u \notin held
      BY ConservedNow DEF MapInv
    <3>2. u \in held' <=> u \in held /\ ~(a <= u /\ u < a + n)
      BY DEF Run
    <3>3. addr'[i - 1] <= u /\ u < addr'[i - 1] + size'[i - 1] <=>
            \/ addr[i - 1] <= u /\ u < addr[i - 1] + size[i - 1]
            \/ a <= u /\ u < a + n
            \/ addr[i] <= u /\ u < addr[i] + size[i]
      <4>1. addr[i - 1] \in Nat /\ size[i - 1] \in Nat /\ addr[i] \in Nat /\ size[i] \in Nat
        BY <1>2, <1>3
      <4> QED BY <4>1, <1>8
    <3>4. ASSUME NEW k \in Index, addr'[k] <= u /\ u < addr'[k] + size'[k]
          PROVE  u \notin held'
      <4>1. CASE k = i - 1
        BY <4>1, <3>1, <3>2, <3>3, <3>4, <1>3
      <4>2. CASE (k < i /\ k # i - 1) \/ k >= End
        BY <4>2, <3>1, <3>2, <3>4, <1>9
      <4>3. CASE k >= i /\ k < End
        BY <4>3, <3>1, <3>2, <3>4, <1>10
      <4> QED BY <4>1, <4>2, <4>3, <1>11
    <3>5. ASSUME NEW k \in Index, addr[k] <= u /\ u < addr[k] + size[k]
          PROVE  \E l \in Index : addr'[l] <= u /\ u < addr'[l] + size'[l]
      <4>1. k < End
        BY <3>5, <1>1, <1>2
      <4>2. CASE k = i - 1 \/ k = i
        BY <4>2, <3>3, <3>5, <1>3
      <4>3. CASE k < i /\ k # i - 1
        BY <4>3, <3>5, <1>9
      <4>4. CASE k > i
        <5>1. k - 1 \in Index /\ k - 1 >= i /\ k - 1 < End /\ (k - 1) + 1 = k
          BY <4>1, <4>4, <1>1 DEF Index
        <5>2. size'[k - 1] = size[k] /\ addr'[k - 1] = addr[k]
          BY <5>1, <1>10
        <5> QED BY <5>1, <5>2, <3>5
      <4> QED BY <4>2, <4>3, <4>4 DEF Index
    <3> QED BY <3>1, <3>2, <3>3, <3>4, <3>5, <1>3
  <2> QED BY <2>1, <1>13, <1>14, ConservedStep
<1>18. EndsFollow'
  BY <1>13, <1>14, <1>16, EndsFromSpaced, PTL
<1> QED BY <1>13, <1>15, <1>16, <1>17, <1>18

(* mfree() preserves the invariant. *)
LEMMA MfreeStep ==
    ASSUME MapInv, ~Overflowed, NEW n \in 0..Units, NEW a \in 1..(Units + 1), Mfree(n, a)
    PROVE  MapInv'
<1> DEFINE i == Place(a)
<1>1. /\ runin' = FALSE /\ want' = 0 /\ ret' \in 0..Units
      /\ held \subseteq 1..Units /\ held' = held \ Run(a, n)
  BY DEF Mfree, Wake, MapInv, MapTypeOK, NoMissedCore
<1>0. /\ runin' \in BOOLEAN /\ want' \in 0..Units /\ ret' \in 0..Units
      /\ held' = held \ Run(a, n) /\ (want' # 0 => runin' /\ Fitting(want') = {})
  <2>1. runin' \in BOOLEAN
    BY <1>1, Zenon
  <2>2. want' \in 0..Units /\ (want' # 0 => runin' /\ Fitting(want') = {})
    BY <1>1
  <2> QED BY <1>1, <2>1, <2>2
<1>2. NoMissedCore'
  BY <1>1 DEF NoMissedCore
<1>3. \A j \in Index : /\ size[j] \in 0..Units /\ addr[j] \in 0..Units
                       /\ size[j] # 0 => addr[j] >= 1 /\ addr[j] + size[j] <= Units + 1
                       /\ size[j] = 0 => addr[j] = 0
  BY DEF MapInv, MapTypeOK, EndsClear
<1>4. CASE n = 0
  <2>1. i \in Index /\ (addr[i] > a \/ size[i] = 0) /\ (i > 0 => size[i - 1] # 0 /\ i - 1 \in Index)
    <3> DEFINE S == {j \in Index : addr[j] > a \/ size[j] = 0}
    <3>1. S \in SUBSET Nat /\ MAPSIZ - 1 \in S
      BY DEF Overflowed, Index
    <3>2. i \in S /\ \A j \in S : i <= j
      BY <3>1, LowestIn DEF Place
    <3> QED BY <3>2 DEF Index
  <2>2. ~(i > 0 /\ addr[i - 1] + size[i - 1] = a)
    <3> SUFFICES ASSUME i > 0, addr[i - 1] + size[i - 1] = a PROVE FALSE
      OBVIOUS
    <3>1. a - 1 \in held /\ a - 1 \in 1..Units
      BY <1>1, <1>4 DEF Mfree
    <3>2. addr[i - 1] <= a - 1 /\ a - 1 < addr[i - 1] + size[i - 1]
      BY <1>3, <2>1
    <3> QED BY <2>1, <3>1, <3>2, ConservedNow DEF MapInv
  <2>3. ~(a + n = addr[i] /\ size[i] # 0)
    BY <1>3, <1>4, <2>1
  <2>4. UNCHANGED <<size, addr>> /\ held' = held
    <3>1. UNCHANGED <<size, addr>>
      BY <1>4, <2>2, <2>3 DEF Mfree
    <3>2. Run(a, n) = {}
      BY <1>4 DEF Run
    <3> QED BY <1>1, <3>1, <3>2
  <2> QED BY <1>0, <2>4, SameMapStep
<1>5. CASE n # 0
  <2>1. n \in 1..Units /\ a \in 1..Units /\ Run(a, n) \subseteq held
    <3>1. Run(a, n) \subseteq held
      BY DEF Mfree
    <3>2. a \in Run(a, n)
      BY <1>5 DEF Run
    <3> QED BY <1>1, <1>5, <3>1, <3>2
  <2>2. /\ i \in Index /\ i <= End /\ a + n <= Units + 1
        /\ \A j \in Index : j < i => size[j] # 0 /\ addr[j] + size[j] <= a
    BY <2>1, PlaceIs
  <2>3. /\ End \in Index
        /\ \A j \in Index : j < End <=> size[j] # 0
    BY EndIs DEF MapInv
  <2>4. /\ ~(i > 0 /\ addr[i - 1] + size[i - 1] = a) =>
             \A p \in Index : p < i => addr[p] + size[p] + 2 * (i - p) <= a + 1
        /\ ~(a + n = addr[i] /\ size[i] # 0) =>
             \A q \in Index : q >= i /\ size[q] # 0 =>
                                a + n + 2 * (q + 1 - i) <= addr[q] + 1
    BY <2>1, <2>2, Gaps
  <2>5. \A x, y \in Index : x < y /\ size[y] # 0 =>
          addr[x] + size[x] + 2 * (y - x) <= addr[y] + 1
    BY DEF MapInv, Spaced
  <2>6. held' \subseteq 1..Units
    BY <1>1
  <2>7. size \in [Index -> 0..Units] /\ addr \in [Index -> 0..Units]
    BY DEF MapInv, MapTypeOK
  <2>8. CASE i > 0 /\ addr[i - 1] + size[i - 1] = a /\ a + n = addr[i]
    <3> DEFINE g == [size EXCEPT ![i - 1] = @ + n + size[i]]
    <3>1. size' = Closed(g, i) /\ addr' = Closed(addr, i)
      BY <2>8 DEF Mfree, MergeLeft
    <3>2. i - 1 \in Index
      BY <2>2, <2>8 DEF Index
    <3>3. /\ g[i - 1] = size[i - 1] + n + size[i]
          /\ \A j \in Index : j # i - 1 => g[j] = size[j]
      BY <2>7, <3>2
    <3> HIDE DEF g
    <3>4. MapTypeOK' /\ EndsFollow' /\ EndsClear' /\ Spaced' /\ Conserved'
      BY <1>0, <2>1, <2>2, <2>8, <3>1, <3>3, JoinStep
    <3> QED BY <3>4, <1>2 DEF MapInv
  <2>9. CASE i > 0 /\ addr[i - 1] + size[i - 1] = a /\ a + n # addr[i]
    <3> DEFINE k == i - 1
               s == size[k] + n
               b == addr[k]
    <3>1. /\ k \in Index /\ k < End /\ i = k + 1
          /\ size[k] \in 1..Units /\ b \in 1..Units /\ b + size[k] = a
      <4>1. k \in Index /\ k < i /\ i = k + 1
        BY <2>2, <2>9 DEF Index
      <4>2. size[k] # 0 /\ k < End
        BY <4>1, <2>2, <2>3 DEF Index
      <4> QED BY <4>1, <4>2, <1>3, <2>9
    <3>2. s \in 1..Units /\ b + s = a + n /\ b + s <= Units + 1
      BY <2>1, <2>2, <3>1
    <3>3. size' = [size EXCEPT ![k] = s] /\ addr' = [addr EXCEPT ![k] = b]
      <4>1. size' = [size EXCEPT ![i - 1] = @ + n] /\ addr' = addr
        BY <2>9 DEF Mfree, MergeLeft
      <4> QED BY <4>1, <2>7, <3>1
    <3>4. \A p \in Index : p < k => addr[p] + size[p] + 2 * (k - p) <= b + 1
      BY <2>5, <3>1
    <3>5. \A q \in Index : q > k /\ size[q] # 0 => b + s + 2 * (q - k) <= addr[q] + 1
      <4> SUFFICES ASSUME NEW q \in Index, q > k, size[q] # 0
                   PROVE  b + s + 2 * (q - k) <= addr[q] + 1
        OBVIOUS
      <4>1. q >= i /\ q + 1 - i = q - k
        BY <2>2, <3>1 DEF Index
      <4>2. a + n + 2 * (q + 1 - i) <= addr[q] + 1
        BY <4>1, <2>4, <2>9
      <4> QED BY <4>1, <4>2, <3>2
    <3>6. \A u \in 1..Units :
            u \notin held' <=> ((u \notin held /\ ~(addr[k] <= u /\ u < addr[k] + size[k]))
                                \/ (b <= u /\ u < b + s))
      <4> SUFFICES ASSUME NEW u \in 1..Units
                   PROVE  u \notin held' <=>
                            ((u \notin held /\ ~(addr[k] <= u /\ u < addr[k] + size[k]))
                             \/ (b <= u /\ u < b + s))
        OBVIOUS
      <4>1. addr[k] <= u /\ u < addr[k] + size[k] => u \notin held
        BY <3>1, ConservedNow DEF MapInv
      <4>2. u \in held' <=> u \in held /\ ~(a <= u /\ u < a + n)
        BY <1>1, <2>1 DEF Run
      <4> QED BY <4>1, <4>2, <3>1, <3>2, <2>1
    <3> HIDE DEF s, b, k
    <3>7. MapTypeOK' /\ EndsFollow' /\ EndsClear' /\ Spaced' /\ Conserved'
      BY <1>0, <2>6, <3>1, <3>2, <3>3, <3>4, <3>5, <3>6, OneEntryStep
    <3> QED BY <3>7, <1>2 DEF MapInv
  <2>10. CASE /\ ~(i > 0 /\ addr[i - 1] + size[i - 1] = a)
              /\ a + n = addr[i] /\ size[i] # 0
    <3> DEFINE s == size[i] + n
    <3>1. /\ i < End /\ size[i] \in 1..Units /\ addr[i] + size[i] <= Units + 1
      BY <2>2, <2>3, <2>10, <1>3
    <3>2. s \in 1..Units /\ a + s = addr[i] + size[i] /\ a + s <= Units + 1
      BY <2>1, <2>10, <3>1
    <3>3. size' = [size EXCEPT ![i] = s] /\ addr' = [addr EXCEPT ![i] = a]
      <4>1. size' = [size EXCEPT ![i] = @ + n] /\ addr' = [addr EXCEPT ![i] = @ - n]
        BY <2>10 DEF Mfree, MergeRight
      <4>2. addr[i] - n = a
        BY <2>1, <2>10
      <4> QED BY <4>1, <4>2, <2>7, <2>2
    <3>4. \A p \in Index : p < i => addr[p] + size[p] + 2 * (i - p) <= a + 1
      BY <2>4, <2>10
    <3>5. \A q \in Index : q > i /\ size[q] # 0 => a + s + 2 * (q - i) <= addr[q] + 1
      BY <2>2, <2>5, <3>2
    <3>6. \A u \in 1..Units :
            u \notin held' <=> ((u \notin held /\ ~(addr[i] <= u /\ u < addr[i] + size[i]))
                                \/ (a <= u /\ u < a + s))
      <4> SUFFICES ASSUME NEW u \in 1..Units
                   PROVE  u \notin held' <=>
                            ((u \notin held /\ ~(addr[i] <= u /\ u < addr[i] + size[i]))
                             \/ (a <= u /\ u < a + s))
        OBVIOUS
      <4>1. addr[i] <= u /\ u < addr[i] + size[i] => u \notin held
        BY <2>2, ConservedNow DEF MapInv
      <4>2. u \in held' <=> u \in held /\ ~(a <= u /\ u < a + n)
        BY <1>1, <2>1 DEF Run
      <4> QED BY <4>1, <4>2, <3>1, <3>2, <2>1, <2>10
    <3> HIDE DEF s, i
    <3>7. MapTypeOK' /\ EndsFollow' /\ EndsClear' /\ Spaced' /\ Conserved'
      BY <1>0, <2>1, <2>2, <2>6, <3>1, <3>2, <3>3, <3>4, <3>5, <3>6, OneEntryStep
    <3> QED BY <3>7, <1>2 DEF MapInv
  <2>11. CASE /\ ~(i > 0 /\ addr[i - 1] + size[i - 1] = a)
              /\ ~(a + n = addr[i] /\ size[i] # 0)
    <3>1. size' = Opened(size, i, n) /\ addr' = Opened(addr, i, a)
      BY <1>5, <2>11 DEF Mfree
    <3>2. MapTypeOK' /\ EndsFollow' /\ EndsClear' /\ Spaced' /\ Conserved'
      BY <1>0, <2>1, <2>2, <2>11, <3>1, OpenStep
    <3> QED BY <3>2, <1>2 DEF MapInv
  <2> QED BY <2>8, <2>9, <2>10, <2>11
<1> QED BY <1>4, <1>5

-----------------------------------------------------------------------------
(* The invariant holds of an empty map, when every unit is in use. *)
LEMMA MapInitInv == MapInit => MapInv
<1> SUFFICES ASSUME MapInit PROVE MapInv
  OBVIOUS
<1>1. MapTypeOK
  <2>1. runin \in BOOLEAN
    BY Zenon DEF MapInit
  <2>2. \A i \in Index : size[i] = 0
    BY DEF MapInit
  <2> QED BY <2>1, <2>2 DEF MapInit, MapTypeOK
<1>2. EndsFollow /\ EndsClear /\ Spaced
  BY DEF MapInit, EndsFollow, EndsClear, Spaced, Index
<1>3. Conserved
  <2>1. \A u \in 1..Units : u \notin Free
    BY <1>1, <1>2, MapFreeIs, OnlyEndsNow DEF Covered, MapInit, Index
  <2> QED BY <1>1, <1>2, <2>1, MapFreeIs, OnlyEndsNow DEF Conserved, MapInit
<1>4. NoMissedCore
  BY DEF MapInit, NoMissedCore
<1> QED BY <1>1, <1>2, <1>3, <1>4 DEF MapInv

(* Every step of malloc(), mfree(), sched() and clock() preserves it. *)
LEMMA MapNextInv == MapInv /\ [MapNext]_mapVars => MapInv'
<1> SUFFICES ASSUME MapInv, [MapNext]_mapVars PROVE MapInv'
  OBVIOUS
<1>1. ASSUME ~Overflowed, NEW n \in 1..Units, Malloc(n) PROVE MapInv'
  BY <1>1, MallocStep
<1>2. ASSUME ~Overflowed, NEW n \in 0..Units, NEW a \in 1..(Units + 1), Mfree(n, a)
      PROVE  MapInv'
  BY <1>2, MfreeStep
<1>3. ASSUME NEW n \in 1..Units, SchedSleep(n) PROVE MapInv'
  <2>1. UNCHANGED <<size, addr, held>> /\ runin' = TRUE /\ want' = n /\ ret' = 0 /\ Fitting(n) = {}
    BY <1>3 DEF SchedSleep
  <2>2. runin' \in BOOLEAN
    BY <2>1, Zenon
  <2>3. want' \in 0..Units /\ ret' \in 0..Units /\ (want' # 0 => runin' /\ Fitting(want') = {})
    BY <2>1
  <2> QED BY <2>1, <2>2, <2>3, SameMapStep
<1>4. ASSUME ClockRunin PROVE MapInv'
  <2>1. UNCHANGED <<size, addr, held>> /\ runin' = FALSE /\ want' = 0 /\ ret' = ret
    BY <1>4 DEF ClockRunin, Wake
  <2>2. runin' \in BOOLEAN
    BY <2>1, Zenon
  <2>3. want' \in 0..Units /\ ret' \in 0..Units /\ (want' # 0 => runin' /\ Fitting(want') = {})
    BY <2>1 DEF MapInv, MapTypeOK
  <2> QED BY <2>1, <2>2, <2>3, SameMapStep
<1>5. ASSUME UNCHANGED mapVars PROVE MapInv'
  <2>1. UNCHANGED <<size, addr, held>> /\ UNCHANGED <<runin, want, ret>>
    BY <1>5 DEF mapVars
  <2> QED BY <2>1, SameMapStep DEF MapInv, MapTypeOK, NoMissedCore
<1> QED BY <1>1, <1>2, <1>3, <1>4, <1>5 DEF MapNext

(* The inductive invariant of the resource map. *)
THEOREM MapInvariance == MapSpec => []MapInv
<1> QED BY MapInitInv, MapNextInv, PTL DEF MapSpec

(* malloc.c: sizes and addresses in the map are of units there are. *)
THEOREM MapTypeCorrect == MapSpec => []MapTypeOK
<1>1. MapInv => MapTypeOK
  BY DEF MapInv
<1> QED BY <1>1, MapInvariance, PTL

(* The map keeps the ends that mfree() does not write, and an entry is in  *)
(* use only with its share of separate runs below it, after any sequence   *)
(* of calls and whatever the size of the array.                            *)
THEOREM EntriesNeedRoom == MapSpec => []EndsFollow
<1>1. MapInv => EndsFollow
  BY DEF MapInv
<1> QED BY <1>1, MapInvariance, PTL

(* Entries stay in order of address and are combined wherever possible. *)
THEOREM MapCoalesced == MapSpec => []Coalesced
<1>1. MapInv => Coalesced
  BY SpacedIsCoalesced DEF MapInv
<1> QED BY <1>1, MapInvariance, PTL

(* No unit is handed out twice, and none is lost. *)
THEOREM UnitsConserved == MapSpec => []Conserved
<1>1. MapInv => Conserved
  BY DEF MapInv
<1> QED BY <1>1, MapInvariance, PTL

(* sched() never sleeps while what it waits for fits. *)
THEOREM SchedulerWoken == MapSpec => []NoMissedCore
<1>1. MapInv => NoMissedCore
  BY DEF MapInv
<1> QED BY <1>1, MapInvariance, PTL

-----------------------------------------------------------------------------
(* The refinement of FirstFit.                                             *)

(* malloc() takes the lowest run that is long enough, or there is none. *)
LEMMA MallocFirstFit ==
    ASSUME MapInv, MapInv', ~Overflowed, NEW n \in 1..Units, Malloc(n)
    PROVE  Abstract!Refuse(n) \/ \E a \in 1..Units : Abstract!Take(n, a)
<1>1. Free = 1..Units \ held /\ Free' = 1..Units \ held' /\ held \subseteq 1..Units
  BY DEF MapInv, Conserved, MapTypeOK
<1>2. ASSUME NEW b \in 1..Units, Run(b, n) \subseteq Free
      PROVE  \E j \in Index : size[j] >= n /\ addr[j] <= b
  BY <1>2, RunInOneEntry, SpacedIsCoalesced DEF MapInv
<1>3. CASE Fitting(n) = {}
  <2>1. \A j \in Index : ~(size[j] >= n)
    BY <1>3, EndIs DEF MapInv, Fitting, MapTypeOK
  <2>2. \A b \in 1..Units : ~(Run(b, n) \subseteq Free)
    BY <1>2, <2>1
  <2>3. ret' = 0 /\ Free' = Free
    BY <1>1, <1>3 DEF Malloc
  <2> QED BY <2>2, <2>3 DEF Abstract!Refuse, Abstract!Run, Run
<1>4. CASE Fitting(n) # {}
  <2> DEFINE i == Lowest(Fitting(n))
  <2>1. /\ i \in Index /\ i < End /\ size[i] >= n
        /\ \A j \in Index : size[j] >= n => i <= j
        /\ ret' = addr[i] /\ held' = held \cup Run(addr[i], n)
    BY <1>4, FitIs DEF Malloc
  <2> HIDE DEF i
  <2>2. \A j \in Index : size[j] \in 0..Units /\ addr[j] \in 0..Units
    BY DEF MapInv, MapTypeOK
  <2>3. addr[i] \in 1..Units /\ addr[i] + size[i] <= Units + 1
    BY <2>1, <2>2 DEF MapInv, MapTypeOK
  <2>4. Run(addr[i], n) \subseteq Free
    <3>1. ASSUME NEW u \in Run(addr[i], n)
          PROVE  u \in 1..Units /\ addr[i] <= u /\ u < addr[i] + size[i]
      <4> DEFINE x == addr[i]
                 y == size[i]
      <4>1. x \in 1..Units /\ y \in 0..Units /\ n <= y /\ x + y <= Units + 1
        BY <2>1, <2>2, <2>3
      <4> HIDE DEF x, y
      <4>2. u \in Run(x, n)
        BY <3>1 DEF x
      <4>3. u \in 1..Units /\ x <= u /\ u < x + y
        BY <4>1, <4>2 DEF Run
      <4> QED BY <4>3 DEF x, y
    <3> QED BY <2>1, <3>1, MapFreeIs, OnlyEndsNow DEF Covered, MapInv
  <2>5. ASSUME NEW b \in 1..Units, Run(b, n) \subseteq Free PROVE addr[i] <= b
    <3>1. PICK j \in Index : size[j] >= n /\ addr[j] <= b
      BY <1>2, <2>5
    <3>2. i <= j /\ size[j] # 0
      BY <2>1, <2>2, <3>1
    <3>3. i = j \/ addr[i] + size[i] < addr[j]
      BY <2>1, <3>2, SpacedIsCoalesced DEF MapInv, Coalesced, Index
    <3> QED BY <2>1, <2>2, <3>1, <3>3
  <2>6. Free' = Free \ Run(addr[i], n)
    BY <1>1, <2>1
  <2> QED BY <2>1, <2>3, <2>4, <2>5, <2>6 DEF Abstract!Take, Abstract!Run, Run
<1> QED BY <1>3, <1>4

(* malloc() and mfree() implement first-fit allocation of a set of units. *)
THEOREM ImplementsFirstFit == MapSpec => IsFirstFit
<1>1. MapInit => Abstract!Init
  <2> SUFFICES ASSUME MapInit PROVE Abstract!Init
    OBVIOUS
  <2>1. Conserved
    BY MapInitInv DEF MapInv
  <2> QED BY <2>1 DEF MapInit, Conserved, Abstract!Init
<1>2. MapInv /\ MapInv' /\ [MapNext]_mapVars => [Abstract!Next]_<<Free, ret>>
  <2> SUFFICES ASSUME MapInv, MapInv', [MapNext]_mapVars PROVE [Abstract!Next]_<<Free, ret>>
    OBVIOUS
  <2>1. Free = 1..Units \ held /\ Free' = 1..Units \ held' /\ held \subseteq 1..Units
    BY DEF MapInv, Conserved, MapTypeOK
  <2>2. ASSUME ~Overflowed, NEW n \in 1..Units, Malloc(n) PROVE Abstract!Next
    BY <2>2, MallocFirstFit DEF Abstract!Next
  <2>3. ASSUME NEW n \in 0..Units, NEW a \in 1..(Units + 1), Mfree(n, a) PROVE Abstract!Next
    <3>1. Run(a, n) \subseteq held /\ held' = held \ Run(a, n) /\ ret' = ret
      BY <2>3 DEF Mfree
    <3>2. /\ Run(a, n) \subseteq 1..Units /\ Run(a, n) \cap Free = {}
          /\ Free' = Free \cup Run(a, n)
      BY <2>1, <3>1
    <3>3. Abstract!Give(n, a) /\ Abstract!Run(a, n) \subseteq 1..Units
      BY <3>1, <3>2 DEF Abstract!Give, Abstract!Run, Run
    <3> QED BY <3>3 DEF Abstract!Next
  <2>4. ASSUME ~Overflowed, NEW n \in 1..Units, SchedSleep(n) PROVE Abstract!Next
    <3>2. Fitting(n) = {} /\ ret' = 0 /\ Free' = Free
      BY <2>1, <2>4 DEF SchedSleep
    <3>3. \A j \in Index : ~(size[j] >= n)
      BY <2>4, <3>2, EndIs DEF MapInv, Fitting, MapTypeOK
    <3>4. \A b \in 1..Units : ~(Run(b, n) \subseteq Free)
      BY <3>3, RunInOneEntry, SpacedIsCoalesced DEF MapInv
    <3>5. Abstract!Refuse(n)
      BY <3>2, <3>4 DEF Abstract!Refuse, Abstract!Run, Run
    <3> QED BY <3>5 DEF Abstract!Next
  <2>5. ASSUME ClockRunin \/ UNCHANGED mapVars PROVE UNCHANGED <<Free, ret>>
    BY <2>1, <2>5 DEF ClockRunin, mapVars
  <2> QED BY <2>2, <2>3, <2>4, <2>5 DEF MapNext
<1> QED BY <1>1, <1>2, MapInvariance, PTL DEF MapSpec, IsFirstFit, Abstract!Spec
=============================================================================

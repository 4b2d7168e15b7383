------------------------------- MODULE Inodes -------------------------------
(***************************************************************************)
(* The inodes of one file system: the table of inodes in core with iget(), *)
(* iput(), iupdat() (sys/sys/iget.c), plock() and prele() (pipe.c), and    *)
(* the cache of free inode numbers in the super block with ialloc() and    *)
(* ifree() (alloc.c), as creat(), open(), unlink(), close() and sync() use *)
(* them.                                                                   *)
(*                                                                         *)
(* A process gives up the processor only where it sleeps, and what it has  *)
(* read before may be wrong after: cpu is the process that is in the       *)
(* kernel and has not slept yet, and only that one takes a step.  The      *)
(* blocks of the i-list are what the buffer cache promises (BlockStore):   *)
(* bread() sleeps and then yields the last that was written.               *)
(***************************************************************************)
EXTENDS Integers, Sequences, FiniteSets

CONSTANTS
    Proc,           \* processes
    NoOne,          \* no process
    NINO,           \* inodes are 1..NINO
    INOPB,          \* inodes in a block of the i-list
    NINODE,         \* size of the inode table
    NICINOD,        \* size of s_inode
    MaxFaults       \* bound: so many transfers fail

ASSUME InodesAssumption ==
    /\ IsFiniteSet(Proc) /\ NoOne \notin Proc /\ MaxFaults \in Nat
    /\ {NINO, INOPB, NINODE, NICINOD} \subseteq Nat \ {0}

Ino == 1..NINO
Slot == 1..NINODE
Adr == 0..((NINO - 1) \div INOPB)       \* the blocks of the i-list

VARIABLES
    inode,          \* the table: i_number (0: none), ILOCK, IWANT, i_count,
                    \* i_mode (0: not allocated), i_nlink, and upd for any of
                    \* IUPD, IACC and ICHG
    disk,           \* di_mode and di_nlink of the inodes
    sinode, ilock,  \* s_inode[0 .. s_ninode-1] and s_ilock
    dir,            \* the inodes that a directory entry names
    cpu,            \* the process that runs in the kernel, or NoOne
    pc, op,         \* where a process is, and what for: "put" when all that is left is iput()
    ino, ip, adr,   \* the variables of these names of ialloc() and iget()
    files,          \* the files: created, and not deallocated (history)
    faults          \* how many transfers have failed (history)

super == <<sinode, ilock>>
local == <<ino, ip, adr>>
history == <<files, faults>>
vars == <<inode, disk, super, dir, cpu, pc, op, local, history>>

OnCpu == {"loop", "iget", "got", "plock", "iput", "ifree", "update"}
Asleep == {"scan", "iread", "trunc", "wdir", "itrunc", "iupdat", "sync",
           "ilockwait", "igetwait", "plockwait"}
PC == {"user", "open", "ialloc"} \cup OnCpu \cup Asleep

NoInode == [number |-> 0, lock |-> FALSE, want |-> FALSE, count |-> 0,
            mode |-> 0, nlink |-> 0, upd |-> FALSE]

(* A file system with some files and an empty cache, just mounted. *)
Init ==
    /\ inode = [s \in Slot |-> NoInode]
    /\ files \in SUBSET Ino
    /\ dir = files
    /\ disk = [i \in Ino |-> IF i \in files THEN [mode |-> 1, nlink |-> 1]
                                            ELSE [mode |-> 0, nlink |-> 0]]
    /\ sinode = <<>> /\ ilock = 0
    /\ cpu = NoOne /\ faults = 0
    /\ pc = [p \in Proc |-> "user"] /\ op = [p \in Proc |-> "none"]
    /\ ino = [p \in Proc |-> 0] /\ ip = [p \in Proc |-> 0] /\ adr = [p \in Proc |-> 0]

-----------------------------------------------------------------------------
(* p is at a place and may run. *)
At(p, place) == pc[p] = place /\ cpu \in {NoOne, p}

(* Where a sleeper goes on when it is woken. *)
Woken(place) == CASE place = "ilockwait" -> "ialloc"
                  [] place = "igetwait"  -> "iget"
                  [] place = "plockwait" -> "plock"

(* p goes on at a place, and wakeup() wakes the processes in woken.        *)
Goto(p, place, woken) ==
    /\ pc' = [q \in Proc |-> IF q = p THEN place
                             ELSE IF q \in woken THEN Woken(pc[q]) ELSE pc[q]]
    /\ cpu' = IF place \in OnCpu THEN p ELSE NoOne

(* The system call is over, and its variables are gone. *)
Return(p, woken) ==
    /\ Goto(p, "user", woken)
    /\ op' = [op EXCEPT ![p] = "none"]
    /\ ino' = [ino EXCEPT ![p] = 0] /\ ip' = [ip EXCEPT ![p] = 0] /\ adr' = [adr EXCEPT ![p] = 0]

(* A transfer fails, or does not. *)
Fails == faults < MaxFaults /\ faults' = faults + 1
Succeeds == UNCHANGED faults

(* Mutant of Wanting: plock() sleeps elsewhere. *)
Bug_WantingIget(s) == IF inode[s].want
                      THEN {q \in Proc : pc[q] = "igetwait" /\ ip[q] = s} ELSE {}

(* Those whom prele() of slot s, and the end of a scan, wake.              *)
Wanting(s) == IF inode[s].want
              THEN {q \in Proc : pc[q] \in {"igetwait", "plockwait"} /\ ip[q] = s}
              ELSE {}
WaitingForIlist == {q \in Proc : pc[q] = "ilockwait"}

(* Mutants of Locked and Taken: the flag is not tested, or the reference   *)
(* not counted.                                                            *)
Bug_LockedNever(x) == FALSE
Bug_TakenNoCount(x) == [x EXCEPT !.lock = TRUE, !.count = IF @ = 0 THEN 1 ELSE @]

(* An inode that is locked, that is locked with one more reference to it,  *)
(* and that prele() has unlocked.                                          *)
Locked(x) == x.lock
Taken(x) == [x EXCEPT !.lock = TRUE, !.count = @ + 1]
Prele(x) == [x EXCEPT !.lock = FALSE, !.want = FALSE]

(* getfs(): the cache of inodes, emptied when its count is impossible.     *)
Getfs == IF Len(sinode) > NICINOD THEN <<>> ELSE sinode

InCore(i) == \E s \in Slot : inode[s].number = i

-----------------------------------------------------------------------------
(* iget() up to where it sleeps or returns: an inode in core is locked or  *)
(* waited for; another one gets the first free slot, whose i_mode and      *)
(* i_nlink are still those of the inode that was there, and is read in.    *)
Iget(p) ==
    /\ At(p, "iget")
    /\ \/ \E s \in Slot :
            /\ inode[s].number = ino[p]
            /\ ip' = [ip EXCEPT ![p] = s]
            /\ IF Locked(inode[s])
               THEN /\ inode' = [inode EXCEPT ![s].want = TRUE]
                    /\ Goto(p, "igetwait", {})
               ELSE /\ inode' = [inode EXCEPT ![s] = Taken(@)]
                    /\ Goto(p, "got", {})
            /\ UNCHANGED <<op, ino, adr>>
       \/ LET free == {s \in Slot : inode[s].count = 0}
          IN  /\ ~InCore(ino[p])
              /\ \/ /\ free = {}
                    /\ Return(p, {})
                    /\ UNCHANGED inode
                 \/ \E s \in free :
                      /\ \A t \in free : s <= t
                      /\ inode' = [inode EXCEPT ![s] =
                           [Taken(@) EXCEPT !.number = ino[p], !.want = FALSE, !.upd = FALSE]]
                      /\ ip' = [ip EXCEPT ![p] = s]
                      /\ Goto(p, "iread", {})
                      /\ UNCHANGED <<op, ino, adr>>
    /\ UNCHANGED <<disk, super, dir, history>>

(* bread() is through: iexpand() copies the inode.  After an error what    *)
(* the slot holds is handed to iput().                                     *)
IgetRead(p) ==
    /\ At(p, "iread")
    /\ \/ /\ Succeeds
          /\ inode' = [inode EXCEPT ![ip[p]].mode = disk[ino[p]].mode,
                                    ![ip[p]].nlink = disk[ino[p]].nlink]
          /\ Goto(p, "got", {})
          /\ UNCHANGED op
       \/ /\ Fails
          /\ op' = [op EXCEPT ![p] = "put"]
          /\ Goto(p, "iput", {})
          /\ UNCHANGED inode
    /\ UNCHANGED <<disk, super, dir, local, files>>

-----------------------------------------------------------------------------
(* Where iput() returns to: ialloc() looks some more, all others are done; *)
(* update() goes on with the next inode.                                   *)
IputReturns(p, woken) ==
    CASE op[p] = "create" -> Goto(p, "loop", woken) /\ UNCHANGED <<op, local>>
      [] op[p] = "sync"   -> Goto(p, "update", woken) /\ UNCHANGED <<op, local>>
      [] OTHER            -> Return(p, woken)

(* The end of iput() of the last reference: the slot is free. *)
Released(x) == [x EXCEPT !.number = 0, !.lock = FALSE, !.want = FALSE,
                         !.upd = FALSE, !.count = 0]

NoLinks(x) == x.nlink <= 0

(* iput() up to where it sleeps: a last reference without links makes it   *)
(* free the file, a last reference to a changed inode makes it write it.   *)
Iput(p) ==
    LET s == ip[p]
        x == inode[s]
    IN  /\ At(p, "iput")
        /\ \/ /\ x.count > 1
              /\ inode' = [inode EXCEPT ![s] = Prele([x EXCEPT !.count = @ - 1])]
              /\ IputReturns(p, Wanting(s))
              /\ UNCHANGED sinode
           \/ /\ x.count = 1 /\ ~NoLinks(x) /\ ~x.upd
              /\ inode' = [inode EXCEPT ![s] = Released(x)]
              /\ IputReturns(p, Wanting(s))
              /\ UNCHANGED sinode
           \/ /\ x.count = 1 /\ (NoLinks(x) \/ x.upd)
              /\ inode' = [inode EXCEPT ![s].lock = TRUE]
              /\ sinode' = Getfs
              /\ Goto(p, IF ~NoLinks(x) THEN "iupdat"
                         ELSE IF x.mode = 0 THEN "ifree" ELSE "itrunc", {})
              /\ UNCHANGED <<op, local>>
        /\ UNCHANGED <<disk, ilock, dir, history>>

(* ifree(): the number is kept when there is room and no scan is under way. *)
Ifree(i) == IF ilock > 0 \/ Len(Getfs) >= NICINOD THEN Getfs ELSE Append(Getfs, i)

(* Mutant of NoFile: i_mode is left as it is. *)
Bug_NoFileMode(x) == [x EXCEPT !.upd = TRUE]

(* An inode that is no file any more. *)
NoFile(x) == [x EXCEPT !.mode = 0, !.upd = TRUE]

(* itrunc(), which does nothing with an inode that is no file, is through: *)
(* the file is deallocated.                                                *)
IputFree(p) ==
    /\ At(p, "itrunc") \/ At(p, "ifree")
    /\ inode' = [inode EXCEPT ![ip[p]] = NoFile(@)]
    /\ files' = files \ {inode[ip[p]].number}
    /\ sinode' = Ifree(inode[ip[p]].number)
    /\ Goto(p, "iupdat", {})
    /\ UNCHANGED <<disk, ilock, dir, op, local, faults>>

(* What iupdat() leaves in the block, unless it cannot read it.            *)
Iupdated(x) ==
    \/ Succeeds /\ disk' = [disk EXCEPT ![x.number] = [mode |-> x.mode, nlink |-> x.nlink]]
    \/ Fails /\ UNCHANGED disk

(* iupdat() of a last reference is through, and the slot is released. *)
IputUpdated(p) ==
    /\ At(p, "iupdat")
    /\ Iupdated(inode[ip[p]])
    /\ inode' = [inode EXCEPT ![ip[p]] = Released(@)]
    /\ IputReturns(p, Wanting(ip[p]))
    /\ UNCHANGED <<super, dir, files>>

-----------------------------------------------------------------------------
(* ialloc() has waited until nobody scans the i-list. *)
Ialloc(p) ==
    /\ At(p, "ialloc")
    /\ Goto(p, IF ilock > 0 THEN "ilockwait" ELSE "loop", {})
    /\ UNCHANGED <<inode, disk, super, dir, op, local, history>>

(* The head of its loop: a number of the cache is looked up, and if there  *)
(* is none, a scan begins.                                                 *)
IallocLoop(p) ==
    /\ At(p, "loop")
    /\ IF sinode # <<>>
       THEN /\ ino' = [ino EXCEPT ![p] = sinode[Len(sinode)]]
            /\ sinode' = SubSeq(sinode, 1, Len(sinode) - 1)
            /\ Goto(p, "iget", {})
            /\ UNCHANGED <<ilock, adr>>
       ELSE /\ ilock' = ilock + 1
            /\ adr' = [adr EXCEPT ![p] = 0]
            /\ Goto(p, "scan", {})
            /\ UNCHANGED <<sinode, ino>>
    /\ UNCHANGED <<inode, disk, dir, op, ip, history>>

(* The free inodes of block a. *)
FreeOf(a) == {i \in Ino : (i - 1) \div INOPB = a /\ disk[i].mode = 0 /\ ~InCore(i)}

(* The cache after block a was searched: its first free inodes, in order,  *)
(* are put in.  s_ninode is compared with NICINOD only when one was.       *)
Scanned(a) ==
    LET room == IF Len(sinode) < NICINOD THEN NICINOD - Len(sinode) ELSE 1
        found == Cardinality(FreeOf(a))
    IN  {sinode \o new : new \in
           {t \in [1..(IF found < room THEN found ELSE room) -> FreeOf(a)] :
              /\ \A j, k \in DOMAIN t : j < k => t[j] < t[k]
              /\ \A k \in DOMAIN t : \A i \in FreeOf(a) :
                   i < t[k] => \E j \in DOMAIN t : t[j] = i}}

(* The scan goes on with the next block, or is over: whoever waits is      *)
(* woken, and the loop is tried again unless nothing was found.            *)
ScanNext(p, enough) ==
    IF adr[p] + 1 \in Adr /\ ~enough
    THEN /\ adr' = [adr EXCEPT ![p] = @ + 1]
         /\ Goto(p, "scan", {})
         /\ UNCHANGED <<ilock, op, ino, ip>>
    ELSE /\ ilock' = 0
         /\ IF sinode' = <<>>
            THEN Return(p, WaitingForIlist)
            ELSE /\ Goto(p, "loop", WaitingForIlist)
                 /\ adr' = [adr EXCEPT ![p] = 0]
                 /\ UNCHANGED <<op, ino, ip>>

(* bread() of a block of the i-list is through. *)
IallocScan(p) ==
    /\ At(p, "scan")
    /\ \/ /\ Succeeds
          /\ sinode' \in Scanned(adr[p])
          /\ ScanNext(p, Len(sinode') >= NICINOD)
       \/ /\ Fails
          /\ UNCHANGED sinode
          /\ ScanNext(p, FALSE)
    /\ UNCHANGED <<inode, disk, dir, files>>

(* Mutant of IsFree: the mode is not tested. *)
Bug_IsFreeAlways(x) == TRUE

IsFree(x) == x.mode = 0

(* ialloc() has got the inode.  A free one becomes the new file of         *)
(* maknode(); one that "was allocated after all" is put back.              *)
IallocGot(p) ==
    /\ At(p, "got") /\ op[p] = "create"
    /\ IF IsFree(inode[ip[p]])
       THEN /\ inode' = [inode EXCEPT ![ip[p]].mode = 1, ![ip[p]].nlink = 1,
                                      ![ip[p]].upd = TRUE]
            /\ files' = files \cup {ino[p]}
            /\ Goto(p, "wdir", {})
       ELSE /\ Goto(p, "iput", {})
            /\ UNCHANGED <<inode, files>>
    /\ UNCHANGED <<disk, super, dir, op, local, faults>>

-----------------------------------------------------------------------------
(* The system calls.  namei() finds the entry of a file with the directory *)
(* locked, and unlink() keeps that lock until it is done; open() has       *)
(* unlocked it, and may have slept, when it comes to iget().               *)
Linked(i) == i \in dir /\ \A q \in Proc : ~(op[q] = "unlink" /\ ino[q] = i)

Call(p, o, place) ==
    /\ pc[p] = "user" /\ cpu = NoOne
    /\ op' = [op EXCEPT ![p] = o]
    /\ pc' = [pc EXCEPT ![p] = place]

Creat(p) ==
    /\ Call(p, "create", "ialloc")
    /\ sinode' = Getfs
    /\ UNCHANGED <<inode, disk, ilock, dir, cpu, local, history>>

Open(p, i) ==
    /\ Linked(i)
    /\ Call(p, "open", "iget")
    /\ ino' = [ino EXCEPT ![p] = i]
    /\ UNCHANGED <<inode, disk, super, dir, cpu, ip, adr, history>>

Unlink(p, i) ==
    /\ Linked(i)
    /\ Call(p, "unlink", "iget")
    /\ ino' = [ino EXCEPT ![p] = i]
    /\ UNCHANGED <<inode, disk, super, dir, cpu, ip, adr, history>>

Sync(p) ==
    /\ \A q \in Proc : op[q] # "sync"
    /\ Call(p, "sync", "update")
    /\ ip' = [ip EXCEPT ![p] = 0]
    /\ UNCHANGED <<inode, disk, super, dir, cpu, ino, adr, history>>

(* open1() has an open file: the inode is unlocked, and changed or not     *)
(* while it is used.                                                       *)
Opened(p) ==
    /\ \E upd \in {inode[ip[p]].upd, TRUE} :
         inode' = [inode EXCEPT ![ip[p]] = Prele([@ EXCEPT !.upd = upd])]
    /\ op' = [op EXCEPT ![p] = "none"]
    /\ Goto(p, "open", Wanting(ip[p]))

(* creat() of a file that there is sleeps in itrunc() with it locked. *)
Truncates(p) ==
    /\ Goto(p, "trunc", {})
    /\ UNCHANGED <<inode, op>>

(* Access is denied, and the inode is put; or prele() has woken whoever    *)
(* waits when falloc() finds no room, and iput() locks the inode again     *)
(* before anybody runs.                                                    *)
Denied(p) ==
    /\ op' = [op EXCEPT ![p] = "put"]
    /\ Goto(p, "iput", {})
    /\ UNCHANGED inode

FallocFails(p) ==
    /\ inode' = [inode EXCEPT ![ip[p]].want = FALSE]
    /\ op' = [op EXCEPT ![p] = "put"]
    /\ Goto(p, "iput", Wanting(ip[p]))

OpenGot(p) ==
    /\ At(p, "got") /\ op[p] = "open"
    /\ Opened(p) \/ Truncates(p) \/ Denied(p) \/ FallocFails(p)
    /\ UNCHANGED <<disk, super, dir, local, history>>

OpenTruncated(p) ==
    /\ At(p, "trunc")
    /\ Opened(p) \/ FallocFails(p)
    /\ UNCHANGED <<disk, super, dir, local, history>>

(* unlink() writes the entry, or refuses a directory or a text in use.     *)
UnlinkGot(p) ==
    /\ At(p, "got") /\ op[p] = "unlink"
    /\ Goto(p, "wdir", {}) \/ Goto(p, "iput", {})
    /\ UNCHANGED <<inode, disk, super, dir, op, local, history>>

(* wdir() has written the entry of the new file.  When it could not, the   *)
(* inode is put.                                                           *)
CreatEntered(p) ==
    /\ At(p, "wdir") /\ op[p] = "create"
    /\ \/ /\ Succeeds
          /\ dir' = dir \cup {ino[p]}
          /\ Opened(p) \/ FallocFails(p)
       \/ /\ Fails
          /\ op' = [op EXCEPT ![p] = "put"]
          /\ Goto(p, "iput", {})
          /\ UNCHANGED <<inode, dir>>
    /\ UNCHANGED <<disk, super, local, files>>

(* unlink() has removed the entry, and counts the link down though writei() *)
(* failed and the entry is still there.                                    *)
UnlinkRemoved(p) ==
    /\ At(p, "wdir") /\ op[p] = "unlink"
    /\ \/ Succeeds /\ dir' = dir \ {ino[p]}
       \/ Fails /\ UNCHANGED dir
    /\ inode' = [inode EXCEPT ![ip[p]].nlink = @ - 1, ![ip[p]].upd = TRUE]
    /\ Goto(p, "iput", {})
    /\ UNCHANGED <<disk, super, op, local, files>>

(* close(): closef() locks the inode and puts it. *)
Close(p) ==
    /\ pc[p] = "open" /\ cpu = NoOne
    /\ pc' = [pc EXCEPT ![p] = "plock"]
    /\ op' = [op EXCEPT ![p] = "put"]
    /\ UNCHANGED <<inode, disk, super, dir, cpu, local, history>>

Plock(p) ==
    /\ At(p, "plock")
    /\ IF Locked(inode[ip[p]])
       THEN /\ inode' = [inode EXCEPT ![ip[p]].want = TRUE]
            /\ Goto(p, "plockwait", {})
       ELSE /\ inode' = [inode EXCEPT ![ip[p]].lock = TRUE]
            /\ Goto(p, "iput", {})
    /\ UNCHANGED <<disk, super, dir, op, local, history>>

(* The loop of update() over the table: the next inode in use that is not  *)
(* locked is locked, written and put.                                      *)
Update(p) ==
    LET todo == {s \in Slot : s > ip[p] /\ ~Locked(inode[s]) /\ inode[s].count > 0}
    IN  /\ At(p, "update")
        /\ \/ /\ todo = {}
              /\ Return(p, {})
              /\ UNCHANGED <<inode, sinode>>
           \/ \E s \in todo :
                /\ \A t \in todo : s <= t
                /\ inode' = [inode EXCEPT ![s] = Taken(@)]
                /\ ip' = [ip EXCEPT ![p] = s]
                /\ Goto(p, IF inode[s].upd THEN "sync" ELSE "iput", {})
                /\ sinode' = IF inode[s].upd THEN Getfs ELSE sinode
                /\ UNCHANGED <<op, ino, adr>>
        /\ UNCHANGED <<disk, ilock, dir, history>>

(* iupdat() is through: what it could not write is still to be written.    *)
UpdateWritten(p) ==
    /\ At(p, "sync")
    /\ Iupdated(inode[ip[p]])
    /\ inode' = [inode EXCEPT ![ip[p]].upd = @ /\ faults' # faults]
    /\ Goto(p, "iput", {})
    /\ UNCHANGED <<super, dir, op, local, files>>

Kernel(p) ==
    \/ Iget(p) \/ IgetRead(p) \/ Iput(p) \/ IputFree(p) \/ IputUpdated(p)
    \/ Ialloc(p) \/ IallocLoop(p) \/ IallocScan(p) \/ IallocGot(p)
    \/ OpenGot(p) \/ OpenTruncated(p) \/ UnlinkGot(p) \/ CreatEntered(p) \/ UnlinkRemoved(p)
    \/ Plock(p) \/ Update(p) \/ UpdateWritten(p)

Next == \E p \in Proc :
          \/ Creat(p) \/ Sync(p) \/ Close(p)
          \/ \E i \in Ino : Open(p, i) \/ Unlink(p, i)
          \/ Kernel(p)

Spec == Init /\ [][Next]_vars

-----------------------------------------------------------------------------
(* Table, cache and locals stay in range, who runs is at a place where it  *)
(* runs, and no link is counted down twice unless a transfer failed.       *)
TypeOK ==
    /\ inode \in [Slot -> [number : {0} \cup Ino, lock : BOOLEAN, want : BOOLEAN,
                           count : Nat, mode : 0..1, nlink : Int, upd : BOOLEAN]]
    /\ faults = 0 => \A s \in Slot : inode[s].nlink >= 0
    /\ disk \in [Ino -> [mode : 0..1, nlink : Int]]
    /\ sinode \in Seq(Ino) /\ ilock \in Nat
    /\ dir \subseteq Ino /\ files \subseteq Ino
    /\ pc \in [Proc -> PC]
    /\ cpu # NoOne => pc[cpu] \in OnCpu
    /\ \A p \in Proc : pc[p] \in {"loop", "got", "iput", "ifree"} => cpu = p

(* A process that has an inode of the table locked. *)
Holds(p) == pc[p] \in {"iread", "got", "trunc", "wdir", "iput", "ifree", "itrunc", "iupdat", "sync"}

(* "There is a unique inode allocated for each active file", and at most   *)
(* one process has it locked.                                              *)
OneInode ==
    /\ \A s, t \in Slot : s # t /\ inode[s].number = inode[t].number => inode[s].number = 0
    /\ \A s \in Slot : inode[s].lock <=> \E p \in Proc : Holds(p) /\ ip[p] = s
    /\ \A p, q \in Proc : Holds(p) /\ Holds(q) /\ ip[p] = ip[q] => p = q

(* i_count counts the processes that have the inode open or locked.        *)
References ==
    \A s \in Slot : inode[s].count =
      Cardinality({p \in Proc : ip[p] = s /\ (Holds(p) \/ pc[p] \in {"open", "plock", "plockwait"})})

(* Nobody sleeps for an inode that is not locked, or for a scan that is    *)
(* over.                                                                   *)
NoLostWakeup ==
    \A p \in Proc :
      /\ pc[p] \in {"igetwait", "plockwait"} => inode[ip[p]].lock /\ inode[ip[p]].want
      /\ pc[p] = "ilockwait" => ilock > 0

(* The mode of an inode, wherever it is kept. *)
Reading(s) == \E p \in Proc : pc[p] = "iread" /\ ip[p] = s
Mode(i) == IF \E s \in Slot : inode[s].number = i /\ ~Reading(s)
           THEN inode[CHOOSE s \in Slot : inode[s].number = i].mode
           ELSE disk[i].mode

(* As long as no transfer fails: what is no file is free and what is a     *)
(* file is not, in core and, when it has left the core, on the disk.  No   *)
(* file is lost and no inode leaks.                                        *)
ModesRight == faults = 0 => \A i \in Ino : Mode(i) # 0 <=> i \in files

(* ialloc(): "Allocate an unused I node".  As long as no transfer fails,   *)
(* the inode that creat() gets is that of no file, and no directory entry  *)
(* names it.                                                               *)
GetsUnused == \A p \in Proc : pc[p] = "got" /\ op[p] = "create" /\ pc'[p] = "wdir"
                                => ino[p] \notin files \cup dir
UnusedUnlessFault == [][faults = 0 => GetsUnused]_vars

(* "The algorithm keeps up to NICINOD spare I nodes in the super block."   *)
Bounded == Len(sinode) <= NICINOD
=============================================================================

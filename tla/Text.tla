-------------------------------- MODULE Text --------------------------------
(***************************************************************************)
(* Shared text segments and swapping: sys/sys/text.c, sched(), swapin(),   *)
(* newproc() and expand() of slp.c, as exec, fork, exit and unlink use     *)
(* them.                                                                   *)
(*                                                                         *)
(* A program is the inode it comes from.  core and disk say what is in the *)
(* core and in the swap space of a segment.  malloc() may fail at any time *)
(* for core, never for swap space.  A step of a process reaches from one   *)
(* sleep to the next; the end of a transfer is part of the step that       *)
(* follows it.  pc says where a process is:                                *)
(*   user, blocked        in user mode; asleep somewhere in the kernel     *)
(*   xfree, xfwrite       in xfree(), writing the segment                  *)
(*   expand, xalloc       in getxfile()                                    *)
(*   attach, xread        in xalloc(), for the lock, reading the segment   *)
(*   attached, load       behind xexpand()                                 *)
(*   readi                in xalloc(), reading the file                    *)
(*   wrtext, wrproc       in xswap(), for itself                           *)
(*   idl, wrchild         in newproc() without core, parent and child      *)
(*   untext               in xuntext(), for the lock                       *)
(*                                                                         *)
(* xlock() is not tried in xfree() and xccdec(): LockedOut says that it    *)
(* never waits there.                                                      *)
(*                                                                         *)
(* xalloc() and xuntext() go on with the entry they slept for, be it the   *)
(* same segment or not: when sched() has swapped out the process in        *)
(* between, others may have freed the entry.  astray says that this has    *)
(* happened, and the model stops there: the counts, the swap space and the *)
(* inode of an entry that is free, or another's, are then taken as they    *)
(* come.                                                                   *)
(***************************************************************************)
EXTENDS Integers, FiniteSets

CONSTANTS
    Proc,           \* processes, but for the swapper
    Seg,            \* text[]
    Ino,            \* inodes of programs
    Sticky,         \* those with ISVTX
    none

ASSUME TextAssumption ==
    /\ Sticky \subseteq Ino /\ IsFiniteSet(Proc)
    /\ none \notin Proc \cup Seg \cup Ino
    /\ "sched" \notin Proc /\ "none" \notin Ino /\ "junk" \notin Ino

VARIABLES
    iptr, count, ccount, flag,      \* struct text; flag: "lock", "want", "load", "writ"
    core, disk,                     \* contents: "none", "junk" or a program
    textp, prog,                    \* p_textp, and the program a process is to run
    newip, xp,                      \* the inode exec has locked, the segment a call is about
    pc, after,                      \* after: where a process goes on when it is swapped in,
                                    \* or the child it makes
    asleep,                         \* the processes in sleep() for a lock or an event, maybe "sched"
    loaded, slock,                  \* SLOAD and SLOCK
    spc, sproc,                     \* the place of sched() and the process it moves
    astray                          \* a call has gone on with an entry that was freed
                                    \* while it slept for it (history)

text == <<iptr, count, ccount, flag, core, disk>>
user == <<textp, prog, newip, xp>>
swapper == <<spc, sproc>>
vars == <<text, user, pc, after, asleep, loaded, slock, swapper, astray>>

Init ==
    /\ iptr = [x \in Seg |-> none]
    /\ count = [x \in Seg |-> 0] /\ ccount = [x \in Seg |-> 0] /\ flag = [x \in Seg |-> {}]
    /\ core = [x \in Seg |-> "none"] /\ disk = [x \in Seg |-> "none"]
    /\ textp = [p \in Proc |-> none] /\ prog = [p \in Proc |-> none]
    /\ newip = [p \in Proc |-> none] /\ xp = [p \in Proc |-> none]
    /\ pc = [p \in Proc |-> "null"] /\ loaded = {}
    /\ after = [p \in Proc |-> "user"]
    /\ asleep = {} /\ slock = {} /\ spc = "loop" /\ sproc = none /\ astray = FALSE

-----------------------------------------------------------------------------
(* stops sleep and wakes are woken; setrun() wakes sched() for a process   *)
(* that is not in core.                                                    *)
Bug_ReschedLoaded(stops, wakes) ==      \* mutant of Resched: it does not
    asleep' = (asleep \cup stops) \ wakes

Resched(stops, wakes) ==
    LET out == \E p \in wakes \cap asleep : p \in Proc \ loaded
    IN  asleep' = (asleep \cup stops) \ (wakes \cup IF out /\ spc = "runout" THEN {"sched"} ELSE {})

Goto(p, place) == pc' = [pc EXCEPT ![p] = place]
Ready(p) == p \in loaded \ asleep

(* swtch(): a process that has slept for a lock, at PSWP, runs before one  *)
(* in user mode or in exec and exit().                                     *)
InLock == {"attach", "untext"}
First(p) == Ready(p) /\ \A q \in Proc : Ready(q) => pc[q] \notin InLock
Runs(p) == pc[p] = "user" /\ First(p)

Sleepers(x) == {p \in asleep \cap Proc : pc[p] \in InLock /\ xp[p] = x}
               \cup {s \in {"sched"} : spc = "inlock" /\ textp[sproc] = x}

(* xunlock(): the sleepers to wake, and the flags.                         *)
Bug_WantingNobody(x) == {}              \* mutant of Wanting

Wanting(x) == IF "want" \in flag[x] THEN Sleepers(x) ELSE {}
Unlocked(x) == flag[x] \ {"lock", "want"}
Locked(x) == "lock" \in flag[x]

-----------------------------------------------------------------------------
(* xccdec(): p, or the process that sched() moves, leaves the core copy of *)
(* x.  When it was the last, the segment is written if it has to be, which *)
(* takes time, with the lock held.                                         *)
Bug_MustWriteNever(x) == FALSE          \* mutant of MustWrite

MustWrite(x) == ccount[x] = 1 /\ "writ" \in flag[x]

Xccdec(x) ==
    /\ ccount' = [ccount EXCEPT ![x] = @ - 1]
    /\ IF MustWrite(x)
         THEN flag' = [flag EXCEPT ![x] = (@ \ {"writ"}) \cup {"lock"}] /\ UNCHANGED core
         ELSE /\ core' = IF ccount[x] = 1 THEN [core EXCEPT ![x] = "none"] ELSE core
              /\ UNCHANGED flag

(* The segment is written: its core is free and it is unlocked.            *)
Written(x) ==
    /\ disk' = [disk EXCEPT ![x] = core[x]]
    /\ core' = [core EXCEPT ![x] = "none"]
    /\ flag' = [flag EXCEPT ![x] = Unlocked(x)]
    /\ UNCHANGED <<iptr, count, ccount>>

(* xfree(): the last user of a segment gives it up, unless it is sticky.   *)
LastUser(x) == count[x] = 1 /\ iptr[x] \notin Sticky

Xfree(p) ==
    /\ pc[p] = "xfree" /\ First(p)
    /\ LET x == textp[p] IN
       \/ /\ x = none
          /\ Goto(p, "expand") /\ UNCHANGED <<text, xp>>
       \/ /\ x # none /\ LastUser(x)
          /\ count' = [count EXCEPT ![x] = 0]
          /\ iptr' = [iptr EXCEPT ![x] = none]
          /\ core' = [core EXCEPT ![x] = "none"] /\ disk' = [disk EXCEPT ![x] = "none"]
          /\ Goto(p, "expand") /\ UNCHANGED <<ccount, flag, xp>>
       \/ /\ x # none /\ ~LastUser(x)
          /\ count' = [count EXCEPT ![x] = @ - 1]
          /\ Xccdec(x)
          /\ IF MustWrite(x) THEN Goto(p, "xfwrite") /\ xp' = [xp EXCEPT ![p] = x]
                             ELSE Goto(p, "expand") /\ UNCHANGED xp
          /\ UNCHANGED <<iptr, disk>>
    /\ textp' = [textp EXCEPT ![p] = none] /\ prog' = [prog EXCEPT ![p] = none]
    /\ UNCHANGED <<newip, after, asleep, loaded, slock, swapper>>

XfreeWritten(p) ==
    /\ pc[p] = "xfwrite" /\ Ready(p)
    /\ Written(xp[p]) /\ Resched({}, Wanting(xp[p]))
    /\ xp' = [xp EXCEPT ![p] = none]
    /\ Goto(p, "expand")
    /\ UNCHANGED <<textp, prog, newip, after, loaded, slock, swapper>>

-----------------------------------------------------------------------------
(* xswap() by a process for itself, because it needs core.                 *)
SwapSelf(p, then) ==
    /\ after' = [after EXCEPT ![p] = then]
    /\ slock' = slock \cup {p}

(* The image is written: the process is out of core, and sched() is told.  *)
Out(p, wakes) ==
    /\ loaded' = loaded \ {p} /\ slock' = slock \ {p}
    /\ Resched({}, wakes \cup IF spc = "runout" THEN {"sched"} ELSE {})

(* expand() for more core, in brk() and in grow().                         *)
Expand(p) ==
    /\ Runs(p)
    /\ SwapSelf(p, "user")
    /\ IF textp[p] = none THEN Goto(p, "wrproc") /\ UNCHANGED text
       ELSE /\ Xccdec(textp[p])
            /\ Goto(p, IF MustWrite(textp[p]) THEN "wrtext" ELSE "wrproc")
            /\ UNCHANGED <<iptr, count, disk>>
    /\ UNCHANGED <<user, asleep, loaded, swapper>>

ExpandText(p) ==
    /\ pc[p] = "wrtext"
    /\ Written(textp[p]) /\ Resched({}, Wanting(textp[p]))
    /\ Goto(p, "wrproc")
    /\ UNCHANGED <<user, after, loaded, slock, swapper>>

(* The end of xswap(); xexpand() unlocks the segment behind it.            *)
SwappedSelf(p) ==
    /\ pc[p] = "wrproc"
    /\ Goto(p, after[p])
    /\ IF after[p] \in {"attached", "load"}
         THEN /\ Out(p, Wanting(textp[p]))
              /\ flag' = [flag EXCEPT ![textp[p]] = Unlocked(textp[p])]
         ELSE Out(p, {}) /\ UNCHANGED flag
    /\ after' = [after EXCEPT ![p] = "user"]
    /\ UNCHANGED <<iptr, count, ccount, core, disk, user, swapper>>

-----------------------------------------------------------------------------
(* exec locks the inode of a program and frees the old text; exit() does   *)
(* the latter.                                                             *)
Exec(p, ip) ==
    /\ Runs(p)
    /\ \A q \in Proc : newip[q] # ip
    /\ newip' = [newip EXCEPT ![p] = ip]
    /\ Goto(p, "xfree")
    /\ UNCHANGED <<text, textp, prog, xp, after, asleep, loaded, slock, swapper>>

Exit(p) ==
    /\ Runs(p)
    /\ Goto(p, "xfree")
    /\ UNCHANGED <<text, user, after, asleep, loaded, slock, swapper>>

Exited(p) ==
    /\ pc[p] = "expand" /\ Ready(p) /\ newip[p] = none
    /\ Goto(p, "null")
    /\ loaded' = loaded \ {p}
    /\ UNCHANGED <<text, user, after, asleep, slock, swapper>>

(* expand() in getxfile(), with core or without.                           *)
ExecExpand(p) ==
    /\ pc[p] = "expand" /\ Ready(p) /\ newip[p] # none
    /\ \/ Goto(p, "xalloc") /\ UNCHANGED <<after, slock>>
       \/ Goto(p, "wrproc") /\ SwapSelf(p, "xalloc")
    /\ UNCHANGED <<text, user, asleep, loaded, swapper>>

(* exec is through: the inode is given up. *)
Start(p) ==
    /\ Goto(p, "user")
    /\ prog' = [prog EXCEPT ![p] = newip[p]]
    /\ newip' = [newip EXCEPT ![p] = none]
    /\ xp' = [xp EXCEPT ![p] = none]

(* xalloc() of a program whose segment is in the table: it waits for the   *)
(* lock ...                                                                *)
AttachWait(p, x) ==
    /\ Locked(x)
    /\ flag' = [flag EXCEPT ![x] = @ \cup {"want"}]
    /\ xp' = [xp EXCEPT ![p] = x]
    /\ Goto(p, "attach") /\ Resched({p}, {})
    /\ UNCHANGED <<iptr, count, ccount, core, disk, textp, prog, newip, after, slock>>

(* ... and shares the copy in core, or reads one in, or is swapped out     *)
(* until sched() has found the core.                                       *)
Attach(p, x) ==
    /\ ~Locked(x)
    /\ count' = [count EXCEPT ![x] = @ + 1]
    /\ textp' = [textp EXCEPT ![p] = x]
    /\ \/ /\ ccount[x] > 0
          /\ ccount' = [ccount EXCEPT ![x] = @ + 1]
          /\ Start(p)
          /\ UNCHANGED <<flag, core, after, slock>>
       \/ /\ ccount[x] = 0
          /\ flag' = [flag EXCEPT ![x] = @ \cup {"lock"}]
          /\ core' = [core EXCEPT ![x] = "junk"]
          /\ Goto(p, "xread") /\ UNCHANGED <<ccount, after, slock, prog, newip, xp>>
       \/ /\ ccount[x] = 0
          /\ flag' = [flag EXCEPT ![x] = @ \cup {"lock"}]
          /\ Goto(p, "wrproc") /\ SwapSelf(p, "attached")
          /\ UNCHANGED <<ccount, core, prog, newip, xp>>
    /\ UNCHANGED <<iptr, disk, asleep>>

(* xalloc() of a program that is not in the table: the entry is taken, and *)
(* there is core for it or not.                                            *)
New(p, x) ==
    /\ iptr[x] = none
    /\ iptr' = [iptr EXCEPT ![x] = newip[p]]
    /\ count' = [count EXCEPT ![x] = 1]
    /\ disk' = [disk EXCEPT ![x] = "junk"]
    /\ textp' = [textp EXCEPT ![p] = x]
    /\ \/ /\ flag' = [flag EXCEPT ![x] = {"load"}]
          /\ ccount' = [ccount EXCEPT ![x] = 1]
          /\ core' = [core EXCEPT ![x] = "junk"]
          /\ Goto(p, "readi") /\ slock' = slock \cup {p} /\ UNCHANGED after
       \/ /\ flag' = [flag EXCEPT ![x] = {"load", "lock"}]
          /\ ccount' = [ccount EXCEPT ![x] = 0]
          /\ Goto(p, "wrproc") /\ SwapSelf(p, "load") /\ UNCHANGED core
    /\ UNCHANGED <<prog, newip, xp, asleep>>

(* The table is full: the process is killed. *)
NoText(p) ==
    /\ \A x \in Seg : iptr[x] # none
    /\ newip' = [newip EXCEPT ![p] = none]
    /\ Goto(p, "xfree")
    /\ UNCHANGED <<text, textp, prog, xp, after, asleep, slock>>

Xalloc(p) ==
    /\ pc[p] = "xalloc" /\ Ready(p)
    /\ LET found == {x \in Seg : iptr[x] = newip[p]} IN
       \/ \E x \in found : AttachWait(p, x) \/ Attach(p, x)
       \/ found = {} /\ (NoText(p) \/ \E x \in Seg : New(p, x))
    /\ UNCHANGED <<loaded, swapper>>

(* The lock may be free now: the entry is used without another look at it. *)
AttachWoken(p) ==
    /\ pc[p] = "attach" /\ Ready(p)
    /\ \/ AttachWait(p, xp[p]) /\ UNCHANGED astray
       \/ Attach(p, xp[p]) /\ astray' = (iptr[xp[p]] # newip[p])
    /\ UNCHANGED <<loaded, swapper>>

(* xexpand() has read the segment; it and xalloc() unlock it.              *)
XreadDone(p) ==
    /\ pc[p] = "xread" /\ Ready(p)
    /\ LET x == textp[p] IN
       /\ core' = [core EXCEPT ![x] = disk[x]]
       /\ ccount' = [ccount EXCEPT ![x] = @ + 1]
       /\ flag' = [flag EXCEPT ![x] = Unlocked(x)]
       /\ Resched({}, Wanting(x))
    /\ Start(p)
    /\ UNCHANGED <<iptr, count, disk, textp, after, loaded, slock, swapper>>

(* The process was swapped in with the segment; xalloc() unlocks it again. *)
Attached(p) ==
    /\ pc[p] = "attached" /\ Ready(p)
    /\ flag' = [flag EXCEPT ![textp[p]] = Unlocked(textp[p])]
    /\ Resched({}, Wanting(textp[p]))
    /\ Start(p)
    /\ UNCHANGED <<iptr, count, ccount, core, disk, textp, after, loaded, slock, swapper>>

(* readi() of the text from the file, with SLOCK set. *)
Load(p) ==
    /\ pc[p] = "load" /\ Ready(p)
    /\ slock' = slock \cup {p}
    /\ Goto(p, "readi")
    /\ UNCHANGED <<text, user, after, asleep, loaded, swapper>>

Loaded(p) ==
    /\ pc[p] = "readi"
    /\ slock' = slock \ {p}
    /\ core' = [core EXCEPT ![textp[p]] = newip[p]]
    /\ flag' = [flag EXCEPT ![textp[p]] = {"writ"}]
    /\ Start(p)
    /\ UNCHANGED <<iptr, count, ccount, disk, textp, after, asleep, loaded, swapper>>

-----------------------------------------------------------------------------
(* xrele(): a program ip that is to be changed or removed, its inode       *)
(* locked, leaves the table if nobody uses it.                             *)
Untext(p, x, ip) ==
    \/ /\ Locked(x)
       /\ flag' = [flag EXCEPT ![x] = @ \cup {"want"}]
       /\ newip' = [newip EXCEPT ![p] = ip] /\ xp' = [xp EXCEPT ![p] = x]
       /\ Goto(p, "untext") /\ Resched({p}, {})
       /\ UNCHANGED <<iptr, disk, astray>>
    \/ /\ ~Locked(x)
       /\ IF count[x] > 0 THEN UNCHANGED <<iptr, disk, astray>>
          ELSE /\ iptr' = [iptr EXCEPT ![x] = none] /\ disk' = [disk EXCEPT ![x] = "none"]
               /\ astray' = (iptr[x] = none)
       /\ newip' = [newip EXCEPT ![p] = none] /\ xp' = [xp EXCEPT ![p] = none]
       /\ Goto(p, "user")
       /\ UNCHANGED <<flag, asleep>>

Xrele(p, x) ==
    /\ Runs(p) /\ iptr[x] # none
    /\ \A q \in Proc : newip[q] # iptr[x]
    /\ Untext(p, x, iptr[x])
    /\ UNCHANGED <<count, ccount, core, textp, prog, after, loaded, slock, swapper>>

Xuntext(p) ==
    /\ pc[p] = "untext" /\ Ready(p)
    /\ Untext(p, xp[p], newip[p])
    /\ UNCHANGED <<count, ccount, core, textp, prog, after, loaded, slock, swapper>>

-----------------------------------------------------------------------------
(* Process 1, which is not in Proc and has no text segment, forks. *)
Spawn(p) ==
    /\ pc[p] = "null"
    /\ Goto(p, "user")
    /\ loaded' = loaded \cup {p}
    /\ UNCHANGED <<text, user, after, asleep, slock, swapper>>

(* fork: the child shares the text, and is copied or, without core, made   *)
(* by swapping out the parent's image in the child's name.                 *)
Fork(p, c) ==
    /\ Runs(p) /\ pc[c] = "null"
    /\ textp' = [textp EXCEPT ![c] = textp[p]] /\ prog' = [prog EXCEPT ![c] = prog[p]]
    /\ count' = IF textp[p] = none THEN count ELSE [count EXCEPT ![textp[p]] = @ + 1]
    /\ loaded' = loaded \cup {c}
    /\ \/ /\ ccount' = IF textp[p] = none THEN ccount ELSE [ccount EXCEPT ![textp[p]] = @ + 1]
          /\ pc' = [pc EXCEPT ![c] = "user"] /\ UNCHANGED <<slock, after>>
       \/ /\ pc' = [pc EXCEPT ![p] = "idl", ![c] = "wrchild"]
          /\ slock' = slock \cup {c} /\ after' = [after EXCEPT ![p] = c] /\ UNCHANGED ccount
    /\ UNCHANGED <<iptr, flag, core, disk, newip, xp, asleep, swapper>>

Forked(p) ==
    /\ pc[p] = "idl"
    /\ pc' = [pc EXCEPT ![p] = "user", ![after[p]] = "user"]
    /\ Out(after[p], {})
    /\ after' = [after EXCEPT ![p] = "user"]
    /\ UNCHANGED <<text, user, swapper>>

(* A process sleeps for an event at a bad priority. *)
Block(p) ==
    /\ Runs(p)
    /\ Goto(p, "blocked") /\ Resched({p}, {})
    /\ UNCHANGED <<text, user, after, loaded, slock, swapper>>

Setrun(p) ==
    /\ pc[p] = "blocked"
    /\ Goto(p, "user") /\ Resched({}, {p})
    /\ UNCHANGED <<text, user, after, loaded, slock, swapper>>

-----------------------------------------------------------------------------
(* sched(): a process that is ready is brought in; if there is none, the   *)
(* swapper sleeps for runout.                                              *)
SchedReady == {p \in Proc : pc[p] # "null" /\ p \notin asleep \cup loaded}

SchedIdle ==
    /\ spc = "loop" /\ SchedReady = {}
    /\ spc' = "runout" /\ Resched({"sched"}, {})
    /\ UNCHANGED <<text, user, pc, after, loaded, slock, sproc>>

SchedWoken ==
    /\ spc = "runout" /\ "sched" \notin asleep
    /\ spc' = "loop"
    /\ UNCHANGED <<text, user, pc, after, asleep, loaded, slock, sproc>>

(* swapin(): with core for the data, for the text too if it is not there.  *)
Swapin(p) ==
    /\ spc = "loop" /\ p \in SchedReady
    /\ sproc' = p
    /\ spc' \in {IF textp[p] = none THEN "inproc" ELSE "inlock", "makeroom"}
    /\ UNCHANGED <<text, user, pc, after, asleep, loaded, slock>>

SwapinLock ==
    /\ spc = "inlock" /\ "sched" \notin asleep
    /\ LET x == textp[sproc] IN
       \/ /\ Locked(x)
          /\ flag' = [flag EXCEPT ![x] = @ \cup {"want"}]
          /\ Resched({"sched"}, {}) /\ UNCHANGED <<core, ccount, spc>>
       \/ /\ ~Locked(x) /\ ccount[x] > 0
          /\ ccount' = [ccount EXCEPT ![x] = @ + 1]
          /\ spc' = "inproc" /\ UNCHANGED <<flag, core, asleep>>
       \/ /\ ~Locked(x) /\ ccount[x] = 0
          /\ spc' = "makeroom" /\ UNCHANGED <<flag, core, ccount, asleep>>
       \/ /\ ~Locked(x) /\ ccount[x] = 0
          /\ core' = [core EXCEPT ![x] = "junk"]
          /\ IF "load" \in flag[x]
               THEN /\ ccount' = [ccount EXCEPT ![x] = @ + 1]
                    /\ spc' = "inproc" /\ UNCHANGED flag
               ELSE /\ flag' = [flag EXCEPT ![x] = @ \cup {"lock"}]
                    /\ spc' = "intext" /\ UNCHANGED ccount
          /\ UNCHANGED asleep
    /\ UNCHANGED <<iptr, count, disk, user, pc, after, loaded, slock, sproc>>

SwapinText ==
    /\ spc = "intext"
    /\ LET x == textp[sproc] IN
       /\ core' = [core EXCEPT ![x] = disk[x]]
       /\ ccount' = [ccount EXCEPT ![x] = @ + 1]
       /\ flag' = [flag EXCEPT ![x] = Unlocked(x)]
       /\ Resched({}, Wanting(x))
    /\ spc' = "inproc"
    /\ UNCHANGED <<iptr, count, disk, user, pc, after, loaded, slock, sproc>>

SwapinDone ==
    /\ spc = "inproc"
    /\ loaded' = loaded \cup {sproc}
    /\ spc' = "loop" /\ sproc' = none
    /\ UNCHANGED <<text, user, pc, after, asleep, slock>>

(* Without core, sched() looks for a process to swap out: not one that is  *)
(* locked in core or whose text is locked (the mutant takes these too).    *)
(* One that sleeps in xlock(), or writes in xfree(), is taken.             *)
Bug_VictimsLocked == {p \in loaded : pc[p] \notin {"null", "idl"}}

Victims == {p \in loaded \ slock : /\ pc[p] \notin {"null", "idl"}
                                   /\ textp[p] # none => ~Locked(textp[p])}

SwapOut(p) ==
    /\ spc = "makeroom" /\ p \in Victims
    /\ loaded' = loaded \ {p} /\ slock' = slock \cup {p}
    /\ sproc' = p
    /\ IF textp[p] = none \/ ccount[textp[p]] = 0 THEN spc' = "outproc" /\ UNCHANGED text
       ELSE /\ Xccdec(textp[p])
            /\ spc' = IF MustWrite(textp[p]) THEN "outtext" ELSE "outproc"
            /\ UNCHANGED <<iptr, count, disk>>
    /\ UNCHANGED <<user, pc, after, asleep>>

SwapOutText ==
    /\ spc = "outtext"
    /\ Written(textp[sproc]) /\ Resched({}, Wanting(textp[sproc]))
    /\ spc' = "outproc"
    /\ UNCHANGED <<user, pc, after, loaded, slock, sproc>>

SwapOutDone ==
    /\ spc = "outproc"
    /\ slock' = slock \ {sproc}
    /\ spc' = "loop" /\ sproc' = none
    /\ UNCHANGED <<text, user, pc, after, asleep, loaded>>

(* It waits a bit and tries again. *)
Runin ==
    /\ spc = "makeroom"
    /\ spc' = "loop" /\ sproc' = none
    /\ UNCHANGED <<text, user, pc, after, asleep, loaded, slock>>

Sched == \/ SchedIdle \/ SchedWoken \/ SwapinLock \/ SwapinText \/ SwapinDone
         \/ SwapOutText \/ SwapOutDone \/ Runin
         \/ \E p \in Proc : Swapin(p) \/ SwapOut(p)

Next ==
    /\ ~astray
    /\ \/ /\ \/ Sched
             \/ \E p \in Proc :
                  \/ Xfree(p) \/ XfreeWritten(p) \/ Expand(p) \/ ExpandText(p) \/ SwappedSelf(p)
                  \/ \E ip \in Ino : Exec(p, ip)
                  \/ Exit(p) \/ Exited(p) \/ ExecExpand(p) \/ Xalloc(p)
                  \/ XreadDone(p) \/ Attached(p) \/ Load(p) \/ Loaded(p)
                  \/ Spawn(p) \/ Forked(p) \/ \E c \in Proc : Fork(p, c)
                  \/ Block(p) \/ Setrun(p)
          /\ UNCHANGED astray
       \/ \E p \in Proc : AttachWoken(p) \/ Xuntext(p) \/ \E x \in Seg : Xrele(p, x)

Spec == Init /\ [][Next]_vars

-----------------------------------------------------------------------------
(* The counts, flags and contents of the segments stay in their range.     *)
TypeOK ==
    /\ iptr \in [Seg -> Ino \cup {none}]
    /\ count \in [Seg -> 0..Cardinality(Proc)] /\ ccount \in [Seg -> 0..Cardinality(Proc)]
    /\ flag \in [Seg -> SUBSET {"lock", "want", "load", "writ"}]
    /\ core \in [Seg -> Ino \cup {"none", "junk"}] /\ disk \in [Seg -> Ino \cup {"none", "junk"}]
    /\ loaded \subseteq Proc /\ slock \subseteq Proc /\ asleep \subseteq Proc \cup {"sched"}

(* A process that can run runs the text of the program that it executed:   *)
(* the segment is in the table, in core and has the right contents, until  *)
(* some call goes on with an entry that was freed.                         *)
RightText ==
    ~astray => \A p \in loaded : pc[p] = "user" /\ prog[p] # none =>
        textp[p] # none /\ iptr[textp[p]] = prog[p] /\ core[textp[p]] = prog[p]

(* text.c: xalloc() is to "hook up to" the segment of the program: a       *)
(* process in exec is attached to no other.  It may be (see astray).       *)
HooksUp ==
    \A p \in Proc : textp[p] # none => \E ip \in {prog[p], newip[p]} \ {none} : iptr[textp[p]] = ip

(* Whether p is one of the loaded users of its segment. *)
InCore(p) ==
    \/ p \in loaded /\ ~(pc[p] \in {"wrtext", "wrproc", "xread", "wrchild"})
    \/ sproc = p /\ spc = "inproc"
Holders(x) ==
    {p \in Proc : \/ pc[p] = "xfwrite" /\ xp[p] = x
                  \/ pc[p] \in {"xread", "wrtext"} /\ textp[p] = x
                  \/ pc[p] = "wrproc" /\ after[p] \in {"attached", "load"} /\ textp[p] = x}
    \cup {s \in {"sched"} : spc \in {"intext", "outtext"} /\ textp[sproc] = x}

(* x_count and x_ccount are the users and the users in core of a segment.  *)
(* It has core when somebody in core uses it, no core when nobody does and *)
(* nobody moves it, and nothing at all when it has left the table.         *)
CountsRight ==
    ~astray => \A x \in Seg :
        /\ iptr[x] # none =>
             /\ count[x] = Cardinality({p \in Proc : textp[p] = x})
             /\ ccount[x] = Cardinality({p \in Proc : textp[p] = x /\ InCore(p)})
             /\ ccount[x] > 0 => core[x] # "none"
             /\ core[x] # "none" => ccount[x] > 0 \/ Locked(x)
        /\ iptr[x] = none =>
             core[x] = "none" /\ disk[x] = "none" /\ \A p \in Proc : textp[p] # x

(* A segment is locked exactly while one process, or sched(), moves it,    *)
(* and only while nobody in core uses it: xfree() and xccdec() never wait, *)
(* and the second xunlock() of xalloc() does not take another's lock away. *)
(* Whoever sleeps for the lock will be woken.                              *)
LockedOut ==
    ~astray => \A x \in Seg :
        /\ Locked(x) => ccount[x] = 0
        /\ Cardinality(Holders(x)) = IF Locked(x) THEN 1 ELSE 0
        /\ Sleepers(x) \cap asleep # {} => {"lock", "want"} \subseteq flag[x]

(* sched() does not sleep for runout while a process is ready and out.     *)
SwapperWoken == spc = "runout" /\ "sched" \in asleep => SchedReady = {}
=============================================================================

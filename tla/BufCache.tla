------------------------------ MODULE BufCache ------------------------------
(***************************************************************************)
(* The block buffer cache of the kernel: sys/sys/bio.c, with the buffer    *)
(* headers of sys/h/buf.h and binit() of sys/sys/main.c.                   *)
(*                                                                         *)
(* The kernel runs one process at a time (`cur') and switches only when    *)
(* that process sleeps or leaves the code modelled here.  A disk interrupt *)
(* (IoDone) may come between any two steps, except where the code runs at  *)
(* spl6; a step of a process below is a stretch of code an interrupt       *)
(* cannot split with a different outcome.                                  *)
(*                                                                         *)
(* A client is the file system code that calls bread, breada, getblk or    *)
(* geteblk, uses the buffer, and gives it back with brelse, bwrite,        *)
(* bdwrite or bawrite; it holds one buffer at a time.                      *)
(***************************************************************************)
EXTENDS Integers, Sequences, FiniteSets, Functions, SequencesExt

CONSTANTS
    Proc,        \* processes
    Buf,         \* buffer headers buf[0..NBUF-1]
    Block,       \* (b_dev, b_blkno) pairs that clients use
    Dev,         \* block devices
    DevOf,       \* the device of a block
    Tape,        \* devices whose d_tab has B_TAPE
    Val,         \* contents of a block
    Nil,         \* NULL
    NoDev,       \* NODEV
    FreeList,    \* &bfreelist used as a sleep channel
    Calls,       \* the routines clients use, besides brelse
    DiskErrors   \* may a transfer end with B_ERROR?

ASSUME ProcBufAssumption ==
    /\ Nil \notin Proc \cup Buf \cup Block
    /\ FreeList \notin Buf \cup {Nil}
ASSUME FiniteAssumption == IsFiniteSet(Buf)
ASSUME BlockAssumption ==
    /\ NoDev \notin Block \cup Dev
    /\ DevOf \in [Block -> Dev]
    /\ Tape \subseteq Dev
ASSUME ValAssumption == Nil \notin Val
ASSUME ErrorAssumption == DiskErrors \in BOOLEAN

VARIABLES
    flags,       \* b_flags of each buffer
    blk,         \* b_dev, b_blkno of each buffer; NoDev when not associated
    data,        \* the core block b_un of each buffer
    free,        \* the available list, av_forw order from bfreelist
    fwanted,     \* B_WANTED of bfreelist
    ioq,         \* buffers handed to a strategy routine and not done
    disk,        \* what the devices hold
    pc, op,      \* where each process is, and the routine that brought it
    want, ra,    \* blkno and rablkno (ra is Nil for rablkno = 0)
    bp,          \* the buffer bread, breada or the client has
    gb,          \* the buffer getblk, geteblk, bflush or bwrite works on
    chan,        \* the channel a process sleeps on, Nil when it does not
    cur,         \* the process the kernel is running, Nil when it may switch
    reply        \* what p's last call read (history, for BlockStore)

bufVars  == <<flags, blk, data, free, fwanted, ioq, disk>>
procVars == <<pc, op, want, ra, bp, gb, chan, cur, reply>>
vars     == <<flags, blk, data, free, fwanted, ioq, disk,
              pc, op, want, ra, bp, gb, chan, cur, reply>>

Flag == {"READ", "DONE", "ERROR", "BUSY", "WANTED", "AGE", "ASYNC", "DELWRI"}
Label == {"user", "getblk", "spl6", "got", "ra", "raend", "iowait", "hold",
          "age", "geteblk", "bflush"}
Op == {"none", "bread", "breada", "reada", "getblk", "geteblk", "bflush",
       "bwrite", "bawrite"}

-----------------------------------------------------------------------------
(* binit(): every buffer is brelse'd once, so all are on the available     *)
(* list; the order is left open, which makes the buffers symmetric.        *)
Init ==
    /\ flags = [b \in Buf |-> {}]
    /\ blk = [b \in Buf |-> NoDev]
    /\ data \in [Buf -> Val]
    /\ free \in {s \in [1..Cardinality(Buf) -> Buf] :
                    IsInjective(s) /\ ToSet(s) = Buf}
    /\ fwanted = FALSE
    /\ ioq = {}
    /\ disk \in [Block -> Val]
    /\ pc = [p \in Proc |-> "user"]
    /\ op = [p \in Proc |-> "none"]
    /\ want = [p \in Proc |-> Nil]
    /\ ra = [p \in Proc |-> Nil]
    /\ bp = [p \in Proc |-> Nil]
    /\ gb = [p \in Proc |-> Nil]
    /\ chan = [p \in Proc |-> Nil]
    /\ cur = Nil
    /\ reply = [p \in Proc |-> Nil]

-----------------------------------------------------------------------------
(* p can run: the kernel is not inside another process, and p is awake.    *)
OnCpu(p) == cur \in {Nil, p} /\ chan[p] = Nil

(* p is at label l and can run. *)
At(p, l) == pc[p] = l /\ OnCpu(p)

(* p goes on at label l.  The CPU is up for grabs once p is back in code   *)
(* outside bio.c.                                                          *)
Goto(p, l) ==
    /\ pc' = [pc EXCEPT ![p] = l]
    /\ cur' = IF l \in {"user", "hold"} THEN Nil ELSE p

(* sleep(c, PRIBIO): swtch() to another process. *)
Sleep(p, c) ==
    /\ chan' = [chan EXCEPT ![p] = c]
    /\ cur' = Nil

(* wakeup() on all the channels of C *)
Awake(C) == [q \in Proc |-> IF chan[q] \in C THEN Nil ELSE chan[q]]

(* incore(): is block x associated with some buffer? *)
Incore(x) == \E b \in Buf : blk[b] = x

(* The block getblk() was asked for. *)
Target(p) == IF op[p] = "reada" THEN ra[p] ELSE want[p]

(* notavail(): unlink b from the available list. *)
Unlink(b) == \E i \in DOMAIN free : free[i] = b /\ free' = RemoveAt(free, i)

(* Mutant of Brelse: the waiters for any buffer are not woken. *)
Bug_BrelseForgetsFreeList(b, f) ==
    /\ flags' = [flags EXCEPT ![b] = f \ {"WANTED", "BUSY", "ASYNC", "AGE"}]
    /\ blk' = [blk EXCEPT ![b] = IF "ERROR" \in f THEN NoDev ELSE @]
    /\ free' = IF "AGE" \in f THEN <<b>> \o free ELSE Append(free, b)
    /\ fwanted' = FALSE
    /\ chan' = Awake(IF "WANTED" \in f THEN {b} ELSE {})

(* brelse() of b, when its flags are f *)
Brelse(b, f) ==
    /\ flags' = [flags EXCEPT ![b] = f \ {"WANTED", "BUSY", "ASYNC", "AGE"}]
    /\ blk' = [blk EXCEPT ![b] = IF "ERROR" \in f THEN NoDev ELSE @]
    /\ free' = IF "AGE" \in f THEN <<b>> \o free ELSE Append(free, b)
    /\ fwanted' = FALSE
    /\ chan' = Awake((IF "WANTED" \in f THEN {b} ELSE {})
                       \cup (IF fwanted THEN {FreeList} ELSE {}))

(* Mutant of WriteFlags: the mask takes B_BUSY away too. *)
Bug_WriteFlagsNotBusy(f) ==
    f \ {"READ", "DONE", "ERROR", "DELWRI", "AGE", "BUSY"}

(* What bwrite() leaves in b_flags when it calls the strategy routine *)
WriteFlags(f) == f \ {"READ", "DONE", "ERROR", "DELWRI", "AGE"}

-----------------------------------------------------------------------------
(* A client asks for a buffer.                                             *)
Bread(p, x) ==
    /\ At(p, "user")
    /\ Goto(p, "getblk")
    /\ op' = [op EXCEPT ![p] = "bread"]
    /\ want' = [want EXCEPT ![p] = x]
    /\ reply' = [reply EXCEPT ![p] = Nil]
    /\ UNCHANGED <<bufVars, ra, bp, gb, chan>>

(* breada() up to the first getblk(), or past it when blkno is incore. *)
Breada(p, x, y) ==
    /\ At(p, "user")
    /\ Goto(p, IF Incore(x) THEN "ra" ELSE "getblk")
    /\ op' = [op EXCEPT ![p] = "breada"]
    /\ want' = [want EXCEPT ![p] = x]
    /\ ra' = [ra EXCEPT ![p] = y]
    /\ bp' = [bp EXCEPT ![p] = Nil]
    /\ reply' = [reply EXCEPT ![p] = Nil]
    /\ UNCHANGED <<bufVars, gb, chan>>

(* A client that means to overwrite the whole block calls getblk() itself. *)
Getblk(p, x) ==
    /\ At(p, "user")
    /\ Goto(p, "getblk")
    /\ op' = [op EXCEPT ![p] = "getblk"]
    /\ want' = [want EXCEPT ![p] = x]
    /\ reply' = [reply EXCEPT ![p] = Nil]
    /\ UNCHANGED <<bufVars, ra, bp, gb, chan>>

Geteblk(p) ==
    /\ At(p, "user")
    /\ Goto(p, "geteblk")
    /\ op' = [op EXCEPT ![p] = "geteblk"]
    /\ want' = [want EXCEPT ![p] = NoDev]
    /\ reply' = [reply EXCEPT ![p] = Nil]
    /\ UNCHANGED <<bufVars, ra, bp, gb, chan>>

(* update() and umount call bflush(d); d is NoDev for all devices. *)
Bflush(p, d) ==
    /\ At(p, "user")
    /\ Goto(p, "bflush")
    /\ op' = [op EXCEPT ![p] = "bflush"]
    /\ want' = [want EXCEPT ![p] = d]
    /\ reply' = [reply EXCEPT ![p] = Nil]
    /\ UNCHANGED <<bufVars, ra, bp, gb, chan>>

-----------------------------------------------------------------------------
(* getblk(): the search of the device list finds b, at spl0.  An interrupt *)
(* may come before the spl6() that follows.                                *)
GetblkMatch(p) ==
    /\ At(p, "getblk")
    /\ \E b \in Buf : blk[b] = Target(p) /\ gb' = [gb EXCEPT ![p] = b]
    /\ Goto(p, "spl6")
    /\ UNCHANGED <<bufVars, op, want, ra, bp, chan, reply>>

(* Mutants of GetblkBusy: B_WANTED is not set; after the sleep the buffer  *)
(* is tested again but the block is not searched for again.                *)
Bug_GetblkBusyNotWanted(p) ==
    /\ At(p, "spl6")
    /\ "BUSY" \in flags[gb[p]]
    /\ Sleep(p, gb[p])
    /\ pc' = [pc EXCEPT ![p] = "getblk"]
    /\ UNCHANGED <<bufVars, op, want, ra, bp, gb, reply>>
Bug_GetblkBusyNoLoop(p) ==
    /\ At(p, "spl6")
    /\ "BUSY" \in flags[gb[p]]
    /\ flags' = [flags EXCEPT ![gb[p]] = @ \cup {"WANTED"}]
    /\ Sleep(p, gb[p])
    /\ UNCHANGED <<blk, data, free, fwanted, ioq, disk, pc, op, want, ra, bp, gb,
                   reply>>

(* The buffer found is busy: mark it wanted, sleep, and start again. *)
GetblkBusy(p) ==
    /\ At(p, "spl6")
    /\ "BUSY" \in flags[gb[p]]
    /\ flags' = [flags EXCEPT ![gb[p]] = @ \cup {"WANTED"}]
    /\ Sleep(p, gb[p])
    /\ pc' = [pc EXCEPT ![p] = "getblk"]
    /\ UNCHANGED <<blk, data, free, fwanted, ioq, disk, op, want, ra, bp, gb,
                   reply>>

(* The buffer found is not busy: take it. *)
GetblkHit(p) ==
    /\ At(p, "spl6")
    /\ "BUSY" \notin flags[gb[p]]
    /\ Unlink(gb[p])
    /\ flags' = [flags EXCEPT ![gb[p]] = @ \cup {"BUSY"}]
    /\ Goto(p, "got")
    /\ UNCHANGED <<blk, data, fwanted, ioq, disk, op, want, ra, bp, gb, chan,
                   reply>>

(* Mutant of Reassigning: the search of the device list is left out. *)
Bug_ReassigningNoSearch(p) == At(p, "getblk") \/ At(p, "geteblk")

(* p searches for a buffer to reassign: the block is in no buffer, or      *)
(* geteblk() wants none.                                                   *)
Reassigning(p) == \/ At(p, "getblk") /\ ~Incore(Target(p))
                  \/ At(p, "geteblk")

(* Mutant of WaitAvail: it sleeps on the device's table. *)
Bug_WaitAvailOnDevice(p) ==
    /\ Reassigning(p)
    /\ free = <<>>
    /\ fwanted' = TRUE
    /\ \E d \in Dev : Sleep(p, d)
    /\ UNCHANGED <<flags, blk, data, free, ioq, disk, pc, op, want, ra, bp, gb,
                   reply>>

(* No buffer is available: wait until one is, and start again. *)
WaitAvail(p) ==
    /\ Reassigning(p)
    /\ free = <<>>
    /\ fwanted' = TRUE
    /\ Sleep(p, FreeList)
    /\ UNCHANGED <<flags, blk, data, free, ioq, disk, pc, op, want, ra, bp, gb,
                   reply>>

(* bwrite() of b, which has B_ASYNC and B_DELWRI: getblk(), geteblk() and  *)
(* bflush() start the delayed write and begin again (from label "age").    *)
StartDelayed(p, b) ==
    /\ flags' = [flags EXCEPT ![b] = WriteFlags(@ \cup {"ASYNC", "BUSY"})]
    /\ ioq' = ioq \cup {b}
    /\ gb' = [gb EXCEPT ![p] = b]
    /\ Goto(p, "age")
    /\ UNCHANGED <<blk, data, fwanted, disk, op, want, ra, bp, chan, reply>>

(* The oldest available buffer is a delayed write: write it out first. *)
VictimDelayed(p) ==
    /\ Reassigning(p)
    /\ free # <<>>
    /\ "DELWRI" \in flags[Head(free)]
    /\ free' = Tail(free)
    /\ StartDelayed(p, Head(free))

(* Mutant of Reassign: a delayed write is thrown away. *)
Bug_ReassignDelayed(p) ==
    /\ Reassigning(p)
    /\ free # <<>>
    /\ free' = Tail(free)
    /\ flags' = [flags EXCEPT ![Head(free)] = {"BUSY"}]
    /\ blk' = [blk EXCEPT ![Head(free)] = Target(p)]
    /\ gb' = [gb EXCEPT ![p] = Head(free)]
    /\ Goto(p, "got")
    /\ UNCHANGED <<data, fwanted, ioq, disk, op, want, ra, bp, chan, reply>>

(* The oldest available buffer is reassigned. *)
Reassign(p) ==
    /\ Reassigning(p)
    /\ free # <<>>
    /\ "DELWRI" \notin flags[Head(free)]
    /\ free' = Tail(free)
    /\ flags' = [flags EXCEPT ![Head(free)] = {"BUSY"}]
    /\ blk' = [blk EXCEPT ![Head(free)] = Target(p)]
    /\ gb' = [gb EXCEPT ![p] = Head(free)]
    /\ Goto(p, "got")
    /\ UNCHANGED <<data, fwanted, ioq, disk, op, want, ra, bp, chan, reply>>

(* The tail of bwrite() for an asynchronous delayed write: B_AGE is set    *)
(* after the strategy routine returns, when the transfer may be done.      *)
Age(p) ==
    /\ At(p, "age")
    /\ flags' = [flags EXCEPT ![gb[p]] = @ \cup {"AGE"}]
    /\ gb' = [gb EXCEPT ![p] = Nil]
    /\ op' = [op EXCEPT ![p] = IF @ = "bawrite" THEN "none" ELSE @]
    /\ Goto(p, CASE op[p] = "bawrite" -> "user"
                 [] op[p] \in {"geteblk", "bflush"} -> op[p]
                 [] OTHER -> "getblk")
    /\ UNCHANGED <<blk, data, free, fwanted, ioq, disk, want, ra, bp, chan,
                   reply>>

-----------------------------------------------------------------------------
(* getblk() has returned gb[p] to its caller.                              *)

(* bread(): use the buffer if it is done, else read it. *)
BreadGot(p) ==
    /\ At(p, "got") /\ op[p] = "bread"
    /\ bp' = [bp EXCEPT ![p] = gb[p]]
    /\ gb' = [gb EXCEPT ![p] = Nil]
    /\ IF "DONE" \in flags[gb[p]]
       THEN Goto(p, "hold") /\ UNCHANGED <<flags, ioq>>
       ELSE /\ flags' = [flags EXCEPT ![gb[p]] = @ \cup {"READ"}]
            /\ ioq' = ioq \cup {gb[p]}
            /\ Goto(p, "iowait")
    /\ UNCHANGED <<blk, data, free, fwanted, disk, op, want, ra, chan, reply>>

(* breada(): start the read, and go on with the read-ahead block. *)
BreadaGot(p) ==
    /\ At(p, "got") /\ op[p] = "breada"
    /\ bp' = [bp EXCEPT ![p] = gb[p]]
    /\ gb' = [gb EXCEPT ![p] = Nil]
    /\ IF "DONE" \in flags[gb[p]]
       THEN UNCHANGED <<flags, ioq>>
       ELSE /\ flags' = [flags EXCEPT ![gb[p]] = @ \cup {"READ"}]
            /\ ioq' = ioq \cup {gb[p]}
    /\ Goto(p, "ra")
    /\ UNCHANGED <<blk, data, free, fwanted, disk, op, want, ra, chan, reply>>

(* breada(): is there a read-ahead block, and is it not incore? *)
ReadAhead(p) ==
    /\ At(p, "ra")
    /\ IF ra[p] # Nil /\ ~Incore(ra[p])
       THEN Goto(p, "getblk") /\ op' = [op EXCEPT ![p] = "reada"]
       ELSE Goto(p, "raend") /\ op' = op
    /\ UNCHANGED <<bufVars, want, ra, bp, gb, chan, reply>>

(* Mutant of ReadaGot: the read-ahead is started without B_ASYNC. *)
Bug_ReadaGotNotAsync(p) ==
    /\ At(p, "got") /\ op[p] = "reada"
    /\ gb' = [gb EXCEPT ![p] = Nil]
    /\ IF "DONE" \in flags[gb[p]]
       THEN Brelse(gb[p], flags[gb[p]]) /\ ioq' = ioq
       ELSE /\ flags' = [flags EXCEPT ![gb[p]] = @ \cup {"READ"}]
            /\ ioq' = ioq \cup {gb[p]}
            /\ UNCHANGED <<blk, free, fwanted, chan>>
    /\ Goto(p, "raend")
    /\ UNCHANGED <<data, disk, op, want, ra, bp, reply>>

(* breada() has the read-ahead buffer: release it if it is done, else      *)
(* start an asynchronous read.                                             *)
ReadaGot(p) ==
    /\ At(p, "got") /\ op[p] = "reada"
    /\ gb' = [gb EXCEPT ![p] = Nil]
    /\ IF "DONE" \in flags[gb[p]]
       THEN Brelse(gb[p], flags[gb[p]]) /\ ioq' = ioq
       ELSE /\ flags' = [flags EXCEPT ![gb[p]] = @ \cup {"READ", "ASYNC"}]
            /\ ioq' = ioq \cup {gb[p]}
            /\ UNCHANGED <<blk, free, fwanted, chan>>
    /\ Goto(p, "raend")
    /\ UNCHANGED <<data, disk, op, want, ra, bp, reply>>

(* The end of breada(): bread() the block if it was incore, else wait.     *)
BreadaEnd(p) ==
    /\ At(p, "raend")
    /\ Goto(p, IF bp[p] = Nil THEN "getblk" ELSE "iowait")
    /\ op' = [op EXCEPT ![p] = "bread"]
    /\ ra' = [ra EXCEPT ![p] = Nil]
    /\ UNCHANGED <<bufVars, want, bp, gb, chan, reply>>

(* A client's own getblk() or geteblk() returns. *)
GetblkGot(p) ==
    /\ At(p, "got") /\ op[p] \in {"getblk", "geteblk"}
    /\ bp' = [bp EXCEPT ![p] = gb[p]]
    /\ gb' = [gb EXCEPT ![p] = Nil]
    /\ Goto(p, "hold")
    /\ UNCHANGED <<bufVars, op, want, ra, chan, reply>>

(* iowait(): sleep until the buffer is done. *)
IowaitSleep(p) ==
    /\ At(p, "iowait")
    /\ "DONE" \notin flags[bp[p]]
    /\ Sleep(p, bp[p])
    /\ UNCHANGED <<bufVars, pc, op, want, ra, bp, gb, reply>>

(* bread() or breada() returns the buffer to the client. *)
IowaitRead(p) ==
    /\ At(p, "iowait") /\ op[p] = "bread"
    /\ "DONE" \in flags[bp[p]]
    /\ Goto(p, "hold")
    /\ UNCHANGED <<bufVars, op, want, ra, bp, gb, chan, reply>>

-----------------------------------------------------------------------------
(* The client gives its buffer back.                                       *)

(* The registers of p that are dead outside bio.c *)
Forget(p) ==
    /\ want' = [want EXCEPT ![p] = Nil]
    /\ bp' = [bp EXCEPT ![p] = Nil]
    /\ UNCHANGED ra

(* bwrite() after iowait(): release the buffer. *)
IowaitWrite(p) ==
    /\ At(p, "iowait") /\ op[p] = "bwrite"
    /\ "DONE" \in flags[bp[p]]
    /\ Brelse(bp[p], flags[bp[p]])
    /\ Goto(p, "user")
    /\ op' = [op EXCEPT ![p] = "none"]
    /\ Forget(p)
    /\ UNCHANGED <<data, ioq, disk, gb, reply>>

(* The client reads what it asked for and calls brelse(); after an error,  *)
(* or when it had not asked for the contents, it only calls brelse().      *)
Release(p) ==
    /\ At(p, "hold")
    /\ reply' = IF op[p] = "bread" /\ "ERROR" \notin flags[bp[p]]
                THEN [reply EXCEPT ![p] = data[bp[p]]] ELSE reply
    /\ Brelse(bp[p], flags[bp[p]])
    /\ Goto(p, "user")
    /\ op' = [op EXCEPT ![p] = "none"]
    /\ Forget(p)
    /\ UNCHANGED <<data, ioq, disk, gb>>

(* The client has a buffer it may write: it tested B_ERROR, and a write of *)
(* a buffer without a device has no meaning.                               *)
Writable(p) ==
    At(p, "hold") /\ blk[bp[p]] # NoDev /\ "ERROR" \notin flags[bp[p]]

(* The client stores v and calls bwrite(). *)
Bwrite(p, v) ==
    /\ Writable(p)
    /\ data' = [data EXCEPT ![bp[p]] = v]
    /\ flags' = [flags EXCEPT ![bp[p]] = WriteFlags(@)]
    /\ ioq' = ioq \cup {bp[p]}
    /\ op' = [op EXCEPT ![p] = "bwrite"]
    /\ Goto(p, "iowait")
    /\ UNCHANGED <<blk, free, fwanted, disk, want, ra, bp, gb, chan, reply>>

(* bawrite(): bwrite() with B_ASYNC, which does not wait.  It goes on to   *)
(* set B_AGE if this was a delayed write.                                  *)
AsyncWrite(p, v) ==
    /\ data' = [data EXCEPT ![bp[p]] = v]
    /\ flags' = [flags EXCEPT ![bp[p]] = WriteFlags(@ \cup {"ASYNC"})]
    /\ ioq' = ioq \cup {bp[p]}
    /\ IF "DELWRI" \in flags[bp[p]]
       THEN /\ Goto(p, "age")
            /\ op' = [op EXCEPT ![p] = "bawrite"]
            /\ gb' = [gb EXCEPT ![p] = bp[p]]
       ELSE /\ Goto(p, "user")
            /\ op' = [op EXCEPT ![p] = "none"]
            /\ gb' = gb
    /\ Forget(p)
    /\ UNCHANGED <<blk, free, fwanted, disk, chan, reply>>

(* The client stores v and calls bawrite(). *)
Bawrite(p, v) == Writable(p) /\ AsyncWrite(p, v)

(* bdwrite(): only marks the buffer, except for magtape. *)
Bdwrite(p, v) ==
    /\ Writable(p)
    /\ IF DevOf[blk[bp[p]]] \in Tape
       THEN AsyncWrite(p, v)
       ELSE /\ data' = [data EXCEPT ![bp[p]] = v]
            /\ Brelse(bp[p], flags[bp[p]] \cup {"DELWRI", "DONE"})
            /\ Goto(p, "user")
            /\ op' = [op EXCEPT ![p] = "none"]
            /\ Forget(p)
            /\ UNCHANGED <<ioq, disk, gb, reply>>

-----------------------------------------------------------------------------
(* bflush(): the buffers on the available list it has to write *)
ToFlush(p) == {i \in DOMAIN free :
                 /\ "DELWRI" \in flags[free[i]]
                 /\ want[p] = NoDev \/ DevOf[blk[free[i]]] = want[p]}

(* Write the first such buffer and start again. *)
BflushWrite(p) ==
    /\ At(p, "bflush")
    /\ \E i \in ToFlush(p) :
         /\ \A j \in ToFlush(p) : i <= j
         /\ free' = RemoveAt(free, i)
         /\ StartDelayed(p, free[i])

BflushDone(p) ==
    /\ At(p, "bflush")
    /\ ToFlush(p) = {}
    /\ Goto(p, "user")
    /\ op' = [op EXCEPT ![p] = "none"]
    /\ want' = [want EXCEPT ![p] = Nil]
    /\ UNCHANGED <<bufVars, ra, bp, gb, chan, reply>>

-----------------------------------------------------------------------------
(* The driver's interrupt routine: the transfer of b moves the data, or    *)
(* sets B_ERROR, and iodone() releases the buffer or wakes the waiters.    *)
IoDone(b, ok) ==
    /\ b \in ioq
    /\ ioq' = ioq \ {b}
    /\ data' = IF ok /\ "READ" \in flags[b]
               THEN [data EXCEPT ![b] = disk[blk[b]]] ELSE data
    /\ disk' = IF ok /\ "READ" \notin flags[b]
               THEN [disk EXCEPT ![blk[b]] = data[b]] ELSE disk
    /\ LET f == flags[b] \cup {"DONE"} \cup (IF ok THEN {} ELSE {"ERROR"})
       IN  IF "ASYNC" \in f
           THEN Brelse(b, f)
           ELSE /\ flags' = [flags EXCEPT ![b] = f \ {"WANTED"}]
                /\ chan' = Awake({b})
                /\ UNCHANGED <<blk, free, fwanted>>
    /\ UNCHANGED <<pc, op, want, ra, bp, gb, cur, reply>>

Call(p) ==
    \/ "bread" \in Calls /\ \E x \in Block : Bread(p, x)
    \/ "breada" \in Calls /\ \E x \in Block, y \in Block \cup {Nil} : Breada(p, x, y)
    \/ "getblk" \in Calls /\ \E x \in Block : Getblk(p, x)
    \/ "geteblk" \in Calls /\ Geteblk(p)
    \/ "bflush" \in Calls /\ \E d \in Dev \cup {NoDev} : Bflush(p, d)

(* A client that has a buffer uses it and gives it back. *)
Return(p) ==
    \/ Release(p)
    \/ \E v \in Val : \/ "bwrite" \in Calls /\ Bwrite(p, v)
                      \/ "bawrite" \in Calls /\ Bawrite(p, v)
                      \/ "bdwrite" \in Calls /\ Bdwrite(p, v)

(* The steps in the kernel: none waits for anything but the CPU. *)
Run(p) ==
    \/ GetblkMatch(p) \/ GetblkBusy(p) \/ GetblkHit(p)
    \/ WaitAvail(p) \/ VictimDelayed(p) \/ Reassign(p) \/ Age(p)
    \/ BreadGot(p) \/ BreadaGot(p) \/ ReadAhead(p) \/ ReadaGot(p)
    \/ BreadaEnd(p) \/ GetblkGot(p)
    \/ IowaitSleep(p) \/ IowaitRead(p) \/ IowaitWrite(p)
    \/ Return(p)
    \/ BflushWrite(p) \/ BflushDone(p)

Interrupt(b) == \E ok \in BOOLEAN : (ok \/ DiskErrors) /\ IoDone(b, ok)

Next == \/ \E p \in Proc : Call(p) \/ Run(p)
        \/ \E b \in Buf : Interrupt(b)

(* The scheduler ages waiting processes, so one that is ready again and    *)
(* again gets the CPU; the disk finishes every transfer.                   *)
Fairness == /\ \A p \in Proc : SF_vars(Run(p))
            /\ \A b \in Buf : WF_vars(Interrupt(b))

Spec == Init /\ [][Next]_vars
FairSpec == Spec /\ Fairness
-----------------------------------------------------------------------------
(* Every variable of bio.c stays in its range. *)
TypeOK ==
    /\ flags \in [Buf -> SUBSET Flag]
    /\ blk \in [Buf -> Block \cup {NoDev}]
    /\ data \in [Buf -> Val]
    /\ free \in Seq(Buf)
    /\ fwanted \in BOOLEAN
    /\ ioq \in SUBSET Buf
    /\ disk \in [Block -> Val]
    /\ pc \in [Proc -> Label]
    /\ op \in [Proc -> Op]
    /\ want \in [Proc -> Block \cup Dev \cup {NoDev, Nil}]
    /\ ra \in [Proc -> Block \cup {Nil}]
    /\ bp \in [Proc -> Buf \cup {Nil}]
    /\ gb \in [Proc -> Buf \cup {Nil}]
    /\ chan \in [Proc -> Buf \cup {FreeList, Nil}]
    /\ cur \in Proc \cup {Nil}
    /\ reply \in [Proc -> Val \cup {Nil}]

(* buf.h: "A buffer is on the available list [...] if and only if it is    *)
(* not marked BUSY"; and it is on the list once.  An interrupt's brelse()  *)
(* and the process's notavail() work on the same list.                     *)
AvailIffNotBusy ==
    /\ ToSet(free) = {b \in Buf : "BUSY" \notin flags[b]}
    /\ IsInjective(free)

(* A block is associated with at most one buffer: getblk() may sleep or    *)
(* start a delayed write between its search and its reassignment, and two  *)
(* buffers for a block would be two versions of it.                        *)
UniqueBlock ==
    \A b, c \in Buf : blk[b] = blk[c] /\ blk[b] # NoDev => b = c

(* p has b: a client or bread() through bp, or getblk() just returned it.  *)
Owns(p, b) == bp[p] = b \/ (pc[p] = "got" /\ gb[p] = b)

(* b belongs to the driver: iodone() will release it. *)
Detached(b) == b \in ioq /\ "ASYNC" \in flags[b]

(* bio.c: "the buffer is marked `busy' so that no one else can touch it".  *)
(* A busy buffer has exactly one owner, a process or an asynchronous       *)
(* transfer: it is never handed out twice, never released under its owner  *)
(* by an interrupt, and never left busy with nobody to release it.         *)
OneOwner ==
    \A b \in Buf :
      /\ "BUSY" \in flags[b] <=> Detached(b) \/ \E p \in Proc : Owns(p, b)
      /\ \A p, q \in Proc : Owns(p, b) /\ Owns(q, b) => p = q
      /\ \A p \in Proc : ~(Owns(p, b) /\ Detached(b))
      /\ b \in ioq => "BUSY" \in flags[b]

(* A process that sleeps in bio.c sleeps for something that is still to    *)
(* come and will wake it: the release of a busy buffer marked wanted, a    *)
(* transfer in progress, or the next release when no buffer is available.  *)
NoLostWakeup ==
    \A p \in Proc :
      /\ chan[p] = FreeList => fwanted /\ free = <<>>
      /\ chan[p] \in Buf /\ pc[p] = "getblk" => {"BUSY", "WANTED"} \subseteq flags[chan[p]]
      /\ chan[p] \in Buf /\ pc[p] # "getblk" =>
           /\ pc[p] = "iowait" /\ chan[p] = bp[p]
           /\ chan[p] \in ioq /\ "DONE" \notin flags[chan[p]]

(* getblk() and bread() return the buffer of the block they were asked     *)
(* for ("If the appropriate block is already associated, return it").      *)
RightBuffer ==
    \A p \in Proc :
      /\ pc[p] = "got" => blk[gb[p]] = Target(p)
      /\ pc[p] \in {"iowait", "hold"} => blk[bp[p]] = want[p]

(* The buffer of b is newer than, or the same as, the device's block. *)
Holds(b) == "DONE" \in flags[b] \/ (b \in ioq /\ "READ" \notin flags[b])

(* What a client that reads block x now would get. *)
Content == [x \in Block |->
              IF \E b \in Buf : blk[b] = x /\ Holds(b)
              THEN data[CHOOSE b \in Buf : blk[b] = x /\ Holds(b)]
              ELSE disk[x]]

(* The block p has asked for; a bwrite() has its effect when it is called. *)
Asks == [p \in Proc |-> IF want[p] \in Block /\ op[p] # "bwrite"
                        THEN want[p] ELSE Nil]

Store == INSTANCE BlockStore WITH content <- Content, asks <- Asks

(* As long as no transfer fails, the cache is a memory: it implements      *)
(* BlockStore, whatever is reassigned, flushed or read ahead meanwhile.    *)
IsBlockStore == Store!Spec

(* Whoever sleeps in bio.c is woken. *)
SleepEnds == \A p \in Proc : chan[p] # Nil ~> chan[p] = Nil
-----------------------------------------------------------------------------
(* The parts of the inductive invariant that are not properties of their   *)
(* own.                                                                    *)

(* The callers of getblk() *)
Getter == {"bread", "breada", "reada", "getblk"}

(* What the registers of p hold at each label. *)
Registers ==
    \A p \in Proc :
      /\ pc[p] = "user" => op[p] = "none"
      /\ pc[p] \in {"getblk", "spl6"} => op[p] \in Getter
      /\ pc[p] = "got" => op[p] \in Getter \cup {"geteblk"}
      /\ pc[p] = "geteblk" => op[p] = "geteblk"
      /\ pc[p] = "ra" => op[p] = "breada"
      /\ pc[p] = "raend" => op[p] \in {"breada", "reada"}
      /\ pc[p] = "iowait" => op[p] \in {"bread", "bwrite"}
      /\ pc[p] = "hold" => op[p] \in {"bread", "getblk", "geteblk"}
      /\ pc[p] = "bflush" => op[p] = "bflush"
      /\ pc[p] = "age" => op[p] \in Getter \cup {"geteblk", "bflush", "bawrite"}
      /\ op[p] \in Getter => want[p] \in Block
      /\ op[p] = "reada" => ra[p] \in Block
      /\ op[p] = "geteblk" => want[p] = NoDev
      /\ pc[p] \in {"spl6", "got", "age"} => gb[p] \in Buf
      /\ pc[p] \in {"iowait", "hold"} => bp[p] \in Buf
      /\ bp[p] \in Buf => pc[p] \in {"ra", "raend", "iowait", "hold"} \/ op[p] = "reada"
      /\ chan[p] # Nil => pc[p] \in {"getblk", "geteblk", "iowait"}
      /\ pc[p] \in {"spl6", "got", "age", "ra", "raend"} => cur = p

(* A transfer in progress is of a busy buffer of some block and not done;  *)
(* B_ASYNC is never left behind on a buffer; a delayed write is for some   *)
(* block, and no transfer of it has failed.                                *)
Transfers ==
    \A b \in Buf :
      /\ b \in ioq => /\ "DONE" \notin flags[b] /\ "BUSY" \in flags[b]
                      /\ blk[b] # NoDev
      /\ "ASYNC" \in flags[b] => b \in ioq
      /\ "DELWRI" \in flags[b] =>
           blk[b] # NoDev /\ "DONE" \in flags[b] /\ "ERROR" \notin flags[b]

(* A buffer at rest in a process has no transfer; one it waits for has one *)
(* or is done; and the buffer getblk() found is still the block's, unless  *)
(* a failed transfer has just finished with it.                            *)
Holding ==
    \A p \in Proc :
      /\ pc[p] = "got" => gb[p] \notin ioq /\ gb[p] # bp[p]
      /\ pc[p] = "hold" => bp[p] \notin ioq
      /\ bp[p] \in Buf /\ pc[p] # "hold" => bp[p] \in ioq \/ "DONE" \in flags[bp[p]]
      /\ pc[p] \in {"spl6", "got"} /\ op[p] \in Getter =>
           blk[gb[p]] = Target(p) \/ "DONE" \in flags[gb[p]]

IInv == /\ TypeOK /\ Registers /\ Transfers /\ Holding
        /\ AvailIffNotBusy /\ UniqueBlock /\ OneOwner /\ NoLostWakeup
=============================================================================

-------------------------------- MODULE Pipe --------------------------------
(***************************************************************************)
(* One pipe and the processes that share it: readp(), writep(), plock()    *)
(* and prele() of sys/sys/pipe.c, closef() of sys/sys/fio.c and the part   *)
(* of iput() that a pipe sees.                                             *)
(*                                                                         *)
(* The kernel gives up the processor only in sleep(), so a step reaches    *)
(* from one sleep() to the next: plock() may sleep for the inode, readi()  *)
(* and writei() for the disk with the inode locked, and an empty or a full *)
(* pipe makes its reader or writer sleep at PPIPE, where a signal ends the *)
(* system call.  Every one of these sleeps is followed by plock().         *)
(***************************************************************************)
EXTENDS Integers, Sequences

CONSTANTS
    Proc,           \* processes
    PIPSIZ,         \* "Max allowable buffering per pipe"
    Reads, Writes,  \* byte counts of read and of write calls
    MaxAsked,       \* bound: the bytes that all writes together ask for
    MaxFaults       \* bound: so many times readi() or writei() stops early

ASSUME PipeAssumption == /\ PIPSIZ \in Nat \ {0} /\ Reads \cup Writes \subseteq Nat
                         /\ MaxAsked \in Nat /\ MaxFaults \in Nat

VARIABLES
    lock, want,     \* ILOCK and IWANT of the inode's i_flag
    iread, iwrite,  \* IREAD and IWRITE of its i_mode: somebody sleeps
    count,          \* i_count: the file structures that refer to the inode
    file,           \* the bytes up to i_size
    off,            \* f_offset of the read side
    hold,           \* the ends a process has open; f_count of an end is the
                    \* number of processes that hold it
    pc,             \* where a process is
    call,           \* the system call it is in: op is "read", "write" or the
                    \* end to close, total what was asked for (u_count) and
                    \* left what writep() has still to write (c)
    asked,          \* how many bytes writes have asked for (history)
    sent, got,      \* how many bytes were written and read (history)
    last,           \* the last byte written (history)
    faults          \* how many transfers have stopped early (history)

inode == <<lock, want, iread, iwrite, count, file>>
history == <<sent, got, last, faults, asked>>
vars == <<inode, off, hold, pc, call, history>>

End == {"r", "w"}
PC == {"user", "plock", "readi", "writei", "lockwait", "readwait", "writewait"}

Call(o, t, l) == [op |-> o, total |-> t, left |-> l]
NoCall == Call("none", 0, 0)

(* pipe() and the forks that followed it: both ends are open somewhere.    *)
Init ==
    /\ lock = FALSE /\ want = FALSE /\ iread = FALSE /\ iwrite = FALSE
    /\ count = 2
    /\ file = <<>> /\ off = 0
    /\ hold \in [Proc -> SUBSET End]
    /\ \A e \in End : \E p \in Proc : e \in hold[p]
    /\ pc = [p \in Proc |-> "user"]
    /\ call = [p \in Proc |-> NoCall]
    /\ sent = 0 /\ got = 0 /\ last = <<0, "nobody", 0, 0>> /\ faults = 0 /\ asked = 0

-----------------------------------------------------------------------------
(* p goes on at to, with the call c, and wakeup() sends the processes that *)
(* sleep at one of the places in woken back to plock().                    *)
StepWith(p, to, c, woken) ==
    /\ pc' = [q \in Proc |-> IF q = p THEN to
                             ELSE IF pc[q] \in woken THEN "plock" ELSE pc[q]]
    /\ call' = [call EXCEPT ![p] = c]

(* The same with the call it is in, which is over when it is back. *)
Step(p, to, woken) == StepWith(p, to, IF to = "user" THEN NoCall ELSE call[p], woken)

(* Whom prele() wakes. *)
Wanting == IF want THEN {"lockwait"} ELSE {}

(* read(), write() and close() on the pipe.  Only the last close() of an   *)
(* end comes to plock(); the others just count f_count down.               *)
Read(p, n) ==
    /\ pc[p] = "user" /\ "r" \in hold[p]
    /\ StepWith(p, "plock", Call("read", n, n), {})
    /\ UNCHANGED <<inode, off, hold, history>>

Write(p, n) ==
    /\ pc[p] = "user" /\ "w" \in hold[p]
    /\ asked + n <= MaxAsked /\ asked' = asked + n
    /\ StepWith(p, "plock", Call("write", n, n), {})
    /\ UNCHANGED <<inode, off, hold, sent, got, last, faults>>

Close(p, e) ==
    /\ pc[p] = "user" /\ e \in hold[p]
    /\ IF \E q \in Proc \ {p} : e \in hold[q]
       THEN /\ hold' = [hold EXCEPT ![p] = @ \ {e}]
            /\ UNCHANGED <<pc, call>>
       ELSE /\ StepWith(p, "plock", Call(e, 0, 0), {})
            /\ UNCHANGED hold
    /\ UNCHANGED <<inode, off, history>>

(* plock() of a locked inode. *)
PlockSleep(p) ==
    /\ pc[p] = "plock" /\ lock
    /\ want' = TRUE
    /\ Step(p, "lockwait", {})
    /\ UNCHANGED <<lock, iread, iwrite, count, file, off, hold, history>>

(* Mutant of Plocked: a woken process does not test the lock again. *)
Bug_PlockedOnce(p, ops) == pc[p] = "plock" /\ call[p].op \in ops

(* plock() by a process in one of the calls finds the inode unlocked.      *)
Plocked(p, ops) == pc[p] = "plock" /\ call[p].op \in ops /\ ~lock

-----------------------------------------------------------------------------
(* readp() has locked the inode: it starts to read, or unlocks an empty    *)
(* pipe and sleeps, or returns when no writer is left.                     *)
ReadpLocked(p) ==
    /\ Plocked(p, {"read"})
    /\ IF file = <<>>
       THEN /\ want' = FALSE
            /\ iread' = (iread \/ count >= 2)
            /\ Step(p, IF count < 2 THEN "user" ELSE "readwait", Wanting)
            /\ UNCHANGED lock
       ELSE /\ lock' = TRUE
            /\ Step(p, "readi", {})
            /\ UNCHANGED <<want, iread>>
    /\ UNCHANGED <<iwrite, count, file, off, hold, history>>

(* The bytes a transfer of at most n can have moved when it ends, less     *)
(* than n when it stops early.                                             *)
Moved(n) == IF faults < MaxFaults THEN 0..n ELSE {n}
Stopped(early) == faults' = IF early THEN faults + 1 ELSE faults
Least(m, n) == IF m < n THEN m ELSE n

(* Mutant of CaughtUp: only the offset is reset. *)
Bug_CaughtUpKeepsFile(o) ==
    IF o = Len(file)
    THEN off' = 0 /\ iwrite' = FALSE /\ UNCHANGED file
    ELSE off' = o /\ UNCHANGED <<file, iwrite>>

(* The file after a read up to offset o: once the reader has caught up,    *)
(* offset and size are 0 again.                                            *)
CaughtUp(o) ==
    IF o = Len(file)
    THEN off' = 0 /\ file' = <<>> /\ iwrite' = FALSE
    ELSE off' = o /\ UNCHANGED <<file, iwrite>>

(* Mutant of ReadpDone: sleeping writers are not woken. *)
Bug_ReadpDoneNoWakeup(p) ==
    /\ pc[p] = "readi"
    /\ \E k \in Moved(Least(call[p].left, Len(file) - off)) :
         /\ Stopped(k < Least(call[p].left, Len(file) - off))
         /\ got' = got + k
         /\ CaughtUp(off + k)
         /\ Step(p, "user", Wanting)
    /\ lock' = FALSE /\ want' = FALSE
    /\ UNCHANGED <<iread, count, hold, sent, last, asked>>

(* readi() is through; a writer that sleeps is woken when all is read.     *)
ReadpDone(p) ==
    /\ pc[p] = "readi"
    /\ \E k \in Moved(Least(call[p].left, Len(file) - off)) :
         /\ Stopped(k < Least(call[p].left, Len(file) - off))
         /\ got' = got + k
         /\ CaughtUp(off + k)
         /\ Step(p, "user", Wanting \cup IF off + k = Len(file) /\ iwrite
                                         THEN {"writewait"} ELSE {})
    /\ lock' = FALSE /\ want' = FALSE
    /\ UNCHANGED <<iread, count, hold, sent, last, asked>>

-----------------------------------------------------------------------------
Full == Len(file) >= PIPSIZ

(* writep() has locked the inode: it unlocks and returns when all is       *)
(* written or, with EPIPE and SIGPIPE, when no reader is left; it unlocks  *)
(* a full pipe and sleeps; otherwise it starts to write.                   *)
WritepLocked(p) ==
    /\ Plocked(p, {"write"})
    /\ IF call[p].left = 0 \/ count < 2
       THEN /\ want' = FALSE
            /\ Step(p, "user", Wanting)
            /\ UNCHANGED <<lock, iwrite>>
       ELSE IF Full
       THEN /\ want' = FALSE
            /\ iwrite' = TRUE
            /\ Step(p, "writewait", Wanting)
            /\ UNCHANGED lock
       ELSE /\ lock' = TRUE
            /\ Step(p, "writei", {})
            /\ UNCHANGED <<want, iwrite>>
    /\ UNCHANGED <<iread, count, file, off, hold, history>>

(* Mutant of Chunk: as much as fits in the pipe. *)
Bug_ChunkFits(p) == Least(call[p].left, PIPSIZ - Len(file))

(* What writep() writes at a time. *)
Chunk(p) == Least(call[p].left, PIPSIZ)

(* writei() is through, at the end of the file; the reader is woken, and   *)
(* the next part is tried.                                                 *)
WritepDone(p) ==
    /\ pc[p] = "writei"
    /\ \E k \in Moved(Chunk(p)) :
         LET done == call[p].total - call[p].left
             new == [i \in 1..k |-> <<sent + i, p, call[p].total, done + i>>]
         IN  /\ Stopped(k < Chunk(p))
             /\ file' = file \o new
             /\ sent' = sent + k
             /\ last' = IF k = 0 THEN last ELSE new[k]
    /\ lock' = FALSE /\ want' = FALSE /\ iread' = FALSE
    /\ StepWith(p, "plock", [call[p] EXCEPT !.left = @ - Chunk(p)],
                Wanting \cup IF iread THEN {"readwait"} ELSE {})
    /\ UNCHANGED <<iwrite, count, off, hold, got, asked>>

-----------------------------------------------------------------------------
(* Mutant of ClosefLocked: only the readers are woken. *)
Bug_ClosefWakesReaders(p) ==
    /\ Plocked(p, End)
    /\ hold' = [hold EXCEPT ![p] = @ \ {call[p].op}]
    /\ iread' = FALSE /\ iwrite' = FALSE
    /\ count' = count - 1
    /\ want' = FALSE
    /\ Step(p, "user", Wanting \cup {"readwait"})
    /\ UNCHANGED <<lock, file, off, history>>

(* closef() has locked the inode: both sides are woken, and iput() counts  *)
(* i_count down and unlocks.  What iput() does after the last close of all *)
(* nobody sees.                                                            *)
ClosefLocked(p) ==
    /\ Plocked(p, End)
    /\ hold' = [hold EXCEPT ![p] = @ \ {call[p].op}]
    /\ iread' = FALSE /\ iwrite' = FALSE
    /\ count' = count - 1
    /\ want' = FALSE
    /\ Step(p, "user", Wanting \cup {"readwait", "writewait"})
    /\ UNCHANGED <<lock, file, off, history>>

(* A signal ends a sleep at PPIPE, and with it the system call.            *)
Signal(p) ==
    /\ pc[p] \in {"readwait", "writewait"}
    /\ Step(p, "user", {})
    /\ UNCHANGED <<inode, off, hold, history>>

Go(p) == \/ PlockSleep(p) \/ ReadpLocked(p) \/ ReadpDone(p)
         \/ WritepLocked(p) \/ WritepDone(p) \/ ClosefLocked(p)

Next == \E p \in Proc :
          \/ \E n \in Reads : Read(p, n)
          \/ \E n \in Writes : Write(p, n)
          \/ \E e \in End : Close(p, e)
          \/ Signal(p)
          \/ Go(p)

Spec == Init /\ [][Next]_vars

(* A process that does not sleep in the kernel is given the processor, and *)
(* the disk ends its transfers.                                            *)
FairSpec == Spec /\ \A p \in Proc : WF_vars(Go(p))

-----------------------------------------------------------------------------
(* Flags, counts and the file stay in range; only a process that holds an  *)
(* end uses it.                                                            *)
TypeOK ==
    /\ lock \in BOOLEAN /\ want \in BOOLEAN /\ iread \in BOOLEAN /\ iwrite \in BOOLEAN
    /\ count \in 0..2
    /\ off \in Nat /\ off <= Len(file)
    /\ hold \in [Proc -> SUBSET End]
    /\ pc \in [Proc -> PC]
    /\ call \in [Proc -> [op : {"none", "read", "write"} \cup End, total : Nat, left : Nat]]
    /\ \A p \in Proc : pc[p] = "user" <=> call[p] = NoCall

(* A process sleeps only while what it waits for has not happened, and     *)
(* with the flag set that makes somebody wake it.  In particular reader    *)
(* and writer never both sleep, and nobody sleeps on a pipe that has lost  *)
(* its other side.                                                         *)
NoLostWakeup ==
    \A p \in Proc :
      /\ pc[p] = "lockwait" => lock /\ want
      /\ pc[p] = "readwait" => file = <<>> /\ iread /\ count = 2
      /\ pc[p] = "writewait" => Len(file) >= PIPSIZ /\ iwrite /\ count = 2

(* The inode is locked exactly while one process reads or writes it.       *)
LockHeld ==
    /\ lock <=> \E p \in Proc : pc[p] \in {"readi", "writei"}
    /\ \A p, q \in Proc : pc[p] \in {"readi", "writei"} /\ pc[q] \in {"readi", "writei"}
                            => p = q

(* What is still in the pipe are the bytes written and not yet read, in    *)
(* order: no byte is lost, repeated or overtaken, whoever reads.           *)
Fifo ==
    /\ got + Len(file) - off = sent
    /\ \A i \in (off + 1)..Len(file) : file[i][1] = got + i - off

(* pipe(2): "Writes with a count of 4096 bytes or less are atomic; no      *)
(* other process can intersperse data."  A part of such a write that is    *)
(* not its first follows the part before it at once.                       *)
AtomicWrites ==
    [][LET before == last'[4] - (sent' - sent)
       IN  last' # last /\ last'[3] <= PIPSIZ /\ before > 0
             => last[2] = last'[2] /\ last[3] = last'[3] /\ last[4] = before]_vars

(* When one side of the pipe is gone, every read, write and close that is  *)
(* under way ends: with the data that is left, end of file or EPIPE.       *)
HangupEnds == \A p \in Proc : count < 2 /\ pc[p] # "user" ~> pc[p] = "user"
=============================================================================

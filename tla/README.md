# The Venix kernel in TLA+

The repository restores the sources of Venix/86 from those of the seventh
edition of Unix.  What runs the system is the kernel under
`src/v7-usr/sys`: its portable part, `sys/sys/*.c` with `sys/h/*.h`, is the
reference that the recovered Venix kernel (`src/MASTER/RECONF`) is held against,
and it is what this project models.  Unless a path says otherwise, files named
below are in `src/v7-usr/sys/sys`.

## 1. Inventory

The kernel is one program that all processes share.  It is not preemptive: a
process runs until it calls `sleep()` (`slp.c`) or returns to user mode, and
`wakeup(chan)` makes *all* sleepers of a channel ready, which then have to look
again.  Interrupts come between any two instructions unless `splN()` holds them
off.  So there are two kinds of concurrency: whatever a process knew before a
call that may sleep can be wrong after it, and whatever an interrupt handler
shares with processes must be guarded by `spl`.

| component | state | operations | what makes it correct |
|---|---|---|---|
| Buffer cache (`bio.c`, `buf.h`) | buffer headers, the available list, device lists | bread, breada, getblk, geteblk, brelse, bwrite, bdwrite, bawrite, bflush, iowait, iodone | one buffer per block, one owner per buffer, a memory of blocks over the disk, no lost wakeup |
| Clock and callout (`clock.c`) | callout[], lbolt, time | clock, timeout | functions run once, in time; no tick is lost |
| Core and swap maps (`malloc.c`) | coremap, swapmap, runin | malloc, mfree | the map is what nobody holds, combined and in order; the swapper is woken |
| Pipes (`pipe.c`, `fio.c`) | an inode used as a buffer, IREAD/IWRITE | readp, writep, plock, prele, closef | bytes once and in order, atomic short writes, nobody sleeps for ever |
| Inodes and i-list (`iget.c`, `alloc.c`) | inode[], s_inode, s_ilock | iget, iput, iupdat, ialloc, ifree, update | one inode in core per file, references counted, no inode for two files |
| Free blocks, super block (`alloc.c`) | s_free chain, s_flock, s_fmod | alloc, free, update | every block free once or used once |
| File I/O, paths (`rdwri.c`, `subr.c`, `nami.c`) | offsets, block maps | readi, writei, bmap, namei | what was written is read |
| Text segments (`text.c`) | text[] | xalloc, xfree, xswap, xrele, xumount | counts match users, a segment in use is not reused |
| Processes (`sys1.c`, `slp.c`) | proc[] | fork, exit, wait, sched, swapin, expand | each child is waited for once; nobody stays swapped out |
| Signals, tracing (`sig.c`) | p_sig, ipc | psignal, issig, stop, ptrace, procxmt | a signal is delivered; tracer and child alternate |
| Terminals (`tty.c`, `prim.c`) | clists, tty structures | getc, putc, ttread, ttwrite | queues keep order and count |
| Packet driver (`arch/pdp11/dev/pk*.c`) | window, timers | pkopen, pkread, pkwrite, pkclose, pkrend, pkxint, pktimeout | in order and once, over a bad line |
| Drivers, machine code, recovered assembler, simulators, commands | | | not the core; see section 8 |

How they interact: everything in the file system goes through `iget`/`iput` for
inodes and `bread`/`getblk` for blocks; the inode code holds an inode locked
while it sleeps in the buffer cache; `ialloc` and `alloc` hold the locks of the
super block while they sleep there; the buffer cache sleeps for the disk, whose
interrupt calls `iodone`, which may call `brelse`.  Pipes are inodes.  Exit,
swapping and text segments free core with `mfree`, which wakes the swapper.
Drivers ask the clock for time with `timeout`.

Hard behaviours: sleeping with a lock held, a test made before a sleep and used
after it, interrupts in the middle of list surgery, transfers that fail, tables
at their limit, nested clock ticks, frames that are lost or damaged and timers that
race their acknowledgements.  `PROJECT.json` lists the
hazards with their lines.  Nothing in the code repairs a file system after a crash (that is a
command's work), so crashes are not modelled.

## 2. Modules

| module | models |
|---|---|
| `BufCache` | the buffer cache with several processes and disk interrupts |
| `BlockStore` | what the cache promises: a memory of blocks |
| `BufCache_proofs` | theorems about BufCache, and that it implements BlockStore |
| `Callout` | the callout table and the time of day |
| `CoreMap` | malloc/mfree and the swapper that waits for core |
| `FirstFit` | what malloc/mfree promise: first-fit allocation from a set |
| `Pipe` | one pipe, its readers and writers |
| `Inodes` | the inode table and the cache of free inodes |
| `FreeList` | the list of free blocks and the super block |
| `BlockPool` | what alloc/free promise: a pool of blocks |
| `Proc` | fork, exit, wait, signals and ptrace |
| `Text` | text segments, the swapper, exec, fork and growth as they use them |
| `Packet` | the packet driver at both ends of a line |
| `Callout_proofs`, `Pipe_proofs`, `Inodes_proofs`, `FreeList_proofs`, `Proc_proofs`, `Packet_proofs` | theorems about these modules |
| `Memory_proofs` | theorems about Text and CoreMap, and that CoreMap implements FirstFit |
| `MCBufCache`, `MCInodes`, `MCFreeList`, `MCProc`, `MCText` | symmetry, constants and constraints for TLC |

`Inodes`, `FreeList` and `Pipe` take from `BlockStore`, which `BufCache` is shown to
implement, that a block read is the block last written; of the cache they keep
that it sleeps.

**BufCache.**  `flags`, `blk`, `data` are the fields of `struct buf`; `free` is
the available list; `ioq` are the transfers under way; `cur` is the process that
runs, which changes only when it sleeps or leaves the code.  A step of a process
is a stretch of code that an interrupt cannot split with another outcome, so
`GetblkMatch` (search at spl0) and `GetblkBusy`/`GetblkHit` (after spl6) are
separate steps: an interrupt fits in between.  `IoDone` is the interrupt.  A
client uses one buffer at a time.

**Callout.**  `func` and `time` are the table, with one more entry for the memory
behind it.  A tick at base priority counts down, calls what is due, one function
per step, moves the table down entry by entry at spl5 and does the work of the
second at spl1; ticks at level 6 nest in both.  `timeout()` is one step (spl7)
and is called by the functions themselves too.

**CoreMap.**  `size` and `addr` are the map.  `malloc()` and `mfree()` never sleep
and run in no interrupt: one step each.  `want` and `runin` are the swapper, which waits
for one request; that swapin() may make a second one, for the text, and give the first
back when it fails, is two calls like any others here.  mfree() does not ask for room in the array:
when the last entry is filled (`Overflowed`) the model stops, as what lies behind is not the map's.

**Pipe.**  `file` and `off` are the data up to `i_size` and the reader's offset,
`lock`, `want`, `iread`, `iwrite` the flags.  A byte is a record of who wrote it
and where it belongs.  The places of a process are the points where it may
sleep: in `plock`, in `readi`/`writei` with the inode locked, at PPIPE.  Only a
sleep at PPIPE is ended by a signal.

**Inodes.**  `inode` is the table, `sinode` and `ilock` the part of the super
block, `dir` the numbers that directory entries hold.  `cpu` is the process that
has entered the kernel and not slept since; only it takes a step, so a step
never sees a state that the code could not.  A slot that is released keeps its
`i_mode` and `i_nlink`, as in the code.  `namei()` is modelled by what it
leaves: `unlink()` comes to `iget()` with the directory locked, `open()` does
not.  open1() may be denied the file, sleep in itrunc(), or find no room for an open file,
and unlink() may refuse; a write of the directory that fails leaves the entry and the
count of links apart, and an iupdat() that fails leaves the inode to be written.  Inode
numbers below ROOTINO, mount points, the blocks of a file and what permissions are made of are left out.

**FreeList.**  `sfree` is s_free, `fblk` what the blocks of the chain hold, `sdisk` the
super block on the disk.  A step reaches from one sleep to the next: for `s_flock`, and
in bread(), getblk() and bwrite().  A read error in alloc() empties the list; `lost`
remembers what was on it.  The blocks of the chain are the least set that is closed under
"the first number in a block names the next" (`Chain`): the same blocks as a walk along the
chain finds, without the recursion.  `sbget` and `sbwrite` are update() in getblk() and
bwrite() of the super block; s_fmod is cleared between the two, when the copy is made.

**Proc.**  A slot of proc[] stands for its process.  `pc` is where it sleeps, stops or
leaves the kernel; `cpu` is who runs.  wakeup() reaches everybody on a channel, psignal()
only sleepers above PZERO.  exit() sleeps in the close of a device.  `ipc` is the one
structure that all tracers share.  psig() resets the handler of a signal but for SIGINS and SIGTRC,
and sleeps in core() before it calls exit() for the signals that make a core image.  newproc() may find no core, and then the parent
sleeps while the child is written out.

**Text.**  `iptr`, `count`, `ccount`, `flag` are struct text; `core` and `disk` say what is
in the segment's core and swap space, so that a program that runs another's text, or an
image never read, shows.  `loaded` is SLOAD, `spc` the place of sched().  malloc() fails
for core at any time (when it really does is CoreMap's matter).  `Victims` are the processes that pass
the tests of sched()'s loop; the ages and priorities it weighs them by are left out, so it takes any of them.
`astray` becomes true when xalloc() or xuntext(), having slept for the lock of an entry, goes on with it
although it was freed meanwhile; the model stops there, since what follows is done to the counts and the space of
another segment or of none.

**Packet.**  `pk` is the struct pack of each end; every function of the driver is an
operator from one struct pack to the next, and an action is an interrupt, a tick or what a
process does at one level of spl.  `tx` is the frame on its way; `Arrive` ends it, well,
damaged in its header or its data, or lost.  Whether `p_timer` has run out is
free at every tick, as pkzot is random.  `written` are the packets that pkwrite() has
taken and pkread() has not given out (history).  pkread() is cut where it holds no lock:
before its sleep, and between taking p_imap and going through the slots.  The header and the
data of a frame are two interrupts of pkrend() and one step here: in between, the buffer
is the interrupt's own and nothing else of the frame is looked at.

## 3. Runs

| run | shows |
|---|---|
| bufcache | with failing transfers, on a disk and a tape: list and B_BUSY agree, a block has one buffer, every sleeper has somebody who will wake it, and without read-ahead every sleep ends; no deadlock |
| bufcache_store | with read-ahead, without failures: a client gets the block it asked for, a busy buffer has one owner, and the cache implements `BlockStore` |
| callout | requests are pending once and for the right time, functions are never early, lbolt and the time of day add up |
| coremap | map well formed, combined, complete; swapper not left asleep; implements `FirstFit` |
| pipe | order, atomic short writes, lock, wakeups, with a transfer that stops early and signals; when one side is gone, every call under way ends |
| inodes | one slot per inode, one holder per lock, references counted, mode in core and on disk right, a new file gets an unused inode; no deadlock; lock, references and wakeups also on the error paths |
| inodes_overflow | **violation**: a second scan of the i-list stores into an s_inode that ifree() has filled (alloc.c:178) |
| freelist | a block is in one place, s_fmod tells when the copy on the disk is old, one holder of s_flock, and the list implements `BlockPool`; no deadlock |
| proc | parents that wait are woken, orphans have a parent that can set them going, tracer and child answer each other, an exit is final; no deadlock |
| text | a process runs its own text, users and users in core are counted right, a locked segment is nobody's in core, the swapper does not sleep on work |
| text_stale | **violation**: xalloc() attaches to an entry that was freed while it slept for it (text.c:101) |
| packet | packets are read once and in order, and kept until they are read |

The finding of inodes_overflow: `ialloc()` goes back to `loop` behind the test of
`s_ilock`.  A number that "was allocated after all" gets into `s_inode` without any crash:
a scan offers an inode that another `ialloc()` has taken from the cache and still waits
for in `iget()`.  So one process scans, and the other, which has such a number and finds
`s_inode` empty, starts a second scan.  Two scans alone do no harm: each takes a number
as soon as it is through.  But the first to end sets `s_ilock` to 0 for both.  Now a file is
unlinked, and ifree() puts its number into `s_inode`, which is full with it; the other
scan comes back from bread(), stores what it finds and only then compares.  The number
behind `s_inode` lies over `s_flock` and `s_ilock`.

The finding of text_stale: `xalloc()` finds the entry of its program and sleeps in `xlock()`
while another process, swapped out, has it written.  It is woken, but before it runs `sched()` swaps
it out too: it has no `p_textp` yet, and that is all `sched()` looks at.  The other process
comes back, executes something else, and as the last user frees the entry.  When the first one
is swapped in it goes on behind `xlock()`, counts the free entry up and has it as its text;
the next `xalloc()` may give the entry to any program.  In the code the victim must also be the oldest in core
(with `p_nice` counted in) and the one to come in be out for three seconds.

Limits of the code.  The passing runs are kept inside of them, each by the constant or the
condition named; widening it makes TLC show the behaviour, except where it says "not
modelled".

* clock.c:169.  timeout() compares only the place where the new entry goes with the end of
  the table; an earlier entry is let in and the terminating entry is pushed behind it
  (`NCALL` is large enough for every request of the run).
* clock.c:79.  With two ticks nested in the loop that moves the callout table `TimesAddUp`
  fails: one of them counts down an entry that is then overwritten.  That takes two clock
  periods at spl5 (`MaxNested = 1`).
* bio.c:257.  `RightBuffer` fails when an asynchronous transfer fails between getblk()'s
  search and its spl6(), as brelse() then takes the association away (`DiskErrors = FALSE`
  in bufcache_store).
* bio.c:103.  `SleepEnds` fails with "breada" in `Calls`: breada() waits for a second
  buffer with the first one busy.
* iget.c:82.  After a failed read iget() calls iput() on a slot with the link count of
  whatever was there before (0 in a fresh slot), and iput() frees the inode of a file that
  a directory names (`UnusedUnlessFault` and `ModesRight` say nothing after a fault).
* text.c:101.  After what text_stale shows `RightText`, `CountsRight` and `LockedOut` are false: they
  are stated of the behaviour up to there (`~astray`).  xuntext() can do the same (text.c:250).
* text.c:205, slp.c:302.  xfree() has cleared p_textp when it sleeps in the write of xccdec(), so
  sched() may swap the process out although it holds XLOCK.  If sched() then brings in another user of
  the segment it waits in swapin() for that lock: nobody is left to bring the holder back
  (CHECK_DEADLOCK is off in text).
* malloc.c:78.  mfree() does not test for the end of the array (CMAPSIZ and SMAPSIZ are 50).  The
  run reaches a full array and stops.
* text.c:250.  xumount() frees segments without the lock of their inode (not modelled).
* sig.c:144.  A traced process that is continued with a signal it ignores goes to a handler
  at address 1, while signal(2) says that it is ignored ("ign" is not in `Fun` of the run).
* iget.c:318.  When wdir() cannot write the entry, the new inode keeps a link count of 1 and
  no directory names it; no property forbids it.  alloc.c:304.  update() skips a super block
  with an error without releasing its buffer (not modelled).  rdwri.c:121.  A fault in the
  middle of iomove() leaves a cached block changed and not marked for writing (not modelled:
  a block is one value).
* alloc.c:100.  free() does not look at what bwrite() leaves; a failed write loses the part
  of the list (not modelled: only reads fail in FreeList).
* pk0.c:74.  An end that is live and gets INITA again sets M_INITB in p_rmsg and nothing
  takes it away: the ends exchange INITB and INITC for ever, and each pkoutput() without a
  packet to send sets p_timer anew, so that packets are sent again only when that exchange
  loses a frame.  pk0.c:279.  pkread() can sleep on a packet that came after pkaccept(); only
  the repeated packet wakes it.  pk0.c:564.  pkclose() tries once to let output drain, and
  what is not read by then may be lost, for all its comment says ("letting output drain",
  pk0.c:536).  These concern progress and the closed line, of which `InOrder` and `Kept` say
  nothing.

## 4. Bounds

* BufCache: two processes and two buffers; reassignment, waiting for the
  list, waiting for a buffer and read-ahead all happen with as many buffers as
  processes.  The run bufcache has a disk and a tape (B_AGE on tapes) and one value;
  the store run has two blocks and two values, so that a stale value shows.
* Callout: 8 entries so that two requests that renew themselves never fill it, times up to 3, five ticks, HZ = 2: a second passes
  more than once.
* CoreMap: 9 units, 4 entries: all cases of combining with up to three fragments, and
  the fourth, which fills the array.
* Pipe: three processes, so that two of a side compete; PIPSIZ = 2 with writes of 2 and 3 bytes
  and reads of 2, so that writes fit, do not fit, and start in a part-filled pipe, and reads leave something.  The
  writes ask for five bytes together (`MaxAsked`): two short writes, or a short and a
  long one, whoever makes them.  One transfer stops early (`MaxFaults`).  More bytes
  and more faults are left to the proofs.
* Inodes: three processes, two inodes, two slots: the table overflows, a slot is
  used for another inode, and the cache of one number is full and empty.
  One number per i-list block: every scan sleeps between two inodes.  The
  state constraint `Small` stops behaviours that have overflowed `s_inode`: the
  code then writes over `s_flock`, and inodes_overflow shows how it comes to that.
  One transfer fails (`MaxFaults`), and at most two processes are busy after it.
* FreeList: three processes, four blocks and a number out of range, two numbers a
  segment: the list is two or three segments long, full and empty.
* Proc: process 1 and three others, so that there are a parent, a child and a tracer or
  grandchild; one signal, SIGQUIT, which makes a core image; ssig() asks for default and for a handler.
* Text: three processes, two segments, three programs: the table is full, a segment is
  used again, and one program is sticky.
* Packet: a window of two (the maximum of pk1.c:10), three packets from one end whose numbers
  are 7, 0 and 1 (`Start = {6}`) or, on a line opened in the run, 1, 2 and 3.  One frame is
  lost or damaged, or one tick comes while something is under way; ticks when nothing
  is are free, so every time out happens.  Either end closes.

Symmetry is used on sets of processes, buffers, blocks, programs and values, only in runs
without liveness.  CHECK_DEADLOCK is off where all may stop: when a pipe is closed at both
ends, when the bound on ticks is reached, when both ends of a line are closed, in
bufcache_store, where read-ahead can use up the buffers (bio.c:103 above), in coremap, which ends with a
full array, and in text, which ends with a call gone astray or sched() waiting for ever (slp.c:302 above).

## 5. Fairness

BufCache: strong fairness of a process in the kernel, as `cur` lets one run at a
time and the scheduler ages those who wait; weak fairness of every transfer, as
the disk ends them, with or without an error.  Pipe: weak fairness of a process that does not sleep at
PPIPE; nothing is assumed of signals, callers or the other side.  Without the bound on faults
`HangupEnds` would fail: a reader whose transfers always fail can keep others from the lock for ever.  The other
modules have safety properties only.  That a packet is read in the end is not checked: TLC
cannot evaluate fairness over the nested records of Packet in reasonable time, and the cycle
at pk0.c:74 would have to be excluded first.

## 6. Proofs

`BufCache_proofs` proves, for any finite set of buffers and any processes, blocks,
devices and values, with failing transfers and interrupts: TypeOK, AvailIffNotBusy,
UniqueBlock, OneOwner and NoLostWakeup.  None is inductive alone.  The inductive
invariant `IInv` adds Registers (what a process's variables hold at each label),
Transfers (a transfer under way is of a busy, associated buffer that is not done;
only such a buffer is B_ASYNC; a delayed write is associated, done and without
error) and Holding (a buffer at rest in a process has no transfer, one it waits for
has one or is done).  Each action is shown to keep each part; the facts about removing
from, and adding to either end of, a sequence without repetition are lemmas.

`Memory_proofs` proves, for any number of units and a map of any size, up to the first overflow: MapTypeOK,
EndsFollow, Coalesced, Conserved, NoMissedCore, and that CoreMap implements FirstFit.
EndsFollow says that entries have no gap and that entry *i* lies above address 2*i*; so the last of
MAPSIZ entries is only filled where the units fall into MAPSIZ separate runs.  That this does
not happen is not proved: nothing in the code prevents it.  The invariant adds Spaced
(between the end of entry *i* and the start of entry *j* lie at least 2(*j* - *i*) - 1
units: fragments are not adjacent) and EndsClear (an entry of size 0 has address 0, since `mfree()`
extends the map over the end entry and relies on the next one being an end).

`BufCache_proofs` also proves RightBuffer and the refinement of BlockStore, for all processes,
buffers, blocks and values and with read-ahead, on the hypothesis `~DiskErrors`.  Without
it they are false: a failed write of a delayed block loses the value, and an error between
getblk()'s search and its spl6() takes the block from the buffer found (bio.c:257 above).
The invariant `SInv` adds to `IInv` that no buffer has an error, that a process which has
found or holds a buffer has that of the block it asked for (Asked), and that a buffer which
is done and is no delayed write agrees with the device (Clean).  A client then reads the
one buffer that holds the block, or what the device has.

`Callout_proofs` proves TicksKept for any table, and for a roomy one that timeout() never
panics, TypeOK, OneEntryEach, TimesAddUp and the action property NeverEarly, for any functions,
times, HZ and number of ticks.  Roomy says that one tick at most nests in a clock interrupt and
that `NCALL` is more than three times the number of functions used with timeout(); the run's
constants are an instance.  Some such bound is needed: TLC finds TimesAddUp violated with two
nested ticks, and the entry that ends the table lost with three functions and three entries.
The invariant says of the table in the middle of clock()'s work which entries count: those
moved down already and those not yet called (`Live`).  `Kept` says that the pending requests are
these entries, one each and in the order of their times, and that the time of each is what its
request waits more than the one before.  `Pointers` says where clock() is, that the entries done
with have no time left, so that a nested tick finds one that counts, and that the first of those
left has some until a tick nests.  `Size` bounds the entries called in one interrupt: each
function once, and once more for the nested tick, since what a function sets is not yet due.  The sums of
timeout() are a recursive function; that it exists and what it adds up to is shown with the
smallest index at which it would not.

`Pipe_proofs` proves TypeOK, LockHeld, NoLostWakeup, Fifo and the action property
AtomicWrites, for any processes and counts and any PIPSIZ.  The invariant adds what the
calls are at each place (who is in writei() has bytes left, who closes an end is its last
holder), that a write of at most PIPSIZ bytes is done in one part, that `i_count` counts the
open ends, and that each byte knows its place in the stream.

`Inodes_proofs` proves OneInode, References, NoLostWakeup, ModesRight and the action property
UnusedUnlessFault.  There are two invariants.  `IInv` holds on the error paths too: what the variables
of a process hold at each place, and that a slot has a number as long as it is referred to.
`FaultFree` holds until a transfer fails: an inode that has been read is a file's or free as
it should be (CoreRight), so is the one on the disk while it is not in core (DiskRight),
and creat() enters a file with a link while iput() frees one without (Linking).

`FreeList_proofs` proves TypeOK, LockHeld, OnePlace, FmodTells and the refinement of
BlockPool, for any processes, blocks and NICFREE.  The list runs through the
blocks it is made of, so the argument needs the whole chain: NoTwice says that no number
comes twice in it and none of its blocks is empty, hence that a block taken from the list, or
put in front of it, is named by no other, and changing what it holds leaves the rest
as it is.  Parted says that list, files, processes and lost blocks share the blocks out,
and Told that a difference between disk and core always has a process at work that will set
s_fmod.  As `Chain` is a least set, its lemmas need no induction over the length of the chain.

`Proc_proofs` proves TypeOK, Handshake, Family, WaitersWoken and the action property ExitStays,
for a table of any size.  The invariant is one statement for each process: what p_stat can be at
its place, that a process in exit() is not traced and heeds no signal, that ptrace() and
newproc() have a child to deal with, that a tracer with the lock has a child that runs and
will answer, and that the child it waits to ask stays stopped; and that process 1 lives.

`Memory_proofs` also proves of Text TypeOK, RightText, CountsRight, LockedOut and SwapperWoken for any
processes, segments and programs and every victim that sched() may take.  TypeOK, RightText, CountsRight and LockedOut
hold as long as no call has gone on with a freed entry (`~astray`); SwapperWoken always.  So the step that text_stale
shows, and its like in xuntext(), are the only way to a wrong text.  The
invariant, `~astray => IInv`, is one statement for each process (which segment it has at its place, whether it is in core), one for each segment (its counts are the cardinalities of the sets of such
processes, its lock has one holder, core and swap space have what the flags say) and one for
sched().

`Packet_proofs` proves InOrder and Kept for both windows that the driver allows (1 and 2), any
numbers at which a line starts and any number of packets, lost and damaged frames and time outs, while
either end is written to, read, closed and opened.  Numbers are modulo eight, so the argument measures
them from R, the number of the last packet read: `Plus(R, i)` is the number *i* places behind it.  `IInv`
says that for each direction of the line there are R, the count *p* of packets read and not
acknowledged, the place *q* of the highest number sent and the place *t* of p_nxtps, such that

* the sender has exactly the places 1 - *p* to the last one written in its buffers, each with its
  data, those up to *q* sent; p_ps and p_rpr are at -*p*, p_nxtps within one of *q* (`Sender`);
* a packet on the line is at *q* or one place before it, and what it acknowledges, like RJ and RR, at
  -*p* or later (`Sending`, `Acking`);
* the receiver has copied the next p_rcount packets in order, and every other buffer holds a packet
  that has come in, no further back than 3 places, in a slot that is not in the window (`Raw`,
  `Receiver`).

All places are within a few of R, hence numbers that are equal modulo eight are at equal
places: an old packet that comes again cannot be taken for a new one.  That *t* stays near *q*, and that
packets which come in between pkaccept()'s look at p_imap and its scan are no further back than one place, are the
parts without which this is not inductive.  The scan of p_imask goes through the eight slots with a
recursive function; it is unfolded eight times, and each slot keeps an invariant of the scan (`Marking`).

Assumptions are those named with the constants, and the hypotheses `~DiskErrors` and Roomy above.

Only model-checked: liveness (SleepEnds and HangupEnds), which is out of the
prover's reach.

## 7. Plan

What is modelled is proved but for liveness.  What could follow: the character lists of `prim.c`,
if they can be kept apart from the text, and swap() and physio() as further users of the buffers'
flags.

## 8. Not modelled

swap() and physio() (they share the flags of bio.c but not its lists), the accounting in
clock(), readi(), writei() and bmap() beyond what Pipe needs of them (sequential under the
lock of the inode), xumount(), terminals (their state is mostly the layout of text), partial
packets, sizes and the buffer allocator of the packet driver (pk3.c), device drivers and
machine dependent code (their registers would have to be invented), the recovered assembler
(the C sources are its reference), the simulators, disassemblers, commands and libraries (sequential
programs outside the kernel).

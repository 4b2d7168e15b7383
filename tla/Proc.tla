-------------------------------- MODULE Proc --------------------------------
(***************************************************************************)
(* Processes, signals and tracing: fork, exit, wait, kill, ssig, pause and *)
(* ptrace (sys/sys/sys1.c, sys4.c, sig.c) over sleep(), wakeup(), setrun() *)
(* and newproc() of slp.c.                                                 *)
(*                                                                         *)
(* A slot of proc[] stands for the process in it and its number, so that a *)
(* number is used again as soon as wait() has freed it.  A step is what a  *)
(* process does between two points where another may run: sleep(), the     *)
(* stop for the tracer, and the return to user mode.  pc says where it is: *)
(*   user                in user mode                                      *)
(*   out, psig           before the return to it, at the test for signals  *)
(*   core                in core(), where no signal disturbs it            *)
(*   wait, waiting       scanning for children, and in sleep() for one     *)
(*   pausing             in sleep() in pause()                             *)
(*   ipclock, ipcreq     in ptrace(), for the lock and for the answer      *)
(*   stop                in stop()                                         *)
(*   close, closing      in exit(), and in sleep() in a driver's close     *)
(*   forking, swap       in newproc() without core, parent and child       *)
(***************************************************************************)
EXTENDS Integers, FiniteSets

CONSTANTS
    Slot,           \* proc[]
    Initproc,       \* process 1, which never ends and gets no signals
    Sig,            \* signal numbers
    SIGKIL,
    Fun,            \* what a process asks ssig() for
    none

ASSUME ProcAssumption ==
    /\ Initproc \in Slot /\ none \notin Slot
    /\ Sig \subseteq Nat \ {0} /\ IsFiniteSet(Sig)
    /\ Fun \subseteq {"dfl", "ign", "catch"}

VARIABLES
    stat, ppid,     \* p_stat and p_ppid
    strc, swted,    \* STRC and SWTED of p_flag: the slots that have them
    sig,            \* p_sig
    action,         \* u_signal: "dfl", "ign" or "catch"
    pc, cpu,        \* where a process is, and which one is in the kernel and not asleep
    tgt,            \* the child that a call of ptrace() or newproc() is about
    ipc             \* ip_lock, ip_req and ip_data

proc == <<stat, ppid, strc, swted>>
vars == <<proc, sig, action, pc, cpu, tgt, ipc>>

PC == {"user", "out", "psig", "core", "wait", "waiting", "pausing", "ipclock", "ipcreq",
       "stop", "close", "closing", "forking", "swap", "none"}
Requests == {"move", "cont", "exit"}     \* 1 to 6, 7 and 9, 8
Live(p) == stat[p] \notin {"null", "zomb"}
Running(p, place) == stat[p] = "run" /\ pc[p] = place /\ cpu \in {none, p}

(* p goes on at a place; at some it keeps the processor.                   *)
Goto(p, place) ==
    /\ pc' = [pc EXCEPT ![p] = place]
    /\ cpu' = IF place \in {"out", "psig", "wait", "ipclock", "close"} THEN p ELSE none

Init ==
    /\ stat = [p \in Slot |-> IF p = Initproc THEN "run" ELSE "null"]
    /\ pc = [p \in Slot |-> IF p = Initproc THEN "user" ELSE "none"]
    /\ cpu = none
    /\ ppid = [p \in Slot |-> none] /\ tgt = [p \in Slot |-> none]
    /\ strc = {} /\ swted = {}
    /\ sig = [p \in Slot |-> {}]
    /\ action = [p \in Slot |-> [s \in Sig |-> "dfl"]]
    /\ ipc = [lock |-> none, req |-> "none", data |-> 0]

-----------------------------------------------------------------------------
(* wakeup(): the slots of S that sleep are made ready.                     *)
Woken(S) == [q \in Slot |-> IF q \in S /\ stat[q] = "sleep" THEN "run" ELSE stat[q]]

(* The processes that sleep on the same channel as p at an interruptible   *)
(* priority: wait() sleeps on the slot, pause() on &u, which is the same   *)
(* address for all.                                                        *)
WithIt(p) == CASE pc[p] \in {"waiting", "closing"} -> {p}
               [] pc[p] = "pausing" -> {q \in Slot : pc[q] = "pausing"}
               [] OTHER -> {}
Waiting(p) == {q \in {p} : pc[q] = "waiting"}
OnIpc == {q \in Slot : pc[q] \in {"ipclock", "ipcreq"}}

(* psignal(): p_stat after a signal for p. *)
Posted(p) == Woken(WithIt(p))

(* What the terminal, the clock, a trap or kill() does to a process.       *)
Psignal(p, s) ==
    /\ p # Initproc /\ stat[p] # "null" /\ s \notin sig[p]
    /\ sig' = [sig EXCEPT ![p] = @ \cup {s}]
    /\ stat' = Posted(p)
    /\ UNCHANGED <<ppid, strc, swted, action, pc, cpu, tgt, ipc>>

(* issig(): the signals that are for the process to act on, and p_sig when *)
(* those that are ignored and come before them are dropped.                *)
Deliverable(p) == {s \in sig[p] : p \in strc \/ action[p][s] # "ign"}
Issig(p) == {s \in sig[p] : \E n \in Deliverable(p) : n <= s}

(* sleep() at a priority above PZERO: a signal ends the call instead.      *)
Doze(p, place) ==
    /\ sig' = [sig EXCEPT ![p] = Issig(p)]
    /\ IF Deliverable(p) # {}
         THEN Goto(p, "out") /\ UNCHANGED stat
         ELSE Goto(p, place) /\ stat' = [stat EXCEPT ![p] = "sleep"]

(* The rest of sleep(), when the process runs again. *)
Slept(p) ==
    /\ \E place \in {"waiting", "pausing", "closing"} : Running(p, place)
    /\ sig' = [sig EXCEPT ![p] = Issig(p)]
    /\ \/ /\ Deliverable(p) # {}
          /\ Goto(p, "out")
          /\ UNCHANGED stat
       \/ /\ Deliverable(p) = {}
          /\ \/ pc[p] = "waiting" /\ Goto(p, "wait") /\ UNCHANGED stat
             \/ pc[p] = "closing" /\ Goto(p, "close") /\ UNCHANGED stat
             \/ pc[p] = "pausing" /\ Goto(p, "pausing") /\ stat' = [stat EXCEPT ![p] = "sleep"]
    /\ UNCHANGED <<ppid, strc, swted, action, tgt, ipc>>

-----------------------------------------------------------------------------
(* exit() begins: nothing is to disturb the process from here on.          *)
Bug_UndisturbedTraced(p) ==      \* mutant of Undisturbed: STRC is kept
    action' = [action EXCEPT ![p] = [s \in Sig |-> "ign"]] /\ UNCHANGED strc

Undisturbed(p) ==
    /\ strc' = strc \ {p}
    /\ action' = [action EXCEPT ![p] = [s \in Sig |-> "ign"]]

(* A driver's close may sleep, like that of a terminal. *)
ExitClose(p) ==
    /\ Running(p, "close")
    /\ Doze(p, "closing")
    /\ UNCHANGED <<ppid, strc, swted, action, tgt, ipc>>

CloseDone(p) ==
    /\ pc[p] = "closing" /\ stat[p] = "sleep"
    /\ stat' = Woken({p})
    /\ UNCHANGED <<ppid, strc, swted, sig, action, pc, cpu, tgt, ipc>>

Children(p) == {q \in Slot : ppid[q] = p}

(* Mutant of Orphaned: stopped children stay stopped. *)
Bug_OrphanedStopped(p) ==
    Woken(Waiting(ppid[p]) \cup IF Children(p) # {} THEN Waiting(Initproc) ELSE {})

(* p_stat when the children of p are process 1's, and the parent is woken. *)
Orphaned(p) ==
    LET woken == Woken(Waiting(ppid[p]) \cup IF Children(p) # {} THEN Waiting(Initproc) ELSE {})
    IN  [q \in Slot |-> IF q \in Children(p) /\ stat[q] = "stop" THEN "run" ELSE woken[q]]

ExitDone(p) ==
    /\ Running(p, "close")
    /\ stat' = [Orphaned(p) EXCEPT ![p] = "zomb"]
    /\ ppid' = [q \in Slot |-> IF q \in Children(p) THEN Initproc ELSE ppid[q]]
    /\ Goto(p, "none")
    /\ action' = [action EXCEPT ![p] = [s \in Sig |-> "dfl"]]
    /\ UNCHANGED <<strc, swted, sig, tgt, ipc>>

-----------------------------------------------------------------------------
(* The return to user mode, and psig() behind the stop of a traced process *)
(* (the other processes cannot tell when a process has left stop()).       *)
Return(p) ==
    /\ Running(p, "out")
    /\ Deliverable(p) = {}
    /\ sig' = [sig EXCEPT ![p] = {}]
    /\ Goto(p, "user")
    /\ UNCHANGED <<proc, action, tgt, ipc>>

Signalled(p) ==
    /\ Running(p, "out") /\ p \notin strc
    /\ Deliverable(p) # {}
    /\ sig' = [sig EXCEPT ![p] = Issig(p)]
    /\ Goto(p, "psig")
    /\ UNCHANGED <<proc, action, tgt, ipc>>

(* Signals that stay caught, and signals that make core() write an image.  *)
SIGINS == 4
SIGTRC == 5
Dumping == (3..12) \ {SIGKIL}

(* What is left of the handlers when one is called. *)
Caught(p, n) == IF n \in {SIGINS, SIGTRC} THEN action
                                          ELSE [action EXCEPT ![p][n] = "dfl"]

Psig(p) ==
    /\ Running(p, "psig")
    /\ \/ /\ sig[p] = {}
          /\ Goto(p, "user")
          /\ UNCHANGED <<sig, action, strc>>
       \/ \E n \in sig[p] :
            /\ \A s \in sig[p] : n <= s
            /\ sig' = [sig EXCEPT ![p] = @ \ {n}]
            /\ \/ /\ action[p][n] # "dfl"
                  /\ action' = Caught(p, n)
                  /\ Goto(p, "user")
                  /\ UNCHANGED strc
               \/ /\ action[p][n] = "dfl" /\ n \in Dumping
                  /\ Goto(p, "core")
                  /\ UNCHANGED <<action, strc>>
               \/ /\ action[p][n] = "dfl"
                  /\ Undisturbed(p)
                  /\ Goto(p, "close")
    /\ UNCHANGED <<stat, ppid, swted, tgt, ipc>>

(* core() is through, unless it has not slept at all.  It sleeps for the   *)
(* disk only, which the others cannot tell from waiting for the processor. *)
CoreDone(p) ==
    /\ Running(p, "core")
    /\ Undisturbed(p)
    /\ Goto(p, "close")
    /\ UNCHANGED <<stat, ppid, swted, sig, tgt, ipc>>

(* Any trap or interrupt takes a process from user mode to the test.       *)
Trap(p) ==
    /\ Running(p, "user") /\ sig[p] # {}
    /\ Goto(p, "out")
    /\ UNCHANGED <<proc, sig, action, tgt, ipc>>

-----------------------------------------------------------------------------
(* stop(): the parent is told and the process stops, or it ends when its   *)
(* parent has left it.  woken are slots that are woken before.             *)
Bug_StopsQuietly(p, woken) ==    \* mutant of Stops: wait() is not woken
    IF ppid[p] = Initproc
      THEN /\ Goto(p, "close")
           /\ Undisturbed(p) /\ stat' = Woken(woken)
      ELSE /\ Goto(p, "stop")
           /\ stat' = [Woken(woken) EXCEPT ![p] = "stop"]
           /\ UNCHANGED <<action, strc>>

Stops(p, woken) ==
    IF ppid[p] = Initproc
      THEN /\ Goto(p, "close")
           /\ Undisturbed(p) /\ stat' = Woken(woken)
      ELSE /\ Goto(p, "stop")
           /\ stat' = [Woken(woken \cup Waiting(ppid[p])) EXCEPT ![p] = "stop"]
           /\ UNCHANGED <<action, strc>>

StopTraced(p) ==
    /\ Running(p, "out") /\ p \in strc
    /\ Deliverable(p) # {}
    /\ sig' = [sig EXCEPT ![p] = Issig(p)]
    /\ Stops(p, {})
    /\ UNCHANGED <<ppid, swted, tgt, ipc>>

(* The process runs again, but not for a request: its parent has gone.     *)
StopAgain(p) ==
    /\ Running(p, "stop") /\ ipc.lock # p
    /\ Stops(p, {})
    /\ UNCHANGED <<ppid, swted, sig, tgt, ipc>>

(* procxmt(): words are read or written, which may fail ...                *)
ProcxmtMove(p) ==
    /\ Running(p, "stop") /\ ipc.lock = p /\ ipc.req = "move"
    /\ \E answer \in {"none", "error"} : ipc' = [ipc EXCEPT !.req = answer]
    /\ Stops(p, OnIpc)
    /\ UNCHANGED <<ppid, swted, sig, tgt>>

(* ... the process goes on with another signal or none ...                 *)
ProcxmtCont(p) ==
    /\ Running(p, "stop") /\ ipc.lock = p /\ ipc.req = "cont"
    /\ ipc' = [ipc EXCEPT !.req = "none"]
    /\ sig' = [sig EXCEPT ![p] = {ipc.data} \ {0}]
    /\ Goto(p, "psig")
    /\ stat' = Woken(OnIpc)
    /\ UNCHANGED <<ppid, strc, swted, action, tgt>>

(* ... or it ends.                                                         *)
ProcxmtExit(p) ==
    /\ Running(p, "stop") /\ ipc.lock = p /\ ipc.req = "exit"
    /\ ipc' = [ipc EXCEPT !.req = "none"]
    /\ Goto(p, "close")
    /\ Undisturbed(p)
    /\ stat' = Woken(OnIpc)
    /\ UNCHANGED <<ppid, swted, sig, tgt>>

-----------------------------------------------------------------------------
(* System calls.  exit(), wait() and the request to be traced.             *)
Rexit(p) ==
    /\ Running(p, "user") /\ p # Initproc
    /\ Goto(p, "close")
    /\ Undisturbed(p)
    /\ UNCHANGED <<stat, ppid, swted, sig, tgt, ipc>>

Wait(p) ==
    /\ Running(p, "user")
    /\ Goto(p, "wait")
    /\ UNCHANGED <<proc, sig, action, tgt, ipc>>

WaitZombie(p, c) ==
    /\ Running(p, "wait") /\ ppid[c] = p /\ stat[c] = "zomb"
    /\ stat' = [stat EXCEPT ![c] = "null"] /\ ppid' = [ppid EXCEPT ![c] = none]
    /\ strc' = strc \ {c} /\ swted' = swted \ {c}
    /\ sig' = [sig EXCEPT ![c] = {}]
    /\ Goto(p, "out")
    /\ UNCHANGED <<action, tgt, ipc>>

Reportable(p) == {c \in Children(p) : stat[c] = "stop" /\ c \notin swted}

WaitStopped(p, c) ==
    /\ Running(p, "wait") /\ c \in Reportable(p)
    /\ swted' = swted \cup {c}
    /\ Goto(p, "out")
    /\ UNCHANGED <<stat, ppid, strc, sig, action, tgt, ipc>>

WaitSleep(p) ==
    /\ Running(p, "wait")
    /\ Reportable(p) = {} /\ \A c \in Children(p) : stat[c] # "zomb"
    /\ IF Children(p) # {} THEN Doze(p, "waiting")
                           ELSE Goto(p, "out") /\ UNCHANGED <<stat, sig>>
    /\ UNCHANGED <<ppid, strc, swted, action, tgt, ipc>>

Pause(p) ==
    /\ Running(p, "user") /\ p # Initproc
    /\ Doze(p, "pausing")
    /\ UNCHANGED <<ppid, strc, swted, action, tgt, ipc>>

Ssig(p, s, fun) ==
    /\ Running(p, "user") /\ p # Initproc /\ s # SIGKIL
    /\ action' = [action EXCEPT ![p][s] = fun]
    /\ sig' = [sig EXCEPT ![p] = @ \ {s}]
    /\ Goto(p, "out")
    /\ UNCHANGED <<proc, tgt, ipc>>

(* A new process: newproc() copies the parent if there is core ...         *)
NewSlot(p, c) ==
    /\ stat[c] = "null"
    /\ ppid' = [ppid EXCEPT ![c] = p]
    /\ strc' = strc \ {c} /\ swted' = swted \ {c}
    /\ action' = [action EXCEPT ![c] = action[p]]

Fork(p, c) ==
    /\ Running(p, "user") /\ NewSlot(p, c)
    /\ stat' = [stat EXCEPT ![c] = "run"]
    /\ pc' = [pc EXCEPT ![p] = "out", ![c] = "out"] /\ cpu' = p
    /\ UNCHANGED <<sig, tgt, ipc>>

(* ... and else swaps it out, asleep in the name of the child.             *)
ForkSwap(p, c) ==
    /\ Running(p, "user") /\ NewSlot(p, c)
    /\ stat' = [stat EXCEPT ![p] = "idl", ![c] = "sleep"]
    /\ pc' = [pc EXCEPT ![p] = "forking", ![c] = "swap"] /\ cpu' = none
    /\ tgt' = [tgt EXCEPT ![p] = c]
    /\ UNCHANGED <<sig, ipc>>

ForkSwapped(p) ==
    /\ pc[p] = "forking" /\ cpu = none
    /\ stat' = [stat EXCEPT ![p] = "run", ![tgt[p]] = "run"]
    /\ pc' = [pc EXCEPT ![p] = "out", ![tgt[p]] = "out"] /\ cpu' = p
    /\ tgt' = [tgt EXCEPT ![p] = none]
    /\ UNCHANGED <<ppid, strc, swted, sig, action, ipc>>

Traceme(p) ==
    /\ Running(p, "user") /\ p # Initproc
    /\ strc' = strc \cup {p}
    /\ Goto(p, "out")
    /\ UNCHANGED <<stat, ppid, swted, sig, action, tgt, ipc>>

-----------------------------------------------------------------------------
(* ptrace() of a stopped child c: the tracer waits for the lock, ...       *)
Ptrace(p, c) ==
    /\ Running(p, "user") /\ ppid[c] = p /\ stat[c] = "stop"
    /\ tgt' = [tgt EXCEPT ![p] = c]
    /\ Goto(p, "ipclock")
    /\ UNCHANGED <<proc, sig, action, ipc>>

Bug_IpcBusyNever == FALSE        \* mutant of IpcBusy: the lock is not tested

IpcBusy == ipc.lock # none

IpcSleep(p) ==
    /\ Running(p, "ipclock") /\ IpcBusy
    /\ stat' = [stat EXCEPT ![p] = "sleep"] /\ cpu' = none
    /\ UNCHANGED <<ppid, strc, swted, sig, action, pc, tgt, ipc>>

(* ... sets the child running with a request and sleeps, ...               *)
IpcRequest(p, r, s) ==
    /\ Running(p, "ipclock") /\ ~IpcBusy
    /\ r # "cont" => s = 0
    /\ ipc' = [lock |-> tgt[p], req |-> r, data |-> s]
    /\ swted' = swted \ {tgt[p]}
    /\ stat' = [stat EXCEPT ![p] = "sleep", ![tgt[p]] = "run"]
    /\ Goto(p, "ipcreq")
    /\ UNCHANGED <<ppid, strc, sig, action, tgt>>

(* ... and gives the lock up when it has been answered.                    *)
IpcAnswered(p) ==
    /\ Running(p, "ipcreq")
    /\ IF ipc.req \in Requests
         THEN /\ stat' = [stat EXCEPT ![p] = "sleep"] /\ cpu' = none
              /\ UNCHANGED <<pc, tgt, ipc>>
         ELSE /\ ipc' = [lock |-> none, req |-> "none", data |-> 0]
              /\ stat' = Woken(OnIpc)
              /\ Goto(p, "out")
              /\ tgt' = [tgt EXCEPT ![p] = none]
    /\ UNCHANGED <<ppid, strc, swted, sig, action>>

Next == \E p \in Slot :
    \/ \E s \in Sig : Psignal(p, s)
    \/ Slept(p) \/ ExitClose(p) \/ CloseDone(p) \/ ExitDone(p)
    \/ Trap(p) \/ Return(p) \/ Signalled(p) \/ Psig(p) \/ CoreDone(p)
    \/ StopTraced(p) \/ StopAgain(p) \/ ProcxmtMove(p) \/ ProcxmtCont(p) \/ ProcxmtExit(p)
    \/ Rexit(p) \/ Wait(p) \/ WaitSleep(p) \/ Pause(p) \/ Traceme(p)
    \/ \E s \in Sig, fun \in Fun : Ssig(p, s, fun)
    \/ \E c \in Slot : \/ WaitZombie(p, c) \/ WaitStopped(p, c)
                       \/ Fork(p, c) \/ ForkSwap(p, c) \/ Ptrace(p, c)
    \/ ForkSwapped(p)
    \/ IpcSleep(p) \/ IpcAnswered(p)
    \/ \E r \in Requests, s \in Sig \cup {0} : IpcRequest(p, r, s)

Spec == Init /\ [][Next]_vars

-----------------------------------------------------------------------------
(* Every variable of proc[] and of the ipc structure stays in its range.   *)
TypeOK ==
    /\ stat \in [Slot -> {"null", "run", "sleep", "idl", "zomb", "stop"}]
    /\ ppid \in [Slot -> Slot \cup {none}] /\ tgt \in [Slot -> Slot \cup {none}]
    /\ strc \subseteq Slot /\ swted \subseteq Slot
    /\ sig \in [Slot -> SUBSET Sig]
    /\ action \in [Slot -> [Sig -> {"dfl", "ign", "catch"}]]
    /\ pc \in [Slot -> PC] /\ cpu \in Slot \cup {none}
    /\ ipc \in [lock : Slot \cup {none}, req : Requests \cup {"none", "error"}, data : Sig \cup {0}]

(* Whoever sleeps in wait() has a child to wait for, and none that has     *)
(* ended or stopped without a wakeup, whoever its parent was at that time. *)
WaitersWoken ==
    \A p \in Slot : pc[p] = "waiting" /\ stat[p] = "sleep" =>
        /\ Children(p) # {} /\ Reportable(p) = {}
        /\ \A c \in Children(p) : stat[c] # "zomb"

(* Every process has a parent that lives, a stopped one has a parent other *)
(* than process 1 that can set it going, and newproc() finds no signal in  *)
(* a slot that it takes without looking at p_sig.                          *)
Family ==
    \A p \in Slot \ {Initproc} :
        /\ stat[p] # "null" => ppid[p] # none /\ Live(ppid[p])
        /\ stat[p] = "stop" => p \in strc /\ ppid[p] # Initproc
        /\ stat[p] = "null" => sig[p] = {} /\ Children(p) = {}

(* One tracer at a time has the lock, for its own child, which is on its   *)
(* way to answer as long as the request is open; the tracer does not sleep *)
(* when it is answered, and nobody sleeps for a lock that nobody has.  The *)
(* child that a tracer found is still stopped when it gets the lock, so    *)
(* that ptrace() never sets a dead process running.                        *)
Handshake ==
    /\ \A p \in Slot : pc[p] = "ipcreq" =>
         /\ ipc.lock = tgt[p] /\ ppid[tgt[p]] = p
         /\ ipc.req \in Requests => stat[tgt[p]] = "run" /\ pc[tgt[p]] = "stop"
         /\ ipc.req \notin Requests => stat[p] = "run"
    /\ ipc.lock # none <=> \E p \in Slot : pc[p] = "ipcreq"
    /\ \A p \in Slot : pc[p] = "ipclock" =>
         /\ stat[tgt[p]] = "stop" /\ ppid[tgt[p]] = p
         /\ stat[p] = "sleep" => IpcBusy

(* Once in exit() a process does not come back, whatever signals it gets   *)
(* while it sleeps there.                                                  *)
Exiting(p) == pc[p] \in {"close", "closing"}
ExitStays == [][\A p \in Slot : Exiting(p) => Exiting(p)' \/ stat'[p] = "zomb"]_vars
=============================================================================

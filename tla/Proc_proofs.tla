---------------------------- MODULE Proc_proofs ----------------------------
(***************************************************************************)
(* Proofs about Proc, for a process table of any size and any signals.     *)
(***************************************************************************)
EXTENDS Proc, TLAPS

-----------------------------------------------------------------------------
(* The inductive invariant: what is true of every process.                 *)

(* What p_stat can be where a process is. *)
Placed(p) ==
    /\ pc[p] \in {"user", "out", "psig", "core", "wait", "close"} => stat[p] = "run"
    /\ pc[p] \in {"waiting", "pausing", "closing", "ipclock", "ipcreq"} => stat[p] \in {"sleep", "run"}
    /\ pc[p] = "stop" => stat[p] \in {"stop", "run"}
    /\ pc[p] = "forking" => stat[p] = "idl"
    /\ pc[p] = "swap" => stat[p] = "sleep"
    /\ pc[p] = "none" => stat[p] \in {"null", "zomb"}

(* A process in exit() is neither traced nor does it heed a signal; a      *)
(* process in stop() is traced.                                            *)
Quiet(p) ==
    /\ Exiting(p) => p \notin strc /\ \A s \in Sig : action[p][s] = "ign"
    /\ pc[p] = "stop" => p \in strc

(* ptrace() and newproc() have a child to deal with; newproc() without     *)
(* core swaps out the one that it has made.                                *)
Target(p) ==
    /\ pc[p] \in {"ipclock", "ipcreq", "forking"} => tgt[p] \in Slot
    /\ pc[p] = "forking" => pc[tgt[p]] = "swap" /\ ppid[tgt[p]] = p

(* Family, with a free slot that is nobody's child. *)
Kin(p) == p # Initproc =>
    /\ stat[p] # "null" => ppid[p] \in Slot /\ Live(ppid[p])
    /\ stat[p] = "stop" => ppid[p] # Initproc
    /\ stat[p] = "null" => sig[p] = {} /\ ppid[p] = none

(* Handshake, for a tracer that has the lock and one that waits for it.    *)
Tracer(p) == pc[p] = "ipcreq" =>
    /\ ipc.lock = tgt[p] /\ ppid[tgt[p]] = p
    /\ ipc.req \in Requests => stat[tgt[p]] = "run" /\ pc[tgt[p]] = "stop"
    /\ ipc.req \notin Requests => stat[p] = "run"
Locker(p) == pc[p] = "ipclock" =>
    /\ stat[tgt[p]] = "stop" /\ ppid[tgt[p]] = p
    /\ stat[p] = "sleep" => IpcBusy
LockTaken == ipc.lock # none <=> \E p \in Slot : pc[p] = "ipcreq"

(* WaitersWoken. *)
Waiter(p) == pc[p] = "waiting" /\ stat[p] = "sleep" =>
    /\ \E c \in Slot : ppid[c] = p
    /\ \A c \in Slot : ppid[c] = p => stat[c] # "zomb" /\ (stat[c] = "stop" => c \in swted)

(* Process 1 is nobody's child, and gets no signals. *)
InitPlaces == {"user", "out", "wait", "waiting", "forking", "ipclock", "ipcreq"}
InitLives ==
    /\ pc[Initproc] \in InitPlaces /\ sig[Initproc] = {}
    /\ Initproc \notin strc /\ ppid[Initproc] = none

PInv(p) == Placed(p) /\ Quiet(p) /\ Target(p) /\ Kin(p) /\ Tracer(p) /\ Locker(p) /\ Waiter(p)
IInv == TypeOK /\ InitLives /\ LockTaken /\ \A p \in Slot : PInv(p)

-----------------------------------------------------------------------------
(* The invariant says what is to be shown.                                 *)
LEMMA InvHandshake == IInv => Handshake
BY DEF IInv, PInv, Handshake, Tracer, LockTaken, Locker

LEMMA InvWaiters == IInv => WaitersWoken
BY DEF IInv, PInv, WaitersWoken, Waiter, Children, Reportable

LEMMA InvFamily == IInv => Family
<1> SUFFICES ASSUME IInv, NEW p \in Slot \ {Initproc}
             PROVE  /\ stat[p] # "null" => ppid[p] # none /\ Live(ppid[p])
                    /\ stat[p] = "stop" => p \in strc /\ ppid[p] # Initproc
                    /\ stat[p] = "null" => sig[p] = {} /\ Children(p) = {}
  BY DEF Family
<1>1. stat[p] # "null" => ppid[p] # none /\ Live(ppid[p])
  BY ProcAssumption DEF IInv, PInv, Kin
<1>2. stat[p] = "stop" => pc[p] = "stop"
  BY DEF IInv, PInv, Placed, TypeOK, PC
<1>3. stat[p] = "stop" => p \in strc /\ ppid[p] # Initproc
  BY <1>2 DEF IInv, PInv, Kin, Quiet
<1>4. stat[p] = "null" => Children(p) = {}
  <2>1. ASSUME stat[p] = "null", NEW q \in Slot, ppid[q] = p PROVE FALSE
    <3>1. q # Initproc
      BY <2>1, ProcAssumption DEF IInv, InitLives
    <3> QED BY <2>1, <3>1, ProcAssumption DEF IInv, PInv, Kin, Live
  <2> QED BY <2>1 DEF Children
<1> QED BY <1>1, <1>3, <1>4 DEF IInv, PInv, Kin

-----------------------------------------------------------------------------
(* A step of p that wakes the processes of W, and its effect on others.    *)
Sleepers == {q \in Slot : pc[q] \in {"waiting", "pausing", "closing", "ipclock", "ipcreq"}}

Step(p, W) ==
    /\ ppid' = ppid /\ swted \subseteq swted'
    /\ \A q \in Slot \ {p} :
         /\ pc'[q] = pc[q] /\ tgt'[q] = tgt[q] /\ sig'[q] = sig[q] /\ action'[q] = action[q]
         /\ q \in strc' <=> q \in strc
         /\ stat'[q] = IF q \in W /\ stat[q] = "sleep" THEN "run" ELSE stat[q]

(* The tracers when the ipc structure is left alone by p, which is neither *)
(* a tracer nor about to answer one.                                       *)
LEMMA StepIpc ==
    ASSUME IInv, NEW p \in Slot, NEW W \in SUBSET Sleepers, Step(p, W), ipc' = ipc,
           stat[p] = "run", pc[p] # "ipcreq", pc'[p] # "ipcreq", pc[p] = "stop" => ipc.lock # p
    PROVE  LockTaken' /\ Tracer(p)' /\ \A q \in Slot \ {p} : Tracer(q)' /\ Locker(q)'
<1>1. LockTaken' /\ Tracer(p)'
  BY DEF IInv, LockTaken, Step, Tracer
<1>2. ASSUME NEW q \in Slot \ {p} PROVE Tracer(q)'
  <2>1. ASSUME pc[q] = "ipcreq" PROVE Tracer(q)'
    <3>1. /\ ipc.lock = tgt[q] /\ ppid[tgt[q]] = q /\ tgt[q] \in Slot
          /\ ipc.req \in Requests => stat[tgt[q]] = "run" /\ pc[tgt[q]] = "stop"
          /\ ipc.req \notin Requests => stat[q] = "run"
      BY <2>1 DEF IInv, PInv, Tracer, Target
    <3>2. ipc.req \in Requests => tgt[q] # p
      BY <3>1
    <3> QED BY <3>1, <3>2 DEF Tracer, Step
  <2> QED BY <2>1 DEF Tracer, Step
<1>3. ASSUME NEW q \in Slot \ {p} PROVE Locker(q)'
  <2>1. pc[q] = "ipclock" => tgt[q] \in Slot \ {p} /\ Locker(q)
    BY DEF IInv, PInv, Locker, Target
  <2> QED BY <2>1 DEF Locker, Step, IpcBusy
<1> QED BY <1>1, <1>2, <1>3

LEMMA StepInv ==
    ASSUME IInv, TypeOK', NEW p \in Slot, NEW W \in SUBSET Sleepers, Step(p, W),
           Live(p), Live(p)', pc[p] # "swap",
           Placed(p)', Quiet(p)', Target(p)', Locker(p)', Waiter(p)',
           LockTaken', Tracer(p)', \A q \in Slot \ {p} : Tracer(q)' /\ Locker(q)',
           p = Initproc => pc'[p] \in InitPlaces /\ sig'[p] = {} /\ p \notin strc',
           stat'[p] = "stop" => ppid[p] # Initproc /\ Waiting(ppid[p]) \subseteq W
    PROVE  IInv'
<1>1. InitLives'
  BY ProcAssumption DEF IInv, InitLives, Step
<1>2. Kin(p)'
  <2>1. p # Initproc => ppid[p] \in Slot /\ Live(ppid[p]) /\ stat'[p] # "null"
    BY DEF IInv, PInv, Kin, Live
  <2>2. p # Initproc => Live(ppid[p])'
    <3>1. \A q \in Slot \ {p} : Live(q) => Live(q)'
      BY DEF Live, Step
    <3> QED BY <2>1, <3>1 DEF Step
  <2> QED BY <2>1, <2>2 DEF Kin, Step
<1>3. ASSUME NEW q \in Slot \ {p} PROVE PInv(q)'
  <2>1. Placed(q)'
    <3>1. stat'[q] # stat[q] => q \in Sleepers /\ stat'[q] = "run"
      BY DEF Step
    <3> QED BY <3>1 DEF IInv, PInv, Placed, Step, Sleepers
  <2>2. Quiet(q)'
    BY DEF IInv, PInv, Quiet, Exiting, Step
  <2>3. Target(q)'
    BY DEF IInv, PInv, Target, Step
  <2>4. Kin(q)'
    <3>1. \A r \in Slot : Live(r) => Live(r)'
      BY DEF Live, Step
    <3>2. /\ stat'[q] = "null" <=> stat[q] = "null"
          /\ stat'[q] = "stop" <=> stat[q] = "stop"
      BY DEF Step
    <3>3. q # Initproc /\ stat[q] # "null" => Live(ppid[q])'
      BY <3>1 DEF IInv, PInv, Kin, Step
    <3> QED BY <3>2, <3>3 DEF IInv, PInv, Kin, Step
  <2>5. Waiter(q)'
    <3>1. ASSUME pc'[q] = "waiting", stat'[q] = "sleep" PROVE Waiter(q)'
      <4>1. pc[q] = "waiting" /\ stat[q] = "sleep" /\ q \notin W
        BY <3>1 DEF Step
      <4>2. /\ \E c \in Slot : ppid'[c] = q
            /\ \A c \in Slot : ppid[c] = q =>
                 stat[c] # "zomb" /\ (stat[c] = "stop" => c \in swted')
        BY <4>1 DEF IInv, PInv, Waiter, Step
      <4>3. ASSUME NEW c \in Slot, ppid[c] = q
            PROVE  stat'[c] # "zomb" /\ (stat'[c] = "stop" => c \in swted')
        <5>1. CASE c # p
          BY <4>2, <4>3, <5>1 DEF Step
        <5>2. CASE c = p
          BY <4>1, <4>3, <5>2 DEF Live, Waiting
        <5> QED BY <5>1, <5>2
      <4> QED BY <4>2, <4>3 DEF Waiter, Step
    <3> QED BY <3>1 DEF Waiter
  <2> QED BY <2>1, <2>2, <2>3, <2>4, <2>5 DEF PInv
<1>4. PInv(p)'
  BY <1>2 DEF PInv
<1> QED BY <1>1, <1>3, <1>4 DEF IInv

-----------------------------------------------------------------------------
(* What the operations assign.                                             *)
Stat == {"null", "run", "sleep", "idl", "zomb", "stop"}

LEMMA GotoIs ==
    ASSUME TypeOK, NEW p \in Slot, NEW place \in PC, Goto(p, place)
    PROVE  /\ pc' \in [Slot -> PC] /\ pc'[p] = place /\ cpu' \in Slot \cup {none}
           /\ \A q \in Slot \ {p} : pc'[q] = pc[q]
BY DEF TypeOK, Goto

LEMMA WokenIs ==
    ASSUME TypeOK, NEW W
    PROVE  /\ Woken(W) \in [Slot -> Stat]
           /\ \A q \in Slot : Woken(W)[q] = IF q \in W /\ stat[q] = "sleep" THEN "run" ELSE stat[q]
BY DEF TypeOK, Woken, Stat

LEMMA UndisturbedIs ==
    ASSUME TypeOK, NEW p \in Slot, Undisturbed(p)
    PROVE  /\ strc' \in SUBSET Slot /\ p \notin strc'
           /\ \A q \in Slot \ {p} : (q \in strc' <=> q \in strc) /\ action'[q] = action[q]
           /\ action' \in [Slot -> [Sig -> {"dfl", "ign", "catch"}]]
           /\ \A s \in Sig : action'[p][s] = "ign"
<1>1. [s \in Sig |-> "ign"] \in [Sig -> {"dfl", "ign", "catch"}]
  OBVIOUS
<1> QED BY <1>1 DEF TypeOK, Undisturbed

(* Only p's signals and their actions change, and whether it is traced.    *)
Alone(p) ==
    /\ sig' \in [Slot -> SUBSET Sig] /\ action' \in [Slot -> [Sig -> {"dfl", "ign", "catch"}]]
    /\ strc' \in SUBSET Slot
    /\ \A q \in Slot \ {p} :
         sig'[q] = sig[q] /\ action'[q] = action[q] /\ (q \in strc' <=> q \in strc)

(* p goes on at another place. *)
LEMMA MoveInv ==
    ASSUME IInv, NEW p \in Slot, stat[p] = "run",
           pc[p] \in {"user", "out", "psig", "core", "wait", "waiting", "pausing", "closing"},
           NEW place \in {"user", "out", "psig", "core", "wait", "close"}, Goto(p, place), Alone(p),
           UNCHANGED <<stat, ppid, tgt, ipc>>, swted \subseteq swted', swted' \in SUBSET Slot,
           place = "close" => p \notin strc' /\ \A s \in Sig : action'[p][s] = "ign",
           p = Initproc => place \in InitPlaces /\ sig'[p] = {} /\ p \notin strc'
    PROVE  IInv'
<1>1. /\ pc' \in [Slot -> PC] /\ pc'[p] = place /\ cpu' \in Slot \cup {none}
      /\ \A q \in Slot \ {p} : pc'[q] = pc[q]
  BY GotoIs DEF IInv, PC
<1>2. TypeOK'
  BY <1>1 DEF IInv, TypeOK, Alone
<1>3. Step(p, {}) /\ {} \in SUBSET Sleepers
  BY <1>1 DEF Step, Alone
<1>4. /\ LockTaken' /\ Tracer(p)' /\ \A q \in Slot \ {p} : Tracer(q)' /\ Locker(q)'
  BY <1>1, <1>3, StepIpc
<1>5. Live(p) /\ Live(p)' /\ Placed(p)' /\ Target(p)' /\ Locker(p)' /\ Waiter(p)'
  BY <1>1 DEF Live, Placed, Target, Locker, Waiter
<1>6. Quiet(p)'
  BY <1>1 DEF Quiet, Exiting
<1> QED BY <1>1, <1>2, <1>3, <1>4, <1>5, <1>6, StepInv

(* p goes to sleep. *)
LEMMA SleepInv ==
    ASSUME IInv, NEW p \in Slot, stat[p] = "run", pc[p] \in {"user", "wait", "close", "pausing"},
           NEW place \in {"waiting", "pausing", "closing"}, Goto(p, place), Alone(p),
           stat' = [stat EXCEPT ![p] = "sleep"], UNCHANGED <<ppid, swted, strc, action, tgt, ipc>>,
           place = "closing" => pc[p] = "close",
           place = "waiting" =>
             /\ \E c \in Slot : ppid[c] = p
             /\ \A c \in Slot : ppid[c] = p => stat[c] # "zomb" /\ (stat[c] = "stop" => c \in swted),
           p = Initproc => place \in InitPlaces /\ sig'[p] = {}
    PROVE  IInv'
<1>1. /\ pc' \in [Slot -> PC] /\ pc'[p] = place /\ cpu' \in Slot \cup {none}
      /\ \A q \in Slot \ {p} : pc'[q] = pc[q]
  BY GotoIs DEF IInv, PC
<1>2. /\ stat' \in [Slot -> Stat] /\ stat'[p] = "sleep"
      /\ \A q \in Slot \ {p} : stat'[q] = stat[q]
  BY DEF IInv, TypeOK, Stat
<1>3. TypeOK'
  BY <1>1, <1>2 DEF IInv, TypeOK, Alone, Stat
<1>4. Step(p, {}) /\ {} \in SUBSET Sleepers
  BY <1>1, <1>2 DEF Step, Alone
<1>5. /\ LockTaken' /\ Tracer(p)' /\ \A q \in Slot \ {p} : Tracer(q)' /\ Locker(q)'
  BY <1>1, <1>4, StepIpc
<1>6. Live(p) /\ Live(p)' /\ Placed(p)' /\ Target(p)' /\ Locker(p)'
  BY <1>1, <1>2 DEF Live, Placed, Target, Locker
<1>7. Quiet(p)'
  BY <1>1 DEF Quiet, Exiting, IInv, PInv
<1>8. Waiter(p)'
  BY <1>1, <1>2 DEF Waiter
<1>9. p = Initproc => p \notin strc'
  BY DEF IInv, InitLives
<1> QED BY <1>1, <1>2, <1>3, <1>4, <1>5, <1>6, <1>7, <1>8, <1>9, StepInv

(* issig() leaves some of the signals; a process in exit() heeds none. *)
LEMMA IssigIs ==
    ASSUME IInv, NEW p \in Slot
    PROVE  Issig(p) \in SUBSET Sig /\ (sig[p] = {} => Issig(p) = {} /\ Deliverable(p) = {})
BY DEF IInv, TypeOK, Issig, Deliverable

LEMMA ExitingHeedsNone ==
    ASSUME IInv, NEW p \in Slot, Exiting(p)
    PROVE  Deliverable(p) = {}
BY DEF IInv, PInv, Quiet, Deliverable, TypeOK

LEMMA IssigAlone ==
    ASSUME IInv, NEW p \in Slot, sig' = [sig EXCEPT ![p] = Issig(p)], UNCHANGED <<strc, action>>
    PROVE  Alone(p) /\ (p = Initproc => sig'[p] = {} /\ p \notin strc')
<1>1. p = Initproc => sig[p] = {} /\ p \notin strc
  BY DEF IInv, InitLives
<1> QED BY <1>1, IssigIs DEF Alone, IInv, TypeOK

LEMMA DozeInv ==
    ASSUME IInv, NEW p \in Slot, stat[p] = "run", pc[p] \in {"user", "wait", "close"},
           NEW place \in {"waiting", "pausing", "closing"}, Doze(p, place),
           UNCHANGED <<ppid, strc, swted, action, tgt, ipc>>,
           place = "closing" <=> pc[p] = "close",
           place = "waiting" =>
             /\ \E c \in Slot : ppid[c] = p
             /\ \A c \in Slot : ppid[c] = p => stat[c] # "zomb" /\ (stat[c] = "stop" => c \in swted),
           p = Initproc => place = "waiting"
    PROVE  IInv'
<1>1. Alone(p) /\ (p = Initproc => sig'[p] = {} /\ p \notin strc')
  BY IssigAlone DEF Doze
<1>2. CASE Deliverable(p) # {}
  <2>1. pc[p] # "close"
    BY <1>2, ExitingHeedsNone DEF Exiting
  <2>2. Goto(p, "out") /\ UNCHANGED stat
    BY <1>2 DEF Doze
  <2>3. swted \subseteq swted' /\ swted' \in SUBSET Slot
    BY DEF IInv, TypeOK
  <2> QED BY <1>1, <2>1, <2>2, <2>3, MoveInv DEF InitPlaces
<1>3. CASE Deliverable(p) = {}
  <2>1. Goto(p, place) /\ stat' = [stat EXCEPT ![p] = "sleep"]
    BY <1>3 DEF Doze
  <2> QED BY <1>1, <2>1, SleepInv DEF InitPlaces
<1> QED BY <1>2, <1>3

LEMMA SleepersInv ==
    ASSUME IInv, NEW p \in Slot, ExitClose(p) \/ Pause(p) \/ WaitSleep(p)
    PROVE  IInv'
<1>1. CASE ExitClose(p)
  <2>1. /\ stat[p] = "run" /\ pc[p] = "close" /\ Doze(p, "closing")
        /\ UNCHANGED <<ppid, strc, swted, action, tgt, ipc>>
    BY <1>1 DEF ExitClose, Running
  <2>2. p # Initproc
    BY <2>1 DEF IInv, InitLives, InitPlaces
  <2> QED BY <2>1, <2>2, DozeInv
<1>2. CASE Pause(p)
  <2>1. /\ stat[p] = "run" /\ pc[p] = "user" /\ p # Initproc /\ Doze(p, "pausing")
        /\ UNCHANGED <<ppid, strc, swted, action, tgt, ipc>>
    BY <1>2 DEF Pause, Running
  <2> QED BY <2>1, DozeInv
<1>3. CASE WaitSleep(p)
  <2>1. /\ stat[p] = "run" /\ pc[p] = "wait" /\ UNCHANGED <<ppid, strc, swted, action, tgt, ipc>>
        /\ \A c \in Slot : ppid[c] = p => stat[c] # "zomb" /\ (stat[c] = "stop" => c \in swted)
    BY <1>3 DEF WaitSleep, Running, Reportable, Children
  <2>2. CASE (\E c \in Slot : ppid[c] = p) /\ Doze(p, "waiting")
    BY <2>1, <2>2, DozeInv
  <2>3. CASE Goto(p, "out") /\ UNCHANGED <<stat, sig>>
    <3>1. Alone(p) /\ swted \subseteq swted' /\ swted' \in SUBSET Slot
      BY <2>1, <2>3 DEF Alone, IInv, TypeOK
    <3>2. p = Initproc => sig'[p] = {} /\ p \notin strc'
      BY <2>1, <2>3 DEF IInv, InitLives
    <3> QED BY <2>1, <2>3, <3>1, <3>2, MoveInv DEF InitPlaces
  <2> QED BY <1>3, <2>2, <2>3 DEF WaitSleep, Children
<1> QED BY <1>1, <1>2, <1>3

LEMMA SleptInv ==
    ASSUME IInv, NEW p \in Slot, Slept(p)
    PROVE  IInv'
<1>1. /\ stat[p] = "run" /\ pc[p] \in {"waiting", "pausing", "closing"}
      /\ sig' = [sig EXCEPT ![p] = Issig(p)] /\ UNCHANGED <<ppid, strc, swted, action, tgt, ipc>>
  BY DEF Slept, Running
<1>2. Alone(p) /\ (p = Initproc => sig'[p] = {} /\ p \notin strc')
  BY <1>1, IssigAlone
<1>3. swted \subseteq swted' /\ swted' \in SUBSET Slot
  BY <1>1 DEF IInv, TypeOK
<1>4. p = Initproc => pc[p] = "waiting"
  BY <1>1 DEF IInv, InitLives, InitPlaces
<1>5. CASE Deliverable(p) # {} /\ Goto(p, "out") /\ UNCHANGED stat
  BY <1>1, <1>2, <1>3, <1>5, MoveInv DEF InitPlaces
<1>6. CASE pc[p] = "waiting" /\ Goto(p, "wait") /\ UNCHANGED stat
  BY <1>1, <1>2, <1>3, <1>6, MoveInv DEF InitPlaces
<1>7. CASE pc[p] = "closing" /\ Goto(p, "close") /\ UNCHANGED stat
  <2>1. p \notin strc' /\ \A s \in Sig : action'[p][s] = "ign"
    BY <1>1, <1>7 DEF IInv, PInv, Quiet, Exiting
  <2> QED BY <1>1, <1>2, <1>3, <1>4, <1>7, <2>1, MoveInv
<1>8. CASE pc[p] = "pausing" /\ Goto(p, "pausing") /\ stat' = [stat EXCEPT ![p] = "sleep"]
  BY <1>1, <1>2, <1>4, <1>8, SleepInv
<1> QED BY <1>5, <1>6, <1>7, <1>8 DEF Slept

(* The return to user mode, psig() and the system calls that only move p.  *)
LEMMA ReturnInv ==
    ASSUME IInv, NEW p \in Slot,
           Trap(p) \/ Return(p) \/ Signalled(p) \/ Wait(p) \/ Rexit(p) \/ Traceme(p)
    PROVE  IInv'
<1>0. /\ p = Initproc => sig[p] = {} /\ p \notin strc
      /\ sig \in [Slot -> SUBSET Sig] /\ action \in [Slot -> [Sig -> {"dfl", "ign", "catch"}]]
      /\ strc \in SUBSET Slot /\ swted \in SUBSET Slot
  BY DEF IInv, InitLives, TypeOK
<1>1. CASE Trap(p)
  <2>1. /\ stat[p] = "run" /\ pc[p] = "user" /\ Goto(p, "out")
        /\ UNCHANGED <<stat, ppid, strc, swted, sig, action, tgt, ipc>>
    BY <1>1 DEF Trap, Running, proc
  <2>2. Alone(p)
    BY <1>0, <2>1 DEF Alone
  <2> QED BY <1>0, <2>1, <2>2, MoveInv DEF InitPlaces
<1>2. CASE Return(p)
  <2>1. /\ stat[p] = "run" /\ pc[p] = "out" /\ Goto(p, "user") /\ sig' = [sig EXCEPT ![p] = {}]
        /\ UNCHANGED <<stat, ppid, strc, swted, action, tgt, ipc>>
    BY <1>2 DEF Return, Running, proc
  <2>2. Alone(p) /\ sig'[p] = {}
    BY <1>0, <2>1 DEF Alone
  <2> QED BY <1>0, <2>1, <2>2, MoveInv DEF InitPlaces
<1>3. CASE Signalled(p)
  <2>1. /\ stat[p] = "run" /\ pc[p] = "out" /\ Goto(p, "psig")
        /\ sig' = [sig EXCEPT ![p] = Issig(p)] /\ Deliverable(p) # {}
        /\ UNCHANGED <<stat, ppid, strc, swted, action, tgt, ipc>>
    BY <1>3 DEF Signalled, Running, proc
  <2>2. Alone(p) /\ p # Initproc
    BY <1>0, <2>1, IssigAlone, IssigIs
  <2> QED BY <1>0, <2>1, <2>2, MoveInv
<1>4. CASE Wait(p)
  <2>1. /\ stat[p] = "run" /\ pc[p] = "user" /\ Goto(p, "wait")
        /\ UNCHANGED <<stat, ppid, strc, swted, sig, action, tgt, ipc>>
    BY <1>4 DEF Wait, Running, proc
  <2>2. Alone(p)
    BY <1>0, <2>1 DEF Alone
  <2> QED BY <1>0, <2>1, <2>2, MoveInv DEF InitPlaces
<1>5. CASE Rexit(p)
  <2>1. /\ stat[p] = "run" /\ pc[p] = "user" /\ Goto(p, "close") /\ p # Initproc
        /\ UNCHANGED <<stat, ppid, swted, sig, tgt, ipc>> /\ Undisturbed(p)
    BY <1>5 DEF Rexit, Running
  <2>2. Alone(p) /\ p \notin strc' /\ \A s \in Sig : action'[p][s] = "ign"
    BY <1>0, <2>1, UndisturbedIs DEF Alone, IInv
  <2> QED BY <1>0, <2>1, <2>2, MoveInv
<1>6. CASE Traceme(p)
  <2>1. /\ stat[p] = "run" /\ pc[p] = "user" /\ Goto(p, "out") /\ p # Initproc
        /\ UNCHANGED <<stat, ppid, swted, sig, action, tgt, ipc>> /\ strc' = strc \cup {p}
    BY <1>6 DEF Traceme, Running
  <2>2. Alone(p)
    BY <1>0, <2>1 DEF Alone
  <2> QED BY <1>0, <2>1, <2>2, MoveInv
<1> QED BY <1>1, <1>2, <1>3, <1>4, <1>5, <1>6

LEMMA PsigInv ==
    ASSUME IInv, NEW p \in Slot, Psig(p)
    PROVE  IInv'
<1>0. /\ stat[p] = "run" /\ pc[p] = "psig" /\ p # Initproc
      /\ UNCHANGED <<stat, ppid, swted, tgt, ipc>>
  BY DEF Psig, Running, IInv, InitLives, InitPlaces
<1>1. /\ sig \in [Slot -> SUBSET Sig] /\ action \in [Slot -> [Sig -> {"dfl", "ign", "catch"}]]
      /\ strc \in SUBSET Slot /\ swted \in SUBSET Slot
  BY DEF IInv, TypeOK
<1>2. CASE Goto(p, "user") /\ UNCHANGED <<sig, action, strc>>
  <2>1. Alone(p)
    BY <1>1, <1>2 DEF Alone
  <2> QED BY <1>0, <1>1, <1>2, <2>1, MoveInv
<1>3. ASSUME NEW n \in sig[p], sig' = [sig EXCEPT ![p] = @ \ {n}],
             action' \in {action, [action EXCEPT ![p][n] = "dfl"]},
             Goto(p, "user") \/ Goto(p, "core"), UNCHANGED strc
      PROVE  IInv'
  <2>1. sig' \in [Slot -> SUBSET Sig] /\ \A q \in Slot \ {p} : sig'[q] = sig[q]
    BY <1>1, <1>3
  <2>2. /\ action' \in [Slot -> [Sig -> {"dfl", "ign", "catch"}]]
        /\ \A q \in Slot \ {p} : action'[q] = action[q]
    <3>1. CASE action' = action
      BY <1>1, <3>1
    <3>2. CASE action' = [action EXCEPT ![p][n] = "dfl"]
      BY <1>1, <3>2
    <3> QED BY <1>3, <3>1, <3>2
  <2>3. Alone(p)
    BY <1>1, <1>3, <2>1, <2>2 DEF Alone
  <2> QED BY <1>0, <1>1, <1>3, <2>3, MoveInv
<1>4. ASSUME NEW n \in sig[p], sig' = [sig EXCEPT ![p] = @ \ {n}], Undisturbed(p),
             Goto(p, "close")
      PROVE  IInv'
  <2>1. sig' \in [Slot -> SUBSET Sig] /\ \A q \in Slot \ {p} : sig'[q] = sig[q]
    BY <1>1, <1>4
  <2>2. Alone(p) /\ p \notin strc' /\ \A s \in Sig : action'[p][s] = "ign"
    BY <1>4, <2>1, UndisturbedIs DEF Alone, IInv
  <2> QED BY <1>0, <1>1, <1>4, <2>2, MoveInv
<1> QED BY <1>2, <1>3, <1>4 DEF Psig, Caught

LEMMA CoreDoneInv ==
    ASSUME IInv, NEW p \in Slot, CoreDone(p)
    PROVE  IInv'
<1>1. /\ stat[p] = "run" /\ pc[p] = "core" /\ p # Initproc /\ Goto(p, "close")
      /\ Undisturbed(p) /\ UNCHANGED <<stat, ppid, swted, sig, tgt, ipc>>
  BY DEF CoreDone, Running, IInv, InitLives, InitPlaces
<1>2. strc \in SUBSET Slot /\ swted \in SUBSET Slot
  BY DEF IInv, TypeOK
<1>3. Alone(p) /\ p \notin strc' /\ \A s \in Sig : action'[p][s] = "ign"
  BY <1>1, UndisturbedIs DEF Alone, IInv, TypeOK
<1> QED BY <1>1, <1>2, <1>3, MoveInv

LEMMA SsigInv ==
    ASSUME IInv, NEW p \in Slot, NEW s \in Sig, NEW fun \in Fun, Ssig(p, s, fun)
    PROVE  IInv'
<1>0. /\ stat[p] = "run" /\ pc[p] = "user" /\ p # Initproc /\ Goto(p, "out")
      /\ UNCHANGED <<stat, ppid, strc, swted, tgt, ipc>>
      /\ action' = [action EXCEPT ![p][s] = fun] /\ sig' = [sig EXCEPT ![p] = @ \ {s}]
  BY DEF Ssig, Running, proc
<1>1. /\ sig \in [Slot -> SUBSET Sig] /\ action \in [Slot -> [Sig -> {"dfl", "ign", "catch"}]]
      /\ strc \in SUBSET Slot /\ swted \in SUBSET Slot
  BY DEF IInv, TypeOK
<1>2. sig' \in [Slot -> SUBSET Sig] /\ \A q \in Slot \ {p} : sig'[q] = sig[q]
  BY <1>0, <1>1
<1>3. fun \in {"dfl", "ign", "catch"}
  BY ProcAssumption
<1>4. /\ action' \in [Slot -> [Sig -> {"dfl", "ign", "catch"}]]
      /\ \A q \in Slot \ {p} : action'[q] = action[q]
  BY <1>0, <1>1, <1>3
<1>5. Alone(p)
  BY <1>0, <1>1, <1>2, <1>4 DEF Alone
<1> QED BY <1>0, <1>1, <1>5, MoveInv

LEMMA WaitStoppedInv ==
    ASSUME IInv, NEW p \in Slot, NEW c \in Slot, WaitStopped(p, c)
    PROVE  IInv'
<1>1. /\ stat[p] = "run" /\ pc[p] = "wait" /\ Goto(p, "out") /\ swted' = swted \cup {c}
      /\ UNCHANGED <<stat, ppid, strc, sig, action, tgt, ipc>>
  BY DEF WaitStopped, Running
<1>2. Alone(p) /\ swted \subseteq swted' /\ swted' \in SUBSET Slot
  BY <1>1 DEF Alone, IInv, TypeOK
<1>3. p = Initproc => sig'[p] = {} /\ p \notin strc'
  BY <1>1 DEF IInv, InitLives
<1> QED BY <1>1, <1>2, <1>3, MoveInv DEF InitPlaces

-----------------------------------------------------------------------------
(* A signal from elsewhere, and the end of a driver's close.               *)
LEMMA WakeInv ==
    ASSUME IInv, NEW W \in SUBSET Sleepers, stat' = Woken(W), sig' \in [Slot -> SUBSET Sig],
           \A q \in Slot : q = Initproc \/ stat[q] = "null" => sig'[q] = sig[q],
           UNCHANGED <<ppid, strc, swted, action, pc, cpu, tgt, ipc>>
    PROVE  IInv'
<1>1. /\ stat' \in [Slot -> Stat]
      /\ \A q \in Slot : stat'[q] = IF q \in W /\ stat[q] = "sleep" THEN "run" ELSE stat[q]
  BY WokenIs DEF IInv
<1>2. TypeOK'
  BY <1>1 DEF IInv, TypeOK, Stat
<1>3. InitLives' /\ LockTaken'
  BY ProcAssumption DEF IInv, InitLives, LockTaken
<1>4. ASSUME NEW q \in Slot PROVE PInv(q)'
  <2>1. stat'[q] # stat[q] => q \in Sleepers /\ stat[q] = "sleep" /\ stat'[q] = "run"
    BY <1>1
  <2>2. Placed(q)'
    BY <2>1 DEF IInv, PInv, Placed, Sleepers
  <2>3. Quiet(q)' /\ Target(q)'
    BY DEF IInv, PInv, Quiet, Exiting, Target
  <2>4. Kin(q)'
    <3>1. \A r \in Slot : Live(r) => Live(r)'
      BY <1>1 DEF Live
    <3> QED BY <2>1, <3>1 DEF IInv, PInv, Kin
  <2>5. Tracer(q)'
    <3>1. pc[q] = "ipcreq" => tgt[q] \in Slot
      BY DEF IInv, PInv, Target
    <3> QED BY <1>1, <3>1 DEF IInv, PInv, Tracer
  <2>6. Locker(q)'
    <3>1. pc[q] = "ipclock" => tgt[q] \in Slot
      BY DEF IInv, PInv, Target
    <3> QED BY <1>1, <3>1 DEF IInv, PInv, Locker, IpcBusy
  <2>7. Waiter(q)'
    BY <1>1 DEF IInv, PInv, Waiter
  <2> QED BY <2>2, <2>3, <2>4, <2>5, <2>6, <2>7 DEF PInv
<1> QED BY <1>2, <1>3, <1>4 DEF IInv

LEMMA SignalInv ==
    ASSUME IInv, NEW p \in Slot, (\E s \in Sig : Psignal(p, s)) \/ CloseDone(p)
    PROVE  IInv'
<1>0. sig \in [Slot -> SUBSET Sig]
  BY DEF IInv, TypeOK
<1>1. ASSUME NEW s \in Sig, Psignal(p, s) PROVE IInv'
  <2>1. WithIt(p) \in SUBSET Sleepers
    BY DEF WithIt, Sleepers
  <2>2. /\ sig' \in [Slot -> SUBSET Sig]
        /\ \A q \in Slot : q = Initproc \/ stat[q] = "null" => sig'[q] = sig[q]
    BY <1>0, <1>1 DEF Psignal
  <2> QED BY <1>1, <2>1, <2>2, WakeInv DEF Psignal, Posted
<1>2. CASE CloseDone(p)
  <2>1. {p} \in SUBSET Sleepers
    BY <1>2 DEF CloseDone, Sleepers
  <2> QED BY <1>0, <1>2, <2>1, WakeInv DEF CloseDone
<1> QED BY <1>1, <1>2

-----------------------------------------------------------------------------
(* stop(), and the requests of a tracer.                                   *)
LEMMA StopsStep ==
    ASSUME IInv, NEW p \in Slot, stat[p] = "run", pc[p] \in {"out", "stop"}, p \in strc,
           NEW woken \in SUBSET Sleepers, Stops(p, woken),
           sig' \in [Slot -> SUBSET Sig], \A q \in Slot \ {p} : sig'[q] = sig[q],
           UNCHANGED <<ppid, swted, tgt>>,
           ipc' \in [lock : Slot \cup {none}, req : Requests \cup {"none", "error"}, data : Sig \cup {0}]
    PROVE  /\ TypeOK' /\ Live(p)' /\ Placed(p)' /\ Quiet(p)'
           /\ pc'[p] \in {"stop", "close"} /\ p # Initproc
           /\ \E W \in SUBSET Sleepers :
                /\ woken \subseteq W /\ Step(p, W)
                /\ stat'[p] = "stop" => ppid[p] # Initproc /\ Waiting(ppid[p]) \subseteq W
<1>1. p # Initproc /\ ppid[p] \in Slot
  BY DEF IInv, InitLives, PInv, Kin
<1>2. CASE ppid[p] = Initproc
  <2>1. Goto(p, "close") /\ Undisturbed(p) /\ stat' = Woken(woken)
    BY <1>2 DEF Stops
  <2>2. /\ pc' \in [Slot -> PC] /\ pc'[p] = "close" /\ cpu' \in Slot \cup {none}
        /\ \A q \in Slot \ {p} : pc'[q] = pc[q]
    BY <2>1, GotoIs DEF IInv, PC
  <2>3. /\ stat' \in [Slot -> Stat]
        /\ \A q \in Slot : stat'[q] = IF q \in woken /\ stat[q] = "sleep" THEN "run" ELSE stat[q]
    BY <2>1, WokenIs DEF IInv
  <2>4. /\ strc' \in SUBSET Slot /\ p \notin strc'
        /\ \A q \in Slot \ {p} : (q \in strc' <=> q \in strc) /\ action'[q] = action[q]
        /\ action' \in [Slot -> [Sig -> {"dfl", "ign", "catch"}]]
        /\ \A s \in Sig : action'[p][s] = "ign"
    BY <2>1, UndisturbedIs DEF IInv
  <2>5. stat'[p] = "run"
    BY <2>3
  <2>6. TypeOK'
    BY <2>2, <2>3, <2>4 DEF IInv, TypeOK, Stat
  <2>7. Live(p)' /\ Placed(p)' /\ Quiet(p)'
    BY <2>2, <2>4, <2>5 DEF Live, Placed, Quiet, Exiting
  <2>8. Step(p, woken)
    BY <2>2, <2>3, <2>4 DEF Step
  <2> QED BY <1>1, <2>2, <2>5, <2>6, <2>7, <2>8
<1>3. CASE ppid[p] # Initproc
  <2>0. DEFINE W == woken \cup Waiting(ppid[p])
  <2>1. /\ Goto(p, "stop") /\ UNCHANGED <<action, strc>>
        /\ stat' = [Woken(W) EXCEPT ![p] = "stop"]
    BY <1>3 DEF Stops
  <2>2. /\ pc' \in [Slot -> PC] /\ pc'[p] = "stop" /\ cpu' \in Slot \cup {none}
        /\ \A q \in Slot \ {p} : pc'[q] = pc[q]
    BY <2>1, GotoIs DEF IInv, PC
  <2>3. W \in SUBSET Sleepers /\ woken \subseteq W /\ Waiting(ppid[p]) \subseteq W
    BY <1>1 DEF Waiting, Sleepers
  <2> HIDE DEF W
  <2>4. /\ Woken(W) \in [Slot -> Stat]
        /\ \A q \in Slot : Woken(W)[q] = IF q \in W /\ stat[q] = "sleep" THEN "run" ELSE stat[q]
    BY WokenIs DEF IInv
  <2>5. /\ stat' \in [Slot -> Stat] /\ stat'[p] = "stop"
        /\ \A q \in Slot \ {p} : stat'[q] = IF q \in W /\ stat[q] = "sleep" THEN "run" ELSE stat[q]
    BY <2>1, <2>4 DEF Stat
  <2>6. TypeOK'
    BY <2>1, <2>2, <2>5 DEF IInv, TypeOK, Stat
  <2>7. Live(p)' /\ Placed(p)' /\ Quiet(p)'
    BY <2>1, <2>2, <2>5 DEF Live, Placed, Quiet, Exiting
  <2>8. Step(p, W)
    BY <2>1, <2>2, <2>5 DEF Step
  <2> QED BY <1>1, <1>3, <2>2, <2>3, <2>6, <2>7, <2>8
<1> QED BY <1>2, <1>3

LEMMA AnswerIpc ==
    ASSUME IInv, NEW p \in Slot, NEW W \in SUBSET Sleepers, OnIpc \subseteq W, Step(p, W),
           pc[p] = "stop", stat[p] = "run", ipc.lock = p, pc'[p] \notin {"ipclock", "ipcreq"},
           ipc'.lock = ipc.lock, ipc'.req \notin Requests
    PROVE  LockTaken' /\ Tracer(p)' /\ \A q \in Slot \ {p} : Tracer(q)' /\ Locker(q)'
<1>1. LockTaken' /\ Tracer(p)'
  BY DEF IInv, LockTaken, Step, Tracer
<1>2. ASSUME NEW q \in Slot \ {p} PROVE Tracer(q)'
  <2>1. ASSUME pc[q] = "ipcreq" PROVE Tracer(q)'
    <3>1. ipc.lock = tgt[q] /\ ppid[tgt[q]] = q /\ stat[q] \in {"sleep", "run"} /\ q \in W
      BY <2>1 DEF IInv, PInv, Tracer, Placed, OnIpc
    <3>2. stat'[q] = "run"
      BY <3>1 DEF Step
    <3> QED BY <3>1, <3>2 DEF Tracer, Step
  <2> QED BY <2>1 DEF Tracer, Step
<1>3. ASSUME NEW q \in Slot \ {p} PROVE Locker(q)'
  <2>1. ASSUME pc[q] = "ipclock" PROVE Locker(q)'
    <3>1. /\ tgt[q] \in Slot \ {p} /\ stat[tgt[q]] = "stop" /\ ppid[tgt[q]] = q
          /\ stat[q] \in {"sleep", "run"} /\ q \in W
      BY <2>1 DEF IInv, PInv, Locker, Target, Placed, OnIpc
    <3>2. stat'[q] = "run" /\ stat'[tgt[q]] = "stop"
      BY <3>1 DEF Step
    <3> QED BY <3>1, <3>2 DEF Locker, Step
  <2> QED BY <2>1 DEF Locker, Step
<1> QED BY <1>1, <1>2, <1>3

LEMMA StopInv ==
    ASSUME IInv, NEW p \in Slot, StopTraced(p) \/ StopAgain(p)
    PROVE  IInv'
<1>1. /\ stat[p] = "run" /\ pc[p] \in {"out", "stop"} /\ Stops(p, {})
      /\ pc[p] = "stop" => ipc.lock # p
      /\ UNCHANGED <<ppid, swted, tgt, ipc>>
  BY DEF StopTraced, StopAgain, Running
<1>2. p \in strc
  BY DEF StopTraced, StopAgain, Running, IInv, PInv, Quiet
<1>3. sig' \in [Slot -> SUBSET Sig] /\ \A q \in Slot \ {p} : sig'[q] = sig[q]
  BY IssigIs DEF StopTraced, StopAgain, IInv, TypeOK
<1>4. /\ ipc' \in [lock : Slot \cup {none}, req : Requests \cup {"none", "error"}, data : Sig \cup {0}]
      /\ {} \in SUBSET Sleepers
  BY <1>1 DEF IInv, TypeOK
<1>5. /\ TypeOK' /\ Live(p)' /\ Placed(p)' /\ Quiet(p)'
      /\ pc'[p] \in {"stop", "close"} /\ p # Initproc
      /\ \E W \in SUBSET Sleepers :
           /\ Step(p, W)
           /\ stat'[p] = "stop" => ppid[p] # Initproc /\ Waiting(ppid[p]) \subseteq W
  BY <1>1, <1>2, <1>3, <1>4, StopsStep
<1>6. PICK W \in SUBSET Sleepers :
        /\ Step(p, W)
        /\ stat'[p] = "stop" => ppid[p] # Initproc /\ Waiting(ppid[p]) \subseteq W
  BY <1>5
<1>7. LockTaken' /\ Tracer(p)' /\ \A q \in Slot \ {p} : Tracer(q)' /\ Locker(q)'
  BY <1>1, <1>5, <1>6, StepIpc
<1>8. Live(p) /\ Target(p)' /\ Locker(p)' /\ Waiter(p)'
  BY <1>1, <1>5 DEF Live, Target, Locker, Waiter
<1> QED BY <1>1, <1>5, <1>6, <1>7, <1>8, StepInv

LEMMA ProcxmtMoveInv ==
    ASSUME IInv, NEW p \in Slot, ProcxmtMove(p)
    PROVE  IInv'
<1>1. /\ stat[p] = "run" /\ pc[p] = "stop" /\ Stops(p, OnIpc) /\ ipc.lock = p
      /\ UNCHANGED <<ppid, swted, sig, tgt>>
  BY DEF ProcxmtMove, Running
<1>2. PICK answer \in {"none", "error"} : ipc' = [ipc EXCEPT !.req = answer]
  BY DEF ProcxmtMove
<1>3. /\ ipc' \in [lock : Slot \cup {none}, req : Requests \cup {"none", "error"}, data : Sig \cup {0}]
      /\ ipc'.req \notin Requests
      /\ ipc'.lock = ipc.lock
  BY <1>2 DEF IInv, TypeOK, Requests
<1>4. p \in strc
  BY <1>1 DEF IInv, PInv, Quiet
<1>5. OnIpc \in SUBSET Sleepers
  BY DEF OnIpc, Sleepers
<1>6. sig' \in [Slot -> SUBSET Sig] /\ \A q \in Slot \ {p} : sig'[q] = sig[q]
  BY <1>1 DEF IInv, TypeOK
<1>7. /\ TypeOK' /\ Live(p)' /\ Placed(p)' /\ Quiet(p)'
      /\ pc'[p] \in {"stop", "close"} /\ p # Initproc
      /\ \E W \in SUBSET Sleepers :
           /\ OnIpc \subseteq W /\ Step(p, W)
           /\ stat'[p] = "stop" => ppid[p] # Initproc /\ Waiting(ppid[p]) \subseteq W
  BY <1>1, <1>2, <1>3, <1>4, <1>5, <1>6, StopsStep
<1>8. PICK W \in SUBSET Sleepers :
        /\ OnIpc \subseteq W /\ Step(p, W)
        /\ stat'[p] = "stop" => ppid[p] # Initproc /\ Waiting(ppid[p]) \subseteq W
  BY <1>7
<1>9. LockTaken' /\ Tracer(p)' /\ \A q \in Slot \ {p} : Tracer(q)' /\ Locker(q)'
  BY <1>1, <1>3, <1>7, <1>8, AnswerIpc
<1>10. Live(p) /\ Target(p)' /\ Locker(p)' /\ Waiter(p)'
  BY <1>1, <1>7 DEF Live, Target, Locker, Waiter
<1> QED BY <1>1, <1>7, <1>8, <1>9, <1>10, StepInv

LEMMA ProcxmtGoInv ==
    ASSUME IInv, NEW p \in Slot, ProcxmtCont(p) \/ ProcxmtExit(p)
    PROVE  IInv'
<1>0. /\ stat[p] = "run" /\ pc[p] = "stop" /\ ipc.lock = p /\ stat' = Woken(OnIpc)
      /\ ipc' = [ipc EXCEPT !.req = "none"] /\ UNCHANGED <<ppid, swted, tgt>>
  BY DEF ProcxmtCont, ProcxmtExit, Running
<1>1. PICK place \in {"psig", "close"} :
        /\ Goto(p, place)
        /\ place = "psig" => ProcxmtCont(p)
        /\ place = "close" => ProcxmtExit(p)
  BY DEF ProcxmtCont, ProcxmtExit
<1>2. /\ pc' \in [Slot -> PC] /\ pc'[p] = place /\ cpu' \in Slot \cup {none}
      /\ \A q \in Slot \ {p} : pc'[q] = pc[q]
  BY <1>1, GotoIs DEF IInv, PC
<1>3. /\ stat' \in [Slot -> Stat] /\ stat'[p] = "run"
      /\ \A q \in Slot \ {p} : stat'[q] = IF q \in OnIpc /\ stat[q] = "sleep" THEN "run" ELSE stat[q]
  BY <1>0, WokenIs DEF IInv
<1>4. OnIpc \in SUBSET Sleepers
  BY DEF OnIpc, Sleepers
<1>5. /\ ipc' \in [lock : Slot \cup {none}, req : Requests \cup {"none", "error"}, data : Sig \cup {0}]
      /\ ipc'.req \notin Requests /\ ipc'.lock = ipc.lock /\ ipc.data \in Sig \cup {0}
  BY <1>0 DEF IInv, TypeOK, Requests
<1>6. Alone(p) /\ (place = "close" => p \notin strc' /\ \A s \in Sig : action'[p][s] = "ign")
  <2>1. CASE place = "psig"
    <3>1. {ipc.data} \ {0} \in SUBSET Sig
      BY <1>5
    <3> QED BY <1>1, <2>1, <3>1 DEF ProcxmtCont, Alone, IInv, TypeOK
  <2>2. CASE place = "close"
    <3>1. sig' = sig /\ Undisturbed(p)
      BY <1>1, <2>2 DEF ProcxmtExit
    <3> QED BY <2>2, <3>1, UndisturbedIs DEF Alone, IInv, TypeOK
  <2> QED BY <2>1, <2>2
<1>7. TypeOK'
  BY <1>0, <1>2, <1>3, <1>5, <1>6 DEF IInv, TypeOK, Alone, Stat
<1>8. Step(p, OnIpc)
  BY <1>0, <1>2, <1>3, <1>6 DEF Step, Alone
<1>9. LockTaken' /\ Tracer(p)' /\ \A q \in Slot \ {p} : Tracer(q)' /\ Locker(q)'
  BY <1>0, <1>2, <1>4, <1>5, <1>8, AnswerIpc
<1>10. Live(p) /\ Live(p)' /\ Placed(p)' /\ Target(p)' /\ Locker(p)' /\ Waiter(p)'
  BY <1>0, <1>2, <1>3 DEF Live, Placed, Target, Locker, Waiter
<1>11. Quiet(p)'
  BY <1>2, <1>6 DEF Quiet, Exiting
<1>12. p # Initproc
  BY <1>0 DEF IInv, InitLives, InitPlaces
<1> QED BY <1>0, <1>3, <1>4, <1>7, <1>8, <1>9, <1>10, <1>11, <1>12, StepInv

LEMMA PtraceInv ==
    ASSUME IInv, NEW p \in Slot, NEW c \in Slot, Ptrace(p, c)
    PROVE  IInv'
<1>1. /\ stat[p] = "run" /\ pc[p] = "user" /\ Goto(p, "ipclock") /\ ppid[c] = p /\ stat[c] = "stop"
      /\ UNCHANGED <<stat, ppid, strc, swted, sig, action, ipc>>
      /\ tgt' = [tgt EXCEPT ![p] = c]
  BY DEF Ptrace, Running, proc
<1>2. /\ pc' \in [Slot -> PC] /\ pc'[p] = "ipclock" /\ cpu' \in Slot \cup {none}
      /\ \A q \in Slot \ {p} : pc'[q] = pc[q]
  BY <1>1, GotoIs DEF IInv, PC
<1>3. /\ tgt' \in [Slot -> Slot \cup {none}] /\ tgt'[p] = c
      /\ \A q \in Slot \ {p} : tgt'[q] = tgt[q]
  BY <1>1 DEF IInv, TypeOK
<1>4. TypeOK'
  BY <1>1, <1>2, <1>3 DEF IInv, TypeOK
<1>5. Step(p, {}) /\ {} \in SUBSET Sleepers
  BY <1>1, <1>2, <1>3 DEF Step
<1>6. LockTaken' /\ Tracer(p)' /\ \A q \in Slot \ {p} : Tracer(q)' /\ Locker(q)'
  BY <1>1, <1>2, <1>5, StepIpc
<1>7. Live(p) /\ Live(p)' /\ Placed(p)' /\ Quiet(p)' /\ Waiter(p)'
  BY <1>1, <1>2 DEF Live, Placed, Quiet, Exiting, Waiter
<1>8. Target(p)' /\ Locker(p)'
  BY <1>1, <1>2, <1>3 DEF Target, Locker
<1>9. p = Initproc => pc'[p] \in InitPlaces /\ sig'[p] = {} /\ p \notin strc'
  BY <1>1, <1>2 DEF IInv, InitLives, InitPlaces
<1> QED BY <1>1, <1>4, <1>5, <1>6, <1>7, <1>8, <1>9, StepInv

LEMMA IpcSleepInv ==
    ASSUME IInv, NEW p \in Slot, IpcSleep(p)
    PROVE  IInv'
<1>1. /\ stat[p] = "run" /\ pc[p] = "ipclock" /\ IpcBusy /\ cpu' = none
      /\ stat' = [stat EXCEPT ![p] = "sleep"]
      /\ UNCHANGED <<ppid, strc, swted, sig, action, pc, tgt, ipc>>
  BY DEF IpcSleep, Running
<1>2. /\ stat' \in [Slot -> Stat] /\ stat'[p] = "sleep"
      /\ \A q \in Slot \ {p} : stat'[q] = stat[q]
  BY <1>1 DEF IInv, TypeOK, Stat
<1>3. TypeOK'
  BY <1>1, <1>2 DEF IInv, TypeOK, Stat
<1>4. Step(p, {}) /\ {} \in SUBSET Sleepers
  BY <1>1, <1>2 DEF Step
<1>5. LockTaken' /\ Tracer(p)' /\ \A q \in Slot \ {p} : Tracer(q)' /\ Locker(q)'
  BY <1>1, <1>4, StepIpc
<1>6. Live(p) /\ Live(p)' /\ Placed(p)' /\ Quiet(p)' /\ Waiter(p)'
  BY <1>1, <1>2 DEF Live, Placed, Quiet, Exiting, Waiter
<1>7. tgt[p] \in Slot /\ stat[tgt[p]] = "stop" /\ ppid[tgt[p]] = p
  BY <1>1 DEF IInv, PInv, Target, Locker
<1>8. Target(p)' /\ Locker(p)'
  BY <1>1, <1>2, <1>7 DEF Target, Locker, IpcBusy
<1>9. p = Initproc => pc'[p] \in InitPlaces /\ sig'[p] = {} /\ p \notin strc'
  BY <1>1 DEF IInv, InitLives
<1> QED BY <1>1, <1>2, <1>3, <1>4, <1>5, <1>6, <1>8, <1>9, StepInv

(* There is one tracer with the lock. *)
LEMMA OneTracer ==
    ASSUME IInv, NEW p \in Slot, NEW q \in Slot, pc[p] = "ipcreq", pc[q] = "ipcreq"
    PROVE  p = q
BY DEF IInv, PInv, Tracer

LEMMA IpcAnsweredInv ==
    ASSUME IInv, NEW p \in Slot, IpcAnswered(p)
    PROVE  IInv'
<1>0. /\ stat[p] = "run" /\ pc[p] = "ipcreq" /\ UNCHANGED <<ppid, strc, swted, sig, action>>
      /\ \A q \in Slot \ {p} : pc[q] # "ipcreq"
  BY OneTracer DEF IpcAnswered, Running
<1>1. /\ tgt[p] \in Slot /\ ipc.lock = tgt[p] /\ ppid[tgt[p]] = p
      /\ ipc.req \in Requests => stat[tgt[p]] = "run" /\ pc[tgt[p]] = "stop"
  BY <1>0 DEF IInv, PInv, Tracer, Target
<1>2. p = Initproc => sig'[p] = {} /\ p \notin strc'
  BY <1>0 DEF IInv, InitLives
<1>3. CASE ipc.req \in Requests
  <2>1. /\ cpu' = none /\ stat' = [stat EXCEPT ![p] = "sleep"] /\ UNCHANGED <<pc, tgt, ipc>>
    BY <1>3 DEF IpcAnswered
  <2>2. /\ stat' \in [Slot -> Stat] /\ stat'[p] = "sleep"
        /\ \A q \in Slot \ {p} : stat'[q] = stat[q]
    BY <2>1 DEF IInv, TypeOK, Stat
  <2>3. TypeOK'
    BY <1>0, <2>1, <2>2 DEF IInv, TypeOK, Stat
  <2>4. Step(p, {}) /\ {} \in SUBSET Sleepers
    BY <1>0, <2>1, <2>2 DEF Step
  <2>5. Live(p) /\ Live(p)' /\ Placed(p)' /\ Quiet(p)' /\ Waiter(p)' /\ Locker(p)'
    BY <1>0, <2>1, <2>2 DEF Live, Placed, Quiet, Exiting, Waiter, Locker
  <2>6. Target(p)' /\ Tracer(p)' /\ LockTaken'
    BY <1>0, <1>1, <1>3, <2>1, <2>2 DEF Target, Tracer, LockTaken, IInv
  <2>7. ASSUME NEW q \in Slot \ {p} PROVE Tracer(q)' /\ Locker(q)'
    <3>1. pc[q] = "ipclock" => tgt[q] \in Slot \ {p} /\ Locker(q)
      BY <1>0 DEF IInv, PInv, Locker, Target
    <3> QED BY <1>0, <2>1, <2>2, <3>1 DEF Locker, Tracer, IpcBusy
  <2> QED BY <1>0, <1>2, <2>1, <2>2, <2>3, <2>4, <2>5, <2>6, <2>7, StepInv DEF InitPlaces
<1>4. CASE ipc.req \notin Requests
  <2>1. /\ ipc' = [lock |-> none, req |-> "none", data |-> 0] /\ stat' = Woken(OnIpc)
        /\ Goto(p, "out") /\ tgt' = [tgt EXCEPT ![p] = none]
    BY <1>4 DEF IpcAnswered
  <2>2. /\ stat' \in [Slot -> Stat] /\ stat'[p] = "run"
        /\ \A q \in Slot \ {p} : stat'[q] = IF q \in OnIpc /\ stat[q] = "sleep" THEN "run" ELSE stat[q]
    BY <1>0, <2>1, WokenIs DEF IInv
  <2>3. /\ pc' \in [Slot -> PC] /\ pc'[p] = "out" /\ cpu' \in Slot \cup {none}
        /\ \A q \in Slot \ {p} : pc'[q] = pc[q]
    BY <2>1, GotoIs DEF IInv, PC
  <2>4. /\ ipc' \in [lock : Slot \cup {none}, req : Requests \cup {"none", "error"}, data : Sig \cup {0}]
        /\ ipc'.lock = none
    BY <2>1
  <2>5. tgt' \in [Slot -> Slot \cup {none}] /\ \A q \in Slot \ {p} : tgt'[q] = tgt[q]
    BY <2>1 DEF IInv, TypeOK
  <2>6. TypeOK'
    BY <1>0, <2>2, <2>3, <2>4, <2>5 DEF IInv, TypeOK, Stat
  <2>7. Step(p, OnIpc) /\ OnIpc \in SUBSET Sleepers
    BY <1>0, <2>2, <2>3, <2>5 DEF Step, OnIpc, Sleepers
  <2>8. /\ Live(p) /\ Live(p)' /\ Placed(p)' /\ Quiet(p)' /\ Waiter(p)' /\ Locker(p)' /\ Target(p)'
        /\ Tracer(p)'
    BY <1>0, <2>2, <2>3 DEF Live, Placed, Quiet, Exiting, Waiter, Locker, Target, Tracer
  <2>9. LockTaken'
    BY <1>0, <2>3, <2>4 DEF LockTaken
  <2>10. ASSUME NEW q \in Slot \ {p} PROVE Tracer(q)' /\ Locker(q)'
    <3>1. ASSUME pc[q] = "ipclock" PROVE Locker(q)'
      <4>1. tgt[q] \in Slot /\ Locker(q) /\ stat[q] \in {"sleep", "run"} /\ q \in OnIpc
        BY <3>1 DEF IInv, PInv, Target, Placed, OnIpc
      <4>2. stat'[q] = "run" /\ stat[tgt[q]] = "stop" /\ tgt[q] # p
        BY <1>0, <2>2, <3>1, <4>1 DEF Locker
      <4> QED BY <1>0, <2>2, <2>5, <3>1, <4>1, <4>2 DEF Locker
    <3> QED BY <1>0, <2>3, <3>1 DEF Tracer, Locker
  <2> QED BY <1>0, <1>2, <2>2, <2>3, <2>6, <2>7, <2>8, <2>9, <2>10, StepInv DEF InitPlaces
<1> QED BY <1>3, <1>4

(* The tracer gets the lock and sets the child, which is stopped, running. *)
LEMMA IpcRequestInv ==
    ASSUME IInv, NEW p \in Slot, NEW r \in Requests, NEW s \in Sig \cup {0}, IpcRequest(p, r, s)
    PROVE  IInv'
<1>0. PICK c : c = tgt[p]
  OBVIOUS
<1>1. /\ stat[p] = "run" /\ pc[p] = "ipclock" /\ ipc.lock = none
      /\ ipc' = [lock |-> c, req |-> r, data |-> s] /\ swted' = swted \ {c}
      /\ stat' = [stat EXCEPT ![p] = "sleep", ![c] = "run"]
      /\ Goto(p, "ipcreq") /\ UNCHANGED <<ppid, strc, sig, action, tgt>>
  BY <1>0 DEF IpcRequest, Running, IpcBusy
<1>2. c \in Slot /\ stat[c] = "stop" /\ ppid[c] = p /\ c # p /\ pc[c] = "stop" /\ c # Initproc
  <2>1. c \in Slot /\ stat[c] = "stop" /\ ppid[c] = p /\ c # p
    BY <1>0, <1>1 DEF IInv, PInv, Target, Locker
  <2>2. pc[c] = "stop"
    BY <2>1 DEF IInv, PInv, Placed, TypeOK, PC
  <2>3. c # Initproc
    BY <2>1, ProcAssumption DEF IInv, InitLives
  <2> QED BY <2>1, <2>2, <2>3
<1>3. /\ pc' \in [Slot -> PC] /\ pc'[p] = "ipcreq" /\ cpu' \in Slot \cup {none}
      /\ \A q \in Slot \ {p} : pc'[q] = pc[q]
  BY <1>1, GotoIs DEF IInv, PC
<1>4. /\ stat' \in [Slot -> Stat] /\ stat'[p] = "sleep" /\ stat'[c] = "run"
      /\ \A q \in Slot \ {p, c} : stat'[q] = stat[q]
  BY <1>1, <1>2 DEF IInv, TypeOK, Stat
<1>5. /\ ipc' \in [lock : Slot \cup {none}, req : Requests \cup {"none", "error"}, data : Sig \cup {0}]
      /\ ipc'.lock = c /\ ipc'.req \in Requests
  BY <1>1, <1>2
<1>6. TypeOK'
  BY <1>1, <1>3, <1>4, <1>5 DEF IInv, TypeOK, Stat
<1>7. InitLives'
  BY <1>1, <1>3, ProcAssumption DEF IInv, InitLives, InitPlaces
<1>8. LockTaken'
  BY <1>2, <1>3, <1>5, ProcAssumption DEF LockTaken
<1>9. \A q \in Slot : pc[q] # "ipcreq"
  BY <1>1 DEF IInv, LockTaken
<1>10. ASSUME NEW q \in Slot PROVE PInv(q)'
  <2>1. Placed(q)'
    <3>1. CASE q = p
      BY <1>3, <1>4, <3>1 DEF Placed
    <3>2. CASE q = c
      BY <1>2, <1>3, <1>4, <3>2 DEF Placed
    <3>3. CASE q # p /\ q # c
      BY <1>3, <1>4, <3>3 DEF IInv, PInv, Placed
    <3> QED BY <3>1, <3>2, <3>3
  <2>2. Quiet(q)'
    BY <1>1, <1>3 DEF IInv, PInv, Quiet, Exiting
  <2>3. Target(q)'
    <3>1. CASE q = p
      BY <1>0, <1>1, <1>2, <1>3, <3>1 DEF Target
    <3>2. CASE q # p
      BY <1>1, <1>3, <3>2 DEF IInv, PInv, Target
    <3> QED BY <3>1, <3>2
  <2>4. Kin(q)'
    <3>1. \A t \in Slot : Live(t) => Live(t)'
      BY <1>4 DEF Live
    <3>2. /\ stat'[q] = "null" <=> stat[q] = "null"
          /\ stat'[q] = "stop" => stat[q] = "stop"
      BY <1>1, <1>2, <1>4
    <3> QED BY <1>1, <3>1, <3>2 DEF IInv, PInv, Kin
  <2>5. Tracer(q)'
    <3>1. CASE q = p
      BY <1>0, <1>1, <1>2, <1>3, <1>4, <1>5, <3>1 DEF Tracer
    <3>2. CASE q # p
      BY <1>3, <1>9, <3>2 DEF Tracer
    <3> QED BY <3>1, <3>2
  <2>6. Locker(q)'
    <3>1. ASSUME q # p, pc[q] = "ipclock" PROVE Locker(q)'
      <4>1. tgt[q] \in Slot /\ stat[tgt[q]] = "stop" /\ ppid[tgt[q]] = q
        BY <3>1 DEF IInv, PInv, Target, Locker
      <4>2. tgt[q] \notin {p, c}
        BY <1>1, <1>2, <3>1, <4>1
      <4>3. ipc'.lock # none
        BY <1>2, <1>5, ProcAssumption
      <4> QED BY <1>1, <1>4, <4>1, <4>2, <4>3 DEF Locker, IpcBusy
    <3> QED BY <1>3, <3>1 DEF Locker
  <2>7. Waiter(q)'
    <3>1. ASSUME pc'[q] = "waiting", stat'[q] = "sleep" PROVE Waiter(q)'
      <4>1. q # p /\ pc[q] = "waiting" /\ stat[q] = "sleep"
        BY <1>2, <1>3, <1>4, <3>1
      <4>2. Waiter(q)
        BY DEF IInv, PInv
      <4>3. ASSUME NEW d \in Slot, ppid[d] = q
            PROVE  stat'[d] # "zomb" /\ (stat'[d] = "stop" => d \in swted')
        <5>1. d # c
          BY <1>2, <4>1, <4>3
        <5> QED BY <1>1, <1>4, <4>1, <4>2, <4>3, <5>1 DEF Waiter
      <4> QED BY <1>1, <4>1, <4>2, <4>3 DEF Waiter
    <3> QED BY <3>1 DEF Waiter
  <2> QED BY <2>1, <2>2, <2>3, <2>4, <2>5, <2>6, <2>7 DEF PInv
<1> QED BY <1>6, <1>7, <1>8, <1>10 DEF IInv

-----------------------------------------------------------------------------
(* fork().  Nobody has to do with a free slot.                             *)
LEMMA FreeSlot ==
    ASSUME IInv, NEW c \in Slot, stat[c] = "null"
    PROVE  /\ c # Initproc /\ pc[c] = "none" /\ ppid[c] = none /\ sig[c] = {}
           /\ \A q \in Slot : pc[q] \in {"ipclock", "ipcreq", "forking"} => tgt[q] \in Slot \ {c}
<1>1. pc[c] = "none"
  BY DEF IInv, PInv, Placed, TypeOK, PC
<1>2. c # Initproc
  BY <1>1 DEF IInv, InitLives, InitPlaces
<1>3. ppid[c] = none /\ sig[c] = {}
  BY <1>2 DEF IInv, PInv, Kin
<1>4. ASSUME NEW q \in Slot, pc[q] \in {"ipclock", "ipcreq", "forking"} PROVE tgt[q] \in Slot \ {c}
  <2>1. tgt[q] \in Slot /\ ppid[tgt[q]] = q
    BY <1>4 DEF IInv, PInv, Target, Tracer, Locker
  <2> QED BY <1>3, <2>1, ProcAssumption
<1> QED BY <1>1, <1>2, <1>3, <1>4

LEMMA NewInv ==
    ASSUME IInv, NEW p \in Slot, NEW c \in Slot, stat[p] = "run", pc[p] = "user", NewSlot(p, c),
           pc' \in [Slot -> PC], stat' \in [Slot -> Stat], tgt' \in [Slot -> Slot \cup {none}],
           cpu' \in Slot \cup {none},
           \A q \in Slot \ {p, c} : pc'[q] = pc[q] /\ stat'[q] = stat[q],
           \A q \in Slot \ {p} : tgt'[q] = tgt[q],
           \/ pc'[p] = "out" /\ stat'[p] = "run" /\ pc'[c] = "out" /\ stat'[c] = "run"
           \/ /\ pc'[p] = "forking" /\ stat'[p] = "idl" /\ tgt'[p] = c
              /\ pc'[c] = "swap" /\ stat'[c] = "sleep",
           UNCHANGED <<sig, ipc>>
    PROVE  IInv'
<1>1. /\ stat[c] = "null" /\ c # p /\ c # Initproc /\ pc[c] = "none" /\ ppid[c] = none /\ sig[c] = {}
      /\ \A q \in Slot : pc[q] \in {"ipclock", "ipcreq", "forking"} => tgt[q] \in Slot \ {c}
  BY FreeSlot DEF NewSlot
<1>2. /\ ppid' \in [Slot -> Slot \cup {none}] /\ ppid'[c] = p
      /\ \A q \in Slot \ {c} : ppid'[q] = ppid[q]
  BY DEF NewSlot, IInv, TypeOK
<1>3. /\ action' \in [Slot -> [Sig -> {"dfl", "ign", "catch"}]]
      /\ \A q \in Slot \ {c} : action'[q] = action[q]
  BY DEF NewSlot, IInv, TypeOK
<1>4. strc' = strc \ {c} /\ swted' = swted \ {c}
  BY DEF NewSlot
<1>5. TypeOK'
  BY <1>2, <1>3, <1>4 DEF IInv, TypeOK, Stat
<1>6. InitLives'
  BY <1>1, <1>2, <1>4, ProcAssumption DEF IInv, InitLives, InitPlaces
<1>7. LockTaken'
  <2>1. \A q \in Slot : pc'[q] = "ipcreq" <=> pc[q] = "ipcreq"
    BY <1>1
  <2> QED BY <2>1 DEF IInv, LockTaken
<1>8. \A q \in Slot : Live(q) => Live(q)'
  BY <1>1 DEF Live
<1>9. ASSUME NEW q \in Slot \ {p, c} PROVE PInv(q)'
  <2>1. Placed(q)'
    BY DEF IInv, PInv, Placed
  <2>2. Quiet(q)'
    BY <1>3, <1>4 DEF IInv, PInv, Quiet, Exiting
  <2>3. pc[q] \in {"ipclock", "ipcreq", "forking"} => tgt[q] \in Slot \ {c}
    BY <1>1
  <2>4. Target(q)'
    BY <1>2, <2>3 DEF IInv, PInv, Target
  <2>5. Kin(q)'
    BY <1>2, <1>8 DEF IInv, PInv, Kin
  <2>6. Tracer(q)'
    BY <1>2, <2>3 DEF IInv, PInv, Tracer
  <2>7. Locker(q)'
    BY <1>2, <2>3 DEF IInv, PInv, Locker, IpcBusy
  <2>8. Waiter(q)'
    <3>1. ASSUME pc[q] = "waiting", stat[q] = "sleep" PROVE Waiter(q)'
      <4>1. ASSUME NEW d \in Slot PROVE ppid'[d] = q <=> ppid[d] = q /\ d # c
        BY <1>1, <1>2, ProcAssumption
      <4>2. Waiter(q)
        BY DEF IInv, PInv
      <4>3. \E d \in Slot : ppid'[d] = q
        BY <1>1, <1>2, <3>1, <4>1, <4>2, ProcAssumption DEF Waiter
      <4>4. ASSUME NEW d \in Slot, ppid'[d] = q
            PROVE  stat'[d] # "zomb" /\ (stat'[d] = "stop" => d \in swted')
        BY <1>4, <3>1, <4>1, <4>2, <4>4 DEF Waiter
      <4> QED BY <4>3, <4>4 DEF Waiter
    <3> QED BY <3>1 DEF Waiter
  <2> QED BY <2>1, <2>2, <2>4, <2>5, <2>6, <2>7, <2>8 DEF PInv
<1>10. PInv(p)'
  <2>1. Kin(p)'
    BY <1>1, <1>2, <1>8 DEF IInv, PInv, Kin
  <2>2. Placed(p)' /\ Quiet(p)' /\ Target(p)' /\ Tracer(p)' /\ Locker(p)' /\ Waiter(p)'
    BY <1>1, <1>2 DEF Placed, Quiet, Exiting, Target, Tracer, Locker, Waiter
  <2> QED BY <2>1, <2>2 DEF PInv
<1>11. PInv(c)'
  BY <1>1, <1>2 DEF PInv, Placed, Quiet, Exiting, Target, Kin, Live, Tracer, Locker, Waiter
<1> QED BY <1>5, <1>6, <1>7, <1>9, <1>10, <1>11 DEF IInv

LEMMA ForkInv ==
    ASSUME IInv, NEW p \in Slot, NEW c \in Slot, Fork(p, c) \/ ForkSwap(p, c)
    PROVE  IInv'
<1>1. /\ stat[p] = "run" /\ pc[p] = "user" /\ NewSlot(p, c) /\ c # p
      /\ UNCHANGED <<sig, ipc>> /\ cpu' \in Slot \cup {none}
  BY DEF Fork, ForkSwap, Running, NewSlot
<1>2. /\ pc \in [Slot -> PC] /\ stat \in [Slot -> Stat] /\ tgt \in [Slot -> Slot \cup {none}]
  BY DEF IInv, TypeOK, Stat
<1>3. CASE Fork(p, c)
  <2>1. /\ pc' \in [Slot -> PC] /\ pc'[p] = "out" /\ pc'[c] = "out"
        /\ \A q \in Slot \ {p, c} : pc'[q] = pc[q]
    BY <1>1, <1>2, <1>3 DEF Fork, PC
  <2>2. /\ stat' \in [Slot -> Stat] /\ stat'[p] = "run" /\ stat'[c] = "run"
        /\ \A q \in Slot \ {p, c} : stat'[q] = stat[q]
    BY <1>1, <1>2, <1>3 DEF Fork, Stat
  <2>3. tgt' \in [Slot -> Slot \cup {none}] /\ \A q \in Slot \ {p} : tgt'[q] = tgt[q]
    BY <1>2, <1>3 DEF Fork
  <2> QED BY <1>1, <2>1, <2>2, <2>3, NewInv
<1>4. CASE ForkSwap(p, c)
  <2>1. /\ pc' \in [Slot -> PC] /\ pc'[p] = "forking" /\ pc'[c] = "swap"
        /\ \A q \in Slot \ {p, c} : pc'[q] = pc[q]
    BY <1>1, <1>2, <1>4 DEF ForkSwap, PC
  <2>2. /\ stat' \in [Slot -> Stat] /\ stat'[p] = "idl" /\ stat'[c] = "sleep"
        /\ \A q \in Slot \ {p, c} : stat'[q] = stat[q]
    BY <1>1, <1>2, <1>4 DEF ForkSwap, Stat
  <2>3. /\ tgt' \in [Slot -> Slot \cup {none}] /\ tgt'[p] = c
        /\ \A q \in Slot \ {p} : tgt'[q] = tgt[q]
    BY <1>2, <1>4 DEF ForkSwap
  <2> QED BY <1>1, <2>1, <2>2, <2>3, NewInv
<1> QED BY <1>3, <1>4

LEMMA ForkSwappedInv ==
    ASSUME IInv, NEW p \in Slot, ForkSwapped(p)
    PROVE  IInv'
<1>0. PICK c : c = tgt[p]
  OBVIOUS
<1>1. /\ pc[p] = "forking" /\ stat[p] = "idl" /\ c \in Slot /\ c # p /\ pc[c] = "swap"
      /\ ppid[c] = p /\ stat[c] = "sleep" /\ c # Initproc
  <2>1. pc[p] = "forking"
    BY DEF ForkSwapped
  <2>2. c \in Slot /\ pc[c] = "swap" /\ ppid[c] = p /\ stat[p] = "idl"
    BY <1>0, <2>1 DEF IInv, PInv, Target, Placed
  <2>3. stat[c] = "sleep" /\ c # Initproc /\ c # p
    BY <2>1, <2>2 DEF IInv, PInv, Placed, InitLives, InitPlaces
  <2> QED BY <2>1, <2>2, <2>3
<1>2. /\ stat' \in [Slot -> Stat] /\ stat'[p] = "run" /\ stat'[c] = "run"
      /\ \A q \in Slot \ {p, c} : stat'[q] = stat[q]
  BY <1>0, <1>1 DEF ForkSwapped, IInv, TypeOK, Stat
<1>3. /\ pc' \in [Slot -> PC] /\ pc'[p] = "out" /\ pc'[c] = "out"
      /\ \A q \in Slot \ {p, c} : pc'[q] = pc[q]
  BY <1>0, <1>1 DEF ForkSwapped, IInv, TypeOK, PC
<1>4. tgt' \in [Slot -> Slot \cup {none}] /\ \A q \in Slot \ {p} : tgt'[q] = tgt[q]
  BY DEF ForkSwapped, IInv, TypeOK
<1>5. UNCHANGED <<ppid, strc, swted, sig, action, ipc>> /\ cpu' = p
  BY DEF ForkSwapped
<1>6. TypeOK'
  BY <1>2, <1>3, <1>4, <1>5 DEF IInv, TypeOK, Stat
<1>7. InitLives'
  BY <1>1, <1>3, <1>5, ProcAssumption DEF IInv, InitLives, InitPlaces
<1>8. LockTaken'
  <2>1. \A q \in Slot : pc'[q] = "ipcreq" <=> pc[q] = "ipcreq"
    BY <1>1, <1>3
  <2> QED BY <1>5, <2>1 DEF IInv, LockTaken
<1>9. ASSUME NEW q \in Slot PROVE Kin(q)'
  <2>1. \A r \in Slot : Live(r) => Live(r)'
    BY <1>1, <1>2 DEF Live
  <2>2. /\ stat'[q] = "null" <=> stat[q] = "null"
        /\ stat'[q] = "stop" <=> stat[q] = "stop"
    BY <1>1, <1>2
  <2> QED BY <1>5, <2>1, <2>2 DEF IInv, PInv, Kin
<1>10. ASSUME NEW q \in {p, c} PROVE PInv(q)'
  BY <1>1, <1>2, <1>3, <1>9 DEF PInv, Placed, Quiet, Exiting, Target, Tracer, Locker, Waiter
<1>11. ASSUME NEW q \in Slot \ {p, c} PROVE PInv(q)'
  <2>1. Placed(q)' /\ Quiet(q)'
    BY <1>2, <1>3, <1>5 DEF IInv, PInv, Placed, Quiet, Exiting
  <2>2. Target(q)'
    <3>1. pc[q] = "forking" => pc[tgt[q]] = "swap" /\ ppid[tgt[q]] = q
      BY DEF IInv, PInv, Target
    <3>2. pc[q] = "forking" => tgt[q] \notin {p, c}
      BY <1>1, <3>1
    <3> QED BY <1>3, <1>4, <1>5, <3>1, <3>2 DEF IInv, PInv, Target
  <2>3. Tracer(q)'
    <3>1. pc[q] = "ipcreq" => tgt[q] \in Slot /\ Tracer(q)
      BY DEF IInv, PInv, Target
    <3> QED BY <1>1, <1>2, <1>3, <1>4, <1>5, <3>1 DEF Tracer
  <2>4. Locker(q)'
    <3>1. pc[q] = "ipclock" => tgt[q] \in Slot /\ Locker(q)
      BY DEF IInv, PInv, Target
    <3> QED BY <1>1, <1>2, <1>3, <1>4, <1>5, <3>1 DEF Locker, IpcBusy
  <2>5. Waiter(q)'
    BY <1>2, <1>3, <1>5 DEF IInv, PInv, Waiter
  <2> QED BY <1>9, <2>1, <2>2, <2>3, <2>4, <2>5 DEF PInv
<1> QED BY <1>6, <1>7, <1>8, <1>10, <1>11 DEF IInv

-----------------------------------------------------------------------------
(* wait() frees the slot of a child that has ended.                        *)
LEMMA WaitZombieInv ==
    ASSUME IInv, NEW p \in Slot, NEW c \in Slot, WaitZombie(p, c)
    PROVE  IInv'
<1>0. /\ stat[p] = "run" /\ pc[p] = "wait" /\ ppid[c] = p /\ stat[c] = "zomb" /\ Goto(p, "out")
      /\ stat' = [stat EXCEPT ![c] = "null"] /\ ppid' = [ppid EXCEPT ![c] = none]
      /\ strc' = strc \ {c} /\ swted' = swted \ {c} /\ sig' = [sig EXCEPT ![c] = {}]
      /\ UNCHANGED <<action, tgt, ipc>>
  BY DEF WaitZombie, Running
<1>1. c # p /\ pc[c] = "none" /\ c # Initproc
  <2>1. pc[c] = "none"
    BY <1>0 DEF IInv, PInv, Placed, TypeOK, PC
  <2> QED BY <1>0, <2>1 DEF IInv, InitLives, InitPlaces
<1>2. /\ pc' \in [Slot -> PC] /\ pc'[p] = "out" /\ cpu' \in Slot \cup {none}
      /\ \A q \in Slot \ {p} : pc'[q] = pc[q]
  BY <1>0, GotoIs DEF IInv, PC
<1>3. /\ stat' \in [Slot -> Stat] /\ stat'[c] = "null"
      /\ \A q \in Slot \ {c} : stat'[q] = stat[q]
  BY <1>0 DEF IInv, TypeOK, Stat
<1>4. /\ ppid' \in [Slot -> Slot \cup {none}] /\ ppid'[c] = none
      /\ \A q \in Slot \ {c} : ppid'[q] = ppid[q]
  BY <1>0 DEF IInv, TypeOK
<1>5. sig' \in [Slot -> SUBSET Sig] /\ sig'[c] = {} /\ \A q \in Slot \ {c} : sig'[q] = sig[q]
  BY <1>0 DEF IInv, TypeOK
<1>6. TypeOK'
  BY <1>0, <1>2, <1>3, <1>4, <1>5 DEF IInv, TypeOK, Stat
<1>7. InitLives'
  BY <1>0, <1>1, <1>2, <1>4, <1>5, ProcAssumption DEF IInv, InitLives, InitPlaces
<1>8. LockTaken'
  <2>1. \A q \in Slot : pc'[q] = "ipcreq" <=> pc[q] = "ipcreq"
    BY <1>0, <1>2
  <2> QED BY <1>0, <2>1 DEF IInv, LockTaken
<1>9. ASSUME NEW q \in Slot \ {c} PROVE Kin(q)'
  <2>1. \A r \in Slot : Live(r) => r # c /\ Live(r)'
    BY <1>0, <1>3 DEF Live
  <2> QED BY <1>3, <1>4, <1>5, <2>1 DEF IInv, PInv, Kin
<1>10. PInv(c)'
  BY <1>1, <1>2, <1>3, <1>4, <1>5
     DEF PInv, Placed, Quiet, Exiting, Target, Kin, Tracer, Locker, Waiter
<1>11. PInv(p)'
  BY <1>0, <1>1, <1>2, <1>3, <1>9
     DEF PInv, Placed, Quiet, Exiting, Target, Tracer, Locker, Waiter
<1>12. ASSUME NEW q \in Slot \ {p, c} PROVE PInv(q)'
  <2>1. Placed(q)' /\ Quiet(q)'
    BY <1>0, <1>2, <1>3 DEF IInv, PInv, Placed, Quiet, Exiting
  <2>2. pc[q] \in {"ipclock", "ipcreq", "forking"} => tgt[q] \in Slot \ {c}
    <3>1. ASSUME pc[q] \in {"ipclock", "ipcreq", "forking"} PROVE tgt[q] \in Slot /\ ppid[tgt[q]] = q
      BY <3>1 DEF IInv, PInv, Target, Tracer, Locker
    <3> QED BY <1>0, <3>1
  <2>3. Target(q)'
    BY <1>0, <1>2, <1>4, <2>2 DEF IInv, PInv, Target
  <2>4. Tracer(q)'
    BY <1>0, <1>2, <1>3, <1>4, <2>2 DEF IInv, PInv, Tracer
  <2>5. Locker(q)'
    BY <1>0, <1>2, <1>3, <1>4, <2>2 DEF IInv, PInv, Locker, IpcBusy
  <2>6. Waiter(q)'
    <3>1. ASSUME pc[q] = "waiting", stat[q] = "sleep" PROVE Waiter(q)'
      <4>1. ASSUME NEW d \in Slot PROVE (ppid'[d] = q <=> ppid[d] = q) /\ (ppid[d] = q => d # c)
        BY <1>0, <1>4, ProcAssumption
      <4>2. Waiter(q)
        BY DEF IInv, PInv
      <4> QED BY <1>0, <1>3, <3>1, <4>1, <4>2 DEF Waiter
    <3> QED BY <1>2, <1>3, <3>1 DEF Waiter
  <2> QED BY <1>9, <2>1, <2>3, <2>4, <2>5, <2>6 DEF PInv
<1> QED BY <1>6, <1>7, <1>8, <1>10, <1>11, <1>12 DEF IInv

(* exit() hands the children to process 1, and sets the stopped ones going. *)
LEMMA ExitDoneInv ==
    ASSUME IInv, NEW p \in Slot, ExitDone(p)
    PROVE  IInv'
<1> DEFINE W == Waiting(ppid[p]) \cup IF Children(p) # {} THEN Waiting(Initproc) ELSE {}
<1>0. /\ stat[p] = "run" /\ pc[p] = "close" /\ Goto(p, "none")
      /\ stat' = [Orphaned(p) EXCEPT ![p] = "zomb"]
      /\ ppid' = [q \in Slot |-> IF q \in Children(p) THEN Initproc ELSE ppid[q]]
      /\ action' = [action EXCEPT ![p] = [s \in Sig |-> "dfl"]]
      /\ UNCHANGED <<strc, swted, sig, tgt, ipc>>
  BY DEF ExitDone, Running
<1>1. p # Initproc /\ ppid[p] \in Slot
  BY <1>0 DEF IInv, InitLives, InitPlaces, PInv, Kin
<1>2. /\ W \subseteq Sleepers /\ Waiting(ppid[p]) \subseteq W
      /\ (\E q \in Slot : ppid[q] = p) => Waiting(Initproc) \subseteq W
  BY <1>1, ProcAssumption DEF Waiting, Sleepers, Children
<1>3. Orphaned(p) = [q \in Slot |-> IF q \in Children(p) /\ stat[q] = "stop" THEN "run" ELSE Woken(W)[q]]
  BY DEF Orphaned
<1> HIDE DEF W
<1>4. /\ stat' \in [Slot -> Stat] /\ stat'[p] = "zomb"
      /\ \A q \in Slot \ {p} : stat'[q] = IF ppid[q] = p /\ stat[q] = "stop" THEN "run"
                                          ELSE IF q \in W /\ stat[q] = "sleep" THEN "run" ELSE stat[q]
  <2>1. /\ Woken(W) \in [Slot -> Stat]
        /\ \A q \in Slot : Woken(W)[q] = IF q \in W /\ stat[q] = "sleep" THEN "run" ELSE stat[q]
    BY WokenIs DEF IInv
  <2> QED BY <1>0, <1>3, <2>1 DEF Children, Stat
<1>5. /\ ppid' \in [Slot -> Slot \cup {none}]
      /\ \A q \in Slot : ppid'[q] = IF ppid[q] = p THEN Initproc ELSE ppid[q]
  BY <1>0, ProcAssumption DEF Children, IInv, TypeOK
<1>6. /\ pc' \in [Slot -> PC] /\ pc'[p] = "none" /\ cpu' \in Slot \cup {none}
      /\ \A q \in Slot \ {p} : pc'[q] = pc[q]
  BY <1>0, GotoIs DEF IInv, PC
<1>7. /\ action' \in [Slot -> [Sig -> {"dfl", "ign", "catch"}]]
      /\ \A q \in Slot \ {p} : action'[q] = action[q]
  <2>1. [s \in Sig |-> "dfl"] \in [Sig -> {"dfl", "ign", "catch"}]
    OBVIOUS
  <2> QED BY <1>0, <2>1 DEF IInv, TypeOK
<1>8. TypeOK'
  BY <1>0, <1>4, <1>5, <1>6, <1>7 DEF IInv, TypeOK, Stat
<1>9. InitLives'
  BY <1>0, <1>1, <1>5, <1>6, ProcAssumption DEF IInv, InitLives
<1>10. LockTaken'
  <2>1. \A q \in Slot : pc'[q] = "ipcreq" <=> pc[q] = "ipcreq"
    BY <1>0, <1>6
  <2> QED BY <1>0, <2>1 DEF IInv, LockTaken
<1>11. \A q \in Slot \ {p} : Live(q) => Live(q)'
  BY <1>4 DEF Live
<1>12. Live(Initproc)'
  <2>1. Live(Initproc)
    BY ProcAssumption DEF IInv, InitLives, InitPlaces, PInv, Placed, Live
  <2> QED BY <1>1, <1>11, <2>1, ProcAssumption
<1>13. PInv(p)'
  <2>1. Live(ppid[p])
    BY <1>0, <1>1 DEF IInv, PInv, Kin
  <2>2. ppid[p] = p => Kin(p)'
    BY <1>4, <1>5, <1>12, ProcAssumption DEF Kin
  <2>3. Kin(p)'
    BY <1>1, <1>4, <1>5, <1>11, <2>1, <2>2 DEF Kin
  <2> QED BY <1>4, <1>6, <2>3 DEF PInv, Placed, Quiet, Exiting, Target, Tracer, Locker, Waiter
<1>14. ASSUME NEW q \in Slot \ {p} PROVE PInv(q)'
  <2>1. Placed(q)'
    BY <1>2, <1>4, <1>6 DEF IInv, PInv, Placed, Sleepers
  <2>2. Quiet(q)'
    BY <1>0, <1>6, <1>7 DEF IInv, PInv, Quiet, Exiting
  <2>3. Target(q)'
    BY <1>0, <1>5, <1>6 DEF IInv, PInv, Target
  <2>4. Kin(q)'
    <3>1. stat'[q] = "null" <=> stat[q] = "null"
      BY <1>4
    <3>2. CASE ppid[q] = p
      BY <1>0, <1>4, <1>5, <1>12, <3>1, <3>2, ProcAssumption DEF IInv, PInv, Kin
    <3>3. CASE ppid[q] # p
      BY <1>0, <1>4, <1>5, <1>11, <3>1, <3>3 DEF IInv, PInv, Kin
    <3> QED BY <3>2, <3>3
  <2>5. Tracer(q)'
    <3>1. pc[q] = "ipcreq" => tgt[q] \in Slot /\ Tracer(q)
      BY DEF IInv, PInv, Target
    <3> QED BY <1>0, <1>4, <1>5, <1>6, <3>1 DEF Tracer
  <2>6. Locker(q)'
    <3>1. pc[q] = "ipclock" => tgt[q] \in Slot /\ Locker(q)
      BY DEF IInv, PInv, Target
    <3> QED BY <1>0, <1>4, <1>5, <1>6, <3>1 DEF Locker, IpcBusy
  <2>7. Waiter(q)'
    <3>1. ASSUME pc'[q] = "waiting", stat'[q] = "sleep" PROVE Waiter(q)'
      <4>1. pc[q] = "waiting" /\ stat[q] = "sleep" /\ q \notin W
        BY <1>4, <1>6, <3>1
      <4>2. ppid[p] # q /\ (q = Initproc => \A d \in Slot : ppid[d] # p)
        BY <1>2, <4>1 DEF Waiting
      <4>3. ASSUME NEW d \in Slot PROVE (ppid'[d] = q <=> ppid[d] = q) /\ (ppid[d] = q => d # p)
        BY <1>5, <4>2
      <4>4. Waiter(q)
        BY DEF IInv, PInv
      <4> QED BY <1>0, <1>4, <4>1, <4>3, <4>4 DEF Waiter
    <3> QED BY <3>1 DEF Waiter
  <2> QED BY <2>1, <2>2, <2>3, <2>4, <2>5, <2>6, <2>7 DEF PInv
<1> QED BY <1>8, <1>9, <1>10, <1>13, <1>14 DEF IInv

-----------------------------------------------------------------------------
LEMMA InitInv == Init => IInv
<1> SUFFICES ASSUME Init PROVE IInv
  OBVIOUS
<1>1. /\ stat \in [Slot -> Stat] /\ pc \in [Slot -> PC] /\ cpu = none
      /\ \A q \in Slot : stat[q] = IF q = Initproc THEN "run" ELSE "null"
      /\ \A q \in Slot : pc[q] = IF q = Initproc THEN "user" ELSE "none"
  BY DEF Init, Stat, PC
<1>2. /\ ppid \in [Slot -> Slot \cup {none}] /\ tgt \in [Slot -> Slot \cup {none}]
      /\ sig \in [Slot -> SUBSET Sig] /\ strc = {} /\ swted = {}
      /\ \A q \in Slot : ppid[q] = none /\ sig[q] = {}
  BY DEF Init
<1>3. action \in [Slot -> [Sig -> {"dfl", "ign", "catch"}]]
  <2>1. [s \in Sig |-> "dfl"] \in [Sig -> {"dfl", "ign", "catch"}]
    OBVIOUS
  <2> QED BY <2>1 DEF Init
<1>4. /\ ipc \in [lock : Slot \cup {none}, req : Requests \cup {"none", "error"}, data : Sig \cup {0}]
      /\ ipc.lock = none
  BY DEF Init
<1>5. TypeOK
  BY <1>1, <1>2, <1>3, <1>4 DEF TypeOK, Stat
<1>6. InitLives /\ LockTaken
  BY <1>1, <1>2, <1>4, ProcAssumption DEF InitLives, LockTaken, InitPlaces
<1>7. ASSUME NEW q \in Slot PROVE PInv(q)
  BY <1>1, <1>2 DEF PInv, Placed, Quiet, Exiting, Target, Kin, Tracer, Locker, Waiter
<1> QED BY <1>5, <1>6, <1>7 DEF IInv

LEMMA NextInv == IInv /\ [Next]_vars => IInv'
<1> SUFFICES ASSUME IInv, [Next]_vars PROVE IInv'
  OBVIOUS
<1>1. ASSUME NEW p \in Slot, (\E s \in Sig : Psignal(p, s)) \/ CloseDone(p) PROVE IInv'
  BY <1>1, SignalInv
<1>2. ASSUME NEW p \in Slot, Slept(p) PROVE IInv'
  BY <1>2, SleptInv
<1>3. ASSUME NEW p \in Slot, ExitClose(p) \/ Pause(p) \/ WaitSleep(p) PROVE IInv'
  BY <1>3, SleepersInv
<1>4. ASSUME NEW p \in Slot, ExitDone(p) PROVE IInv'
  BY <1>4, ExitDoneInv
<1>5. ASSUME NEW p \in Slot,
             Trap(p) \/ Return(p) \/ Signalled(p) \/ Wait(p) \/ Rexit(p) \/ Traceme(p)
      PROVE  IInv'
  BY <1>5, ReturnInv
<1>6. ASSUME NEW p \in Slot, Psig(p) \/ CoreDone(p) PROVE IInv'
  BY <1>6, PsigInv, CoreDoneInv
<1>7. ASSUME NEW p \in Slot, StopTraced(p) \/ StopAgain(p) PROVE IInv'
  BY <1>7, StopInv
<1>8. ASSUME NEW p \in Slot, ProcxmtMove(p) PROVE IInv'
  BY <1>8, ProcxmtMoveInv
<1>9. ASSUME NEW p \in Slot, ProcxmtCont(p) \/ ProcxmtExit(p) PROVE IInv'
  BY <1>9, ProcxmtGoInv
<1>10. ASSUME NEW p \in Slot, NEW s \in Sig, NEW fun \in Fun, Ssig(p, s, fun) PROVE IInv'
  BY <1>10, SsigInv
<1>11. ASSUME NEW p \in Slot, NEW c \in Slot, WaitZombie(p, c) PROVE IInv'
  BY <1>11, WaitZombieInv
<1>12. ASSUME NEW p \in Slot, NEW c \in Slot, WaitStopped(p, c) PROVE IInv'
  BY <1>12, WaitStoppedInv
<1>13. ASSUME NEW p \in Slot, NEW c \in Slot, Fork(p, c) \/ ForkSwap(p, c) PROVE IInv'
  BY <1>13, ForkInv
<1>14. ASSUME NEW p \in Slot, NEW c \in Slot, Ptrace(p, c) PROVE IInv'
  BY <1>14, PtraceInv
<1>15. ASSUME NEW p \in Slot, ForkSwapped(p) PROVE IInv'
  BY <1>15, ForkSwappedInv
<1>16. ASSUME NEW p \in Slot, IpcSleep(p) PROVE IInv'
  BY <1>16, IpcSleepInv
<1>17. ASSUME NEW p \in Slot, IpcAnswered(p) PROVE IInv'
  BY <1>17, IpcAnsweredInv
<1>18. ASSUME NEW p \in Slot, NEW r \in Requests, NEW s \in Sig \cup {0}, IpcRequest(p, r, s)
       PROVE  IInv'
  BY <1>18, IpcRequestInv
<1>19. CASE UNCHANGED vars
  <2>1. /\ UNCHANGED <<stat, ppid, strc, swted>>
        /\ UNCHANGED <<sig, action, pc, cpu, tgt, ipc>>
    BY <1>19 DEF vars, proc
  <2>2. TypeOK' /\ InitLives' /\ LockTaken'
    BY <2>1 DEF IInv, TypeOK, InitLives, LockTaken
  <2>3. ASSUME NEW q \in Slot PROVE PInv(q)'
    BY <2>1 DEF IInv, PInv, Placed, Quiet, Exiting, Target, Kin, Live, Tracer, Locker, IpcBusy, Waiter
  <2> QED BY <2>2, <2>3 DEF IInv
<1> QED
  BY <1>1, <1>2, <1>3, <1>4, <1>5, <1>6, <1>7, <1>8, <1>9, <1>10, <1>11, <1>12, <1>13, <1>14,
     <1>15, <1>16, <1>17, <1>18, <1>19 DEF Next

(* The inductive invariant holds in every state that the system reaches.   *)
THEOREM Invariance == Spec => []IInv
<1>1. Init => IInv
  BY InitInv
<1>2. IInv /\ [Next]_vars => IInv'
  BY NextInv
<1> QED BY <1>1, <1>2, PTL DEF Spec

(* The entries of proc[] and the ipc structure stay in their ranges, for a *)
(* table of any size.                                                      *)
THEOREM TypeCorrect == Spec => []TypeOK
<1>1. IInv => TypeOK
  BY DEF IInv
<1> QED BY <1>1, Invariance, PTL

(* A tracer has the lock alone and for its own child, which answers; it is *)
(* not asleep when it is answered, and the child that it has found stopped *)
(* is still so when it gets the lock: procxmt(), ptrace() and stop().      *)
THEOREM TracerAnswered == Spec => []Handshake
BY InvHandshake, Invariance, PTL

(* Every process has a parent that lives, and a stopped one has a parent   *)
(* that can set it going: exit(), newproc() and stop().                    *)
THEOREM ParentsLive == Spec => []Family
BY InvFamily, Invariance, PTL

(* Nobody sleeps in wait() while a child of his has ended or has stopped   *)
(* and was not reported: the wakeups of exit() and stop() are not lost.    *)
THEOREM WaitWoken == Spec => []WaitersWoken
BY InvWaiters, Invariance, PTL

-----------------------------------------------------------------------------
(* Others do not move a process in exit(), ...                             *)
LEMMA OthersExitStays ==
    ASSUME IInv, NEW p \in Slot, Exiting(p), NEW q \in Slot \ {p}, NEW place, Goto(q, place)
    PROVE  Exiting(p)'
BY DEF Goto, Exiting, IInv, TypeOK

(* ... and its own steps leave it there, because it heeds no signal.       *)
LEMMA StepExitStays ==
    ASSUME IInv, Next, NEW p \in Slot, Exiting(p)
    PROVE  Exiting(p)' \/ stat'[p] = "zomb"
<1>0. pc \in [Slot -> PC] /\ pc[p] \in {"close", "closing"} /\ Deliverable(p) = {} /\ stat[p] # "null"
  BY ExitingHeedsNone DEF IInv, TypeOK, Exiting, PInv, Placed
<1>1. ASSUME NEW q \in Slot, (\E s \in Sig : Psignal(q, s)) \/ CloseDone(q) \/ IpcSleep(q)
      PROVE  Exiting(p)'
  BY <1>0, <1>1 DEF Psignal, CloseDone, IpcSleep, Exiting
<1>2. ASSUME NEW q \in Slot, Slept(q) \/ ExitClose(q) PROVE Exiting(p)'
  <2>1. CASE q = p
    BY <1>0, <1>2, <2>1 DEF Slept, ExitClose, Doze, Goto, Exiting
  <2>2. CASE q # p
    BY <1>2, <2>2, OthersExitStays DEF Slept, ExitClose, Doze
  <2> QED BY <2>1, <2>2
<1>3. ASSUME NEW q \in Slot, ExitDone(q) PROVE Exiting(p)' \/ stat'[p] = "zomb"
  <2>1. CASE q = p
    BY <1>3, <2>1 DEF ExitDone, Orphaned
  <2>2. CASE q # p
    BY <1>3, <2>2, OthersExitStays DEF ExitDone
  <2> QED BY <2>1, <2>2
<1>4. ASSUME NEW q \in Slot,
             \/ Trap(q) \/ Return(q) \/ Signalled(q) \/ Psig(q) \/ CoreDone(q) \/ Rexit(q)
             \/ Wait(q) \/ Traceme(q) \/ WaitSleep(q) \/ Pause(q) \/ \E s \in Sig, fun \in Fun : Ssig(q, s, fun)
             \/ \E c \in Slot : WaitZombie(q, c) \/ WaitStopped(q, c) \/ Ptrace(q, c)
      PROVE  Exiting(p)'
  <2>1. pc[q] \in {"user", "out", "psig", "core", "wait"} /\ \E place : Goto(q, place)
    BY <1>4 DEF Trap, Return, Signalled, Psig, CoreDone, Rexit, Wait, Traceme, WaitSleep, Pause, Doze, Ssig,
                WaitZombie, WaitStopped, Ptrace, Running
  <2> QED BY <1>0, <2>1, OthersExitStays
<1>5. ASSUME NEW q \in Slot,
             \/ StopTraced(q) \/ StopAgain(q) \/ ProcxmtMove(q) \/ ProcxmtCont(q) \/ ProcxmtExit(q)
             \/ \E r \in Requests, s \in Sig \cup {0} : IpcRequest(q, r, s)
      PROVE  Exiting(p)'
  <2>1. pc[q] \in {"out", "stop", "ipclock"} /\ \E place : Goto(q, place)
    BY <1>5 DEF StopTraced, StopAgain, ProcxmtMove, ProcxmtCont, ProcxmtExit, Stops, IpcRequest, Running
  <2> QED BY <1>0, <2>1, OthersExitStays
<1>6. ASSUME NEW q \in Slot, IpcAnswered(q) PROVE Exiting(p)'
  <2>1. pc[q] = "ipcreq" /\ (pc' = pc \/ \E place : Goto(q, place))
    BY <1>6 DEF IpcAnswered, Running
  <2> QED BY <1>0, <2>1, OthersExitStays DEF Exiting
<1>7. ASSUME NEW q \in Slot, NEW c \in Slot, Fork(q, c) \/ ForkSwap(q, c) PROVE Exiting(p)'
  <2>1. pc[q] = "user" /\ stat[c] = "null"
    BY <1>7 DEF Fork, ForkSwap, Running, NewSlot
  <2> QED BY <1>0, <1>7, <2>1 DEF Fork, ForkSwap, Exiting
<1>8. ASSUME NEW q \in Slot, ForkSwapped(q) PROVE Exiting(p)'
  <2>1. pc[q] = "forking" /\ pc[tgt[q]] = "swap"
    BY <1>8 DEF ForkSwapped, IInv, PInv, Target
  <2> QED BY <1>0, <1>8, <2>1 DEF ForkSwapped, Exiting
<1> QED BY <1>1, <1>2, <1>3, <1>4, <1>5, <1>6, <1>7, <1>8 DEF Next

(* A process that has entered exit() ends there: no signal takes it out of *)
(* a close in which it sleeps.                                             *)
THEOREM ExitEnds == Spec => ExitStays
<1>1. IInv /\ [Next]_vars => [\A p \in Slot : Exiting(p) => Exiting(p)' \/ stat'[p] = "zomb"]_vars
  BY StepExitStays
<1> QED BY <1>1, Invariance, PTL DEF Spec, ExitStays

=============================================================================

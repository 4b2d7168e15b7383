---------------------------- MODULE Pipe_proofs ----------------------------
(***************************************************************************)
(* Proofs about Pipe, for any processes, any PIPSIZ and any counts, with   *)
(* transfers that stop early and with signals.                             *)
(***************************************************************************)
EXTENDS Pipe, SequenceTheorems, TLAPS

-----------------------------------------------------------------------------
(* What the calls under way are: who transfers is in the call for it and   *)
(* has bytes left to write, and who closes an end is the last to hold it.  *)
Calls ==
    \A p \in Proc :
      /\ call[p].left <= call[p].total
      /\ pc[p] \in {"readi", "readwait"} => call[p].op = "read"
      /\ pc[p] \in {"writei", "writewait"} => call[p].op = "write"
      /\ pc[p] = "writei" => call[p].left > 0
      /\ call[p].op \in End =>
           call[p].op \in hold[p] /\ \A q \in Proc \ {p} : call[p].op \notin hold[q]

(* A write of at most PIPSIZ bytes is done in one part.                    *)
Whole ==
    \A p \in Proc : call[p].op = "write" /\ call[p].total <= PIPSIZ
                      => call[p].left \in {0, call[p].total}

(* i_count is the number of ends that are open.                            *)
Open(e) == IF \E p \in Proc : e \in hold[p] THEN 1 ELSE 0
EndsCounted == count = Open("r") + Open("w")

(* The file is a sequence of bytes that know their place in the stream.    *)
Byte == Nat \X Proc \X Nat \X Nat
Stream == file \in Seq(Byte) /\ sent \in Nat /\ got \in Nat

IInv == /\ TypeOK /\ Calls /\ Whole /\ EndsCounted /\ Stream
        /\ LockHeld /\ NoLostWakeup /\ Fifo

-----------------------------------------------------------------------------
(* What a transfer may have moved is at most what was asked for.           *)
LEMMA MovedType ==
    ASSUME NEW n \in Nat, NEW k \in Moved(n)
    PROVE  k \in Nat /\ k <= n
BY PipeAssumption DEF Moved

LEMMA LeastType ==
    ASSUME NEW m \in Nat, NEW n \in Nat
    PROVE  Least(m, n) \in Nat /\ Least(m, n) <= m /\ Least(m, n) <= n
BY DEF Least

(* pipe() leaves an empty pipe with both ends open.                        *)
LEMMA InitInv == Init => IInv
<1> SUFFICES ASSUME Init PROVE IInv
  OBVIOUS
<1> USE DEF Init, NoCall, Call
<1>1. TypeOK
  <2>1. off \in Nat /\ off <= Len(file) /\ count \in 0..2
    OBVIOUS
  <2>2. pc \in [Proc -> PC]
    BY DEF PC
  <2>3. call \in [Proc -> [op : {"none", "read", "write"} \cup End, total : Nat, left : Nat]]
    OBVIOUS
  <2>4. \A p \in Proc : pc[p] = "user" <=> call[p] = NoCall
    <3> HIDE DEF NoCall
    <3>1. \A p \in Proc : pc[p] = "user" /\ call[p] = NoCall
      OBVIOUS
    <3> QED BY <3>1
  <2> QED BY <2>1, <2>2, <2>3, <2>4 DEF TypeOK
<1>2. Calls /\ Whole
  BY DEF Calls, Whole, End
<1>3. EndsCounted
  BY DEF EndsCounted, Open, End
<1>4. Stream /\ Fifo
  BY DEF Stream, Fifo
<1>5. LockHeld /\ NoLostWakeup
  BY DEF LockHeld, NoLostWakeup
<1> QED BY <1>1, <1>2, <1>3, <1>4, <1>5 DEF IInv

-----------------------------------------------------------------------------
(* A step that leaves the file alone keeps the stream.                     *)
LEMMA SameStream ==
    ASSUME IInv, UNCHANGED <<file, off, sent, got>>
    PROVE  Stream' /\ Fifo'
BY DEF IInv, Stream, Fifo, Byte

(* read() and write() begin.                                               *)
LEMMA CallInv ==
    ASSUME IInv, NEW p \in Proc, NEW n \in Reads \cup Writes, Read(p, n) \/ Write(p, n)
    PROVE  IInv'
<1> USE PipeAssumption DEF IInv
<1>1. UNCHANGED <<inode, off, hold, sent, got>> /\ pc[p] = "user"
  BY DEF Read, Write, history
<1>2. PICK o \in {"read", "write"} : StepWith(p, "plock", Call(o, n, n), {})
  BY DEF Read, Write
<1>3. n \in Nat
  OBVIOUS
<1>4. pc' = [pc EXCEPT ![p] = "plock"] /\ call' = [call EXCEPT ![p] = Call(o, n, n)]
  BY <1>2 DEF StepWith, TypeOK
<1>5. TypeOK'
  BY <1>1, <1>3, <1>4 DEF TypeOK, inode, Call, NoCall, PC
<1>6. Calls' /\ Whole'
  BY <1>1, <1>3, <1>4 DEF TypeOK, Calls, Whole, Call, End
<1>7. EndsCounted' /\ Stream' /\ Fifo'
  BY <1>1, SameStream DEF EndsCounted, Open, inode
<1>8. LockHeld' /\ NoLostWakeup'
  BY <1>1, <1>4 DEF TypeOK, LockHeld, NoLostWakeup, inode
<1> QED BY <1>5, <1>6, <1>7, <1>8

(* close() begins, or is over at once when others hold the end.            *)
LEMMA CloseInv ==
    ASSUME IInv, NEW p \in Proc, NEW e \in End, Close(p, e)
    PROVE  IInv'
<1> USE PipeAssumption DEF IInv
<1>1. UNCHANGED <<inode, off, history>> /\ pc[p] = "user" /\ e \in hold[p]
  BY DEF Close
<1>2. UNCHANGED <<lock, want, iread, iwrite, count, file, off, sent, got>>
  BY <1>1 DEF inode, history
<1>a. Stream' /\ Fifo'
  BY <1>2, SameStream
<1>3. CASE \E q \in Proc \ {p} : e \in hold[q]
  <2>1. PICK q \in Proc \ {p} : e \in hold[q]
    BY <1>3
  <2>2. hold' = [hold EXCEPT ![p] = @ \ {e}] /\ UNCHANGED <<pc, call>>
    BY <1>3 DEF Close
  <2>3. TypeOK'
    BY <1>2, <2>2 DEF TypeOK
  <2>4. Calls'
    <3>1. \A r \in Proc : call[r].op # e
      BY <1>1, <2>1 DEF TypeOK, Calls, NoCall, Call
    <3> QED BY <2>2, <3>1 DEF TypeOK, Calls
  <2>5. Whole' /\ LockHeld' /\ NoLostWakeup'
    BY <1>2, <2>2 DEF Whole, LockHeld, NoLostWakeup
  <2>6. EndsCounted'
    <3>1. \A d \in End : (\E r \in Proc : d \in hold'[r]) <=> (\E r \in Proc : d \in hold[r])
      BY <2>1, <2>2 DEF TypeOK
    <3> QED BY <1>2, <3>1 DEF EndsCounted, Open, End
  <2> QED BY <1>a, <2>3, <2>4, <2>5, <2>6
<1>4. CASE ~ \E q \in Proc \ {p} : e \in hold[q]
  <2>1. StepWith(p, "plock", Call(e, 0, 0), {}) /\ UNCHANGED hold
    BY <1>4 DEF Close
  <2>2. pc' = [pc EXCEPT ![p] = "plock"] /\ call' = [call EXCEPT ![p] = Call(e, 0, 0)]
    BY <2>1 DEF StepWith, TypeOK
  <2>3. TypeOK'
    BY <1>2, <2>1, <2>2 DEF TypeOK, Call, NoCall, PC, End
  <2>4. Calls' /\ Whole'
    BY <1>1, <1>4, <2>1, <2>2 DEF TypeOK, Calls, Whole, Call, End
  <2>5. EndsCounted' /\ LockHeld' /\ NoLostWakeup'
    BY <1>1, <1>2, <2>1, <2>2 DEF TypeOK, EndsCounted, Open, LockHeld, NoLostWakeup
  <2> QED BY <1>a, <2>3, <2>4, <2>5
<1> QED BY <1>3, <1>4

-----------------------------------------------------------------------------
(* What a step within a call does to the processes and their calls.        *)
Sleeping == {"lockwait", "readwait", "writewait"}

LEMMA StepShape ==
    ASSUME TypeOK, NEW p \in Proc, NEW to \in PC, NEW woken \in SUBSET Sleeping,
           pc[p] # "user", Step(p, to, woken)
    PROVE  /\ pc' \in [Proc -> PC]
           /\ call' \in [Proc -> [op : {"none", "read", "write"} \cup End,
                                  total : Nat, left : Nat]]
           /\ \A q \in Proc : pc'[q] = "user" <=> call'[q] = NoCall
           /\ pc'[p] = to /\ call'[p] = IF to = "user" THEN NoCall ELSE call[p]
           /\ \A q \in Proc \ {p} :
                /\ pc'[q] = IF pc[q] \in woken THEN "plock" ELSE pc[q]
                /\ call'[q] = call[q]
<1>1. /\ pc' = [q \in Proc |-> IF q = p THEN to
                               ELSE IF pc[q] \in woken THEN "plock" ELSE pc[q]]
      /\ call' = [call EXCEPT ![p] = IF to = "user" THEN NoCall ELSE call[p]]
  BY DEF Step, StepWith
<1>2. NoCall \in [op : {"none", "read", "write"} \cup End, total : Nat, left : Nat]
  BY DEF NoCall, Call
<1>3. /\ pc' \in [Proc -> PC]
      /\ call' \in [Proc -> [op : {"none", "read", "write"} \cup End,
                             total : Nat, left : Nat]]
  BY <1>1, <1>2 DEF TypeOK, PC
<1>4. /\ pc'[p] = to /\ call'[p] = IF to = "user" THEN NoCall ELSE call[p]
      /\ \A q \in Proc \ {p} :
           /\ pc'[q] = IF pc[q] \in woken THEN "plock" ELSE pc[q]
           /\ call'[q] = call[q]
  BY <1>1 DEF TypeOK
<1>5. \A q \in Proc : pc'[q] = "user" <=> call'[q] = NoCall
  BY <1>4 DEF TypeOK, Sleeping
<1> QED BY <1>3, <1>4, <1>5

(* It keeps the calls in order when it leads to a place of this call.      *)
LEMMA StepCalls ==
    ASSUME TypeOK, Calls, Whole, NEW p \in Proc, NEW to \in PC, NEW woken \in SUBSET Sleeping,
           pc[p] # "user", Step(p, to, woken), UNCHANGED hold,
           to \in {"readi", "readwait"} => call[p].op = "read",
           to \in {"writei", "writewait"} => call[p].op = "write",
           to = "writei" => call[p].left > 0
    PROVE  Calls' /\ Whole'
<1>1. /\ pc'[p] = to /\ call'[p] = IF to = "user" THEN NoCall ELSE call[p]
      /\ \A q \in Proc \ {p} :
           /\ pc'[q] = IF pc[q] \in woken THEN "plock" ELSE pc[q]
           /\ call'[q] = call[q]
  BY StepShape
<1>2. \A q \in Proc : /\ call'[q] = call[q] \/ call'[q] = NoCall
                      /\ pc'[q] \in {pc[q], "plock"} \/ q = p
  BY <1>1
<1>3. NoCall.op = "none" /\ NoCall.left = 0 /\ NoCall.total = 0
  BY DEF NoCall, Call
<1>4. Calls'
  <2> SUFFICES ASSUME NEW q \in Proc
               PROVE  /\ call'[q].left <= call'[q].total
                      /\ pc'[q] \in {"readi", "readwait"} => call'[q].op = "read"
                      /\ pc'[q] \in {"writei", "writewait"} => call'[q].op = "write"
                      /\ pc'[q] = "writei" => call'[q].left > 0
                      /\ call'[q].op \in End => /\ call'[q].op \in hold[q]
                                                /\ \A r \in Proc \ {q} : call'[q].op \notin hold[r]
    BY DEF Calls
  <2>1. CASE q = p
    BY <1>1, <1>3, <2>1 DEF Calls, End
  <2>2. CASE q # p
    BY <1>1, <2>2 DEF Calls
  <2> QED BY <2>1, <2>2
<1>5. Whole'
  BY <1>2, <1>3 DEF Whole
<1> QED BY <1>4, <1>5

LEMMA WantingType == Wanting \in SUBSET Sleeping
BY DEF Wanting, Sleeping

(* plock() sleeps for the inode.                                           *)
LEMMA PlockSleepInv ==
    ASSUME IInv, NEW p \in Proc, PlockSleep(p)
    PROVE  IInv'
<1> USE DEF IInv
<1>1. /\ UNCHANGED <<lock, iread, iwrite, count, file, off, hold, sent, got>>
      /\ pc[p] = "plock" /\ lock /\ want' = TRUE /\ Step(p, "lockwait", {})
  BY DEF PlockSleep, history
<1>2. "lockwait" \in PC /\ {} \in SUBSET Sleeping
  BY DEF PC
<1>3. /\ pc'[p] = "lockwait" /\ \A q \in Proc \ {p} : pc'[q] = pc[q]
      /\ TypeOK'
  BY <1>1, <1>2, StepShape DEF TypeOK
<1>4. Calls' /\ Whole'
  BY <1>1, <1>2, StepCalls
<1>5. EndsCounted' /\ Stream' /\ Fifo'
  BY <1>1, SameStream DEF EndsCounted, Open
<1>6. LockHeld' /\ NoLostWakeup'
  BY <1>1, <1>3 DEF LockHeld, NoLostWakeup
<1> QED BY <1>3, <1>4, <1>5, <1>6

(* readp() with the inode locked.                                          *)
LEMMA ReadpLockedInv ==
    ASSUME IInv, NEW p \in Proc, ReadpLocked(p)
    PROVE  IInv'
<1> USE DEF IInv
<1>1. /\ UNCHANGED <<iwrite, count, file, off, hold, sent, got>>
      /\ pc[p] = "plock" /\ call[p].op = "read" /\ ~lock
  BY DEF ReadpLocked, Plocked, history
<1>2. EndsCounted' /\ Stream' /\ Fifo'
  BY <1>1, SameStream DEF EndsCounted, Open
<1>3. \A q \in Proc : pc[q] \notin {"readi", "writei", "lockwait"}
  BY <1>1 DEF LockHeld, NoLostWakeup
<1>4. CASE file = <<>>
  <2> DEFINE to == IF count < 2 THEN "user" ELSE "readwait"
  <2>1. /\ want' = FALSE /\ iread' = (iread \/ count >= 2) /\ lock' = lock
        /\ Step(p, to, Wanting)
    BY <1>4 DEF ReadpLocked
  <2>2. to \in PC /\ to \in {"user", "readwait"}
    BY DEF PC
  <2>a. to = "readwait" => count = 2
    BY DEF TypeOK
  <2> HIDE DEF to
  <2>3. /\ pc'[p] = to
        /\ \A q \in Proc \ {p} : pc'[q] = IF pc[q] \in Wanting THEN "plock" ELSE pc[q]
        /\ pc' \in [Proc -> PC]
        /\ call' \in [Proc -> [op : {"none", "read", "write"} \cup End,
                               total : Nat, left : Nat]]
        /\ \A q \in Proc : pc'[q] = "user" <=> call'[q] = NoCall
    BY <1>1, <2>1, <2>2, WantingType, StepShape
  <2>4. TypeOK'
    BY <1>1, <2>1, <2>3 DEF TypeOK
  <2>5. Calls' /\ Whole'
    BY <1>1, <2>1, <2>2, WantingType, StepCalls
  <2>6. LockHeld'
    BY <1>1, <1>3, <2>1, <2>2, <2>3 DEF LockHeld
  <2>7. NoLostWakeup'
    <3>1. \A q \in Proc : /\ pc'[q] # "lockwait"
                          /\ pc'[q] = "readwait" => count = 2
                          /\ pc'[q] = "writewait" => pc[q] = "writewait"
      BY <1>3, <2>2, <2>a, <2>3 DEF NoLostWakeup
    <3>2. count = 2 => iread'
      <4>1. count = 2 => count >= 2
        OBVIOUS
      <4> QED BY <2>1, <4>1
    <3> QED BY <1>1, <1>4, <3>1, <3>2 DEF NoLostWakeup
  <2> QED BY <1>2, <2>4, <2>5, <2>6, <2>7
<1>5. CASE file # <<>>
  <2>1. /\ lock' = TRUE /\ UNCHANGED <<want, iread>> /\ Step(p, "readi", {})
    BY <1>5 DEF ReadpLocked
  <2>2. "readi" \in PC /\ {} \in SUBSET Sleeping
    BY DEF PC
  <2>3. /\ pc'[p] = "readi" /\ \A q \in Proc \ {p} : pc'[q] = pc[q]
        /\ TypeOK'
    BY <1>1, <2>1, <2>2, StepShape DEF TypeOK
  <2>5. Calls' /\ Whole'
    BY <1>1, <2>1, <2>2, StepCalls
  <2>6. LockHeld' /\ NoLostWakeup'
    BY <1>1, <1>3, <2>1, <2>3 DEF LockHeld, NoLostWakeup
  <2> QED BY <1>2, <2>3, <2>5, <2>6
<1> QED BY <1>4, <1>5

(* writep() with the inode locked.                                         *)
LEMMA WritepLockedInv ==
    ASSUME IInv, NEW p \in Proc, WritepLocked(p)
    PROVE  IInv'
<1> USE DEF IInv
<1>1. /\ UNCHANGED <<iread, count, file, off, hold, sent, got>>
      /\ pc[p] = "plock" /\ call[p].op = "write" /\ ~lock
  BY DEF WritepLocked, Plocked, history
<1>2. EndsCounted' /\ Stream' /\ Fifo'
  BY <1>1, SameStream DEF EndsCounted, Open
<1>3. \A q \in Proc : pc[q] \notin {"readi", "writei", "lockwait"}
  BY <1>1 DEF LockHeld, NoLostWakeup
<1>4. CASE call[p].left = 0 \/ count < 2 \/ Full
  <2> DEFINE to == IF call[p].left = 0 \/ count < 2 THEN "user" ELSE "writewait"
  <2>1. /\ want' = FALSE /\ iwrite' = (iwrite \/ to = "writewait") /\ lock' = lock
        /\ Step(p, to, Wanting)
    BY <1>4 DEF WritepLocked, TypeOK
  <2>2. to \in PC /\ to \in {"user", "writewait"}
    BY DEF PC
  <2>a. to = "writewait" => count = 2 /\ Len(file) >= PIPSIZ
    BY <1>4 DEF TypeOK, Full
  <2> HIDE DEF to
  <2>3. /\ pc'[p] = to
        /\ \A q \in Proc \ {p} : pc'[q] = IF pc[q] \in Wanting THEN "plock" ELSE pc[q]
        /\ pc' \in [Proc -> PC]
        /\ call' \in [Proc -> [op : {"none", "read", "write"} \cup End,
                               total : Nat, left : Nat]]
        /\ \A q \in Proc : pc'[q] = "user" <=> call'[q] = NoCall
    BY <1>1, <2>1, <2>2, WantingType, StepShape
  <2>4. TypeOK'
    BY <1>1, <2>1, <2>3 DEF TypeOK
  <2>5. Calls' /\ Whole'
    BY <1>1, <2>1, <2>2, WantingType, StepCalls
  <2>6. LockHeld'
    BY <1>1, <1>3, <2>1, <2>2, <2>3 DEF LockHeld
  <2>7. NoLostWakeup'
    BY <1>1, <1>3, <2>1, <2>2, <2>a, <2>3 DEF NoLostWakeup, TypeOK
  <2> QED BY <1>2, <2>4, <2>5, <2>6, <2>7
<1>5. CASE ~(call[p].left = 0 \/ count < 2 \/ Full)
  <2>1. /\ lock' = TRUE /\ UNCHANGED <<want, iwrite>> /\ Step(p, "writei", {})
        /\ call[p].left > 0
    BY <1>5 DEF WritepLocked, TypeOK
  <2>2. "writei" \in PC /\ {} \in SUBSET Sleeping
    BY DEF PC
  <2>3. /\ pc'[p] = "writei" /\ \A q \in Proc \ {p} : pc'[q] = pc[q]
        /\ TypeOK'
    BY <1>1, <2>1, <2>2, StepShape DEF TypeOK
  <2>5. Calls' /\ Whole'
    BY <1>1, <2>1, <2>2, StepCalls
  <2>6. LockHeld' /\ NoLostWakeup'
    BY <1>1, <1>3, <2>1, <2>3 DEF LockHeld, NoLostWakeup
  <2> QED BY <1>2, <2>3, <2>5, <2>6
<1> QED BY <1>4, <1>5

(* A signal ends a sleep at PPIPE.                                         *)
LEMMA SignalInv ==
    ASSUME IInv, NEW p \in Proc, Signal(p)
    PROVE  IInv'
<1> USE DEF IInv
<1>1. /\ UNCHANGED <<lock, want, iread, iwrite, count, file, off, hold, sent, got>>
      /\ pc[p] \in {"readwait", "writewait"} /\ Step(p, "user", {})
  BY DEF Signal, inode, history
<1>2. "user" \in PC /\ {} \in SUBSET Sleeping
  BY DEF PC
<1>3. /\ pc'[p] = "user" /\ \A q \in Proc \ {p} : pc'[q] = pc[q]
      /\ TypeOK'
  <2>1. /\ pc'[p] = "user" /\ \A q \in Proc \ {p} : pc'[q] = pc[q]
        /\ pc' \in [Proc -> PC]
        /\ call' \in [Proc -> [op : {"none", "read", "write"} \cup End,
                               total : Nat, left : Nat]]
        /\ \A q \in Proc : pc'[q] = "user" <=> call'[q] = NoCall
    BY <1>1, <1>2, StepShape
  <2> QED BY <1>1, <2>1 DEF TypeOK
<1>4. Calls' /\ Whole'
  BY <1>1, <1>2, StepCalls
<1>5. EndsCounted' /\ Stream' /\ Fifo'
  BY <1>1, SameStream DEF EndsCounted, Open
<1>6. LockHeld' /\ NoLostWakeup'
  BY <1>1, <1>3 DEF LockHeld, NoLostWakeup
<1> QED BY <1>3, <1>4, <1>5, <1>6

(* readi() is through: the bytes it moved are the next ones of the stream, *)
(* and whoever slept for room is woken when all is read.                   *)
LEMMA ReadpDoneInv ==
    ASSUME IInv, NEW p \in Proc, ReadpDone(p)
    PROVE  IInv'
<1> USE DEF IInv
<1> DEFINE most == Least(call[p].left, Len(file) - off)
<1>1. PICK k \in Moved(most) :
        /\ got' = got + k /\ CaughtUp(off + k)
        /\ Step(p, "user", Wanting \cup IF off + k = Len(file) /\ iwrite
                                        THEN {"writewait"} ELSE {})
  BY DEF ReadpDone
<1>2. /\ UNCHANGED <<iread, count, hold, sent>> /\ lock' = FALSE /\ want' = FALSE
      /\ pc[p] = "readi"
  BY DEF ReadpDone
<1>3. k \in Nat /\ off + k <= Len(file) /\ off \in Nat /\ Len(file) \in Nat
  <2>1. Len(file) \in Nat /\ off \in Nat /\ off <= Len(file) /\ call[p].left \in Nat
    BY LenProperties DEF TypeOK, Stream
  <2>2. Len(file) - off \in Nat
    BY <2>1
  <2>3. most \in Nat /\ most <= Len(file) - off
    BY <2>1, <2>2, LeastType
  <2>4. k \in Nat /\ k <= most
    BY <2>3, MovedType
  <2> QED BY <2>1, <2>3, <2>4
<1> DEFINE woken == Wanting \cup IF off + k = Len(file) /\ iwrite THEN {"writewait"} ELSE {}
<1>4. woken \in SUBSET Sleeping /\ "user" \in PC
  BY WantingType DEF Sleeping, PC
<1>5. /\ pc'[p] = "user"
      /\ \A q \in Proc \ {p} : pc'[q] = IF pc[q] \in woken THEN "plock" ELSE pc[q]
      /\ pc' \in [Proc -> PC]
      /\ call' \in [Proc -> [op : {"none", "read", "write"} \cup End, total : Nat, left : Nat]]
      /\ \A q \in Proc : pc'[q] = "user" <=> call'[q] = NoCall
  BY <1>1, <1>2, <1>4, StepShape
<1>6. Calls' /\ Whole'
  BY <1>1, <1>2, <1>4, StepCalls
<1>7. EndsCounted'
  BY <1>2 DEF EndsCounted, Open
<1>8. \A q \in Proc : pc[q] \in {"readi", "writei"} => q = p
  BY <1>2 DEF LockHeld
<1>9. LockHeld'
  <2>1. \A q \in Proc : pc'[q] \notin {"readi", "writei"}
    BY <1>5, <1>8
  <2> QED BY <1>2, <2>1 DEF LockHeld
<1>10. \A q \in Proc : /\ pc'[q] # "lockwait"
                       /\ pc'[q] \in {"readwait", "writewait"} => pc[q] = pc'[q]
  <2>1. want => "lockwait" \in woken
    BY DEF Wanting
  <2> QED BY <1>5, <2>1 DEF NoLostWakeup
<1>11. CASE off + k = Len(file)
  <2>1. off' = 0 /\ file' = <<>> /\ iwrite' = FALSE
    BY <1>1, <1>11 DEF CaughtUp
  <2>2. TypeOK'
    <3>1. off' \in Nat /\ off' <= Len(file') /\ iwrite' \in BOOLEAN
      <4>1. Len(<<>>) = 0
        OBVIOUS
      <4>2. Len(file') = 0 /\ off' = 0
        BY <2>1, <4>1
      <4>3. iwrite' \in BOOLEAN
        BY <2>1
      <4> QED BY <4>2, <4>3
    <3> QED BY <1>2, <1>5, <3>1 DEF TypeOK
  <2>3. Stream' /\ Fifo'
    BY <1>1, <1>2, <1>3, <1>11, <2>1 DEF Stream, Fifo, TypeOK
  <2>4. \A q \in Proc : pc'[q] # "writewait"
    <3>1. iwrite => "writewait" \in woken
      BY <1>11
    <3> QED BY <1>5, <3>1 DEF NoLostWakeup
  <2>5. NoLostWakeup'
    BY <1>2, <1>10, <2>1, <2>4 DEF NoLostWakeup
  <2> QED BY <1>6, <1>7, <1>9, <2>2, <2>3, <2>5
<1>12. CASE off + k # Len(file)
  <2>1. off' = off + k /\ file' = file /\ iwrite' = iwrite
    BY <1>1, <1>12 DEF CaughtUp
  <2>2. TypeOK'
    <3>1. off' \in Nat /\ off' <= Len(file') /\ iwrite' \in BOOLEAN
      BY <1>3, <2>1 DEF TypeOK
    <3> QED BY <1>2, <1>5, <3>1 DEF TypeOK
  <2>3. Stream'
    BY <1>1, <1>2, <1>3, <2>1 DEF Stream, Byte
  <2>4. Fifo'
    <3>1. got \in Nat /\ sent \in Nat
      BY DEF Stream
    <3>2. got' + Len(file) - (off + k) = sent
      <4>1. got + Len(file) - off = sent
        BY DEF Fifo
      <4>2. got + k + Len(file) - (off + k) = got + Len(file) - off
        BY <1>3, <3>1
      <4> QED BY <1>1, <4>1, <4>2
    <3>3. \A i \in (off + k + 1)..Len(file) : file[i][1] = got' + i - (off + k)
      <4> SUFFICES ASSUME NEW i \in (off + k + 1)..Len(file)
                   PROVE  file[i][1] = got' + i - (off + k)
        OBVIOUS
      <4>1. i \in (off + 1)..Len(file) /\ got + i - off = got + k + i - (off + k)
        BY <1>3, <3>1
      <4>2. file[i][1] = got + i - off
        BY <4>1 DEF Fifo
      <4> QED BY <1>1, <4>1, <4>2
    <3> QED BY <1>2, <2>1, <3>2, <3>3 DEF Fifo
  <2>5. NoLostWakeup'
    BY <1>2, <1>10, <2>1 DEF NoLostWakeup
  <2> QED BY <1>6, <1>7, <1>9, <2>2, <2>3, <2>4, <2>5
<1> QED BY <1>11, <1>12

(* writei() is through: what it wrote follows what was written before, and *)
(* whoever slept for data is woken.                                        *)
LEMMA WritepDoneInv ==
    ASSUME IInv, NEW p \in Proc, WritepDone(p)
    PROVE  IInv'
<1> USE DEF IInv
<1> DEFINE done == call[p].total - call[p].left
           new(k) == [i \in 1..k |-> <<sent + i, p, call[p].total, done + i>>]
           woken == Wanting \cup IF iread THEN {"readwait"} ELSE {}
           rest == [call[p] EXCEPT !.left = @ - Chunk(p)]
<1>1. PICK k \in Moved(Chunk(p)) : file' = file \o new(k) /\ sent' = sent + k
  BY DEF WritepDone
<1>2. /\ UNCHANGED <<iwrite, count, off, hold, got>>
      /\ lock' = FALSE /\ want' = FALSE /\ iread' = FALSE /\ pc[p] = "writei"
      /\ StepWith(p, "plock", rest, woken)
  BY DEF WritepDone
<1>3. /\ call[p].op = "write" /\ call[p].left \in Nat /\ call[p].total \in Nat
      /\ call[p].left > 0 /\ call[p].left <= call[p].total
  BY <1>2 DEF TypeOK, Calls
<1>4. Chunk(p) \in Nat /\ Chunk(p) <= call[p].left
  BY <1>3, LeastType, PipeAssumption DEF Chunk
<1>5. k \in Nat
  BY <1>4, MovedType
<1>6. done \in Nat
  BY <1>3
<1>7. /\ pc' = [q \in Proc |-> IF q = p THEN "plock"
                               ELSE IF pc[q] \in woken THEN "plock" ELSE pc[q]]
      /\ call' = [call EXCEPT ![p] = rest]
  BY <1>2 DEF StepWith
<1>8. rest = Call("write", call[p].total, call[p].left - Chunk(p))
  BY <1>3 DEF Call, TypeOK
<1>9. call[p].left - Chunk(p) \in Nat
  BY <1>3, <1>4
<1> HIDE DEF rest
<1>10. /\ rest.op = "write" /\ rest.total = call[p].total /\ rest.left = call[p].left - Chunk(p)
       /\ rest \in [op : {"none", "read", "write"} \cup End, total : Nat, left : Nat]
       /\ rest # NoCall
  BY <1>3, <1>8, <1>9 DEF Call, NoCall
<1>11. /\ new(k) \in Seq(Byte) /\ Len(new(k)) = k
       /\ \A i \in 1..k : new(k)[i] = <<sent + i, p, call[p].total, done + i>>
  <2>1. \A i \in 1..k : <<sent + i, p, call[p].total, done + i>> \in Byte
    BY <1>3, <1>5, <1>6 DEF Byte, Stream
  <2> HIDE DEF done
  <2>2. new(k) \in [1..k -> Byte]
    BY <2>1
  <2> QED BY <1>5, <2>2
<1> HIDE DEF new
<1>12. /\ file' \in Seq(Byte) /\ Len(file') = Len(file) + k
       /\ Len(file) \in Nat
       /\ \A i \in 1..(Len(file) + k) :
            file'[i] = IF i <= Len(file) THEN file[i] ELSE new(k)[i - Len(file)]
  BY <1>1, <1>11, ConcatProperties, LenProperties DEF Stream
<1>13. Stream'
  BY <1>1, <1>2, <1>5, <1>12 DEF Stream, Byte
<1>14. Fifo'
  <2>1. got' + Len(file') - off' = sent'
    BY <1>1, <1>2, <1>5, <1>12 DEF Fifo, TypeOK, Stream
  <2>2. ASSUME NEW i \in (off + 1)..(Len(file) + k)
        PROVE  file'[i][1] = got + i - off
    <3>0. i \in 1..(Len(file) + k) /\ i \in Nat
      BY <1>5, <1>12 DEF TypeOK
    <3>1. CASE i <= Len(file)
      <4>1. i \in (off + 1)..Len(file)
        BY <1>12, <3>0, <3>1 DEF TypeOK
      <4>2. file'[i] = file[i]
        BY <1>12, <3>0, <3>1
      <4>3. file[i][1] = got + i - off
        BY <4>1 DEF Fifo
      <4> QED BY <4>2, <4>3
    <3>2. CASE i > Len(file)
      <4>1. i - Len(file) \in 1..k
        BY <1>5, <1>12, <3>2
      <4>2. file'[i] = new(k)[i - Len(file)]
        BY <1>12, <3>0, <3>2
      <4>3. file'[i][1] = sent + (i - Len(file))
        BY <1>11, <4>1, <4>2
      <4>4. got + Len(file) - off = sent /\ got \in Nat /\ sent \in Nat /\ off \in Nat
        BY DEF Fifo, Stream, TypeOK
      <4>5. sent + (i - Len(file)) = got + i - off
        BY <1>12, <3>0, <4>4
      <4> QED BY <4>3, <4>5
    <3> QED BY <1>12, <3>0, <3>1, <3>2
  <2> QED BY <1>2, <1>12, <2>1, <2>2 DEF Fifo
<1>15. TypeOK'
  <2>1. off' \in Nat /\ off' <= Len(file')
    BY <1>2, <1>5, <1>12 DEF TypeOK
  <2>2. pc' \in [Proc -> PC] /\ pc'[p] = "plock"
    BY <1>7 DEF TypeOK, PC
  <2>3. /\ call' \in [Proc -> [op : {"none", "read", "write"} \cup End, total : Nat, left : Nat]]
        /\ call'[p] = rest /\ \A q \in Proc \ {p} : call'[q] = call[q]
    BY <1>7, <1>10 DEF TypeOK
  <2>4. \A q \in Proc : pc'[q] = "user" <=> call'[q] = NoCall
    BY <1>7, <1>10, <2>2, <2>3, WantingType DEF TypeOK, Sleeping
  <2> QED BY <1>2, <2>1, <2>2, <2>3, <2>4 DEF TypeOK
<1>16. Calls'
  <2> SUFFICES ASSUME NEW q \in Proc
               PROVE  /\ call'[q].left <= call'[q].total
                      /\ pc'[q] \in {"readi", "readwait"} => call'[q].op = "read"
                      /\ pc'[q] \in {"writei", "writewait"} => call'[q].op = "write"
                      /\ pc'[q] = "writei" => call'[q].left > 0
                      /\ call'[q].op \in End => /\ call'[q].op \in hold[q]
                                                /\ \A r \in Proc \ {q} : call'[q].op \notin hold[r]
    BY <1>2 DEF Calls
  <2>1. CASE q = p
    <3>1. call'[p] = rest /\ pc'[p] = "plock"
      BY <1>7 DEF TypeOK
    <3>2. rest.left <= rest.total
      BY <1>3, <1>4, <1>10
    <3> QED BY <1>10, <2>1, <3>1, <3>2 DEF End
  <2>2. CASE q # p
    BY <1>7, <2>2 DEF Calls, TypeOK
  <2> QED BY <2>1, <2>2
<1>17. Whole'
  <2> SUFFICES ASSUME NEW q \in Proc, call'[q].op = "write", call'[q].total <= PIPSIZ
               PROVE  call'[q].left \in {0, call'[q].total}
    BY DEF Whole
  <2>1. CASE q = p
    <3>1. call'[p] = rest
      BY <1>7 DEF TypeOK
    <3>2. call[p].left = call[p].total /\ call[p].left <= PIPSIZ
      BY <1>3, <1>10, <2>1, <3>1 DEF Whole
    <3>3. Chunk(p) = call[p].left
      BY <1>3, <3>2, PipeAssumption DEF Chunk, Least
    <3>4. rest.left = 0
      BY <1>3, <1>10, <3>3
    <3> QED BY <2>1, <3>1, <3>4
  <2>2. CASE q # p
    BY <1>7, <2>2 DEF Whole, TypeOK
  <2> QED BY <2>1, <2>2
<1>18. EndsCounted'
  BY <1>2 DEF EndsCounted, Open
<1>19. \A q \in Proc : pc[q] \in {"readi", "writei"} => q = p
  BY <1>2 DEF LockHeld
<1>20. LockHeld'
  <2>1. \A q \in Proc : pc'[q] \notin {"readi", "writei"}
    BY <1>7, <1>19
  <2> QED BY <1>2, <2>1 DEF LockHeld
<1>21. NoLostWakeup'
  <2>1. /\ want => "lockwait" \in woken
        /\ iread => "readwait" \in woken
    BY DEF Wanting
  <2>2. \A q \in Proc : /\ pc'[q] \notin {"lockwait", "readwait"}
                        /\ pc'[q] = "writewait" => pc[q] = "writewait"
    BY <1>7, <2>1 DEF NoLostWakeup
  <2>3. Len(file) >= PIPSIZ => Len(file') >= PIPSIZ
    BY <1>5, <1>12, PipeAssumption
  <2> QED BY <1>2, <2>2, <2>3 DEF NoLostWakeup
<1> QED BY <1>13, <1>14, <1>15, <1>16, <1>17, <1>18, <1>20, <1>21

(* closef() with the inode locked: the end is gone, and all are woken.     *)
LEMMA ClosefLockedInv ==
    ASSUME IInv, NEW p \in Proc, ClosefLocked(p)
    PROVE  IInv'
<1> USE DEF IInv
<1>0. PICK e \in End : e = call[p].op
  BY DEF ClosefLocked, Plocked
<1> DEFINE woken == Wanting \cup {"readwait", "writewait"}
<1>1. /\ UNCHANGED <<lock, file, off, sent, got>>
      /\ pc[p] = "plock" /\ ~lock
      /\ hold' = [hold EXCEPT ![p] = @ \ {e}]
      /\ iread' = FALSE /\ iwrite' = FALSE /\ count' = count - 1 /\ want' = FALSE
      /\ Step(p, "user", woken)
  BY <1>0 DEF ClosefLocked, Plocked, history
<1>2. e \in hold[p] /\ \A q \in Proc \ {p} : e \notin hold[q]
  BY <1>0, <1>1 DEF Calls
<1>3. woken \in SUBSET Sleeping /\ "user" \in PC
  BY WantingType DEF Sleeping, PC
<1>4. /\ pc'[p] = "user" /\ call'[p] = NoCall
      /\ \A q \in Proc \ {p} : /\ pc'[q] = IF pc[q] \in woken THEN "plock" ELSE pc[q]
                               /\ call'[q] = call[q]
      /\ pc' \in [Proc -> PC]
      /\ call' \in [Proc -> [op : {"none", "read", "write"} \cup End, total : Nat, left : Nat]]
      /\ \A q \in Proc : pc'[q] = "user" <=> call'[q] = NoCall
  BY <1>1, <1>3, StepShape
<1>5. NoCall.op = "none" /\ NoCall.left = 0 /\ NoCall.total = 0
  BY DEF NoCall, Call
<1>6. hold' \in [Proc -> SUBSET End] /\ \A q \in Proc : hold'[q] = hold[q] \ {e}
  BY <1>1, <1>2 DEF TypeOK
<1>7. \A q \in Proc \ {p} : call[q].op # e
  BY <1>2 DEF Calls, End
<1>8. Calls'
  <2> SUFFICES ASSUME NEW q \in Proc
               PROVE  /\ call'[q].left <= call'[q].total
                      /\ pc'[q] \in {"readi", "readwait"} => call'[q].op = "read"
                      /\ pc'[q] \in {"writei", "writewait"} => call'[q].op = "write"
                      /\ pc'[q] = "writei" => call'[q].left > 0
                      /\ call'[q].op \in End => /\ call'[q].op \in hold'[q]
                                                /\ \A r \in Proc \ {q} : call'[q].op \notin hold'[r]
    BY DEF Calls
  <2>1. CASE q = p
    BY <1>4, <1>5, <2>1 DEF End
  <2>2. CASE q # p
    <3>1. call'[q] = call[q] /\ pc'[q] \in {pc[q], "plock"}
      BY <1>4, <2>2
    <3> QED BY <1>6, <1>7, <2>2, <3>1 DEF Calls
  <2> QED BY <2>1, <2>2
<1>9. Whole'
  BY <1>4, <1>5 DEF Whole
<1>10. /\ ~ \E q \in Proc : e \in hold'[q]
       /\ \A d \in End \ {e} : (\E q \in Proc : d \in hold'[q]) <=> (\E q \in Proc : d \in hold[q])
       /\ \E q \in Proc : e \in hold[q]
  BY <1>2, <1>6
<1>11. EndsCounted' /\ count' \in 0..1
  <2>1. Open(e) = 1 /\ Open(e)' = 0
    BY <1>10 DEF Open
  <2>2. \A d \in End \ {e} : Open(d)' = Open(d)
    BY <1>10 DEF Open
  <2>3. \A d \in End : Open(d)' \in 0..1
    BY DEF Open
  <2>4. CASE e = "r"
    BY <1>1, <2>1, <2>2, <2>3, <2>4 DEF EndsCounted, End
  <2>5. CASE e = "w"
    BY <1>1, <2>1, <2>2, <2>3, <2>5 DEF EndsCounted, End
  <2> QED BY <2>4, <2>5 DEF End
<1>12. TypeOK'
  <2>1. count' \in 0..2
    BY <1>11
  <2> QED BY <1>1, <1>4, <1>6, <2>1 DEF TypeOK
<1>13. Stream' /\ Fifo'
  BY <1>1, SameStream
<1>14. LockHeld' /\ NoLostWakeup'
  <2>1. \A q \in Proc : pc[q] \notin {"readi", "writei", "lockwait"}
    BY <1>1 DEF LockHeld, NoLostWakeup
  <2>2. \A q \in Proc : pc'[q] \notin {"readi", "writei", "lockwait", "readwait", "writewait"}
    BY <1>4, <2>1
  <2> QED BY <1>1, <2>2 DEF LockHeld, NoLostWakeup
<1> QED BY <1>8, <1>9, <1>11, <1>12, <1>13, <1>14

-----------------------------------------------------------------------------
LEMMA NextInv == IInv /\ [Next]_vars => IInv'
<1> SUFFICES ASSUME IInv, [Next]_vars PROVE IInv'
  OBVIOUS
<1>1. CASE UNCHANGED vars
  <2>1. UNCHANGED <<lock, want, iread, iwrite, count, file, off, hold, pc, call, sent, got>>
    BY <1>1 DEF vars, inode, history
  <2>2. (TypeOK /\ Calls /\ Whole /\ EndsCounted)'
    BY <2>1 DEF IInv, TypeOK, Calls, Whole, EndsCounted, Open
  <2>3. (LockHeld /\ NoLostWakeup)'
    BY <2>1 DEF IInv, LockHeld, NoLostWakeup
  <2> QED BY <2>1, <2>2, <2>3, SameStream DEF IInv
<1>2. CASE Next
  <2>1. PICK p \in Proc : \/ \E n \in Reads \cup Writes : Read(p, n) \/ Write(p, n)
                          \/ \E e \in End : Close(p, e)
                          \/ Signal(p)
                          \/ Go(p)
    BY <1>2 DEF Next
  <2>2. CASE Go(p)
    BY <2>2, PlockSleepInv, ReadpLockedInv, ReadpDoneInv, WritepLockedInv, WritepDoneInv,
       ClosefLockedInv DEF Go
  <2> QED BY <2>1, <2>2, CallInv, CloseInv, SignalInv
<1> QED BY <1>1, <1>2

(* Every behaviour keeps the inductive invariant.                          *)
THEOREM Invariance == Spec => []IInv
BY InitInv, NextInv, PTL DEF Spec

(* Flags, counts and calls stay in range, and only a process in a call is  *)
(* in the kernel, with any number of readers and writers.                  *)
THEOREM TypeCorrect == Spec => []TypeOK
BY Invariance, PTL DEF IInv

(* plock() and prele(): the inode is locked exactly while one process      *)
(* transfers, though every sleep inside readp() and writep() gives it up.  *)
THEOREM PipeLocked == Spec => []LockHeld
BY Invariance, PTL DEF IInv

(* No process sleeps at PPIPE or for the inode once what it waits for has  *)
(* happened: readp(), writep() and closef() clear IREAD and IWRITE only    *)
(* with the wakeup() that belongs to them.                                 *)
THEOREM WakeupsNotLost == Spec => []NoLostWakeup
BY Invariance, PTL DEF IInv

(* The bytes of the pipe are read in the order in which they were written, *)
(* each once, across every reset of f_offset and i_size and whether or not *)
(* readi() and writei() stop early.                                        *)
THEOREM BytesInOrder == Spec => []Fifo
BY Invariance, PTL DEF IInv

-----------------------------------------------------------------------------
(* What AtomicWrites allows of a step. *)
Follows ==
    LET before == last'[4] - (sent' - sent)
    IN  last' # last /\ last'[3] <= PIPSIZ /\ before > 0
          => last[2] = last'[2] /\ last[3] = last'[3] /\ last[4] = before

(* A write of at most PIPSIZ bytes has no second part.                     *)
LEMMA OnePart == IInv /\ [Next]_vars => [Follows]_vars
<1> SUFFICES ASSUME IInv, Next, last' # last, last'[3] <= PIPSIZ,
                    last'[4] - (sent' - sent) > 0
             PROVE  FALSE
  BY DEF Follows
<1>1. PICK p \in Proc : WritepDone(p)
  BY DEF Next, Go, Read, Write, Close, Signal, PlockSleep, ReadpLocked, ReadpDone,
         WritepLocked, ClosefLocked, history
<1> DEFINE done == call[p].total - call[p].left
           new(k) == [i \in 1..k |-> <<sent + i, p, call[p].total, done + i>>]
<1>2. PICK k \in Moved(Chunk(p)) : sent' = sent + k /\ last' = IF k = 0 THEN last ELSE new(k)[k]
  BY <1>1 DEF WritepDone
<1>3. /\ call[p].op = "write" /\ call[p].left \in Nat /\ call[p].total \in Nat
      /\ call[p].left > 0 /\ sent \in Nat
  BY <1>1 DEF IInv, TypeOK, Calls, Stream, WritepDone
<1>4. k \in Nat /\ k # 0
  <2>1. Chunk(p) \in Nat
    BY <1>3, LeastType, PipeAssumption DEF Chunk
  <2> QED BY <1>2, <2>1, MovedType
<1>5. last' = <<sent + k, p, call[p].total, done + k>>
  BY <1>2, <1>4
<1>6. call[p].left = call[p].total
  BY <1>3, <1>5 DEF IInv, Whole
<1>7. last'[4] = k /\ sent' - sent = k
  BY <1>2, <1>3, <1>4, <1>5, <1>6
<1> QED BY <1>4, <1>7

(* pipe(2) holds: a write of at most PIPSIZ bytes is never interspersed    *)
(* with the data of another process.                                       *)
THEOREM ShortWritesAtomic == Spec => AtomicWrites
<1>1. Spec => [][Follows]_vars
  BY Invariance, OnePart, PTL DEF Spec
<1> QED BY <1>1 DEF AtomicWrites, Follows

=============================================================================

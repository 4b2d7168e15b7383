------------------------------ MODULE Callout ------------------------------
(***************************************************************************)
(* The callout table and the time of day: clock() and timeout() of         *)
(* sys/sys/clock.c, with the table of sys/h/callo.h.                       *)
(*                                                                         *)
(* A clock interrupt that finds the processor at base priority runs the    *)
(* functions that are due at spl5, and the once-a-second work at spl1.     *)
(* The clock interrupts at level 6, so further ticks may nest inside both; *)
(* a nested tick, like one that interrupts high-priority code, only counts *)
(* down the table and lbolt.  timeout() runs at spl7, in one step, and is  *)
(* called by devices, processes and the callout functions themselves.      *)
(***************************************************************************)
EXTENDS Integers, FiniteSets

CONSTANTS
    NCALL,      \* size of callout[]
    HZ,         \* ticks per second
    Req,        \* the (function, argument) pairs used with timeout()
    Tim,        \* the times used with timeout()
    Null,       \* a c_func of 0
    MaxTicks,   \* bound: ticks in a behaviour
    MaxNested   \* bound: ticks that nest in one clock interrupt

ASSUME TableAssumption == NCALL \in Nat \ {0} /\ HZ \in Nat \ {0}
ASSUME TimAssumption == Tim \subseteq Nat \ {0} /\ Null \notin Req
ASSUME BoundAssumption == MaxTicks \in Nat /\ MaxNested \in Nat

VARIABLES
    func, time,   \* c_func and c_time of the entries 0..NCALL-1, and of the
                  \* memory behind the table as entry NCALL
    panic,        \* timeout() has called panic()
    pc,           \* where the clock interrupt at base priority is
    p1, p2,       \* its pointers into the table
    nested,       \* ticks nested in it
    lbolt, tod,   \* ticks not yet in the time of day; the time of day
    ticks,        \* ticks since boot (history)
    due           \* the tick each request is for, -1 if it is not pending
                  \* (history)

vars == <<func, time, panic, pc, p1, p2, nested, lbolt, tod, ticks, due>>
table == <<func, time>>

Index == 0..NCALL

Init ==
    /\ func = [i \in Index |-> Null]
    /\ time = [i \in Index |-> 0]
    /\ panic = FALSE
    /\ pc = "idle"
    /\ p1 = 0 /\ p2 = 0 /\ nested = 0
    /\ lbolt = 0 /\ tod = 0 /\ ticks = 0
    /\ due = [r \in Req |-> -1]

-----------------------------------------------------------------------------
(* The first entry at which a scan stops: at one of a set, or at the end.  *)
Scan(stop) == CHOOSE i \in Index : /\ func[i] = Null \/ i \in stop
                                   /\ \A j \in 0..(i-1) : func[j] # Null /\ j \notin stop

(* timeout(): the sum of the times before entry i, and the entry before    *)
(* which a time of t belongs.                                              *)
Before[i \in 0..(NCALL+1)] == IF i = 0 THEN 0 ELSE Before[i-1] + time[i-1]
Place(t) == Scan({i \in Index : time[i] > t - Before[i]})

(* Mutant of Insert: the entry that follows keeps its time. *)
Bug_InsertKeepsTimes(r, t, i) ==
    LET moved == (i+1)..(Scan({}) + 1)
    IN  /\ func' = [j \in Index |-> IF j = i THEN r
                                    ELSE IF j \in moved THEN func[j-1] ELSE func[j]]
        /\ time' = [j \in Index |-> IF j = i THEN t - Before[i]
                                    ELSE IF j \in moved THEN time[j-1] ELSE time[j]]

(* The table with r put before entry i: the entries from i on, up to and   *)
(* with the one that ends the table, move up by one, and what was entry i  *)
(* counts from the new one.                                                *)
Insert(r, t, i) ==
    LET moved == (i+1)..(Scan({}) + 1)
        t1 == t - Before[i]
    IN  /\ func' = [j \in Index |-> IF j = i THEN r
                                    ELSE IF j \in moved THEN func[j-1] ELSE func[j]]
        /\ time' = [j \in Index |-> IF j = i THEN t1
                                    ELSE IF j = i + 1 THEN time[i] - t1
                                    ELSE IF j \in moved THEN time[j-1] ELSE time[j]]

(* timeout(r, t), when the requests d are pending.  The test for room      *)
(* looks at the place of the entry, not at the end of the table.           *)
Timeout(r, t, d) ==
    LET i == Place(t) IN
    /\ d[r] = -1
    /\ IF i >= NCALL - 1
       THEN panic' = TRUE /\ due' = d /\ UNCHANGED table
       ELSE /\ Insert(r, t, i)
            /\ due' = [d EXCEPT ![r] = ticks + t]
            /\ UNCHANGED panic

(* A device or a process, not held up by the clock interrupt, sets a       *)
(* request that is not pending.                                            *)
SetTimeout(r, t) ==
    /\ ~panic
    /\ pc \in {"idle", "second"}
    /\ Timeout(r, t, due)
    /\ UNCHANGED <<pc, p1, p2, nested, lbolt, tod, ticks>>

-----------------------------------------------------------------------------
(* Mutant of CountDown: every entry is counted down. *)
Bug_CountDownAll ==
    time' = [i \in Index |-> IF func[i] # Null /\ time[i] > 0 THEN time[i] - 1
                             ELSE time[i]]

(* clock(): count down the first entry whose time is not zero, if there is *)
(* an entry at all.                                                        *)
CountDown ==
    LET i == Scan({j \in Index : time[j] > 0})
    IN  IF func[0] = Null THEN UNCHANGED time
        ELSE time' = [time EXCEPT ![i] = @ - 1]

(* A tick that interrupts high-priority code, the clock's own included:    *)
(* nothing is called, and a full second waits in lbolt.                    *)
TickHigh ==
    /\ ~panic
    /\ ticks < MaxTicks
    /\ pc # "idle" => nested < MaxNested
    /\ ticks' = ticks + 1
    /\ CountDown
    /\ lbolt' = lbolt + 1
    /\ nested' = IF pc = "idle" THEN 0 ELSE nested + 1
    /\ UNCHANGED <<func, panic, pc, p1, p2, tod, due>>

(* A tick at base priority begins. *)
TickBase ==
    /\ ~panic
    /\ pc = "idle"
    /\ ticks < MaxTicks
    /\ ticks' = ticks + 1
    /\ CountDown
    /\ pc' = IF func[0] # Null /\ time'[0] <= 0 THEN "call" ELSE "out"
    /\ p1' = 0
    /\ nested' = 0
    /\ UNCHANGED <<func, panic, p2, lbolt, tod, due>>

(* The function of entry p1 is called, and may itself call timeout(), for  *)
(* itself again or for another function.                                   *)
CallDue ==
    /\ ~panic
    /\ pc = "call"
    /\ func[p1] # Null /\ time[p1] <= 0
    /\ LET called == [due EXCEPT ![func[p1]] = -1] IN
       \/ due' = called /\ UNCHANGED <<table, panic>>
       \/ \E r \in Req, t \in Tim : Timeout(r, t, called)
    /\ p1' = p1 + 1
    /\ UNCHANGED <<pc, p2, nested, lbolt, tod, ticks>>

(* No more functions are due. *)
CallEnd ==
    /\ ~panic
    /\ pc = "call"
    /\ func[p1] = Null \/ time[p1] > 0
    /\ pc' = "move"
    /\ p2' = 0
    /\ UNCHANGED <<table, panic, p1, nested, lbolt, tod, ticks, due>>

(* Mutant of Move: the end of the table stays where it was. *)
Bug_MoveNoEnd ==
    /\ ~panic
    /\ pc = "move"
    /\ IF func[p1] = Null
       THEN /\ pc' = "out" /\ p1' = 0 /\ p2' = 0
            /\ UNCHANGED table
       ELSE /\ func' = [func EXCEPT ![p2] = func[p1]]
            /\ time' = [time EXCEPT ![p2] = time[p1]]
            /\ p1' = p1 + 1 /\ p2' = p2 + 1
            /\ UNCHANGED pc
    /\ UNCHANGED <<panic, nested, lbolt, tod, ticks, due>>

(* Entry p1 moves down to p2, until the end of the table has moved.        *)
Move ==
    /\ ~panic
    /\ pc = "move"
    /\ func' = [func EXCEPT ![p2] = func[p1]]
    /\ IF func[p1] = Null
       THEN /\ pc' = "out" /\ p1' = 0 /\ p2' = 0
            /\ UNCHANGED time
       ELSE /\ time' = [time EXCEPT ![p2] = time[p1]]
            /\ p1' = p1 + 1 /\ p2' = p2 + 1
            /\ UNCHANGED pc
    /\ UNCHANGED <<panic, nested, lbolt, tod, ticks, due>>

(* Mutant of Out: lbolt restarts from 0. *)
Bug_OutRestarts ==
    /\ ~panic
    /\ pc = "out"
    /\ IF lbolt + 1 >= HZ
       THEN /\ lbolt' = 0 /\ tod' = tod + 1
            /\ pc' = "second"
       ELSE /\ lbolt' = lbolt + 1 /\ tod' = tod
            /\ pc' = "idle"
    /\ UNCHANGED <<table, panic, p1, p2, nested, ticks, due>>

(* lbolt counts the tick; after a second the time of day goes on, and the  *)
(* once-a-second work is done at spl1.                                     *)
Out ==
    /\ ~panic
    /\ pc = "out"
    /\ IF lbolt + 1 >= HZ
       THEN /\ lbolt' = lbolt + 1 - HZ /\ tod' = tod + 1
            /\ pc' = "second"
       ELSE /\ lbolt' = lbolt + 1 /\ tod' = tod
            /\ pc' = "idle"
    /\ UNCHANGED <<table, panic, p1, p2, nested, ticks, due>>

SecondEnd ==
    /\ ~panic
    /\ pc = "second"
    /\ pc' = "idle"
    /\ UNCHANGED <<table, panic, p1, p2, nested, lbolt, tod, ticks, due>>

Next == \/ \E r \in Req, t \in Tim : SetTimeout(r, t)
        \/ TickHigh \/ TickBase \/ CallDue \/ CallEnd \/ Move \/ Out \/ SecondEnd

Spec == Init /\ [][Next]_vars

-----------------------------------------------------------------------------
(* The table, the pointers and the counters stay in range. *)
TypeOK ==
    /\ func \in [Index -> Req \cup {Null}]
    /\ time \in [Index -> Int]
    /\ panic \in BOOLEAN
    /\ pc \in {"idle", "call", "move", "out", "second"}
    /\ p1 \in Index /\ p2 \in Index /\ nested \in 0..MaxNested
    /\ lbolt \in Nat /\ tod \in Nat /\ ticks \in 0..MaxTicks
    /\ due \in [Req -> Nat \cup {-1}]

(* The entries in use. *)
Used == {i \in Index : \A j \in 0..i : func[j] # Null}

(* Nothing is lost or called twice: outside the clock interrupt's own work *)
(* on it the table has exactly one entry for each pending request.         *)
Pending == {r \in Req : due[r] # -1}
OneEntryEach ==
    pc \in {"idle", "out", "second"} =>
      /\ {func[i] : i \in Used} = Pending
      /\ Cardinality(Used) = Cardinality(Pending)

(* clock.c: "The time in each structure entry is the number of HZ's more   *)
(* than the previous entry".  The entries up to any request add up to the  *)
(* ticks it still has to wait, however many ticks were held off or nested. *)
TimesAddUp ==
    pc \in {"idle", "out", "second"} =>
      \A i \in Used :
        Before[i + 1] = IF due[func[i]] > ticks THEN due[func[i]] - ticks ELSE 0

(* No function is called before its time. *)
NeverEarly ==
    [][\A r \in Req : due[r] # -1 /\ due'[r] # due[r] => due[r] <= ticks]_vars

(* clock.c, time of day: no tick is lost, held off or nested as it may be. *)
TicksKept == HZ * tod + lbolt = IF pc \in {"idle", "second"} THEN ticks ELSE ticks - 1

=============================================================================

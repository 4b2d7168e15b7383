------------------------------ MODULE CoreMap ------------------------------
(***************************************************************************)
(* The resource map of sys/sys/malloc.c and sys/h/map.h: coremap, the free *)
(* core of the machine (swapmap is the same without the scheduler).  A map *)
(* is an array of (m_size, m_addr) entries in order of address, ended by   *)
(* the first entry of size 0.  malloc() and mfree() run to their end       *)
(* without a sleep and are never called from interrupts, so each is one    *)
(* step.                                                                   *)
(*                                                                         *)
(* Nothing is free at first; startup() frees all of core, one unit at a    *)
(* time.  sched() sleeps on runin when the process it wants to swap in     *)
(* does not fit; mfree() and the clock wake it.                            *)
(***************************************************************************)
EXTENDS Integers

CONSTANTS
    Units,      \* core is the units 1..Units
    MAPSIZ      \* entries of the map (CMAPSIZ)

ASSUME UnitsAssumption == Units \in Nat \ {0}
ASSUME MapAssumption == MAPSIZ \in Nat \ {0}

VARIABLES
    size, addr,     \* m_size and m_addr of the entries
    runin,          \* sched() is to be woken when core becomes free
    want,           \* the units sched() sleeps for, 0 if it does not
    ret,            \* what the last malloc() returned
    held            \* the units that were handed out, or never freed
                    \* (history)

mapVars == <<size, addr, runin, want, ret, held>>

Index == 0..(MAPSIZ - 1)

(* n units from a on. *)
Run(a, n) == a..(a + n - 1)

Lowest(S) == CHOOSE i \in S : \A j \in S : i <= j

(* The entry that ends the map. *)
End == Lowest({i \in Index : size[i] = 0})

MapInit ==
    /\ size = [i \in Index |-> 0]
    /\ addr = [i \in Index |-> 0]
    /\ runin = FALSE
    /\ want = 0
    /\ ret = 0
    /\ held = 1..Units

-----------------------------------------------------------------------------
(* The field f of the map with entry i taken out: the entries behind it,   *)
(* with the one that ends the map, move down; the old end stays as it is.  *)
Closed(f, i) == [j \in Index |-> IF j >= i /\ j < End THEN f[j + 1] ELSE f[j]]

(* The field f of the map with v put in before entry i: the entries from i *)
(* on move up, over the entry that ends the map.  No new end is written:   *)
(* what is behind the old one has to be an end already.                    *)
Opened(f, i, v) == [j \in Index |-> IF j = i THEN v
                                    ELSE IF j > i /\ j <= End THEN f[j - 1]
                                    ELSE f[j]]

-----------------------------------------------------------------------------
(* Mutants of Fitting: an entry of exactly n units is passed over; the     *)
(* size is not looked at.                                                  *)
Bug_FittingLarger(n) == {i \in Index : i < End /\ size[i] > n}

(* The entries from which n units can be taken. *)
Fitting(n) == {i \in Index : i < End /\ size[i] >= n}

(* Mutants of TakeFrom: an entry that is used up stays in the map; the     *)
(* entry's address is not moved on.                                        *)
Bug_TakeFromKeepsEmpty(i, n) ==
    /\ size' = [size EXCEPT ![i] = @ - n]
    /\ addr' = [addr EXCEPT ![i] = @ + n]
Bug_TakeFromKeepsAddr(i, n) ==
    IF size[i] = n
    THEN /\ size' = Closed(size, i)
         /\ addr' = Closed(addr, i)
    ELSE /\ size' = [size EXCEPT ![i] = @ - n]
         /\ UNCHANGED addr

(* n units are taken from the low end of entry i. *)
TakeFrom(i, n) ==
    IF size[i] = n
    THEN /\ size' = Closed(size, i)
         /\ addr' = Closed(addr, i)
    ELSE /\ size' = [size EXCEPT ![i] = @ - n]
         /\ addr' = [addr EXCEPT ![i] = @ + n]

(* malloc(coremap, n) *)
Malloc(n) ==
    /\ IF Fitting(n) = {}
       THEN /\ ret' = 0
            /\ UNCHANGED <<size, addr, held>>
       ELSE LET i == Lowest(Fitting(n)) IN
            /\ TakeFrom(i, n)
            /\ ret' = addr[i]
            /\ held' = held \cup Run(addr[i], n)
    /\ UNCHANGED <<runin, want>>

-----------------------------------------------------------------------------
(* Mutant of Wake: the flag is cleared and nobody is woken. *)
Bug_WakeNobody == runin' = FALSE /\ UNCHANGED want

(* Wake sched(), if it asked for that. *)
Wake == /\ runin' = FALSE
        /\ want' = IF runin THEN 0 ELSE want

(* Mutant of MergeLeft: units that close a gap are joined to the entry     *)
(* before them only.                                                       *)
Bug_MergeLeftOnly(i, n, a) ==
    /\ size' = [size EXCEPT ![i - 1] = @ + n]
    /\ UNCHANGED addr

(* The units are joined to entry i - 1, which they follow, and, when they  *)
(* reach entry i, this one too.  The code does not ask whether entry i is  *)
(* the end of the map.                                                     *)
MergeLeft(i, n, a) ==
    IF a + n = addr[i]
    THEN /\ size' = Closed([size EXCEPT ![i - 1] = @ + n + size[i]], i)
         /\ addr' = Closed(addr, i)
    ELSE /\ size' = [size EXCEPT ![i - 1] = @ + n]
         /\ UNCHANGED addr

(* The units are joined to entry i, which they precede. *)
MergeRight(i, n, a) ==
    /\ size' = [size EXCEPT ![i] = @ + n]
    /\ addr' = [addr EXCEPT ![i] = @ - n]

(* The first entry behind address a, or the end of the map. *)
Place(a) == Lowest({j \in Index : addr[j] > a \/ size[j] = 0})

(* mfree(coremap, n, a), for n units from a on that the caller holds.  An  *)
(* expand() to the size a process already has frees 0 units at its end.    *)
Mfree(n, a) ==
    /\ Run(a, n) \subseteq held
    /\ n = 0 => a - 1 \in held
    /\ held' = held \ Run(a, n)
    /\ LET i == Place(a) IN
       IF i > 0 /\ addr[i - 1] + size[i - 1] = a THEN MergeLeft(i, n, a)
       ELSE IF a + n = addr[i] /\ size[i] # 0 THEN MergeRight(i, n, a)
       ELSE IF n # 0 THEN /\ size' = Opened(size, i, n)
                          /\ addr' = Opened(addr, i, a)
       ELSE UNCHANGED <<size, addr>>
    /\ Wake
    /\ UNCHANGED ret

-----------------------------------------------------------------------------
(* sched(): swapin() could not get n units, and nobody can be swapped out. *)
(* n is the malloc() for the process.  The second one of swapin(), for its *)
(* text, is not modelled: when xlock() sleeps between the two, core freed  *)
(* meanwhile counts for the second only, and a pair that now fits waits    *)
(* for the next mfree() or the clock.                                      *)
SchedSleep(n) ==
    /\ want = 0
    /\ Fitting(n) = {}
    /\ runin' = TRUE
    /\ want' = n
    /\ ret' = 0
    /\ UNCHANGED <<size, addr, held>>

(* clock(): once a second sched() is woken anyway. *)
ClockRunin == runin /\ Wake /\ UNCHANGED <<size, addr, ret, held>>

(* mfree() does not ask whether the map has room for one more entry.  When *)
(* it has filled the last one nothing ends the map, and the next call goes *)
(* on into what lies behind the array (swapmap, behind coremap).  What     *)
(* that does is not modelled: the model stops there.                       *)
Overflowed == size[MAPSIZ - 1] # 0

MapNext == /\ ~Overflowed
           /\ \/ \E n \in 1..Units : Malloc(n) \/ SchedSleep(n)
              \/ \E n \in 0..Units, a \in 1..(Units + 1) : Mfree(n, a)
              \/ ClockRunin

MapSpec == MapInit /\ [][MapNext]_mapVars

-----------------------------------------------------------------------------
(* The entries in use, and the units they describe. *)
Used == {i \in Index : \A j \in 0..i : size[j] # 0}
Free == UNION {Run(addr[i], size[i]) : i \in Used}

(* Sizes and addresses are of units there are. *)
MapTypeOK ==
    /\ size \in [Index -> 0..Units]
    /\ addr \in [Index -> 0..Units]
    /\ \A i \in Index : size[i] # 0 => addr[i] >= 1 /\ addr[i] + size[i] <= Units + 1
    /\ runin \in BOOLEAN /\ want \in 0..Units /\ ret \in 0..Units
    /\ held \subseteq 1..Units

(* mfree() writes no new end when it adds an entry, so after any sequence  *)
(* of calls there must be only ends behind the first one; and entry i is   *)
(* in use only with i separate runs of units, and units that are not free  *)
(* between them, below it.  So a map overflows only when core is in MAPSIZ *)
(* pieces, never by itself.                                                *)
EndsFollow ==
    \A i \in Index : size[i] # 0 => addr[i] > 2 * i /\ \A j \in 0..i : size[j] # 0

(* malloc.c: "In a map, the addresses are increasing", and mfree()         *)
(* combines "on one or both ends if possible": between two entries there   *)
(* is always a unit that is not free.                                      *)
Coalesced ==
    \A i, j \in Index : i < j /\ size[j] # 0 => addr[i] + size[i] < addr[j]

(* No unit is handed out twice and none is lost: the map describes exactly *)
(* the units that nobody holds.                                            *)
Conserved == Free = 1..Units \ held

(* sched() is never left asleep when what it waits for fits. *)
NoMissedCore == want # 0 => runin /\ Fitting(want) = {}

(* malloc() and mfree() implement the first-fit allocation of a set of     *)
(* units: a request is refused only if no free run is long enough, and     *)
(* gets the lowest one.                                                    *)
Abstract == INSTANCE FirstFit WITH free <- Free
IsFirstFit == Abstract!Spec

-----------------------------------------------------------------------------
(* The inductive invariant.  What room an entry needs is counted from its  *)
(* neighbours: two units at least for each entry.                          *)
Spaced ==
    \A i, j \in Index :
      i < j /\ size[j] # 0 => addr[i] + size[i] + 2 * (j - i) <= addr[j] + 1

(* The ends behind the map are alike: their address is that of no unit.    *)
EndsClear == \A i \in Index : size[i] = 0 => addr[i] = 0

MapInv == MapTypeOK /\ EndsFollow /\ EndsClear /\ Spaced /\ Conserved /\ NoMissedCore
=============================================================================

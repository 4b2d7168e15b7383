------------------------------ MODULE FirstFit ------------------------------
(***************************************************************************)
(* What malloc() and mfree() of sys/sys/malloc.c promise: a set of free    *)
(* units of a resource (core or swap space), from which a request gets the *)
(* lowest run of units that is long enough, wherever such a run is free.   *)
(***************************************************************************)
EXTENDS Integers

CONSTANT Units      \* the resource is the units 1..Units; 0 is "no room"

VARIABLES
    free,           \* the free units
    ret             \* what the last malloc() returned

(* n units from a on. *)
Run(a, n) == a..(a + n - 1)

Init == free = {} /\ ret = 0

(* n units are taken at a, the lowest place where they fit. *)
Take(n, a) ==
    /\ Run(a, n) \subseteq free
    /\ \A b \in 1..Units : Run(b, n) \subseteq free => a <= b
    /\ free' = free \ Run(a, n)
    /\ ret' = a

(* n units fit nowhere. *)
Refuse(n) ==
    /\ \A b \in 1..Units : ~(Run(b, n) \subseteq free)
    /\ ret' = 0
    /\ UNCHANGED free

(* n units that are not free are given back. *)
Give(n, a) ==
    /\ Run(a, n) \cap free = {}
    /\ free' = free \cup Run(a, n)
    /\ UNCHANGED ret

Next == \E n \in 0..Units :
          \/ n > 0 /\ Refuse(n)
          \/ \E a \in 1..Units : n > 0 /\ Take(n, a)
          \/ \E a \in 1..(Units + 1) : Run(a, n) \subseteq 1..Units /\ Give(n, a)

Spec == Init /\ [][Next]_<<free, ret>>
=============================================================================

--------------------------- MODULE Callout_proofs ---------------------------
(***************************************************************************)
(* Proofs about the callout table, for any requests, times, HZ and number  *)
(* of ticks, as long as one tick at most nests in a clock interrupt and    *)
(* the table has more than three entries for each request: then timeout()  *)
(* never panics, every request that is pending has one entry, the times    *)
(* add up, and no function is called early.  The ticks are kept always.    *)
(*                                                                         *)
(* A bound on both is needed: a second nested tick may count down an entry *)
(* that is overwritten, and a table that is nearly full loses the entry    *)
(* that ends it.  Three for each request is what the argument gives.       *)
(***************************************************************************)
EXTENDS Callout, FiniteSetTheorems, WellFoundedInduction, TLAPS

-----------------------------------------------------------------------------
(* The inductive invariant.                                                *)

(* The ticks that a request has to wait when n ticks have passed, the      *)
(* requests that are pending and those whose time has come.                *)
Wait(d, n, r) == IF d[r] > n THEN d[r] - n ELSE 0
Waiting(d) == {r \in Req : d[r] # -1}
Come(d, n) == {r \in Req : d[r] # -1 /\ d[r] <= n}

(* A table that ends at entry e, of which the entries below m and those    *)
(* from a on count.                                                        *)
Ends(f, e) == e \in Index /\ f[e] = Null /\ \A i \in 0..(e-1) : f[i] \in Req
Live(m, a, e) == 0..(m-1) \cup a..(e-1)

(* The ticks that the entry before i has to wait. *)
Base(f, d, n, m, a, i) ==
    LET w(j) == Wait(d, n, f[j])
    IN  IF i = a THEN IF m = 0 THEN 0 ELSE w(m-1)
        ELSE IF i = 0 THEN 0 ELSE w(i-1)

(* Each pending request has one entry, with the time it has to wait more   *)
(* than the one before, in the order of their times.                       *)
Kept(f, x, d, n, m, a, e) ==
    /\ \A i, j \in Live(m, a, e) : f[i] = f[j] => i = j
    /\ \A i \in Live(m, a, e) : f[i] \in Waiting(d)
    /\ \A r \in Waiting(d) : \E i \in Live(m, a, e) : f[i] = r
    /\ \A i, j \in Live(m, a, e) : i < j => Wait(d, n, f[i]) <= Wait(d, n, f[j])
    /\ \A i \in Live(m, a, e) : x[i] = Wait(d, n, f[i]) - Base(f, d, n, m, a, i)

Types ==
    /\ func \in [Index -> Req \cup {Null}] /\ time \in [Index -> Int]
    /\ pc \in {"idle", "call", "move", "out", "second"}
    /\ nested \in 0..MaxNested /\ lbolt \in Nat /\ tod \in Nat /\ ticks \in 0..MaxTicks
    /\ due \in [Req -> Nat \cup {-1}]
    /\ panic = FALSE

(* The pointers of the clock interrupt, the entries it has called, and     *)
(* that the first entry left is not due unless a tick has nested since.    *)
Pointers(e) ==
    /\ p1 \in 0..e /\ p2 \in Nat
    /\ pc \notin {"call", "move"} => p1 = 0
    /\ pc # "move" => p2 = 0
    /\ pc = "move" => p2 < p1
    /\ pc = "call" /\ p1 = 0 => 0 < e /\ time[0] <= 0
    /\ p2 = 0 => \A i \in 0..(p1-1) : time[i] = 0
    /\ pc = "move" /\ nested = 0 /\ p2 = 0 /\ p1 < e => time[p1] > 0
    /\ pc = "move" /\ nested = 0 /\ p2 > 0 => time[0] > 0

(* The entries that are called, and those that still will be, are not more *)
(* than the requests, once for the interrupt and once for the nested tick. *)
Size ==
    pc = "call" => p1 + Cardinality(Come(due, ticks))
                     <= (IF nested = 0 THEN Cardinality(Req) ELSE Cardinality(Req) + Cardinality(Req))

Table(e) == Ends(func, e) /\ Pointers(e) /\ Size /\ Kept(func, time, due, ticks, p2, p1, e)

IInv == Types /\ \E e \in Index : Table(e)
-----------------------------------------------------------------------------
(* Facts about the operators, for any table and any requests.              *)

(* A set of numbers has a smallest one. *)
LEMMA SmallestExists ==
    ASSUME NEW S \in SUBSET Nat, S # {}
    PROVE  \E m \in S : \A k \in S : m <= k
<1> DEFINE R == {ss \in Nat \X Nat : ss[1] < ss[2]}
<1>1. IsWellFoundedOn(R, Nat)
  BY NatLessThanWellFounded, Zenon DEF OpToRel
<1> HIDE DEF R
<1>2. PICK m \in S : \A k \in S : ~(<<k, m>> \in R)
  BY <1>1, WFMin
<1>3. ASSUME NEW k \in S PROVE m <= k
  <2>1. <<k, m>> \notin R /\ <<k, m>> \in Nat \X Nat
    BY <1>2
  <2> QED
    BY <2>1 DEF R
<1> QED
  BY <1>3

(* What a table is made of. *)
Shape(f, x, d, n) ==
    /\ f \in [Index -> Req \cup {Null}] /\ x \in [Index -> Int]
    /\ d \in [Req -> Nat \cup {-1}] /\ n \in Nat

LEMMA WaitIs ==
    ASSUME NEW d \in [Req -> Nat \cup {-1}], NEW n \in Nat, NEW r \in Req
    PROVE  /\ Wait(d, n, r) \in Nat
           /\ Wait(d, n, r) = 0 <=> d[r] <= n
           /\ Wait(d, n+1, r) = IF Wait(d, n, r) = 0 THEN 0 ELSE Wait(d, n, r) - 1
<1>1. d[r] \in Int
  OBVIOUS
<1> QED
  BY <1>1 DEF Wait

(* The entries that count hold requests, and are the ones given. *)
LEMMA LiveIs ==
    ASSUME NEW f, NEW e, Ends(f, e), NEW m \in Nat, NEW a \in 0..e, m <= a
    PROVE  /\ \A i \in Live(m, a, e) : i \in Index /\ i \in 0..(e-1) /\ f[i] \in Req
           /\ \A i \in Int : i \in Live(m, a, e) <=> (0 <= i /\ i < m) \/ (a <= i /\ i < e)
BY TableAssumption DEF Ends, Live, Index

(* The entry before a live one is the last live entry below it.            *)
LEMMA BaseIs ==
    ASSUME NEW f, NEW e, Ends(f, e), NEW m \in Nat, NEW a \in 0..e, m <= a,
           NEW d, NEW n, NEW i \in Live(m, a, e)
    PROVE  \/ /\ Base(f, d, n, m, a, i) = 0
              /\ \A j \in Live(m, a, e) : i <= j
           \/ \E k \in Live(m, a, e) :
                /\ k < i
                /\ Base(f, d, n, m, a, i) = Wait(d, n, f[k])
                /\ \A j \in Live(m, a, e) : j < i => j <= k
<1>1. i \in Nat /\ (i < m \/ (a <= i /\ i < e))
  BY LiveIs DEF Ends, Index
<1>2. e \in Nat
  BY DEF Ends, Index
<1>3. \A j \in Live(m, a, e) : j \in Int /\ ((0 <= j /\ j < m) \/ (a <= j /\ j < e))
  BY <1>2 DEF Live
<1>4. CASE i = a /\ m = 0
  BY <1>3, <1>4, <1>1 DEF Base
<1>5. CASE i = a /\ m # 0
  <2>1. m - 1 \in Live(m, a, e) /\ m - 1 < i
    BY <1>5 DEF Live
  <2>2. Base(f, d, n, m, a, i) = Wait(d, n, f[m-1])
    BY <1>5 DEF Base
  <2> QED
    BY <2>1, <2>2, <1>3, <1>5
<1>6. CASE i # a /\ i = 0
  BY <1>3, <1>6 DEF Base
<1>7. CASE i # a /\ i # 0
  <2>1. i - 1 \in Live(m, a, e) /\ i - 1 < i
    BY <1>1, <1>2, <1>7 DEF Live
  <2>2. Base(f, d, n, m, a, i) = Wait(d, n, f[i-1])
    BY <1>7 DEF Base
  <2> QED
    BY <2>1, <2>2, <1>3, <1>1
<1> QED
  BY <1>4, <1>5, <1>6, <1>7

(* One tick: the first entry with time left is the first whose request     *)
(* still waits, and all that wait come one tick closer.                    *)
LEMMA TickKeeps ==
    ASSUME NEW f, NEW x, NEW d, NEW n, Shape(f, x, d, n),
           NEW e, Ends(f, e), NEW m \in Nat, NEW a \in 0..e, m <= a,
           Kept(f, x, d, n, m, a, e),
           NEW i \in 0..e, i = e \/ x[i] > 0,
           \A j \in 0..(i-1) : x[j] <= 0,
           i = e \/ i \in Live(m, a, e)
    PROVE  Kept(f, [x EXCEPT ![i] = @ - 1], d, n+1, m, a, e)
<1> DEFINE L == Live(m, a, e)
           W(j) == Wait(d, n, f[j])
           V(j) == Wait(d, n+1, f[j])
           B(j) == Base(f, d, n, m, a, j)
           y == [x EXCEPT ![i] = @ - 1]
<1>1. \A j \in L : /\ j \in Index /\ j \in 0..(e-1) /\ f[j] \in Req
                   /\ W(j) \in Nat /\ x[j] \in Int
                   /\ V(j) = IF W(j) = 0 THEN 0 ELSE W(j) - 1
  BY LiveIs, WaitIs DEF Shape
<1>2. \A j \in L : x[j] = W(j) - B(j)
  BY DEF Kept
<1>3. \A j, k \in L : j < k => W(j) <= W(k)
  BY DEF Kept
<1>4. \A j \in L : \/ B(j) = 0 /\ (\A k \in L : j <= k)
                   \/ \E k \in L : /\ k < j /\ B(j) = W(k)
                                   /\ \A l \in L : l < j => l <= k
  BY BaseIs
<1>5. L \subseteq Nat /\ e \in Nat /\ i \in Nat /\ e \in Index /\ i \in Index
  BY <1>1 DEF Ends, Index
<1> HIDE DEF L, W, V, B
<1>6. ASSUME NEW j \in L, j < i PROVE W(j) = 0
  <2> DEFINE S == {k \in L : k < i /\ W(k) # 0}
  <2>1. SUFFICES ASSUME S # {} PROVE FALSE
    BY <1>6
  <2>2. PICK k \in S : \A l \in S : k <= l
    BY <2>1, <1>5, SmallestExists
  <2>3. k \in L /\ k < i /\ W(k) # 0 /\ x[k] <= 0 /\ W(k) \in Nat /\ k \in Nat
    BY <2>2, <1>1, <1>5
  <2>4. x[k] = W(k) - B(k)
    BY <2>3, <1>2
  <2>5. CASE B(k) = 0
    BY <2>3, <2>4, <2>5
  <2>6. CASE \E l \in L : l < k /\ B(k) = W(l)
    <3>1. PICK l \in L : l < k /\ B(k) = W(l)
      BY <2>6
    <3>2. l < i /\ l \notin S
      BY <3>1, <2>2, <2>3, <1>5
    <3>3. W(l) = 0
      BY <3>2
    <3> QED
      BY <3>1, <3>3, <2>3, <2>4
  <2> QED
    BY <1>4, <2>3, <2>5, <2>6
<1>7. ASSUME NEW j \in L, j >= i PROVE W(j) # 0 /\ i \in L /\ x[i] > 0
  <2>1. i # e /\ i \in L /\ x[i] > 0
    BY <1>1, <1>5, <1>7 DEF L
  <2>2. B(i) = 0 \/ \E k \in L : B(i) = W(k)
    BY <2>1, <1>4
  <2>3. x[i] = W(i) - B(i) /\ W(i) \in Nat /\ x[i] \in Int
    BY <2>1, <1>1, <1>2
  <2>4. W(i) > 0
    BY <2>1, <2>2, <2>3, <1>1
  <2>5. W(i) <= W(j)
    BY <1>3, <2>1, <1>7, <1>5, <2>3
  <2> QED
    BY <2>1, <2>4, <2>5, <1>1
<1>8. \A j \in L : V(j) = IF j < i THEN W(j) ELSE W(j) - 1
  BY <1>1, <1>5, <1>6, <1>7
<1>9. ASSUME NEW j \in L
      PROVE  y[j] = V(j) - Base(f, d, n+1, m, a, j)
  <2> DEFINE C == Base(f, d, n+1, m, a, j)
  <2>1. \/ B(j) = 0 /\ C = 0 /\ (\A k \in L : j <= k)
        \/ \E k \in L : /\ k < j /\ B(j) = W(k) /\ C = V(k)
                        /\ \A l \in L : l < j => l <= k
    <3>1. CASE j = a /\ m = 0
      BY <3>1, <1>4, <1>1, <1>5, LiveIs DEF B, Base, L
    <3>2. CASE j = a /\ m # 0
      <4>1. B(j) = W(m-1) /\ C = V(m-1) /\ m - 1 \in L /\ m - 1 < j
        BY <3>2, <1>5 DEF B, Base, L, W, V, Live
      <4>2. \A l \in L : l < j => l <= m - 1
        BY <3>2, <1>5, LiveIs DEF L
      <4> QED
        BY <4>1, <4>2
    <3>3. CASE j # a /\ j = 0
      BY <3>3, <1>5 DEF B, Base
    <3>4. CASE j # a /\ j # 0
      <4>1. B(j) = W(j-1) /\ C = V(j-1) /\ j - 1 \in L /\ j - 1 < j
        BY <3>4, <1>5 DEF B, Base, L, W, V, Live
      <4>2. \A l \in L : l < j => l <= j - 1
        BY <1>5
      <4> QED
        BY <4>1, <4>2
    <3> QED
      BY <3>1, <3>2, <3>3, <3>4
  <2> HIDE DEF C
  <2>2. x[j] = W(j) - B(j) /\ W(j) \in Nat /\ x[j] \in Int /\ j \in Index /\ j \in Nat
    BY <1>1, <1>2, <1>5
  <2>3. y[j] = IF j = i THEN x[j] - 1 ELSE x[j]
    BY <2>2 DEF Shape
  <2>4. V(j) = IF j < i THEN W(j) ELSE W(j) - 1
    BY <1>8
  <2> HIDE DEF y
  <2>5. CASE j <= i
    <3>1. \A k \in L : k < j => W(k) = 0 /\ V(k) = 0
      BY <1>6, <1>8, <2>5, <1>5, <2>2
    <3>2. B(j) = 0 /\ C = 0
      BY <2>1, <3>1
    <3> QED
      BY <3>2, <2>2, <2>3, <2>4, <2>5, <1>5 DEF C
  <2>6. CASE j > i
    <3>1. i \in L
      BY <2>6, <2>2, <1>5, <1>7
    <3>2. PICK k \in L : k < j /\ B(j) = W(k) /\ C = V(k) /\ \A l \in L : l < j => l <= k
      BY <2>1, <3>1, <2>6, <1>5, <2>2
    <3>3. i <= k /\ k \in Nat /\ W(k) \in Nat
      BY <3>2, <3>1, <2>6, <1>5, <1>1
    <3>4. V(k) = W(k) - 1
      BY <3>3, <1>8, <1>5
    <3> QED
      BY <3>2, <3>3, <3>4, <2>2, <2>3, <2>4, <2>6, <1>5 DEF C
  <2> QED
    BY <2>5, <2>6, <2>2, <1>5
<1>10. \A j, k \in L : j < k => V(j) <= V(k)
  <2> SUFFICES ASSUME NEW j \in L, NEW k \in L, j < k PROVE V(j) <= V(k)
    OBVIOUS
  <2>1. W(j) <= W(k) /\ W(j) \in Nat /\ W(k) \in Nat
    BY <1>3, <1>1
  <2> QED
    BY <2>1, <1>1
<1>11. /\ \A j, k \in L : f[j] = f[k] => j = k
       /\ \A j \in L : f[j] \in Waiting(d)
       /\ \A r \in Waiting(d) : \E j \in L : f[j] = r
  BY DEF Kept, L
<1> QED
  BY <1>9, <1>10, <1>11 DEF Kept, L, V

-----------------------------------------------------------------------------
(* Facts about timeout()'s and clock()'s walks through the table.          *)

(* A scan stops, at the end at the latest. *)
LEMMA ScanIs ==
    ASSUME NEW e, Ends(func, e), NEW stop
    PROVE  /\ Scan(stop) \in 0..e
           /\ Scan(stop) = e \/ Scan(stop) \in stop
           /\ \A j \in 0..(Scan(stop) - 1) : j \notin stop
<1> DEFINE S == {i \in Index : func[i] = Null \/ i \in stop}
           P(i) == /\ func[i] = Null \/ i \in stop
                   /\ \A j \in 0..(i-1) : func[j] # Null /\ j \notin stop
<1>1. e \in S /\ S \subseteq Nat /\ e \in Nat /\ e <= NCALL
  BY TableAssumption DEF Ends, Index
<1>2. PICK m \in S : \A k \in S : m <= k
  BY <1>1, SmallestExists
<1>3. m \in Index /\ P(m)
  <2>1. m \in Index /\ (func[m] = Null \/ m \in stop)
    BY <1>2
  <2>2. ASSUME NEW j \in 0..(m-1) PROVE j \in Index /\ j \notin S
    BY <1>2, <2>1, TableAssumption DEF Index
  <2> QED
    BY <2>1, <2>2
<1>4. Scan(stop) \in Index /\ P(Scan(stop))
  BY <1>3 DEF Scan
<1> DEFINE s == Scan(stop)
<1> HIDE DEF s
<1>5. s \in Index /\ P(s)
  BY <1>4 DEF s
<1>6. s <= e
  <2>1. SUFFICES ASSUME e < s PROVE FALSE
    BY <1>1, <1>5 DEF Index
  <2>2. e \in 0..(s-1)
    BY <1>1, <1>5, <2>1 DEF Index
  <2> QED
    BY <2>2, <1>5 DEF Ends
<1>7. s = e \/ s \in stop
  <2>1. SUFFICES ASSUME s # e PROVE s \in stop
    OBVIOUS
  <2>2. s \in 0..(e-1)
    BY <1>1, <1>5, <1>6, <2>1 DEF Index
  <2>3. func[s] \in Req
    BY <2>2 DEF Ends
  <2> QED
    BY <2>3, <1>5, TimAssumption
<1>8. s \in 0..e
  BY <1>1, <1>5, <1>6 DEF Index
<1> QED
  BY <1>5, <1>7, <1>8 DEF s

(* The sums that timeout() subtracts one after the other. *)
LEMMA BeforeIs ==
    ASSUME time \in [Index -> Int]
    PROVE  /\ Before[0] = 0
           /\ \A i \in 1..(NCALL+1) : Before[i] = Before[i-1] + time[i-1]
<1> DEFINE D == 0..(NCALL+1)
           Sums(g, n) == /\ g \in [0..n -> Int] /\ g[0] = 0
                         /\ \A i \in 1..n : g[i] = g[i-1] + time[i-1]
           S == {n \in D : ~\E g : Sums(g, n)}
<1>1. S = {}
  <2>1. SUFFICES ASSUME S # {} PROVE FALSE
    OBVIOUS
  <2>2. S \subseteq Nat
    BY TableAssumption
  <2>3. PICK n \in S : \A k \in S : n <= k
    BY <2>1, <2>2, SmallestExists
  <2>4. n \in D /\ n \in Nat /\ ~\E g : Sums(g, n)
    BY <2>3, <2>2
  <2>5. n # 0
    <3>1. Sums([i \in 0..0 |-> 0], 0)
      OBVIOUS
    <3> QED
      BY <3>1, <2>4
  <2>6. n - 1 \in D /\ n - 1 \notin S /\ n - 1 \in Index
    <3>1. n - 1 \in D /\ n - 1 \in Index /\ ~(n <= n - 1)
      BY <2>4, <2>5, TableAssumption DEF Index
    <3> HIDE DEF S
    <3> QED
      BY <3>1, <2>3
  <2>7. PICK g : Sums(g, n-1)
    BY <2>6
  <2> DEFINE h == [i \in 0..n |-> IF i = n THEN g[n-1] + time[n-1] ELSE g[i]]
  <2>8. h \in [0..n -> Int]
    <3>1. time[n-1] \in Int /\ \A i \in 0..(n-1) : g[i] \in Int
      BY <2>6, <2>7
    <3> QED
      BY <3>1, <2>4, <2>5
  <2>9. h[0] = 0
    BY <2>4, <2>5, <2>7
  <2>10. ASSUME NEW i \in 1..n PROVE h[i] = h[i-1] + time[i-1]
    BY <2>4, <2>5, <2>7
  <2> QED
    BY <2>4, <2>8, <2>9, <2>10
<1>2. PICK g : Sums(g, NCALL+1)
  BY <1>1, TableAssumption
<1>3. g = [i \in D |-> IF i = 0 THEN 0 ELSE g[i-1] + time[i-1]]
  <2>1. \A i \in D : i # 0 => i \in 1..(NCALL+1)
    BY TableAssumption
  <2> QED
    BY <1>2, <2>1
<1>4. Before = [i \in D |-> IF i = 0 THEN 0 ELSE Before[i-1] + time[i-1]]
  BY <1>3 DEF Before
<1> QED
  BY <1>4, TableAssumption

(* When nothing below lo has time left and the entries from lo on are kept *)
(* in order, the sum before an entry is what its predecessor waits.        *)
LEMMA BeforeWaits ==
    ASSUME NEW d, NEW n, Shape(func, time, d, n), NEW e, Ends(func, e),
           NEW lo \in 0..e, \A i \in 0..(lo-1) : time[i] = 0,
           Kept(func, time, d, n, 0, lo, e)
    PROVE  \A i \in 0..e : Before[i] = IF i <= lo THEN 0 ELSE Wait(d, n, func[i-1])
<1> DEFINE T(i) == IF i <= lo THEN 0 ELSE Wait(d, n, func[i-1])
           S == {i \in 0..e : Before[i] # T(i)}
<1>1. e \in Nat /\ e <= NCALL /\ lo \in Nat /\ NCALL \in Nat
  BY TableAssumption DEF Ends, Index
<1>2. SUFFICES ASSUME S # {} PROVE FALSE
  BY Zenon
<1>3. S \subseteq Nat
  BY <1>1
<1>4. PICK i \in S : \A k \in S : i <= k
  BY <1>2, <1>3, SmallestExists
<1>5. i \in 0..e /\ i \in Nat /\ Before[i] # T(i)
  BY <1>4, <1>3
<1>6. Before[0] = 0 /\ \A j \in 1..(NCALL+1) : Before[j] = Before[j-1] + time[j-1]
  BY BeforeIs DEF Shape
<1>7. i # 0
  BY <1>5, <1>6, <1>1
<1>8. i - 1 \in 0..e /\ i - 1 \notin S /\ i - 1 \in Nat
  BY <1>4, <1>5, <1>7, <1>1
<1>9. Before[i] = T(i-1) + time[i-1]
  BY <1>6, <1>8, <1>5, <1>7, <1>1
<1>10. CASE i <= lo
  <2>1. time[i-1] = 0
    BY <1>10, <1>8, <1>1
  <2> QED
    BY <2>1, <1>9, <1>10, <1>5, <1>1
<1>11. CASE i > lo
  <2>1. i - 1 \in Live(0, lo, e)
    BY <1>11, <1>5, <1>1 DEF Live
  <2>2. time[i-1] = Wait(d, n, func[i-1]) - Base(func, d, n, 0, lo, i-1)
    BY <2>1 DEF Kept
  <2>3. Base(func, d, n, 0, lo, i-1) = IF i - 1 = lo THEN 0 ELSE Wait(d, n, func[i-2])
    BY <1>11, <1>8, <1>1 DEF Base
  <2>4. func[i-1] \in Req /\ Wait(d, n, func[i-1]) \in Nat
    BY <2>1, <1>1, LiveIs, WaitIs DEF Shape
  <2>5. i - 1 # lo => i - 2 \in Live(0, lo, e)
    BY <1>11, <1>5, <1>1 DEF Live
  <2>6. i - 1 # lo => Wait(d, n, func[i-2]) \in Nat
    BY <2>5, <1>1, LiveIs, WaitIs DEF Shape
  <2>7. T(i-1) = IF i - 1 = lo THEN 0 ELSE Wait(d, n, func[i-2])
    BY <1>11, <1>8, <1>1
  <2>8. T(i) = Wait(d, n, func[i-1])
    BY <1>11, <1>5, <1>1
  <2> HIDE DEF T
  <2> QED
    BY <2>2, <2>3, <2>4, <2>6, <2>7, <2>8, <1>9, <1>5
<1> QED
  BY <1>10, <1>11, <1>5, <1>1

(* Entry i is the place of a request that waits for t ticks, behind all    *)
(* that wait no longer, and b the ticks that the entry before it waits.    *)
IsPlace(f, d, n, lo, e, t, i, b) ==
    /\ i \in lo..e
    /\ \A j \in lo..(i-1) : Wait(d, n, f[j]) <= t
    /\ i = e \/ Wait(d, n, f[i]) > t
    /\ b = IF i <= lo THEN 0 ELSE Wait(d, n, f[i-1])

(* The table g, y is f, x with r put before entry i. *)
Inserted(f, x, e, r, t1, i, g, y) ==
    /\ g = [j \in Index |-> IF j = i THEN r
                            ELSE IF j \in (i+1)..(e+1) THEN f[j-1] ELSE f[j]]
    /\ y = [j \in Index |-> IF j = i THEN t1
                            ELSE IF j = i + 1 THEN x[i] - t1
                            ELSE IF j \in (i+1)..(e+1) THEN x[j-1] ELSE x[j]]

(* A table that is kept stays so when a request is put at its place,       *)
(* whatever the memory behind the table held.                              *)
LEMMA InsertKeeps ==
    ASSUME NEW f, NEW x, NEW d, NEW n, Shape(f, x, d, n), NEW e, Ends(f, e), e < NCALL,
           NEW lo \in 0..e, Kept(f, x, d, n, 0, lo, e),
           NEW r \in Req, d[r] = -1, NEW t \in Nat \ {0},
           NEW i, NEW b, IsPlace(f, d, n, lo, e, t, i, b),
           NEW g, NEW y, Inserted(f, x, e, r, t - b, i, g, y)
    PROVE  LET u == [d EXCEPT ![r] = n + t]
           IN  /\ Shape(g, y, u, n) /\ Ends(g, e+1) /\ Kept(g, y, u, n, 0, lo, e+1)
               /\ \A j \in 0..(lo-1) : y[j] = x[j]
<1> DEFINE u == [d EXCEPT ![r] = n + t]
           W(q) == Wait(d, n, q)
           V(q) == Wait(u, n, q)
<1> USE DEF IsPlace, Inserted
<1>1. e \in Nat /\ lo \in Nat /\ i \in Nat /\ NCALL \in Nat /\ e <= NCALL - 1 /\ lo <= i /\ i <= e
      /\ t \in Nat /\ n \in Nat
  BY TableAssumption DEF Ends, Index, Shape
<1>2. \A j \in 0..(e-1) : j \in Index /\ f[j] \in Req /\ W(f[j]) \in Nat /\ x[j] \in Int
  <2>1. \A j \in 0..(e-1) : j \in Index /\ f[j] \in Req
    BY <1>1 DEF Ends, Index
  <2>2. d \in [Req -> Nat \cup {-1}] /\ x \in [Index -> Int]
    BY DEF Shape
  <2> QED
    BY <2>1, <2>2, <1>1, WaitIs
<1>3. \A j \in lo..(e-1) : f[j] \in Waiting(d) /\ f[j] # r
  BY DEF Kept, Live, Waiting
<1>4. u \in [Req -> Nat \cup {-1}]
  BY <1>1 DEF Shape
<1>5. V(r) = t
  BY <1>1 DEF Shape, Wait
<1>6. \A q \in Req : q # r => V(q) = W(q) /\ V(q) \in Nat
  BY <1>4, <1>1, WaitIs DEF Wait, Shape
<1>7. Waiting(u) = Waiting(d) \cup {r}
  BY <1>1 DEF Waiting, Shape
<1> HIDE DEF u, W, V
<1>8. b \in Nat
  <2>1. i > lo => i - 1 \in 0..(e-1)
    BY <1>1
  <2> QED
    BY <2>1, <1>2, <1>1 DEF W
<1>9. /\ \A j \in 0..(i-1) : g[j] = f[j] /\ y[j] = x[j]
      /\ g[i] = r /\ y[i] = t - b
      /\ \A j \in (i+1)..(e+1) : g[j] = f[j-1]
      /\ y[i+1] = x[i] - (t - b)
      /\ \A j \in (i+2)..(e+1) : y[j] = x[j-1]
  BY <1>1 DEF Index
<1>10. g \in [Index -> Req \cup {Null}] /\ y \in [Index -> Int]
  <2>1. \A j \in Index : j \in (i+1)..(e+1) => j - 1 \in Index
    BY <1>1 DEF Index
  <2>2. i \in Index
    BY <1>1 DEF Index
  <2>3. \A j \in Index : f[j] \in Req \cup {Null} /\ x[j] \in Int
    BY DEF Shape
  <2>4. \A j \in Index : g[j] \in Req \cup {Null}
    BY <2>1, <2>3
  <2>5. \A j \in Index : y[j] \in Int
    BY <2>1, <2>2, <2>3, <1>1, <1>8
  <2> QED
    BY <2>4, <2>5, Zenon
<1>11. Ends(g, e+1)
  <2>1. e + 1 \in Index /\ g[e+1] = f[e] /\ f[e] = Null
    BY <1>1, <1>9 DEF Index, Ends
  <2>2. ASSUME NEW j \in 0..e PROVE g[j] \in Req
    <3>1. CASE j < i
      BY <3>1, <1>1, <1>2, <1>9
    <3>2. CASE j = i
      BY <3>2, <1>9
    <3>3. CASE j > i
      <4>1. j \in (i+1)..(e+1) /\ j - 1 \in 0..(e-1)
        BY <3>3, <1>1
      <4> QED
        BY <4>1, <1>2, <1>9
    <3> QED
      BY <3>1, <3>2, <3>3, <1>1
  <2> QED
    BY <2>1, <2>2, <1>1 DEF Ends
<1>12. \A j : j \in Live(0, lo, e+1) <=> j \in lo..e
  BY <1>1 DEF Live
<1>13. \A j \in lo..e : \/ j < i /\ j \in lo..(e-1) /\ g[j] = f[j]
                        \/ j = i /\ g[j] = r
                        \/ j > i /\ j - 1 \in lo..(e-1) /\ j - 1 >= i /\ g[j] = f[j-1]
  BY <1>1, <1>9
<1>14. \A j, k \in lo..(e-1) : /\ f[j] = f[k] => j = k
                               /\ j < k => W(f[j]) <= W(f[k])
  BY DEF Kept, Live, W
<1>15. ASSUME NEW j \in lo..e, NEW k \in lo..e, g[j] = g[k] PROVE j = k
  BY <1>13, <1>14, <1>15, <1>3, <1>1
<1>16. ASSUME NEW j \in lo..e PROVE g[j] \in Waiting(u)
  BY <1>13, <1>3, <1>7
<1>17. ASSUME NEW q \in Waiting(u) PROVE \E j \in lo..e : g[j] = q
  <2>1. CASE q = r
    BY <2>1, <1>9, <1>1
  <2>2. CASE q # r
    <3>1. PICK j \in lo..(e-1) : f[j] = q
      BY <2>2, <1>7 DEF Kept, Live
    <3>2. CASE j < i
      <4>1. j \in 0..(i-1) /\ j \in lo..e
        BY <3>2, <1>1
      <4> QED
        BY <4>1, <3>1, <1>9
    <3>3. CASE j >= i
      <4>1. j + 1 \in (i+1)..(e+1) /\ j + 1 \in lo..e /\ (j + 1) - 1 = j
        BY <3>3, <1>1
      <4> QED
        BY <4>1, <3>1, <1>9
    <3> QED
      BY <3>2, <3>3, <1>1
  <2> QED
    BY <2>1, <2>2
<1>18. \A j \in lo..(e-1) : V(f[j]) = W(f[j]) /\ W(f[j]) \in Nat
  BY <1>2, <1>3, <1>6, <1>1
<1>19. \A j \in lo..(e-1) : (j < i => W(f[j]) <= t) /\ (j >= i => t < W(f[j]))
  <2> SUFFICES ASSUME NEW j \in lo..(e-1) PROVE (j < i => W(f[j]) <= t) /\ (j >= i => t < W(f[j]))
    OBVIOUS
  <2>1. j < i => W(f[j]) <= t
    BY <1>1 DEF W
  <2>2. i # e => W(f[i]) > t
    BY DEF W
  <2>3. CASE j = i
    BY <2>3, <2>2, <1>1, <1>18
  <2>4. CASE j > i
    <3>1. i \in lo..(e-1) /\ i # e
      BY <1>1, <2>4
    <3>2. W(f[i]) <= W(f[j]) /\ W(f[i]) \in Nat /\ W(f[j]) \in Nat
      BY <3>1, <2>4, <1>14, <1>18
    <3> QED
      BY <3>1, <3>2, <2>2, <2>4, <1>1
  <2> QED
    BY <2>1, <2>3, <2>4, <1>1
<1>20. ASSUME NEW j \in lo..e, NEW k \in lo..e, j < k PROVE V(g[j]) <= V(g[k])
  <2>1. CASE j < i
    <3>1. V(g[j]) = W(f[j]) /\ j \in lo..(e-1) /\ W(f[j]) \in Nat
      BY <2>1, <1>13, <1>18, <1>1
    <3>2. CASE k < i
      BY <3>1, <3>2, <1>13, <1>18, <1>14, <1>20, <1>1
    <3>3. CASE k = i
      BY <3>1, <3>3, <1>9, <1>5, <1>19, <2>1
    <3>4. CASE k > i
      <4>1. k - 1 \in lo..(e-1) /\ g[k] = f[k-1] /\ k - 1 >= i
        BY <3>4, <1>13, <1>1
      <4>2. V(g[k]) = W(f[k-1]) /\ t < W(f[k-1]) /\ W(f[k-1]) \in Nat /\ W(f[j]) <= t
        BY <4>1, <3>1, <2>1, <1>18, <1>19
      <4> QED
        BY <4>2, <3>1, <1>1
    <3> QED
      BY <3>2, <3>3, <3>4, <1>1
  <2>2. CASE j = i
    <3>1. k - 1 \in lo..(e-1) /\ g[k] = f[k-1] /\ k - 1 >= i
      BY <2>2, <1>13, <1>20, <1>1
    <3>2. V(g[k]) = W(f[k-1]) /\ t < W(f[k-1]) /\ W(f[k-1]) \in Nat
      BY <3>1, <1>18, <1>19
    <3> QED
      BY <3>2, <2>2, <1>9, <1>5, <1>1
  <2>3. CASE j > i
    <3>1. /\ k - 1 \in lo..(e-1) /\ g[k] = f[k-1]
          /\ j - 1 \in lo..(e-1) /\ g[j] = f[j-1] /\ j - 1 < k - 1
      BY <2>3, <1>13, <1>20, <1>1
    <3> QED
      BY <3>1, <1>14, <1>18
  <2> QED
    BY <2>1, <2>2, <2>3, <1>1
<1>21. \A j \in lo..(e-1) : x[j] = W(f[j]) - (IF j = lo THEN 0 ELSE W(f[j-1]))
  <2> SUFFICES ASSUME NEW j \in lo..(e-1) PROVE x[j] = W(f[j]) - (IF j = lo THEN 0 ELSE W(f[j-1]))
    OBVIOUS
  <2>1. x[j] = Wait(d, n, f[j]) - Base(f, d, n, 0, lo, j)
    BY DEF Kept, Live
  <2>2. Base(f, d, n, 0, lo, j) = IF j = lo THEN 0 ELSE W(f[j-1])
    BY <1>1 DEF Base, W
  <2> QED
    BY <2>1, <2>2 DEF W
<1>22. ASSUME NEW j \in lo..e PROVE y[j] = V(g[j]) - (IF j = lo THEN 0 ELSE V(g[j-1]))
  <2>1. CASE j < i
    <3>1. /\ j \in lo..(e-1) /\ g[j] = f[j] /\ y[j] = x[j]
          /\ j # lo => j - 1 \in lo..(e-1) /\ g[j-1] = f[j-1]
      <4>1. j \in lo..(e-1) /\ j \in 0..(i-1)
        BY <2>1, <1>1
      <4>2. j # lo => j - 1 \in lo..(e-1) /\ j - 1 \in 0..(i-1)
        BY <2>1, <1>1
      <4> QED
        BY <4>1, <4>2, <1>9
    <3> QED
      BY <3>1, <1>21, <1>18
  <2>2. CASE j = i
    <3>1. j # lo => j - 1 \in lo..(e-1) /\ g[j-1] = f[j-1] /\ b = W(f[j-1])
      BY <2>2, <1>9, <1>1 DEF W
    <3>2. j = lo => b = 0
      BY <2>2, <1>1
    <3> QED
      BY <3>1, <3>2, <2>2, <1>9, <1>5, <1>18
  <2>3. CASE j = i + 1
    <3>1. g[j-1] = r /\ i \in lo..(e-1) /\ g[j] = f[i] /\ j # lo /\ y[j] = x[i] - (t - b)
      BY <2>3, <1>9, <1>1
    <3>2. b = IF i = lo THEN 0 ELSE W(f[i-1])
      BY <1>1 DEF W
    <3>3. x[i] = W(f[i]) - b /\ W(f[i]) \in Nat /\ V(g[j]) = W(f[i])
      BY <3>1, <3>2, <1>18, <1>21
    <3> QED
      BY <3>1, <3>3, <1>5, <1>8, <1>1
  <2>4. CASE j > i + 1
    <3>1. /\ j - 1 \in lo..(e-1) /\ g[j] = f[j-1] /\ y[j] = x[j-1] /\ j # lo /\ j - 1 # lo
          /\ (j - 1) - 1 \in lo..(e-1) /\ g[j-1] = f[(j-1)-1]
      <4>1. j \in (i+2)..(e+1) /\ j \in (i+1)..(e+1) /\ j - 1 \in (i+1)..(e+1)
        BY <2>4, <1>1
      <4> QED
        BY <4>1, <2>4, <1>9, <1>1
    <3> QED
      BY <3>1, <1>18, <1>21
  <2> QED
    BY <2>1, <2>2, <2>3, <2>4, <1>1
<1> HIDE DEF IsPlace, Inserted
<1>23. ASSUME NEW j \in lo..e PROVE y[j] = Wait(u, n, g[j]) - Base(g, u, n, 0, lo, j)
  <2>1. Base(g, u, n, 0, lo, j) = IF j = lo THEN 0 ELSE V(g[j-1])
    BY <1>1 DEF Base, V
  <2>2. y[j] = V(g[j]) - Base(g, u, n, 0, lo, j)
    BY <2>1, <1>22
  <2> QED
    BY <2>2, Zenon DEF V
<1>24. Kept(g, y, u, n, 0, lo, e+1)
  BY <1>12, <1>15, <1>16, <1>17, <1>20, <1>23 DEF Kept, V
<1>25. Shape(g, y, u, n)
  BY <1>4, <1>10, <1>1 DEF Shape
<1>26. \A j \in 0..(lo-1) : y[j] = x[j]
  BY <1>9, <1>1
<1> QED
  BY <1>11, <1>24, <1>25, <1>26 DEF u

(* There is an entry for each request that waits, and no other. *)
LEMMA CardKept ==
    ASSUME IsFiniteSet(Req), NEW f, NEW x, NEW d, NEW n, NEW e, Ends(f, e),
           NEW a \in 0..e, Kept(f, x, d, n, 0, a, e)
    PROVE  /\ IsFiniteSet(Waiting(d))
           /\ Cardinality(Waiting(d)) = e - a
           /\ Cardinality(Waiting(d)) <= Cardinality(Req)
           /\ Cardinality(Req) \in Nat
<1> DEFINE L == a..(e-1)
           h == [i \in L |-> f[i]]
<1>1. e \in Nat /\ a \in Nat /\ a <= e
  BY DEF Ends, Index
<1>2. \A i : i \in Live(0, a, e) <=> i \in L
  BY <1>1 DEF Live
<1>3. /\ \A i, j \in L : f[i] = f[j] => i = j
      /\ \A i \in L : f[i] \in Waiting(d)
      /\ \A r \in Waiting(d) : \E i \in L : f[i] = r
  BY <1>2 DEF Kept
<1> HIDE DEF L
<1>4. h \in Bijection(L, Waiting(d))
  BY <1>3 DEF Bijection, Injection, Surjection, IsInjective
<1>5. ExistsBijection(L, Waiting(d))
  BY <1>4 DEF ExistsBijection
<1>6. IsFiniteSet(L) /\ Cardinality(L) = e - a
  <2>1. e - 1 \in Int /\ a \in Int
    BY <1>1
  <2>2. IsFiniteSet(a..(e-1)) /\ Cardinality(a..(e-1)) = IF a > e - 1 THEN 0 ELSE (e - 1) - a + 1
    BY <2>1, FS_Interval
  <2> QED
    BY <2>2, <1>1 DEF L
<1>7. Waiting(d) \in SUBSET Req
  BY DEF Waiting
<1> QED
  BY <1>5, <1>6, <1>7, FS_Bijection, FS_Subset, FS_CardinalityType

(* timeout() finds room, and keeps the table. *)
LEMMA TimeoutKeeps ==
    ASSUME NEW d, Shape(func, time, d, ticks), NEW e, Ends(func, e), e <= NCALL - 2,
           NEW lo \in 0..e, \A j \in 0..(lo-1) : time[j] = 0,
           Kept(func, time, d, ticks, 0, lo, e), panic = FALSE,
           NEW r \in Req, NEW t \in Tim, Timeout(r, t, d)
    PROVE  /\ panic' = FALSE /\ d[r] = -1
           /\ due' = [d EXCEPT ![r] = ticks + t]
           /\ Shape(func', time', due', ticks) /\ Ends(func', e+1)
           /\ Kept(func', time', due', ticks, 0, lo, e+1)
           /\ \A j \in 0..(lo-1) : time'[j] = 0
<1> DEFINE st == {j \in Index : time[j] > t - Before[j]}
           W(j) == Wait(d, ticks, func[j])
<1>1. e \in Nat /\ NCALL \in Nat /\ lo \in Nat /\ t \in Nat \ {0} /\ ticks \in Nat /\ e \in Index
  BY TableAssumption, TimAssumption DEF Ends, Index, Shape
<1>2. PICK i : i = Place(t)
  OBVIOUS
<1>3. i \in 0..e /\ (i = e \/ i \in st) /\ \A j \in 0..(i-1) : j \notin st
  BY <1>2, ScanIs DEF Place
<1>4. Scan({}) = e
  BY ScanIs
<1>5. \A j \in 0..e : Before[j] = IF j <= lo THEN 0 ELSE W(j-1)
  BY BeforeWaits
<1>6. \A j \in lo..(e-1) : j \in Index /\ W(j) \in Nat /\ time[j] \in Int
  BY <1>1, WaitIs DEF Ends, Index, Shape
<1>7. \A j \in lo..(e-1) : time[j] = W(j) - Before[j] /\ Before[j] \in Nat
  <2> SUFFICES ASSUME NEW j \in lo..(e-1) PROVE time[j] = W(j) - Before[j] /\ Before[j] \in Nat
    OBVIOUS
  <2>1. time[j] = W(j) - Base(func, d, ticks, 0, lo, j)
    BY DEF Kept, Live
  <2>2. Base(func, d, ticks, 0, lo, j) = IF j = lo THEN 0 ELSE W(j-1)
    BY <1>1 DEF Base
  <2>3. Before[j] = IF j = lo THEN 0 ELSE W(j-1)
    BY <1>1, <1>5
  <2>4. j # lo => j - 1 \in lo..(e-1)
    BY <1>1
  <2> HIDE DEF W
  <2> QED
    BY <2>1, <2>2, <2>3, <2>4, <1>6
<1> HIDE DEF W
<1>8. \A j \in lo..(e-1) : j \in st <=> W(j) > t
  <2> SUFFICES ASSUME NEW j \in lo..(e-1) PROVE j \in st <=> W(j) > t
    OBVIOUS
  <2>1. j \in Index /\ W(j) \in Nat /\ time[j] = W(j) - Before[j] /\ Before[j] \in Nat
    BY <1>6, <1>7
  <2>2. j \in st <=> time[j] > t - Before[j]
    BY <2>1
  <2> QED
    BY <2>1, <2>2, <1>1
<1>9. \A j \in 0..(lo-1) : j \notin st
  <2> SUFFICES ASSUME NEW j \in 0..(lo-1) PROVE j \notin st
    OBVIOUS
  <2>1. time[j] = 0 /\ Before[j] = 0
    BY <1>1, <1>5
  <2> QED
    BY <2>1, <1>1
<1> HIDE DEF st
<1>10. i \in lo..e
  <2>1. i < lo => i \in 0..(lo-1) /\ i # e
    BY <1>1, <1>3
  <2> QED
    BY <2>1, <1>1, <1>3, <1>9
<1>11. \A j \in lo..(i-1) : W(j) <= t
  <2> SUFFICES ASSUME NEW j \in lo..(i-1) PROVE W(j) <= t
    OBVIOUS
  <2>1. j \in lo..(e-1) /\ j \in 0..(i-1)
    BY <1>1, <1>3, <1>10
  <2> QED
    BY <2>1, <1>1, <1>3, <1>6, <1>8
<1>12. i = e \/ W(i) > t
  <2>1. i # e => i \in lo..(e-1)
    BY <1>1, <1>10
  <2> QED
    BY <2>1, <1>3, <1>8
<1>13. ~(i >= NCALL - 1) /\ e < NCALL
  BY <1>1, <1>3
<1>14. d[r] = -1 /\ Insert(r, t, i) /\ due' = [d EXCEPT ![r] = ticks + t] /\ panic' = FALSE
  BY <1>2, <1>13 DEF Timeout
<1>15. PICK b : b = Before[i]
  OBVIOUS
<1>16. b = IF i <= lo THEN 0 ELSE Wait(d, ticks, func[i-1])
  BY <1>3, <1>5, <1>15 DEF W
<1>17. Inserted(func, time, e, r, t - b, i, func', time')
  BY <1>4, <1>14, <1>15, Zenon DEF Insert, Inserted
<1>18. PICK g, y : g = func' /\ y = time'
  OBVIOUS
<1>19. IsPlace(func, d, ticks, lo, e, t, i, b)
  BY <1>10, <1>11, <1>12, <1>16 DEF W, IsPlace
<1>20. PICK u : u = [d EXCEPT ![r] = ticks + t]
  OBVIOUS
<1>21. /\ Shape(g, y, u, ticks) /\ Ends(g, e+1) /\ Kept(g, y, u, ticks, 0, lo, e+1)
       /\ \A j \in 0..(lo-1) : y[j] = time[j]
  <2>1. d[r] = -1 /\ e < NCALL /\ t \in Nat \ {0}
    BY <1>1, <1>13, <1>14
  <2>2. Inserted(func, time, e, r, t - b, i, g, y)
    BY <1>17, <1>18
  <2>3. PICK n : n = ticks
    OBVIOUS
  <2>4. PICK f, x : f = func /\ x = time
    OBVIOUS
  <2>5. /\ Shape(f, x, d, n) /\ Ends(f, e) /\ Kept(f, x, d, n, 0, lo, e)
        /\ IsPlace(f, d, n, lo, e, t, i, b) /\ Inserted(f, x, e, r, t - b, i, g, y)
    BY <2>2, <2>3, <2>4, <1>19
  <2>6. LET w == [d EXCEPT ![r] = n + t]
        IN  /\ Shape(g, y, w, n) /\ Ends(g, e+1) /\ Kept(g, y, w, n, 0, lo, e+1)
            /\ \A j \in 0..(lo-1) : y[j] = x[j]
    BY <2>1, <2>5, InsertKeeps, SMTT(60)
  <2> QED
    BY <2>3, <2>4, <2>6, <1>20
<1> QED
  BY <1>14, <1>18, <1>20, <1>21

-----------------------------------------------------------------------------
(* The steps of the clock interrupt on a table, whatever it holds.         *)

(* Entry a is due, and its request is called. *)
IsCalled(f, x, d, a, e, u) ==
    a \in 0..e /\ a # e /\ x[a] <= 0 /\ u = [d EXCEPT ![f[a]] = -1]

(* The first entry that counts may be called; its request no longer waits. *)
LEMMA CalledKeeps ==
    ASSUME NEW f, NEW x, NEW d, NEW n, Shape(f, x, d, n), NEW e, Ends(f, e),
           NEW a, NEW u, IsCalled(f, x, d, a, e, u), Kept(f, x, d, n, 0, a, e)
    PROVE  /\ f[a] \in Req /\ f[a] \in Come(d, n) /\ x[a] = 0
           /\ Shape(f, x, u, n) /\ Kept(f, x, u, n, 0, a+1, e)
           /\ Waiting(u) = Waiting(d) \ {f[a]}
           /\ Come(u, n) = Come(d, n) \ {f[a]}
<1> DEFINE W(j) == Wait(d, n, f[j])
           V(j) == Wait(u, n, f[j])
<1> USE DEF IsCalled
<1>1. e \in Nat /\ a \in Nat /\ a < e /\ n \in Nat /\ d \in [Req -> Nat \cup {-1}]
  BY DEF Ends, Index, Shape
<1>2. \A j : /\ j \in Live(0, a, e) <=> j \in a..(e-1)
             /\ j \in Live(0, a+1, e) <=> j \in (a+1)..(e-1)
  BY <1>1 DEF Live
<1>3. \A j \in a..(e-1) : j \in Index /\ f[j] \in Req /\ W(j) \in Nat
  <2>1. \A j \in a..(e-1) : j \in Index /\ f[j] \in Req
    BY <1>1, TableAssumption DEF Ends, Index
  <2> QED
    BY <2>1, <1>1, WaitIs
<1>4. /\ \A j, k \in a..(e-1) : f[j] = f[k] => j = k
      /\ \A j \in a..(e-1) : f[j] \in Waiting(d)
      /\ \A r \in Waiting(d) : \E j \in a..(e-1) : f[j] = r
      /\ \A j, k \in a..(e-1) : j < k => W(j) <= W(k)
      /\ \A j \in a..(e-1) : x[j] = W(j) - Base(f, d, n, 0, a, j)
  BY <1>2 DEF Kept
<1>5. x[a] = 0 /\ W(a) = 0 /\ f[a] \in Req /\ f[a] \in Waiting(d) /\ a \in a..(e-1)
  <2>1. a \in a..(e-1)
    BY <1>1
  <2>2. Base(f, d, n, 0, a, a) = 0
    BY DEF Base
  <2>3. x[a] = W(a) - 0 /\ W(a) \in Nat
    BY <2>1, <2>2, <1>3, <1>4
  <2> QED
    BY <2>1, <2>3, <1>3, <1>4
<1>6. f[a] \in Come(d, n)
  BY <1>1, <1>5, WaitIs DEF Come, Waiting
<1>7. u \in [Req -> Nat \cup {-1}] /\ u[f[a]] = -1 /\ \A r \in Req : r # f[a] => u[r] = d[r]
  BY <1>1, <1>5
<1>8. \A j \in (a+1)..(e-1) : j \in a..(e-1) /\ f[j] # f[a] /\ V(j) = W(j)
  <2> SUFFICES ASSUME NEW j \in (a+1)..(e-1) PROVE j \in a..(e-1) /\ f[j] # f[a] /\ V(j) = W(j)
    OBVIOUS
  <2>1. j \in a..(e-1) /\ j # a
    BY <1>1
  <2>2. f[j] # f[a] /\ f[j] \in Req
    BY <2>1, <1>3, <1>4, <1>5
  <2> QED
    BY <2>1, <2>2, <1>7 DEF Wait
<1> HIDE DEF W, V, IsCalled
<1>9. Waiting(u) = Waiting(d) \ {f[a]} /\ Come(u, n) = Come(d, n) \ {f[a]}
  BY <1>7 DEF Waiting, Come
<1>10. ASSUME NEW j \in (a+1)..(e-1)
       PROVE  x[j] = V(j) - Base(f, u, n, 0, a+1, j)
  <2>1. Base(f, d, n, 0, a, j) = W(j-1)
    BY <1>1 DEF Base, W
  <2>2. Base(f, u, n, 0, a+1, j) = IF j = a + 1 THEN 0 ELSE V(j-1)
    BY <1>1 DEF Base, V
  <2>3. j = a + 1 => W(j-1) = 0
    BY <1>5, <1>1
  <2>4. j # a + 1 => V(j-1) = W(j-1)
    BY <1>8, <1>1
  <2>5. Base(f, u, n, 0, a+1, j) = W(j-1)
    BY <2>2, <2>3, <2>4
  <2>6. x[j] = W(j) - W(j-1)
    BY <2>1, <1>4, <1>8
  <2> QED
    BY <2>5, <2>6, <1>8
<1>11. \A r \in Waiting(u) : \E j \in (a+1)..(e-1) : f[j] = r
  <2> SUFFICES ASSUME NEW r \in Waiting(u) PROVE \E j \in (a+1)..(e-1) : f[j] = r
    OBVIOUS
  <2>1. PICK j \in a..(e-1) : f[j] = r
    BY <1>4, <1>9
  <2>2. j # a
    BY <2>1, <1>9
  <2> QED
    BY <2>1, <2>2, <1>1
<1>12. Kept(f, x, u, n, 0, a+1, e)
  <2>1. \A j, k \in (a+1)..(e-1) : f[j] = f[k] => j = k
    BY <1>4, <1>8
  <2>2. \A j \in (a+1)..(e-1) : f[j] \in Waiting(u)
    BY <1>4, <1>8, <1>9
  <2>3. \A j, k \in (a+1)..(e-1) : j < k => V(j) <= V(k)
    BY <1>4, <1>8
  <2> QED
    BY <2>1, <2>2, <2>3, <1>2, <1>10, <1>11 DEF Kept, V
<1>13. Shape(f, x, u, n)
  BY <1>7 DEF Shape
<1> QED
  BY <1>5, <1>6, <1>9, <1>12, <1>13

(* An entry moves down over those that are done with. *)
LEMMA MoveKeeps ==
    ASSUME NEW f, NEW x, NEW d, NEW n, Shape(f, x, d, n), NEW e, Ends(f, e),
           NEW m \in Nat, NEW a \in 0..e, m < a, a # e, Kept(f, x, d, n, m, a, e)
    PROVE  LET g == [f EXCEPT ![m] = f[a]]
               y == [x EXCEPT ![m] = x[a]]
           IN  Shape(g, y, d, n) /\ Ends(g, e) /\ Kept(g, y, d, n, m+1, a+1, e)
<1> DEFINE g == [f EXCEPT ![m] = f[a]]
           y == [x EXCEPT ![m] = x[a]]
           L == Live(m, a, e)
           M == Live(m+1, a+1, e)
           From(j) == IF j = m THEN a ELSE j
<1>1. /\ e \in Nat /\ a \in Nat /\ a < e /\ e <= NCALL /\ NCALL \in Nat
      /\ m \in Index /\ a \in Index
  BY TableAssumption DEF Ends, Index
<1>2. \A j \in Int : /\ j \in L <=> (0 <= j /\ j < m) \/ (a <= j /\ j < e)
                     /\ j \in M <=> (0 <= j /\ j <= m) \/ (a < j /\ j < e)
  BY <1>1 DEF Live
<1>3. L \subseteq Nat /\ M \subseteq Nat
  BY <1>1 DEF Live
<1>4. \A j \in Index : g[j] = f[From(j)] /\ y[j] = x[From(j)]
  BY <1>1 DEF Shape
<1>5. \A j \in M : From(j) \in L /\ j \in Index
  BY <1>1, <1>2, <1>3 DEF Index
<1>6. \A j \in L : \E k \in M : From(k) = j
  <2> SUFFICES ASSUME NEW j \in L PROVE \E k \in M : From(k) = j
    OBVIOUS
  <2>1. CASE j = a
    BY <2>1, <1>1, <1>2
  <2>2. CASE j # a
    BY <2>2, <1>1, <1>2, <1>3
  <2> QED
    BY <2>1, <2>2
<1>7. ASSUME NEW j \in M, NEW k \in M, j < k PROVE From(j) < From(k)
  <2>1. j \in Nat /\ k \in Nat /\ (k <= m \/ a < k)
    BY <1>2, <1>3
  <2> QED
    BY <2>1, <1>1, <1>7
<1>8. \A j, k \in M : From(j) = From(k) => j = k
  BY <1>1, <1>2, <1>3
<1>9. Shape(g, y, d, n) /\ Ends(g, e)
  <2>1. f[a] \in Req /\ x[a] \in Int
    BY <1>1 DEF Ends, Shape
  <2> QED
    BY <2>1, <1>1 DEF Shape, Ends, Index
<1>10. \A j \in L : x[j] = Wait(d, n, f[j]) - Base(f, d, n, m, a, j)
  BY DEF Kept
<1>11. ASSUME NEW j \in M
       PROVE  Base(g, d, n, m+1, a+1, j) = Base(f, d, n, m, a, From(j))
  <2>1. CASE j = a + 1
    <3>1. Base(g, d, n, m+1, a+1, j) = Wait(d, n, g[m])
      BY <2>1, <1>1 DEF Base
    <3>2. g[m] = f[a] /\ From(j) = a + 1 /\ a + 1 # 0 /\ a + 1 # a /\ (a + 1) - 1 = a
      BY <2>1, <1>1, <1>4
    <3>3. Base(f, d, n, m, a, a+1) = Wait(d, n, f[a])
      BY <3>2 DEF Base
    <3> QED
      BY <3>1, <3>2, <3>3
  <2>2. CASE j = m
    <3>1. Base(g, d, n, m+1, a+1, j) = IF m = 0 THEN 0 ELSE Wait(d, n, g[m-1])
      BY <2>2, <1>1 DEF Base
    <3>2. m # 0 => g[m-1] = f[m-1]
      BY <1>1, <1>4 DEF Index
    <3>3. Base(f, d, n, m, a, a) = IF m = 0 THEN 0 ELSE Wait(d, n, f[m-1])
      BY DEF Base
    <3> QED
      BY <2>2, <3>1, <3>2, <3>3
  <2>3. CASE j # a + 1 /\ j # m
    <3>1. j \in Nat /\ j # a /\ From(j) = j
      BY <2>3, <1>1, <1>2, <1>3
    <3>2. j # 0 => g[j-1] = f[j-1]
      <4>1. j # 0 => j - 1 # m /\ j - 1 \in Index
        BY <2>3, <3>1, <1>1, <1>2 DEF Index
      <4> QED
        BY <4>1, <1>4
    <3> QED
      BY <2>3, <3>1, <3>2 DEF Base
  <2> QED
    BY <2>1, <2>2, <2>3
<1>12. ASSUME NEW j \in M
       PROVE  y[j] = Wait(d, n, g[j]) - Base(g, d, n, m+1, a+1, j)
  <2>1. y[j] = x[From(j)] /\ g[j] = f[From(j)] /\ From(j) \in L
    BY <1>4, <1>5
  <2> HIDE DEF g, y, From, L, M
  <2> QED
    BY <2>1, <1>10, <1>11
<1>13. /\ \A j, k \in L : f[j] = f[k] => j = k
       /\ \A j \in L : f[j] \in Waiting(d)
       /\ \A r \in Waiting(d) : \E j \in L : f[j] = r
       /\ \A j, k \in L : j < k => Wait(d, n, f[j]) <= Wait(d, n, f[k])
  BY DEF Kept
<1> HIDE DEF g, y, From, L, M
<1>14. /\ \A j, k \in M : g[j] = g[k] => j = k
       /\ \A j \in M : g[j] \in Waiting(d)
       /\ \A r \in Waiting(d) : \E j \in M : g[j] = r
       /\ \A j, k \in M : j < k => Wait(d, n, g[j]) <= Wait(d, n, g[k])
  <2>1. \A j \in M : g[j] = f[From(j)] /\ From(j) \in L
    BY <1>4, <1>5
  <2>2. ASSUME NEW r \in Waiting(d) PROVE \E j \in M : g[j] = r
    <3>1. PICK j \in L : f[j] = r
      BY <1>13
    <3>2. PICK k \in M : From(k) = j
      BY <1>6
    <3> QED
      BY <3>1, <3>2, <2>1
  <2> QED
    BY <2>1, <2>2, <1>7, <1>8, <1>13
<1>15. Kept(g, y, d, n, m+1, a+1, e)
  BY <1>12, <1>14 DEF Kept, M
<1> QED
  BY <1>9, <1>15 DEF g, y

(* The end of the table moves down. *)
LEMMA MoveEndKeeps ==
    ASSUME NEW f, NEW x, NEW d, NEW n, Shape(f, x, d, n), NEW e, Ends(f, e),
           NEW m \in Nat, m < e, Kept(f, x, d, n, m, e, e)
    PROVE  LET g == [f EXCEPT ![m] = Null]
           IN  Shape(g, x, d, n) /\ Ends(g, m) /\ Kept(g, x, d, n, 0, 0, m)
<1> DEFINE g == [f EXCEPT ![m] = Null]
<1>1. e \in Nat /\ e <= NCALL /\ NCALL \in Nat /\ m \in Index
  BY TableAssumption DEF Ends, Index
<1>2. \A j : /\ j \in Live(m, e, e) <=> j \in 0..(m-1)
             /\ j \in Live(0, 0, m) <=> j \in 0..(m-1)
  BY <1>1 DEF Live
<1>3. \A j \in 0..(m-1) : g[j] = f[j] /\ f[j] \in Req /\ j \in Index
  BY <1>1 DEF Ends, Index, Shape
<1>4. Shape(g, x, d, n) /\ Ends(g, m)
  BY <1>1, <1>3 DEF Ends, Index, Shape
<1>5. ASSUME NEW j \in 0..(m-1)
      PROVE  Base(g, d, n, 0, 0, j) = Base(f, d, n, m, e, j)
  <2>1. j # e /\ j \in Nat
    BY <1>1
  <2>2. j # 0 => g[j-1] = f[j-1]
    BY <1>3, <2>1
  <2> QED
    BY <2>1, <2>2 DEF Base
<1> HIDE DEF g
<1>6. Kept(g, x, d, n, 0, 0, m)
  BY <1>2, <1>3, <1>5 DEF Kept
<1> QED
  BY <1>4, <1>6 DEF g

-----------------------------------------------------------------------------
(* Every action keeps the invariant.                                       *)

(* A table with room for what may be called and set while a tick nests. *)
Roomy == /\ MaxNested <= 1
         /\ IsFiniteSet(Req)
         /\ NCALL > Cardinality(Req) + Cardinality(Req) + Cardinality(Req)

(* The parts of the invariant about the table are known by their names. *)
LEMMA TableIs ==
    ASSUME Types, Roomy, NEW e, Table(e)
    PROVE  /\ Shape(func, time, due, ticks) /\ Ends(func, e)
           /\ Kept(func, time, due, ticks, p2, p1, e)
           /\ e \in Nat /\ e \in Index /\ p1 \in 0..e /\ p2 \in Nat /\ p2 <= p1
           /\ nested \in {0, 1} /\ Cardinality(Req) \in Nat
           /\ \A i \in 0..e : func[i] = Null <=> i = e
<1>1. Shape(func, time, due, ticks) /\ nested \in {0, 1} /\ Cardinality(Req) \in Nat
  BY BoundAssumption, FS_CardinalityType DEF Types, Shape, Roomy
<1>2. Ends(func, e) /\ Kept(func, time, due, ticks, p2, p1, e)
  BY DEF Table
<1>3. e \in Nat /\ e \in Index
  BY <1>2 DEF Ends, Index
<1>4. p1 \in 0..e /\ p2 \in Nat /\ p2 <= p1
  BY <1>3 DEF Table, Pointers
<1>5. \A i \in 0..e : func[i] = Null <=> i = e
  BY <1>2, <1>3, TimAssumption DEF Ends
<1> QED
  BY <1>1, <1>2, <1>3, <1>4, <1>5

LEMMA InitKeeps == Init => IInv
<1> SUFFICES ASSUME Init PROVE IInv
  OBVIOUS
<1>1. Types
  BY BoundAssumption DEF Init, Types
<1>2. 0 \in Index
  BY TableAssumption DEF Index
<1>3. Ends(func, 0)
  BY <1>2 DEF Init, Ends
<1>4. Pointers(0) /\ Size
  BY DEF Init, Pointers, Size
<1>5. Kept(func, time, due, ticks, p2, p1, 0)
  <2>1. Live(0, 0, 0) = {} /\ Waiting(due) = {}
    BY DEF Live, Waiting, Init
  <2> QED
    BY <2>1 DEF Init, Kept
<1> QED
  BY <1>1, <1>2, <1>3, <1>4, <1>5 DEF IInv, Table

(* A request that does not wait leaves one of Req out. *)
LEMMA OneLeftOut ==
    ASSUME IsFiniteSet(Req), NEW d, NEW r \in Req, d[r] = -1
    PROVE  Cardinality(Waiting(d)) < Cardinality(Req)
<1>1. Waiting(d) \in SUBSET Req /\ Waiting(d) # Req
  BY DEF Waiting
<1>2. /\ IsFiniteSet(Waiting(d)) /\ Cardinality(Waiting(d)) <= Cardinality(Req)
      /\ Cardinality(Req) # Cardinality(Waiting(d))
  BY <1>1, FS_Subset
<1> QED
  BY <1>2, FS_CardinalityType

LEMMA SetTimeoutKeeps ==
    ASSUME IInv, Roomy, NEW r \in Req, NEW t \in Tim, SetTimeout(r, t)
    PROVE  IInv'
<1>1. PICK e \in Index : Table(e)
  BY DEF IInv
<1>2. Types /\ panic = FALSE
  BY DEF IInv, Types
<1>3. /\ Shape(func, time, due, ticks) /\ Ends(func, e) /\ Kept(func, time, due, ticks, 0, 0, e)
      /\ e \in Nat /\ p1 = 0 /\ p2 = 0
  BY <1>1, <1>2, TableIs DEF Table, Pointers, SetTimeout
<1>4. due[r] = -1
  BY DEF SetTimeout, Timeout
<1>5. Cardinality(Waiting(due)) = e /\ Cardinality(Waiting(due)) < Cardinality(Req)
      /\ Cardinality(Req) \in Nat
  <2>1. 0 \in 0..e /\ e - 0 = e
    BY <1>3
  <2> QED
    BY <2>1, <1>3, <1>4, CardKept, OneLeftOut DEF Roomy
<1>6. e <= NCALL - 2
  BY <1>3, <1>5, TableAssumption DEF Roomy
<1>7. /\ panic' = FALSE /\ due' = [due EXCEPT ![r] = ticks + t]
      /\ Shape(func', time', due', ticks) /\ Ends(func', e+1)
      /\ Kept(func', time', due', ticks, 0, 0, e+1)
  <2>1. Timeout(r, t, due) /\ 0 \in 0..e /\ \A j \in 0..(0-1) : time[j] = 0
    BY <1>3 DEF SetTimeout
  <2> QED
    BY <2>1, <1>2, <1>3, <1>6, TimeoutKeeps
<1>8. UNCHANGED <<pc, p1, p2, nested, lbolt, tod, ticks>> /\ pc \in {"idle", "second"}
  BY DEF SetTimeout
<1>9. Types'
  BY <1>2, <1>7, <1>8 DEF Types, Shape
<1>10. Pointers(e+1)' /\ Size'
  BY <1>3, <1>8 DEF Pointers, Size
<1>11. Table(e+1)'
  BY <1>3, <1>7, <1>8, <1>10 DEF Table
<1>12. e + 1 \in Index
  BY <1>7 DEF Ends
<1> QED
  BY <1>9, <1>11, <1>12 DEF IInv

(* clock() counts the table down by one tick, as long as what it finds     *)
(* first is not an entry that is done with.                                *)
LEMMA CountDownKeeps ==
    ASSUME Shape(func, time, due, ticks), NEW e, Ends(func, e),
           NEW m \in Nat, NEW a \in 0..e, m <= a,
           Kept(func, time, due, ticks, m, a, e), CountDown,
           \/ m = 0 /\ \A j \in 0..(a-1) : time[j] = 0
           \/ m # 0 /\ time[0] > 0
    PROVE  /\ Shape(func, time', due, ticks + 1)
           /\ Kept(func, time', due, ticks + 1, m, a, e)
           /\ \A j \in 0..(e-1) : time[j] <= 0 => time'[j] = time[j]
<1> DEFINE st == {j \in Index : time[j] > 0}
<1>1. e \in Nat /\ NCALL \in Nat /\ e <= NCALL /\ a \in Nat /\ e \in Index
      /\ ticks \in Nat /\ time \in [Index -> Int]
  BY TableAssumption DEF Ends, Index, Shape
<1>2. CASE func[0] = Null
  <2>1. e = 0 /\ time' = time
    <3>1. e # 0 => func[0] \in Req
      BY <1>1 DEF Ends
    <3> QED
      BY <3>1, <1>2, TimAssumption DEF CountDown
  <2>2. a = 0 /\ m = 0 /\ Live(m, a, e) = {}
    BY <2>1, <1>1 DEF Live
  <2>3. Kept(func, time', due, ticks + 1, m, a, e)
    BY <2>2 DEF Kept
  <2> QED
    BY <2>1, <2>3, <1>1 DEF Shape
<1>3. CASE func[0] # Null
  <2>1. PICK i : i = Scan(st)
    OBVIOUS
  <2>2. i \in 0..e /\ (i = e \/ i \in st) /\ \A j \in 0..(i-1) : j \notin st
    BY <2>1, ScanIs
  <2>3. i \in Index /\ i \in Nat /\ (i = e \/ time[i] > 0)
    BY <2>2, <1>1 DEF Index
  <2>4. \A j \in 0..(i-1) : time[j] <= 0
    BY <2>2, <2>3, <1>1 DEF Index
  <2>5. time' = [time EXCEPT ![i] = @ - 1]
    BY <2>1, <1>3 DEF CountDown
  <2>6. i = e \/ i \in Live(m, a, e)
    <3>1. CASE m = 0
      <4>1. i # e => i >= a
        BY <3>1, <2>2, <2>3, <1>1
      <4> QED
        BY <4>1, <2>2, <1>1 DEF Live
    <3>2. CASE m # 0
      <4>1. time[0] > 0 /\ time[0] \in Int
        BY <3>2, <1>1 DEF Index
      <4>2. i = 0
        BY <4>1, <2>3, <2>4
      <4> QED
        BY <4>2, <3>2 DEF Live
    <3> QED
      BY <3>1, <3>2
  <2>7. Kept(func, [time EXCEPT ![i] = @ - 1], due, ticks + 1, m, a, e)
    BY <2>2, <2>3, <2>4, <2>6, TickKeeps
  <2>8. Shape(func, time', due, ticks + 1)
    BY <2>3, <2>5, <1>1 DEF Shape
  <2>9. \A j \in 0..(e-1) : time[j] <= 0 => time'[j] = time[j]
    BY <2>3, <2>5, <1>1 DEF Index
  <2> QED
    BY <2>5, <2>7, <2>8, <2>9
<1> QED
  BY <1>2, <1>3

(* The requests that are due are not more than all. *)
LEMMA ComeBound ==
    ASSUME IsFiniteSet(Req), NEW d, NEW n
    PROVE  /\ IsFiniteSet(Come(d, n)) /\ Cardinality(Come(d, n)) \in Nat
           /\ Cardinality(Req) \in Nat /\ Cardinality(Come(d, n)) <= Cardinality(Req)
<1>1. Come(d, n) \in SUBSET Req
  BY DEF Come
<1> QED
  BY <1>1, FS_Subset, FS_CardinalityType

LEMMA TickHighKeeps ==
    ASSUME IInv, Roomy, TickHigh
    PROVE  IInv'
<1>1. PICK e \in Index : Table(e)
  BY DEF IInv
<1>2. Types
  BY DEF IInv
<1>3. /\ Shape(func, time, due, ticks) /\ Ends(func, e) /\ Kept(func, time, due, ticks, p2, p1, e)
      /\ e \in Nat /\ p1 \in 0..e /\ p2 \in Nat /\ p2 <= p1 /\ nested \in {0, 1}
  BY <1>1, <1>2, TableIs
<1>4. /\ UNCHANGED <<func, panic, pc, p1, p2, tod, due>> /\ ticks' = ticks + 1 /\ lbolt' = lbolt + 1
      /\ nested' = (IF pc = "idle" THEN 0 ELSE nested + 1) /\ CountDown
      /\ ticks < MaxTicks /\ (pc # "idle" => nested < MaxNested)
  BY DEF TickHigh
<1>5. Pointers(e) /\ Size
  BY <1>1 DEF Table
<1>6. pc # "idle" => nested = 0 /\ nested' = 1
  BY <1>3, <1>4, BoundAssumption DEF Roomy
<1>7. \/ p2 = 0 /\ \A j \in 0..(p1-1) : time[j] = 0
      \/ p2 # 0 /\ time[0] > 0
  BY <1>3, <1>5, <1>6 DEF Pointers
<1>8. /\ Shape(func, time', due, ticks + 1)
      /\ Kept(func, time', due, ticks + 1, p2, p1, e)
      /\ \A j \in 0..(e-1) : time[j] <= 0 => time'[j] = time[j]
  BY <1>3, <1>4, <1>7, CountDownKeeps
<1>9. Types'
  BY <1>2, <1>4, <1>8, BoundAssumption DEF Types, Shape
<1>10. Pointers(e)'
  <2>1. p2 = 0 => \A j \in 0..(p1-1) : time'[j] = 0
    <3>1. \A j \in 0..(p1-1) : j \in 0..(e-1)
      BY <1>3
    <3> QED
      BY <3>1, <1>5, <1>8 DEF Pointers
  <2>2. pc = "call" /\ p1 = 0 => 0 < e /\ time'[0] <= 0
    <3>1. 0 < e => 0 \in 0..(e-1)
      BY <1>3
    <3> QED
      BY <3>1, <1>5, <1>8 DEF Pointers
  <2>3. pc = "move" => nested' # 0
    BY <1>6
  <2> QED
    BY <2>1, <2>2, <2>3, <1>4, <1>5 DEF Pointers
<1>11. Size'
  <2>1. SUFFICES ASSUME pc = "call"
        PROVE  p1 + Cardinality(Come(due, ticks + 1)) <= Cardinality(Req) + Cardinality(Req)
    BY <1>4, <1>6 DEF Size
  <2>2. p1 + Cardinality(Come(due, ticks)) <= Cardinality(Req)
    BY <2>1, <1>5, <1>6 DEF Size
  <2>3. /\ Cardinality(Come(due, ticks)) \in Nat /\ Cardinality(Req) \in Nat
        /\ Cardinality(Come(due, ticks + 1)) \in Nat
        /\ Cardinality(Come(due, ticks + 1)) <= Cardinality(Req)
    BY ComeBound DEF Roomy
  <2> QED
    BY <2>2, <2>3, <1>3
<1>12. Table(e)'
  BY <1>3, <1>4, <1>8, <1>10, <1>11 DEF Table
<1> QED
  BY <1>9, <1>12 DEF IInv

LEMMA TickBaseKeeps ==
    ASSUME IInv, Roomy, TickBase
    PROVE  IInv'
<1>1. PICK e \in Index : Table(e)
  BY DEF IInv
<1>2. Types
  BY DEF IInv
<1>3. /\ Shape(func, time, due, ticks) /\ Ends(func, e) /\ Kept(func, time, due, ticks, 0, 0, e)
      /\ e \in Nat /\ p1 = 0 /\ p2 = 0 /\ \A i \in 0..e : func[i] = Null <=> i = e
  BY <1>1, <1>2, TableIs DEF Table, Pointers, TickBase
<1>4. /\ UNCHANGED <<func, panic, p2, lbolt, tod, due>> /\ ticks' = ticks + 1
      /\ nested' = 0 /\ p1' = 0 /\ CountDown /\ ticks < MaxTicks
      /\ pc' = IF func[0] # Null /\ time'[0] <= 0 THEN "call" ELSE "out"
  BY DEF TickBase
<1>5. /\ Shape(func, time', due, ticks + 1)
      /\ Kept(func, time', due, ticks + 1, 0, 0, e)
  <2>1. 0 \in 0..e /\ 0 <= 0 /\ \A j \in 0..(0-1) : time[j] = 0
    BY <1>3
  <2> QED
    BY <2>1, <1>3, <1>4, CountDownKeeps
<1>6. Types'
  BY <1>2, <1>4, <1>5, BoundAssumption DEF Types, Shape
<1>7. func[0] # Null => 0 < e
  BY <1>3
<1>8. Pointers(e)'
  BY <1>3, <1>4, <1>7 DEF Pointers
<1>9. Size'
  <2>1. /\ Cardinality(Come(due, ticks + 1)) \in Nat
        /\ Cardinality(Come(due, ticks + 1)) <= Cardinality(Req)
    BY ComeBound DEF Roomy
  <2> QED
    BY <2>1, <1>4 DEF Size
<1>10. Table(e)'
  BY <1>3, <1>4, <1>5, <1>8, <1>9 DEF Table
<1> QED
  BY <1>6, <1>10 DEF IInv

(* A function that is called waits no longer, and its entry is done with;  *)
(* what it sets comes behind.                                              *)
LEMMA CallDueKeeps ==
    ASSUME IInv, Roomy, CallDue
    PROVE  /\ IInv'
           /\ \A r \in Req : due[r] # -1 /\ due'[r] # due[r] => due[r] <= ticks
<1>1. PICK e \in Index : Table(e)
  BY DEF IInv
<1>2. Types /\ panic = FALSE
  BY DEF IInv, Types
<1>3. /\ Shape(func, time, due, ticks) /\ Ends(func, e) /\ Kept(func, time, due, ticks, p2, p1, e)
      /\ e \in Nat /\ p1 \in 0..e /\ nested \in {0, 1}
      /\ \A i \in 0..e : func[i] = Null <=> i = e
  BY <1>1, <1>2, TableIs
<1>4. /\ UNCHANGED <<pc, p2, nested, lbolt, tod, ticks>> /\ p1' = p1 + 1
      /\ pc = "call" /\ func[p1] # Null /\ time[p1] <= 0
  BY DEF CallDue
<1>5. Pointers(e) /\ Size /\ p2 = 0 /\ p1 # e /\ p1 + 1 \in 0..e /\ p1 \in Nat
  BY <1>1, <1>3, <1>4 DEF Table, Pointers
<1>6. PICK a, c : a = p1 /\ c = [due EXCEPT ![func[a]] = -1]
  OBVIOUS
<1>7. /\ func[a] \in Req /\ func[a] \in Come(due, ticks) /\ time[a] = 0
      /\ Shape(func, time, c, ticks) /\ Kept(func, time, c, ticks, 0, a+1, e)
      /\ Waiting(c) = Waiting(due) \ {func[a]}
      /\ Come(c, ticks) = Come(due, ticks) \ {func[a]}
  <2>1. Kept(func, time, due, ticks, 0, a, e) /\ IsCalled(func, time, due, a, e, c)
    BY <1>3, <1>4, <1>5, <1>6 DEF IsCalled
  <2> QED
    BY <2>1, <1>3, CalledKeeps
<1>8. \A j \in 0..a : time[j] = 0
  <2>1. \A j \in 0..(a-1) : time[j] = 0
    BY <1>5, <1>6 DEF Pointers
  <2> QED
    BY <2>1, <1>5, <1>6, <1>7
<1>9. /\ a + 1 + Cardinality(Come(c, ticks)) = a + Cardinality(Come(due, ticks))
      /\ Cardinality(Come(c, ticks)) \in Nat /\ Cardinality(Req) \in Nat
  <2>1. /\ Cardinality(Come(c, ticks)) = Cardinality(Come(due, ticks)) - 1
        /\ Cardinality(Come(due, ticks)) \in Nat
        /\ Cardinality(Come(c, ticks)) \in Nat /\ Cardinality(Req) \in Nat
    BY <1>7, ComeBound, FS_RemoveElement DEF Roomy
  <2> QED
    BY <2>1, <1>5, <1>6
<1>10. a + 1 + Cardinality(Come(c, ticks))
         <= (IF nested = 0 THEN Cardinality(Req) ELSE Cardinality(Req) + Cardinality(Req))
  BY <1>4, <1>5, <1>6, <1>9 DEF Size
<1>11. CASE due' = c /\ UNCHANGED <<table, panic>>
  <2>1. func' = func /\ time' = time /\ panic' = panic
    BY <1>11 DEF table
  <2>2. Types'
    BY <1>2, <1>4, <1>7, <1>11, <2>1 DEF Types, Shape
  <2>3. Pointers(e)'
    BY <1>4, <1>5, <1>6, <1>8, <2>1 DEF Pointers
  <2>4. Size'
    BY <1>4, <1>6, <1>10, <1>11 DEF Size
  <2>5. Table(e)'
    BY <1>3, <1>4, <1>5, <1>6, <1>7, <1>11, <2>1, <2>3, <2>4 DEF Table
  <2>6. \A r \in Req : due'[r] # due[r] => r = func[a]
    BY <1>3, <1>6, <1>11 DEF Shape
  <2> QED
    BY <2>2, <2>5, <2>6, <1>7 DEF IInv, Come
<1>12. ASSUME NEW r \in Req, NEW t \in Tim, Timeout(r, t, c)
       PROVE  IInv' /\ \A q \in Req : due[q] # -1 /\ due'[q] # due[q] => due[q] <= ticks
  <2>1. c[r] = -1
    BY <1>12 DEF Timeout
  <2>2. /\ Cardinality(Waiting(c)) = e - (a+1) /\ Cardinality(Waiting(c)) < Cardinality(Req)
    BY <2>1, <1>3, <1>5, <1>6, <1>7, CardKept, OneLeftOut DEF Roomy
  <2>3. a \in Nat /\ a + 1 \in 0..e /\ \A j \in 0..((a+1)-1) : time[j] = 0
    BY <1>5, <1>6, <1>8
  <2>4. e <= NCALL - 2
    BY <2>2, <2>3, <1>3, <1>9, <1>10, TableAssumption DEF Roomy
  <2>5. /\ panic' = FALSE /\ due' = [c EXCEPT ![r] = ticks + t]
        /\ Shape(func', time', due', ticks) /\ Ends(func', e+1)
        /\ Kept(func', time', due', ticks, 0, a+1, e+1)
        /\ \A j \in 0..((a+1)-1) : time'[j] = 0
    <3>1. PICK lo : lo = a + 1
      OBVIOUS
    <3>2. lo \in 0..e /\ (\A j \in 0..(lo-1) : time[j] = 0) /\ Kept(func, time, c, ticks, 0, lo, e)
      BY <3>1, <2>3, <1>7
    <3>3. /\ panic' = FALSE /\ due' = [c EXCEPT ![r] = ticks + t]
          /\ Shape(func', time', due', ticks) /\ Ends(func', e+1)
          /\ Kept(func', time', due', ticks, 0, lo, e+1)
          /\ \A j \in 0..(lo-1) : time'[j] = 0
      <4>1. /\ Shape(func, time, c, ticks) /\ Ends(func, e) /\ e <= NCALL - 2
            /\ panic = FALSE /\ Timeout(r, t, c)
        BY <2>4, <1>2, <1>3, <1>7, <1>12
      <4> QED
        BY <3>2, <4>1, TimeoutKeeps, Zenon
    <3> QED
      BY <3>1, <3>3
  <2>6. t \in Nat \ {0} /\ ticks \in Nat /\ c \in [Req -> Nat \cup {-1}]
    BY <1>7, TimAssumption DEF Shape
  <2>7. Come(due', ticks) = Come(c, ticks)
    BY <2>1, <2>5, <2>6 DEF Come
  <2>8. Types'
    BY <1>2, <1>4, <2>5 DEF Types, Shape
  <2>9. Pointers(e+1)'
    <3>1. a + 1 \in 0..(e+1) /\ a + 1 # 0
      BY <2>3, <1>3
    <3> QED
      BY <3>1, <1>4, <1>5, <1>6, <2>3, <2>5 DEF Pointers
  <2>10. Size'
    BY <1>4, <1>6, <1>10, <2>7 DEF Size
  <2>11. Table(e+1)'
    BY <1>4, <1>5, <1>6, <2>5, <2>9, <2>10 DEF Table
  <2>12. e + 1 \in Index
    BY <2>5 DEF Ends
  <2>13. \A q \in Req : due[q] # -1 /\ due'[q] # due[q] => q = func[a]
    BY <1>3, <1>6, <2>1, <2>5, <2>6 DEF Shape
  <2> QED
    BY <2>8, <2>11, <2>12, <2>13, <1>7 DEF IInv, Come
<1> QED
  BY <1>6, <1>11, <1>12 DEF CallDue

LEMMA CallEndKeeps ==
    ASSUME IInv, Roomy, CallEnd
    PROVE  IInv'
<1>1. PICK e \in Index : Table(e)
  BY DEF IInv
<1>2. Types
  BY DEF IInv
<1>3. /\ e \in Nat /\ p1 \in 0..e /\ \A i \in 0..e : func[i] = Null <=> i = e
      /\ time \in [Index -> Int] /\ 0 \in Index
  <2>1. 0 \in Index
    BY TableAssumption DEF Index
  <2>2. /\ e \in Nat /\ p1 \in 0..e /\ \A i \in 0..e : func[i] = Null <=> i = e
        /\ Shape(func, time, due, ticks)
    BY <1>1, <1>2, TableIs
  <2> QED
    BY <2>1, <2>2 DEF Shape
<1>4. /\ UNCHANGED <<func, time, panic, p1, nested, lbolt, tod, ticks, due>>
      /\ pc = "call" /\ pc' = "move" /\ p2' = 0 /\ (func[p1] = Null \/ time[p1] > 0)
  BY DEF CallEnd, table
<1>5. Pointers(e) /\ p2 = 0 /\ 0 < p1
  BY <1>1, <1>3, <1>4 DEF Table, Pointers
<1>6. p1 < e => time[p1] > 0
  BY <1>3, <1>4
<1>7. Pointers(e)'
  BY <1>3, <1>4, <1>5, <1>6 DEF Pointers
<1>8. Table(e)'
  BY <1>1, <1>4, <1>5, <1>7 DEF Table, Size
<1>9. Types'
  BY <1>2, <1>4 DEF Types
<1> QED
  BY <1>8, <1>9 DEF IInv

LEMMA MoveStepKeeps ==
    ASSUME IInv, Roomy, Move
    PROVE  IInv'
<1>1. PICK e \in Index : Table(e)
  BY DEF IInv
<1>2. Types
  BY DEF IInv
<1>3. /\ Shape(func, time, due, ticks) /\ Ends(func, e) /\ Kept(func, time, due, ticks, p2, p1, e)
      /\ e \in Nat /\ p1 \in 0..e /\ p2 \in Nat /\ \A i \in 0..e : func[i] = Null <=> i = e
  BY <1>1, <1>2, TableIs
<1>4. /\ UNCHANGED <<panic, nested, lbolt, tod, ticks, due>>
      /\ pc = "move" /\ func' = [func EXCEPT ![p2] = func[p1]]
  BY DEF Move
<1>5. Pointers(e) /\ p2 < p1
  BY <1>1, <1>4 DEF Table, Pointers
<1>6. CASE func[p1] = Null
  <2>1. p1 = e /\ pc' = "out" /\ p1' = 0 /\ p2' = 0 /\ time' = time
        /\ func' = [func EXCEPT ![p2] = Null]
    BY <1>3, <1>4, <1>6 DEF Move
  <2>2. Shape(func', time, due, ticks) /\ Ends(func', p2) /\ Kept(func', time, due, ticks, 0, 0, p2)
    BY <2>1, <1>3, <1>5, MoveEndKeeps
  <2>3. Pointers(p2)' /\ Size'
    BY <2>1, <1>3, <1>5 DEF Pointers, Size
  <2>4. PICK m : m = p2
    OBVIOUS
  <2>5. Table(m)'
    <3>1. Pointers(m)'
      BY <2>1, <2>4, <1>3 DEF Pointers
    <3> QED
      BY <3>1, <2>1, <2>2, <2>3, <2>4, <1>4 DEF Table
  <2>6. m \in Index
    BY <2>2, <2>4 DEF Ends
  <2>7. Types'
    BY <1>2, <1>4, <2>1, <2>2 DEF Types, Shape
  <2> QED
    BY <2>5, <2>6, <2>7 DEF IInv
<1>7. CASE func[p1] # Null
  <2>1. /\ p1 # e /\ pc' = pc /\ p1' = p1 + 1 /\ p2' = p2 + 1
        /\ time' = [time EXCEPT ![p2] = time[p1]]
    BY <1>3, <1>7 DEF Move
  <2>2. Shape(func', time', due, ticks) /\ Ends(func', e)
        /\ Kept(func', time', due, ticks, p2 + 1, p1 + 1, e)
    BY <2>1, <1>3, <1>4, <1>5, MoveKeeps
  <2>3. pc = "move" /\ nested = 0 => time'[0] > 0
    <3>1. time \in [Index -> Int] /\ 0 \in Index /\ p2 \in Index
      BY <1>3, <1>5, TableAssumption DEF Shape, Ends, Index
    <3>2. CASE p2 = 0
      BY <3>1, <3>2, <2>1, <1>3, <1>5 DEF Pointers
    <3>3. CASE p2 # 0
      BY <3>1, <3>3, <2>1, <1>3, <1>5 DEF Pointers
    <3> QED
      BY <3>2, <3>3
  <2>4. p1 + 1 \in 0..e /\ p2 + 1 \in Nat /\ p2 + 1 < p1 + 1 /\ p2 + 1 # 0
    BY <2>1, <1>3, <1>5
  <2>5. Pointers(e)' /\ Size'
    BY <2>1, <2>3, <2>4, <1>4 DEF Pointers, Size
  <2>6. Table(e)'
    BY <2>1, <2>2, <2>5, <1>4 DEF Table
  <2>7. Types'
    BY <1>2, <1>4, <2>1, <2>2 DEF Types, Shape
  <2> QED
    BY <2>6, <2>7 DEF IInv
<1> QED
  BY <1>6, <1>7

(* The time of day does not touch the table. *)
LEMMA OutKeeps ==
    ASSUME IInv, Out \/ SecondEnd
    PROVE  IInv'
<1>1. PICK e \in Index : Table(e)
  BY DEF IInv
<1>2. /\ UNCHANGED <<func, time, panic, p1, p2, nested, ticks, due>>
      /\ pc \in {"out", "second"} /\ pc' \in {"idle", "second"}
  BY DEF Out, SecondEnd, table
<1>3. lbolt' \in Nat /\ tod' \in Nat
  BY TableAssumption DEF Out, SecondEnd, IInv, Types
<1>4. Table(e)'
  BY <1>1, <1>2 DEF Table, Pointers, Size
<1>5. Types'
  BY <1>2, <1>3 DEF IInv, Types
<1> QED
  BY <1>4, <1>5 DEF IInv

LEMMA StutterKeeps == ASSUME IInv, UNCHANGED vars PROVE IInv'
<1>1. UNCHANGED <<func, time, panic, pc, p1, p2, nested, lbolt, tod, ticks, due>>
  BY DEF vars
<1>2. PICK e \in Index : Table(e)
  BY DEF IInv
<1>3. Table(e)'
  BY <1>1, <1>2 DEF Table, Pointers, Size
<1>4. Types'
  BY <1>1 DEF IInv, Types
<1> QED
  BY <1>3, <1>4 DEF IInv

(* No request's time is changed before it has come. *)
LEMMA StepIsNotEarly ==
    ASSUME IInv, Roomy, [Next]_vars
    PROVE  \A r \in Req : due[r] # -1 /\ due'[r] # due[r] => due[r] <= ticks
<1>1. CASE CallDue
  BY <1>1, CallDueKeeps
<1>2. ASSUME NEW q \in Req, NEW t \in Tim, SetTimeout(q, t)
      PROVE  \A r \in Req : due[r] # -1 => due'[r] = due[r]
  <2>1. due[q] = -1 /\ (due' = due \/ due' = [due EXCEPT ![q] = ticks + t])
    BY <1>2 DEF SetTimeout, Timeout
  <2>2. due \in [Req -> Nat \cup {-1}]
    BY DEF IInv, Types
  <2> QED
    BY <2>1, <2>2
<1>3. CASE TickHigh \/ TickBase \/ CallEnd \/ Move \/ Out \/ SecondEnd \/ UNCHANGED vars
  <2>1. due' = due
    BY <1>3 DEF TickHigh, TickBase, CallEnd, Move, Out, SecondEnd, vars
  <2> QED
    BY <2>1
<1> QED
  BY <1>1, <1>2, <1>3 DEF Next

(* The invariant of the callout table, when it is roomy. *)
THEOREM Invariance == ASSUME Roomy PROVE Spec => []IInv
<1>1. Init => IInv
  BY InitKeeps
<1>2. IInv /\ [Next]_vars => IInv'
  <2> SUFFICES ASSUME IInv, [Next]_vars PROVE IInv'
    OBVIOUS
  <2>1. ASSUME NEW r \in Req, NEW t \in Tim, SetTimeout(r, t) PROVE IInv'
    BY <2>1, SetTimeoutKeeps
  <2>2. CASE TickHigh
    BY <2>2, TickHighKeeps
  <2>3. CASE TickBase
    BY <2>3, TickBaseKeeps
  <2>4. CASE CallDue
    BY <2>4, CallDueKeeps
  <2>5. CASE CallEnd
    BY <2>5, CallEndKeeps
  <2>6. CASE Move
    BY <2>6, MoveStepKeeps
  <2>7. CASE Out \/ SecondEnd
    BY <2>7, OutKeeps
  <2>8. CASE UNCHANGED vars
    BY <2>8, StutterKeeps
  <2> QED
    BY <2>1, <2>2, <2>3, <2>4, <2>5, <2>6, <2>7, <2>8 DEF Next
<1> QED
  BY <1>1, <1>2, PTL DEF Spec

-----------------------------------------------------------------------------
(* What follows for the callout table.                                     *)

(* clock.c, timeout(): the panic is out of reach of a table that has more  *)
(* than three entries for each function that is used with it.              *)
THEOREM NeverPanics == ASSUME Roomy PROVE Spec => [](panic = FALSE)
<1>1. IInv => panic = FALSE
  BY DEF IInv, Types
<1> QED
  BY <1>1, Invariance, PTL

(* The pointers of the clock interrupt stay in the table. *)
THEOREM TypeCorrect == ASSUME Roomy PROVE Spec => []TypeOK
<1>1. IInv => TypeOK
  <2> SUFFICES ASSUME IInv PROVE TypeOK
    OBVIOUS
  <2>1. PICK e \in Index : Table(e)
    BY DEF IInv
  <2>2. Types
    BY DEF IInv
  <2>3. e \in Nat /\ e <= NCALL /\ p1 \in 0..e /\ p2 \in Nat /\ p2 <= p1 /\ NCALL \in Nat
    BY <2>1, <2>2, TableIs, TableAssumption DEF Index
  <2>4. p1 \in Index /\ p2 \in Index
    BY <2>3 DEF Index
  <2> QED
    BY <2>2, <2>4 DEF Types, TypeOK
<1> QED
  BY <1>1, Invariance, PTL

(* Outside the clock interrupt's work the table begins at entry 0. *)
LEMMA AtRest ==
    ASSUME IInv, Roomy, pc \in {"idle", "out", "second"}
    PROVE  \E e \in Index : /\ Shape(func, time, due, ticks) /\ Ends(func, e)
                            /\ Kept(func, time, due, ticks, 0, 0, e)
                            /\ Used = 0..(e-1) /\ e \in Nat
<1>1. PICK e \in Index : Table(e)
  BY DEF IInv
<1>2. Types
  BY DEF IInv
<1>3. /\ Shape(func, time, due, ticks) /\ Ends(func, e) /\ Kept(func, time, due, ticks, 0, 0, e)
      /\ e \in Nat /\ \A i \in 0..e : func[i] = Null <=> i = e
  BY <1>1, <1>2, TableIs DEF Table, Pointers
<1>4. Used = 0..(e-1)
  <2>1. ASSUME NEW i \in Used PROVE i \in 0..(e-1)
    <3>1. i \in Nat /\ (\A j \in 0..i : func[j] # Null)
      BY TableAssumption DEF Used, Index
    <3>2. ~(e <= i)
      BY <3>1, <1>3
    <3> QED
      BY <3>1, <3>2, <1>3
  <2>2. ASSUME NEW i \in 0..(e-1) PROVE i \in Used
    <3>1. i \in Index
      BY <1>1, <1>3, TableAssumption DEF Index
    <3>2. \A j \in 0..i : j \in 0..e /\ j # e
      BY <1>3
    <3> QED
      BY <3>1, <3>2, <1>3 DEF Used
  <2> QED
    BY <2>1, <2>2
<1> QED
  BY <1>1, <1>3, <1>4

(* No request is lost, and none is in the table twice, whatever is set     *)
(* while the interrupt calls, moves and is interrupted.                    *)
THEOREM EachHasOneEntry == ASSUME Roomy PROVE Spec => []OneEntryEach
<1>1. IInv => OneEntryEach
  <2> SUFFICES ASSUME IInv, pc \in {"idle", "out", "second"}
               PROVE  {func[i] : i \in Used} = Pending /\ Cardinality(Used) = Cardinality(Pending)
    BY DEF OneEntryEach
  <2>1. PICK e \in Index : /\ Ends(func, e) /\ Kept(func, time, due, ticks, 0, 0, e)
                           /\ Used = 0..(e-1) /\ e \in Nat
    BY AtRest
  <2>2. Pending = Waiting(due)
    BY DEF Pending, Waiting
  <2>3. Cardinality(Waiting(due)) = e
    <3>1. 0 \in 0..e /\ e - 0 = e
      BY <2>1
    <3> QED
      BY <3>1, <2>1, CardKept DEF Roomy
  <2>4. Cardinality(Used) = e
    <3>1. 0 \in Int /\ e - 1 \in Int
      BY <2>1
    <3>2. Cardinality(0..(e-1)) = IF 0 > e - 1 THEN 0 ELSE (e - 1) - 0 + 1
      BY <3>1, FS_Interval
    <3> QED
      BY <3>2, <2>1
  <2>5. \A i : i \in Live(0, 0, e) <=> i \in Used
    BY <2>1 DEF Live
  <2>6. /\ \A i \in Used : func[i] \in Waiting(due)
        /\ \A r \in Waiting(due) : \E i \in Used : func[i] = r
    BY <2>1, <2>5 DEF Kept
  <2> QED
    BY <2>2, <2>3, <2>4, <2>6
<1> QED
  BY <1>1, Invariance, PTL

(* The times up to an entry add up to the ticks it still has to wait, with *)
(* ticks held off, nested and counted at high priority.                    *)
THEOREM TimesAreRight == ASSUME Roomy PROVE Spec => []TimesAddUp
<1>1. IInv => TimesAddUp
  <2> SUFFICES ASSUME IInv, pc \in {"idle", "out", "second"}, NEW i \in Used
               PROVE  Before[i + 1] = IF due[func[i]] > ticks THEN due[func[i]] - ticks ELSE 0
    BY DEF TimesAddUp
  <2>1. PICK e \in Index : /\ Shape(func, time, due, ticks) /\ Ends(func, e)
                           /\ Kept(func, time, due, ticks, 0, 0, e)
                           /\ Used = 0..(e-1) /\ e \in Nat
    BY AtRest
  <2>2. i \in Nat /\ i + 1 \in 0..e /\ i + 1 > 0 /\ (i + 1) - 1 = i
    BY <2>1
  <2>3. 0 \in 0..e /\ \A j \in 0..(0-1) : time[j] = 0
    BY <2>1
  <2>4. \A j \in 0..e : Before[j] = IF j <= 0 THEN 0 ELSE Wait(due, ticks, func[j-1])
    BY <2>1, <2>3, BeforeWaits
  <2>5. Before[i + 1] = Wait(due, ticks, func[i])
    BY <2>2, <2>4
  <2> QED
    BY <2>5 DEF Wait
<1> QED
  BY <1>1, Invariance, PTL

(* No function is called before the ticks it was set for have passed. *)
THEOREM NoneIsEarly == ASSUME Roomy PROVE Spec => NeverEarly
<1>1. IInv /\ [Next]_vars
        => [\A r \in Req : due[r] # -1 /\ due'[r] # due[r] => due[r] <= ticks]_vars
  BY StepIsNotEarly
<1> QED
  BY <1>1, Invariance, PTL DEF Spec, NeverEarly

-----------------------------------------------------------------------------
(* The time of day, for any table.                                         *)

(* What a step does to the time of day. *)
Counters == /\ lbolt \in Nat /\ tod \in Nat /\ ticks \in Nat
            /\ pc \in {"idle", "call", "move", "out", "second"}

(* One tick is one tick of lbolt, at base or at high priority, and a full  *)
(* second of them one of the time of day.                                  *)
THEOREM NoTickIsLost == Spec => []TicksKept
<1> DEFINE I == Counters /\ TicksKept
<1>1. Init => I
  BY TableAssumption DEF Init, Counters, TicksKept
<1>2. I /\ [Next]_vars => I'
  <2> SUFFICES ASSUME I, [Next]_vars PROVE I'
    OBVIOUS
  <2>1. PICK h : h = HZ * tod
    OBVIOUS
  <2>2. h \in Int /\ HZ * (tod + 1) = h + HZ /\ HZ \in Nat /\ h + lbolt \in Int
    BY <2>1, TableAssumption DEF Counters
  <2>3. h + lbolt = IF pc \in {"idle", "second"} THEN ticks ELSE ticks - 1
    BY <2>1 DEF TicksKept
  <2>4. CASE TickHigh
    BY <2>1, <2>2, <2>3, <2>4 DEF TickHigh, Counters, TicksKept
  <2>5. CASE TickBase
    BY <2>1, <2>2, <2>3, <2>5 DEF TickBase, Counters, TicksKept
  <2>6. CASE Out
    <3>1. CASE lbolt + 1 >= HZ
      <4>1. lbolt' = lbolt + 1 - HZ /\ tod' = tod + 1 /\ pc' = "second" /\ ticks' = ticks /\ pc = "out"
        BY <2>6, <3>1 DEF Out
      <4>2. HZ * tod' = h + HZ
        BY <4>1, <2>2
      <4> QED
        BY <4>1, <4>2, <3>1, <2>2, <2>3 DEF Counters, TicksKept
    <3>2. CASE ~(lbolt + 1 >= HZ)
      BY <2>1, <2>2, <2>3, <2>6, <3>2 DEF Out, Counters, TicksKept
    <3> QED
      BY <3>1, <3>2
  <2>7. CASE SecondEnd
    BY <2>1, <2>3, <2>7 DEF SecondEnd, Counters, TicksKept
  <2>8. CASE CallDue
    BY <2>1, <2>3, <2>8 DEF CallDue, Counters, TicksKept
  <2>9. CASE CallEnd
    BY <2>1, <2>3, <2>9 DEF CallEnd, Counters, TicksKept
  <2>10. CASE Move
    BY <2>1, <2>3, <2>10 DEF Move, Counters, TicksKept
  <2>11. ASSUME NEW r \in Req, NEW t \in Tim, SetTimeout(r, t) PROVE I'
    BY <2>1, <2>3, <2>11 DEF SetTimeout, Counters, TicksKept
  <2>12. CASE UNCHANGED vars
    BY <2>1, <2>3, <2>12 DEF vars, Counters, TicksKept
  <2> QED
    BY <2>4, <2>5, <2>6, <2>7, <2>8, <2>9, <2>10, <2>11, <2>12 DEF Next
<1> QED
  BY <1>1, <1>2, PTL DEF Spec

=============================================================================

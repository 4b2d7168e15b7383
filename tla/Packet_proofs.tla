--------------------------- MODULE Packet_proofs ---------------------------
(***************************************************************************)
(* Proofs about the packet driver: on every line, for every window that    *)
(* the driver allows and whatever the line loses or damages, packets are   *)
(* read once and in order (InOrder), and pksack() releases none that is    *)
(* not read (Kept).                                                        *)
(*                                                                         *)
(* Numbers are modulo eight.  The proof measures them from R, the number   *)
(* of the last packet read: Plus(R, i) is the number i places behind it.   *)
(* In one direction of the line, from the sender s to the receiver r, with *)
(* w the packets written and not read,                                     *)
(*   p   packets are read and not acknowledged yet,                        *)
(*   q   is the place of the highest number sent,                          *)
(*   t   is the place of p_nxtps.                                          *)
(* All of them are small, so that equal numbers are at equal places.       *)
(***************************************************************************)
EXTENDS Packet, FiniteSetTheorems, TLAPS

Plus(x, i) == (x + i) % 8

Names == {"CLOSE", "RJ", "RR", "INITC", "INITB", "INITA"}
Acks == {"RJ", "RR", "data"}

Fields == {"state", "msg", "rmsg", "timer", "moved", "tx", "ps", "rpr", "nxtps", "pscopy", "swindow",
           "os", "pr", "rcount", "imap", "is", "rd", "imask", "wr", "op"}

IsPack(k) == k = [x \in Fields |-> k[x]]

Early == {"null", "asleep", "woken"}
Alive(k) == k.op \notin {"null", "closed"}

Frame(f) ==
    \/ f = Idle
    \/ \E m \in Names, v \in Nat : f = Control(m, v) /\ (m \in {"INITA", "INITC"} => v <= Window)
    \/ \E x \in No, v \in No, d \in Nat : f = Data(x, v, d)

(* What holds of each end for itself.                                      *)
Pack(k) ==
    /\ IsPack(k)
    /\ k.msg \subseteq Names /\ k.rmsg \subseteq Names
    /\ Frame(k.tx)
    /\ k.swindow \in 0 .. Window
    /\ k.op # "open" => k.rd = "user" /\ k.wr = "user"
    /\ k.op \in Early =>
         /\ k.ps = 0 /\ k.rpr = 0 /\ k.pscopy = 0 /\ k.pr = 0 /\ k.rcount = 0 /\ k.os = None
    /\ k.op = "null" => k = [Opening EXCEPT !.op = "null"]
    /\ k.op = "closed" => k = [Opening EXCEPT !.tx = k.tx, !.op = "closed", !.rmsg = {}, !.timer = FALSE]

Sender(s, w, R, p, q, t) ==
    LET n == Len(w)
        c == IF s.wr = "fill" THEN n + 1 ELSE n
    IN  s.op # "closed" =>
          /\ p + c <= Window
          /\ t \in q - 1 .. q + 1
          /\ s.ps = Plus(R, -p) /\ s.rpr = s.ps /\ s.pscopy = Plus(R, c) /\ s.nxtps = Plus(R, t)
          /\ s.os = [x \in {Plus(R, i) : i \in 1 - p .. c} |-> s.os[x]]
          /\ \A i \in 1 - p .. c :
               /\ s.os[Plus(R, i)] = [st |-> IF i <= q THEN "sent" ELSE IF i <= n THEN "ready" ELSE "mark",
                                      d |-> s.os[Plus(R, i)].d]
               /\ s.os[Plus(R, i)].d \in Nat
          /\ \A i \in 1 .. n : s.os[Plus(R, i)].d = w[i]

Sending(f, w, R, q) ==
    f.k = "data" => \E i \in q - 1 .. q : f.seq = Plus(R, i) /\ (i >= 1 => f.d = w[i])

Raw(r, w, R, q, x) ==
    \E u \in -3 .. 0, g \in -3 .. 2 :
      /\ x = Plus(R, u) /\ u >= r.rcount - 3
      /\ r.is[x] = [st |-> "raw", seq |-> Plus(R, g), good |-> r.is[x].good, d |-> r.is[x].d]
      /\ g >= r.rcount - 3 /\ g <= q
      /\ r.is[x].good /\ g >= 1 => r.is[x].d = w[g]
      /\ r.imask # {} /\ x \in r.imap => u >= -1 /\ g >= r.rcount - 1

Receiver(r, w, R, q) ==
    r.op # "closed" =>
      /\ r.pr = R /\ r.rcount \in 0 .. q
      /\ r.is = [x \in DOMAIN r.is |-> r.is[x]]
      /\ DOMAIN r.is = {Plus(R, i) : i \in 1 .. r.rcount} \cup r.imap \cup r.imask
      /\ r.imap \cap r.imask = {}
      /\ \A i \in 1 .. r.rcount : r.is[Plus(R, i)] = [st |-> "copy", d |-> w[i]]
      /\ \A x \in r.imap \cup r.imask : Raw(r, w, R, q, x)
      /\ r.imask # {} => r.rd = "mark"
      /\ r.rd = "copy" => r.rcount > 0
      /\ IsFiniteSet(DOMAIN r.is) /\ Cardinality(DOMAIN r.is) <= Window

Acking(f, R, p) ==
    f.k \in Acks => \E v \in 0 .. p : f.val = Plus(R, -v)

Link(s, r, w, R, p, q, t) ==
    /\ p + Len(w) <= Window /\ q <= Len(w)
    /\ Sender(s, w, R, p, q, t) /\ Sending(s.tx, w, R, q)
    /\ Receiver(r, w, R, q) /\ Acking(r.tx, R, p)

Dir(s, r, w) ==
    /\ w \in Seq(Nat)
    /\ \E R \in No, p \in 0 .. 2, q \in 0 .. 2, t \in -1 .. 3 : Link(s, r, w, R, p, q, t)

Pair(k, o, v, w) == Pack(k) /\ Pack(o) /\ Dir(k, o, v) /\ Dir(o, k, w)

IInv ==
    /\ pk = [e \in End |-> pk[e]] /\ written = [e \in End |-> written[e]]
    /\ last \in [End -> Nat]
    /\ Pair(pk["a"], pk["b"], written["a"], written["b"])

-----------------------------------------------------------------------------
(* Numbers.                                                                *)

(* A place has a number.                                                   *)
LEMMA PlusNo == ASSUME NEW x \in Int, NEW i \in Int PROVE Plus(x, i) \in No
  BY DEF Plus, No

(* Places add up.                                                          *)
LEMMA PlusPlus ==
  ASSUME NEW x \in Int, NEW i \in Int, NEW j \in Int PROVE Plus(Plus(x, i), j) = Plus(x, i + j)
  BY DEF Plus

(* Place 0 is the number itself.                                           *)
LEMMA PlusZero == ASSUME NEW x \in No PROVE Plus(x, 0) = x
  BY DEF Plus, No

LEMMA PlusOne ==
  ASSUME NEW x \in No, NEW i \in Int
  PROVE  Plus(Plus(x, 1), i) = Plus(x, i + 1) /\ Plus(x, i) = Plus(Plus(x, 1), i - 1)
  BY DEF Plus, No

(* Places that are less than eight apart have different numbers.           *)
LEMMA PlusInj ==
  ASSUME NEW x \in Int, NEW i \in Int, NEW j \in Int, Plus(x, i) = Plus(x, j), i - j < 8, j - i < 8
  PROVE  i = j
  BY DEF Plus

(* next[] and previous[] are the neighbouring places.                      *)
LEMMA NextPlus ==
  ASSUME NEW x \in No, NEW i \in Int
  PROVE  /\ next[Plus(x, i)] = Plus(x, i + 1) /\ previous[Plus(x, i)] = Plus(x, i - 1)
         /\ next[x] = Plus(x, 1) /\ previous[x] = Plus(x, -1)
  BY DEF Plus, next, previous, No

(* The distances that pksack() and pkaccept() take modulo eight.           *)
LEMMA PlusFar ==
  ASSUME NEW x \in No, NEW i \in Int, NEW j \in Int, 0 <= i - j, i - j < 8
  PROVE  /\ (Plus(x, i) - Plus(x, j)) % 8 = i - j
         /\ (Plus(x, i) + 8 - Plus(x, j)) % 8 = i - j
         /\ (Plus(x, i + 1) + 7 - Plus(x, j)) % 8 = i - j
  BY DEF Plus, No

-----------------------------------------------------------------------------
(* Changes that matter to no direction of the line: those of p_state, of   *)
(* the messages, of the timer, the wakeups, a control message that is      *)
(* sent, and p_nxtps going back to the packet after p_rpr.                 *)
Says(k, f) ==
    \/ f = k.tx \/ f = Idle
    \/ \E m \in Names, v \in Nat :
         f = Control(m, v) /\ (m \in {"RJ", "RR"} => v = k.pr) /\ (m \in {"INITA", "INITC"} => v <= Window)

Quiet(k, j) ==
    /\ IsPack(j) /\ Alive(k) /\ Alive(j)
    /\ j.msg \subseteq Names /\ j.rmsg \subseteq Names
    /\ Says(k, j.tx)
    /\ j.swindow \in 0 .. Window
    /\ j.nxtps = k.nxtps \/ j.nxtps = next[k.rpr]
    /\ j.ps = k.ps /\ j.rpr = k.rpr /\ j.pscopy = k.pscopy /\ j.os = k.os
    /\ j.pr = k.pr /\ j.rcount = k.rcount /\ j.imap = k.imap /\ j.imask = k.imask /\ j.is = k.is
    /\ j.op # "open" => j.rd = "user" /\ j.wr = "user"
    /\ j.op \in Early => k.op \in Early
    /\ j.rd = "mark" => k.rd = "mark"
    /\ k.rd = "mark" => j.rd = "mark" \/ k.imask = {}
    /\ j.rd = "copy" => k.rcount > 0
    /\ j.wr = "fill" <=> k.wr = "fill"

Works(k, o, v, w) == Pair(k, o, v, w) /\ Alive(k)

(* The fields of a struct pack.                                            *)
LEMMA IdleIs == Idle.k = "idle"
  BY DEF Idle

LEMMA ControlIs == ASSUME NEW m, NEW v PROVE Control(m, v).k = m /\ Control(m, v).val = v
  BY DEF Control

LEMMA DataIs ==
  ASSUME NEW x, NEW v, NEW d
  PROVE  LET f == Data(x, v, d) IN f.k = "data" /\ f.seq = x /\ f.val = v /\ f.d = d
  BY DEF Data

(* A control message is a frame, never a packet, and tells what was read.  *)
LEMMA SaysFrame ==
  ASSUME NEW k, NEW f, Frame(k.tx), Says(k, f)
  PROVE  Frame(f)
  BY DEF Frame, Says

LEMMA SaysSending ==
  ASSUME NEW k, NEW f, NEW w, NEW R, NEW q, Says(k, f), Sending(k.tx, w, R, q)
  PROVE  Sending(f, w, R, q)
  BY IdleIs, ControlIs DEF Says, Sending, Names

LEMMA SaysAcking ==
  ASSUME NEW k, NEW f, NEW R \in No, NEW p \in 0 .. 2, Says(k, f), Acking(k.tx, R, p), k.pr = R
  PROVE  Acking(f, R, p)
  <1>1. CASE f = k.tx
    BY <1>1
  <1>2. CASE f = Idle
    BY <1>2, IdleIs DEF Acking, Acks
  <1>3. ASSUME NEW m \in Names, NEW v \in Nat, f = Control(m, v), m \in {"RJ", "RR"} => v = k.pr
        PROVE  Acking(f, R, p)
    <2>1. f.k = m /\ f.val = v
      BY <1>3, ControlIs
    <2>2. f.k \in Acks => f.val = Plus(R, -0)
      BY <2>1, <1>3, PlusZero DEF Acks, Names
    <2>. QED
      BY <2>2 DEF Acking
  <1>. QED
    BY <1>1, <1>2, <1>3 DEF Says

LEMMA QuietPack == ASSUME NEW k, NEW j, Pack(k), Quiet(k, j) PROVE Pack(j)
  BY SaysFrame DEF Pack, Quiet, Alive

LEMMA QuietSender ==
  ASSUME NEW k, NEW j, NEW w \in Seq(Nat), NEW R \in No, NEW p \in 0 .. 2, NEW q \in 0 .. 2, NEW t \in -1 .. 3,
         Quiet(k, j), Sender(k, w, R, p, q, t), p + Len(w) <= Window, q <= Len(w)
  PROVE  \E u \in -1 .. 3 : Sender(j, w, R, p, q, u)
  <1>w. Window \in 1 .. 2 /\ Len(w) \in Nat
    BY PacketAssumption
  <1>1. k.op # "closed"
    BY DEF Quiet, Alive
  <1>2. CASE j.nxtps = k.nxtps
    BY <1>1, <1>2 DEF Sender, Quiet
  <1>3. CASE j.nxtps = next[k.rpr]
    <2>1. k.rpr = Plus(R, -p)
      BY <1>1 DEF Sender
    <2>2. j.nxtps = Plus(R, 1 - p)
      <3>1. next[Plus(R, -p)] = Plus(R, -p + 1)
        BY NextPlus
      <3>. QED
        BY <3>1, <2>1, <1>3
    <2>3. 1 - p \in q - 1 .. q + 1 /\ 1 - p \in -1 .. 3
      BY <1>w
    <2>. QED
      BY <1>1, <2>2, <2>3 DEF Sender, Quiet
  <1>. QED
    BY <1>2, <1>3 DEF Quiet

LEMMA QuietReceiver ==
  ASSUME NEW k, NEW j, NEW w, NEW R, NEW q, Quiet(k, j), Receiver(k, w, R, q)
  PROVE  Receiver(j, w, R, q)
  <1>1. k.op # "closed" /\ j.op # "closed"
    BY DEF Quiet, Alive
  <1>2. ASSUME NEW x, Raw(k, w, R, q, x)
        PROVE  Raw(j, w, R, q, x)
    BY <1>2 DEF Raw, Quiet
  <1>. QED
    BY <1>1, <1>2 DEF Receiver, Quiet

(* The receiver's number of the last packet read.                          *)
LEMMA PrIs ==
  ASSUME NEW k, NEW w, NEW R, NEW q, Alive(k), Receiver(k, w, R, q) PROVE k.pr = R
  BY DEF Alive, Receiver

(* Quiet changes keep both directions of the line.                         *)
LEMMA QuietWorks ==
  ASSUME NEW k, NEW j, NEW o, NEW v, NEW w, Works(k, o, v, w), Quiet(k, j)
  PROVE  Works(j, o, v, w)
  <1>p. Pair(k, o, v, w) /\ Alive(k) /\ Alive(j) /\ Says(k, j.tx)
    BY DEF Works, Quiet
  <1>1. Pack(j) /\ Pack(o)
    BY <1>p, QuietPack DEF Pair
  <1>2. Dir(j, o, v)
    <2>1. v \in Seq(Nat)
      BY <1>p DEF Pair, Dir
    <2>2. PICK R \in No, p \in 0 .. 2, q \in 0 .. 2, t \in -1 .. 3 : Link(k, o, v, R, p, q, t)
      BY <1>p DEF Pair, Dir
    <2>3. PICK u \in -1 .. 3 : Sender(j, v, R, p, q, u)
      BY <2>1, <2>2, QuietSender DEF Link
    <2>4. Sending(j.tx, v, R, q)
      BY <2>2, <1>p, SaysSending DEF Link
    <2>5. Link(j, o, v, R, p, q, u)
      BY <2>2, <2>3, <2>4 DEF Link
    <2>. QED
      BY <2>1, <2>5 DEF Dir
  <1>3. Dir(o, j, w)
    <2>1. w \in Seq(Nat)
      BY <1>p DEF Pair, Dir
    <2>2. PICK R \in No, p \in 0 .. 2, q \in 0 .. 2, t \in -1 .. 3 : Link(o, k, w, R, p, q, t)
      BY <1>p DEF Pair, Dir
    <2>3. Receiver(j, w, R, q)
      BY <2>2, QuietReceiver DEF Link
    <2>4. Acking(j.tx, R, p)
      BY <2>2, <1>p, SaysAcking, PrIs DEF Link
    <2>5. Link(o, j, w, R, p, q, t)
      BY <2>2, <2>3, <2>4 DEF Link
    <2>. QED
      BY <2>1, <2>5 DEF Dir
  <1>. QED
    BY <1>p, <1>1, <1>2, <1>3 DEF Works, Pair

(* What a working end knows of itself.                                     *)
Calm(k) ==
    /\ IsPack(k) /\ Alive(k)
    /\ k.msg \subseteq Names /\ k.rmsg \subseteq Names
    /\ k.swindow \in 0 .. Window /\ k.pr \in No
    /\ k.op # "open" => k.rd = "user" /\ k.wr = "user"
    /\ k.rd = "copy" => k.rcount > 0

LEMMA WorksCalm == ASSUME NEW k, NEW o, NEW v, NEW w, Works(k, o, v, w) PROVE Calm(k)
  <1>1. Pack(k) /\ Alive(k)
    BY DEF Works, Pair
  <1>2. PICK R \in No, p \in 0 .. 2, q \in 0 .. 2, t \in -1 .. 3 : Link(o, k, w, R, p, q, t)
    BY DEF Works, Pair, Dir
  <1>3. Receiver(k, w, R, q)
    BY <1>2 DEF Link
  <1>4. k.pr \in No /\ (k.rd = "copy" => k.rcount > 0)
    BY <1>3, <1>1 DEF Receiver, Alive
  <1>. QED
    BY <1>1, <1>4 DEF Calm, Pack

(* The state, the messages and the timer alone.                            *)
Edited(k, j) ==
    /\ IsPack(j) /\ j.msg \subseteq Names /\ j.rmsg \subseteq Names
    /\ \A x \in Fields \ {"state", "msg", "rmsg", "timer", "moved"} : j[x] = k[x]

LEMMA EditWorks ==
  ASSUME NEW k, NEW o, NEW v, NEW w, Works(k, o, v, w), NEW j, Edited(k, j)
  PROVE  Works(j, o, v, w)
  <1>1. Calm(k)
    BY WorksCalm
  <1>2. Quiet(k, j)
    BY <1>1 DEF Quiet, Calm, IsPack, Fields, Says, Edited, Alive
  <1>. QED
    BY <1>2, QuietWorks

LEMMA WakeQuiet ==
  ASSUME NEW k, Calm(k)
  PROVE  Quiet(k, WakePr(k)) /\ Quiet(k, WakePs(k)) /\ Quiet(k, WakeState(k))
  <1>1. Quiet(k, WakePr(k))
    BY DEF Quiet, Calm, IsPack, Fields, Says, WakePr, Alive, Early
  <1>2. Quiet(k, WakePs(k))
    BY DEF Quiet, Calm, IsPack, Fields, Says, WakePs, Alive, Early
  <1>3. Quiet(k, WakeState(k))
    BY DEF Quiet, Calm, IsPack, Fields, Says, WakeState, Alive, Early
  <1>. QED
    BY <1>1, <1>2, <1>3

LEMMA WakeWorks ==
  ASSUME NEW k, NEW o, NEW v, NEW w, Works(k, o, v, w)
  PROVE  Works(WakePr(k), o, v, w) /\ Works(WakePs(k), o, v, w) /\ Works(WakeState(k), o, v, w)
  BY WorksCalm, WakeQuiet, QuietWorks

-----------------------------------------------------------------------------
(* pkoutput().                                                             *)

(* The first message of some is one of them.                               *)
LEMMA FirstIn ==
  ASSUME NEW m, m \subseteq Names, m # {}
  PROVE  First(m) \in m
  <1> DEFINE P(i) == Messages[i] \in m /\ \A j \in 1 .. i - 1 : Messages[j] \notin m
  <1>m. /\ Messages[1] = "CLOSE" /\ Messages[2] = "RJ" /\ Messages[3] = "RR"
        /\ Messages[4] = "INITC" /\ Messages[5] = "INITB" /\ Messages[6] = "INITA"
    BY DEF Messages
  <1>1. \E i \in 1 .. 6 : P(i)
    <2>1. CASE P(1)
      BY <2>1
    <2>2. CASE ~P(1) /\ P(2)
      BY <2>2
    <2>3. CASE ~P(1) /\ ~P(2) /\ P(3)
      BY <2>3
    <2>4. CASE ~P(1) /\ ~P(2) /\ ~P(3) /\ P(4)
      BY <2>4
    <2>5. CASE ~P(1) /\ ~P(2) /\ ~P(3) /\ ~P(4) /\ P(5)
      BY <2>5
    <2>6. CASE ~P(1) /\ ~P(2) /\ ~P(3) /\ ~P(4) /\ ~P(5)
      <3>1. "CLOSE" \notin m
        BY <2>6, <1>m
      <3>2. "RJ" \notin m
        <4>1. \A j \in 1 .. 2 - 1 : j = 1
          OBVIOUS
        <4>. QED
          BY <3>1, <2>6, <1>m, <4>1
      <3>3. "RR" \notin m
        <4>1. \A j \in 1 .. 3 - 1 : j = 1 \/ j = 2
          OBVIOUS
        <4>. QED
          BY <3>1, <3>2, <2>6, <1>m, <4>1
      <3>4. "INITC" \notin m
        <4>1. \A j \in 1 .. 4 - 1 : j = 1 \/ j = 2 \/ j = 3
          OBVIOUS
        <4>. QED
          BY <3>1, <3>2, <3>3, <2>6, <1>m, <4>1
      <3>5. "INITB" \notin m
        <4>1. \A j \in 1 .. 5 - 1 : j = 1 \/ j = 2 \/ j = 3 \/ j = 4
          OBVIOUS
        <4>. QED
          BY <3>1, <3>2, <3>3, <3>4, <2>6, <1>m, <4>1
      <3>6. "INITA" \in m
        BY <3>1, <3>2, <3>3, <3>4, <3>5 DEF Names
      <3>7. P(6)
        <4>1. \A j \in 1 .. 6 - 1 : j = 1 \/ j = 2 \/ j = 3 \/ j = 4 \/ j = 5
          OBVIOUS
        <4>. QED
          BY <3>1, <3>2, <3>3, <3>4, <3>5, <3>6, <1>m, <4>1
      <3>. QED
        BY <3>7
    <2>. QED
      BY <2>1, <2>2, <2>3, <2>4, <2>5, <2>6
  <1>2. First(m) = Messages[CHOOSE i \in 1 .. 6 : P(i)]
    BY DEF First
  <1>3. P(CHOOSE i \in 1 .. 6 : P(i))
    BY <1>1
  <1>. QED
    BY <1>2, <1>3

LEMMA RewoundWorks ==
  ASSUME NEW k, NEW o, NEW v, NEW w, Works(k, o, v, w)
  PROVE  Works(Rewound(k), o, v, w)
  <1>1. Calm(k)
    BY WorksCalm
  <1>2. Quiet(k, Rewound(k))
    BY <1>1 DEF Quiet, Calm, IsPack, Fields, Says, Rewound, Alive
  <1>. QED
    BY <1>2, QuietWorks

LEMMA SendControlWorks ==
  ASSUME NEW k, NEW o, NEW v, NEW w, Works(k, o, v, w), k.msg # {}
  PROVE  Works(SendControl(k), o, v, w)
  <1>1. Calm(k)
    BY WorksCalm
  <1> DEFINE m == First(k.msg)
             val == CASE m \in {"RJ", "RR"} -> k.pr [] m \in {"INITA", "INITC"} -> Window [] OTHER -> 0
  <1>2. m \in Names
    BY <1>1, FirstIn DEF Calm
  <1>3. /\ val \in Nat /\ (m \in {"RJ", "RR"} => val = k.pr) /\ (m \in {"INITA", "INITC"} => val <= Window)
    BY <1>1, PacketAssumption DEF Calm, No
  <1>4. SendControl(k) = [k EXCEPT !.tx = Control(m, val), !.msg = @ \ {m}]
    BY DEF SendControl
  <1>5. Says(k, Control(m, val))
    BY <1>2, <1>3 DEF Says
  <1> HIDE DEF m, val
  <1>6. Quiet(k, [k EXCEPT !.tx = Control(m, val), !.msg = @ \ {m}])
    BY <1>1, <1>5 DEF Quiet, Calm, IsPack, Fields, Alive
  <1>. QED
    BY <1>4, <1>6, QuietWorks

LEMMA LanguishWorks ==
  ASSUME NEW k, NEW o, NEW v, NEW w, Works(k, o, v, w)
  PROVE  Works(Languish(k), o, v, w)
  <1>1. Calm(k)
    BY WorksCalm
  <1> DEFINE j == IF Xcount(k) > 0 THEN [k EXCEPT !.timer = TRUE, !.state = @ \cup {"WAITO"}]
                                   ELSE [k EXCEPT !.state = @ \ {"WAITO"}]
  <1>2. Edited(k, j)
    BY <1>1 DEF Edited, Calm, IsPack, Fields
  <1>3. Languish(k) = WakePs(j)
    BY DEF Languish
  <1> HIDE DEF j
  <1>. QED
    BY <1>2, <1>3, EditWorks, WakeWorks

(* The fields that a direction of the line depends on at its receiver.     *)
SameIn(k, j) ==
    /\ j.pr = k.pr /\ j.rcount = k.rcount /\ j.imap = k.imap /\ j.imask = k.imask /\ j.is = k.is
    /\ j.rd = k.rd /\ (k.op = "closed" <=> j.op = "closed")

LEMMA SameReceiver ==
  ASSUME NEW k, NEW j, NEW w, NEW R, NEW q, SameIn(k, j), Receiver(k, w, R, q)
  PROVE  Receiver(j, w, R, q)
  <1>1. ASSUME NEW x, Raw(k, w, R, q, x)
        PROVE  Raw(j, w, R, q, x)
    BY <1>1 DEF Raw, SameIn
  <1>. QED
    BY <1>1 DEF Receiver, SameIn

(* More may be sent.                                                       *)
LEMMA MoreSent ==
  ASSUME NEW r, NEW w, NEW R, NEW q \in 0 .. 2, NEW z \in 0 .. 2, q <= z, Receiver(r, w, R, q)
  PROVE  Receiver(r, w, R, z)
  <1>1. ASSUME NEW x, Raw(r, w, R, q, x)
        PROVE  Raw(r, w, R, z, x)
    BY <1>1 DEF Raw
  <1>. QED
    BY <1>1 DEF Receiver

(* The buffer at p_nxtps is one that has been filled.                      *)
LEMMA NxtpsIs ==
  ASSUME NEW k, NEW w \in Seq(Nat), NEW R \in No, NEW p \in 0 .. 2, NEW q \in 0 .. 2, NEW t \in -1 .. 3,
         p + Len(w) <= Window, q <= Len(w), Alive(k), Sender(k, w, R, p, q, t), Ready(k, k.nxtps)
  PROVE  k.nxtps = Plus(R, t) /\ t \in 1 - p .. Len(w) /\ t \in q - 1 .. q + 1
  <1> DEFINE c == IF k.wr = "fill" THEN Len(w) + 1 ELSE Len(w)
  <1>w. Window \in 1 .. 2 /\ Len(w) \in Nat /\ c \in Nat /\ R \in Int
    BY PacketAssumption DEF No
  <1>1. /\ p + c <= Window /\ t \in q - 1 .. q + 1 /\ k.nxtps = Plus(R, t)
        /\ k.os = [x \in {Plus(R, i) : i \in 1 - p .. c} |-> k.os[x]]
        /\ \A i \in 1 - p .. c :
             k.os[Plus(R, i)] = [st |-> IF i <= q THEN "sent" ELSE IF i <= Len(w) THEN "ready" ELSE "mark",
                                 d |-> k.os[Plus(R, i)].d]
    BY DEF Sender, Alive
  <1> HIDE DEF c
  <1>2. Plus(R, t) \in DOMAIN k.os /\ k.os[Plus(R, t)].st \in {"ready", "sent"}
    BY <1>1 DEF Ready
  <1>3. PICK i \in 1 - p .. c : Plus(R, t) = Plus(R, i)
    BY <1>1, <1>2
  <1>4. t = i
    BY <1>3, <1>1, <1>w, PlusInj
  <1>5. t <= Len(w)
    <2>1. k.os[Plus(R, t)] = [st |-> IF t <= q THEN "sent" ELSE IF t <= Len(w) THEN "ready" ELSE "mark",
                              d |-> k.os[Plus(R, t)].d]
      BY <1>1, <1>4
    <2>2. k.os[Plus(R, t)].st = IF t <= q THEN "sent" ELSE IF t <= Len(w) THEN "ready" ELSE "mark"
      BY <2>1
    <2>. QED
      BY <2>2, <1>2, <1>w
  <1>. QED
    BY <1>1, <1>4, <1>5, <1>w

LEMMA SendDataSender ==
  ASSUME NEW k, NEW w \in Seq(Nat), NEW R \in No, NEW p \in 0 .. 2, NEW q \in 0 .. 2, NEW t \in -1 .. 3,
         p + Len(w) <= Window, q <= Len(w), IsPack(k), Alive(k), Sender(k, w, R, p, q, t), Ready(k, k.nxtps),
         NEW z, z = IF t <= q THEN q ELSE t
  PROVE  Sender(SendData(k), w, R, p, z, t + 1)
  <1> DEFINE n == Len(w)
             c == IF k.wr = "fill" THEN n + 1 ELSE n
             j == SendData(k)
  <1>w. Window \in 1 .. 2 /\ n \in Nat /\ c \in Nat /\ R \in Int
    BY PacketAssumption DEF No
  <1>1. /\ p + c <= Window
        /\ k.ps = Plus(R, -p) /\ k.rpr = k.ps /\ k.pscopy = Plus(R, c)
        /\ k.os = [x \in {Plus(R, i) : i \in 1 - p .. c} |-> k.os[x]]
        /\ \A i \in 1 - p .. c :
             /\ k.os[Plus(R, i)] = [st |-> IF i <= q THEN "sent" ELSE IF i <= n THEN "ready" ELSE "mark",
                                    d |-> k.os[Plus(R, i)].d]
             /\ k.os[Plus(R, i)].d \in Nat
        /\ \A i \in 1 .. n : k.os[Plus(R, i)].d = w[i]
    BY DEF Sender, Alive
  <1>2. k.nxtps = Plus(R, t) /\ t \in 1 - p .. n /\ t \in q - 1 .. q + 1
    BY NxtpsIs
  <1>3. /\ j.ps = k.ps /\ j.rpr = k.rpr /\ j.pscopy = k.pscopy /\ j.op = k.op /\ j.wr = k.wr
        /\ j.nxtps = next[k.nxtps]
        /\ j.os = [k.os EXCEPT ![k.nxtps] = [k.os[k.nxtps] EXCEPT !.st = "sent"]]
    BY DEF SendData, IsPack, Fields
  <1>4. j.nxtps = Plus(R, t + 1)
    BY <1>3, <1>2, NextPlus
  <1>5. z \in 0 .. 2 /\ t + 1 \in z - 1 .. z + 1 /\ z <= n
    BY <1>2, <1>w
  <1> DEFINE D == {Plus(R, i) : i \in 1 - p .. c}
  <1>6. j.os = [x \in D |-> j.os[x]]
    BY <1>3, <1>1
  <1>c. t \in 1 - p .. c /\ c <= 3
    BY <1>2, <1>w, <1>1
  <1> HIDE DEF j, D
  <1>7. ASSUME NEW i \in 1 - p .. c
        PROVE  /\ j.os[Plus(R, i)] = [st |-> IF i <= z THEN "sent" ELSE IF i <= n THEN "ready" ELSE "mark",
                                      d |-> k.os[Plus(R, i)].d]
    <2>1. Plus(R, i) \in D /\ DOMAIN k.os = D
      BY <1>1 DEF D
    <2>2. CASE i = t
      <3>1. j.os[Plus(R, i)] = [k.os[Plus(R, i)] EXCEPT !.st = "sent"]
        BY <2>1, <2>2, <1>2, <1>3
      <3>2. i <= z
        BY <2>2, <1>5, <1>2, <1>w
      <3>. QED
        BY <3>1, <3>2, <1>1
    <2>3. CASE i # t
      <3>1. Plus(R, i) # Plus(R, t)
        BY <2>3, PlusInj, <1>w, <1>1, <1>c
      <3>2. j.os[Plus(R, i)] = k.os[Plus(R, i)]
        BY <3>1, <2>1, <1>2, <1>3
      <3>3. i <= z <=> i <= q
        BY <2>3, <1>2, <1>w
      <3>. QED
        BY <3>2, <3>3, <1>1
    <2>. QED
      BY <2>2, <2>3
  <1>8. \A i \in 1 - p .. c :
             /\ j.os[Plus(R, i)] = [st |-> IF i <= z THEN "sent" ELSE IF i <= n THEN "ready" ELSE "mark",
                                    d |-> j.os[Plus(R, i)].d]
             /\ j.os[Plus(R, i)].d = k.os[Plus(R, i)].d
    <2> TAKE i \in 1 - p .. c
    <2>1. j.os[Plus(R, i)] = [st |-> IF i <= z THEN "sent" ELSE IF i <= n THEN "ready" ELSE "mark",
                              d |-> k.os[Plus(R, i)].d]
      BY <1>7
    <2>2. j.os[Plus(R, i)].d = k.os[Plus(R, i)].d
      BY <2>1
    <2>. QED
      BY <2>1, <2>2
  <1>9. \A i \in 1 .. n : i \in 1 - p .. c
    BY <1>w, <1>2
  <1>. QED
    BY <1>1, <1>3, <1>4, <1>5, <1>6, <1>8, <1>9 DEF Sender, D, j

LEMMA SendDataWorks ==
  ASSUME NEW k, NEW o, NEW v, NEW w, Works(k, o, v, w), Ready(k, k.nxtps)
  PROVE  Works(SendData(k), o, v, w)
  <1> DEFINE j == SendData(k)
  <1>p. Pair(k, o, v, w) /\ Alive(k) /\ Pack(k) /\ IsPack(k) /\ Pack(o)
    BY DEF Works, Pair, Pack
  <1>1. /\ IsPack(j) /\ j.msg = k.msg /\ j.rmsg = k.rmsg /\ j.swindow = k.swindow /\ j.op = k.op
        /\ j.rd = k.rd /\ j.wr = k.wr /\ SameIn(k, j)
        /\ j.tx = Data(k.nxtps, k.pr, k.os[k.nxtps].d)
    BY <1>p DEF SendData, IsPack, Fields, SameIn
  <1>2. v \in Seq(Nat) /\ w \in Seq(Nat)
    BY <1>p DEF Pair, Dir
  <1>3. PICK R \in No, p \in 0 .. 2, q \in 0 .. 2, t \in -1 .. 3 : Link(k, o, v, R, p, q, t)
    BY <1>p DEF Pair, Dir
  <1>4. PICK S \in No, a \in 0 .. 2, b \in 0 .. 2, c \in -1 .. 3 : Link(o, k, w, S, a, b, c)
    BY <1>p DEF Pair, Dir
  <1>w. Window \in 1 .. 2 /\ Len(v) \in Nat /\ R \in Int
    BY PacketAssumption, <1>2 DEF No
  <1>5. k.pr = S
    BY <1>4, <1>p, PrIs DEF Link
  <1>6. k.nxtps = Plus(R, t) /\ t \in 1 - p .. Len(v) /\ t \in q - 1 .. q + 1
    BY <1>2, <1>3, <1>p, NxtpsIs DEF Link
  <1> DEFINE z == IF t <= q THEN q ELSE t
  <1>7. Sender(j, v, R, p, z, t + 1)
    BY <1>2, <1>3, <1>p, SendDataSender DEF Link
  <1>z. z \in 0 .. 2 /\ q <= z /\ z <= Len(v) /\ t + 1 \in -1 .. 3 /\ t \in z - 1 .. z
    BY <1>6, <1>w, <1>3 DEF Link
  <1>8. k.os[k.nxtps].d \in Nat /\ (t >= 1 => k.os[k.nxtps].d = v[t])
    <2> DEFINE e == IF k.wr = "fill" THEN Len(v) + 1 ELSE Len(v)
    <2>1. Sender(k, v, R, p, q, t) /\ k.op # "closed"
      BY <1>3, <1>p DEF Link, Alive
    <2>2. /\ \A i \in 1 - p .. e : k.os[Plus(R, i)].d \in Nat
          /\ \A i \in 1 .. Len(v) : k.os[Plus(R, i)].d = v[i]
      BY <2>1 DEF Sender
    <2>3. t \in 1 - p .. e
      BY <1>6, <1>w
    <2> HIDE DEF e
    <2>. QED
      BY <2>2, <2>3, <1>6, <1>w
  <1> DEFINE f == Data(k.nxtps, k.pr, k.os[k.nxtps].d)
  <1>f. f.k = "data" /\ f.seq = k.nxtps /\ f.val = k.pr /\ f.d = k.os[k.nxtps].d
    BY DataIs
  <1>9. Frame(f)
    <2>1. k.nxtps \in No /\ k.pr \in No /\ k.os[k.nxtps].d \in Nat
      BY <1>5, <1>6, <1>8, PlusNo, <1>w
    <2>. QED
      BY <2>1 DEF Frame
  <1> HIDE DEF j, z, f
  <1>10. Sending(f, v, R, z)
    BY <1>f, <1>6, <1>8, <1>z DEF Sending
  <1>11. Acking(f, S, a)
    BY <1>f, <1>5, PlusZero DEF Acking
  <1>12. Pack(j)
    <2>1. k.op \notin Early
      BY <1>p DEF Pack, Ready, None
    <2>. QED
      BY <1>p, <1>1, <1>9, <2>1 DEF Pack, Alive, f
  <1>13. Link(j, o, v, R, p, z, t + 1)
    <2>1. Receiver(o, v, R, z)
      BY <1>3, <1>z, MoreSent DEF Link
    <2>. QED
      BY <1>3, <1>1, <1>7, <1>10, <1>z, <2>1 DEF Link, f
  <1>14. Link(o, j, w, S, a, b, c)
    <2>1. Receiver(j, w, S, b)
      BY <1>4, <1>1, SameReceiver DEF Link
    <2>. QED
      BY <1>4, <1>1, <1>11, <2>1 DEF Link, f
  <1>15. Dir(j, o, v)
    BY <1>13, <1>2, <1>z DEF Dir
  <1>16. Dir(o, j, w)
    BY <1>14, <1>2 DEF Dir
  <1>. QED
    BY <1>12, <1>15, <1>16, <1>p, <1>1 DEF Works, Pair, Alive, j

(* pkoutput() keeps both directions of the line.                           *)
LEMMA OutputWorks ==
  ASSUME NEW k, NEW o, NEW v, NEW w, Works(k, o, v, w)
  PROVE  Works(Output(k), o, v, w)
  <1> DEFINE r == Rewound(k)
  <1>1. Works(r, o, v, w)
    BY RewoundWorks
  <1>2. ControlFirst(r) => Works(SendControl(r), o, v, w)
    BY <1>1, SendControlWorks DEF ControlFirst
  <1>3. Works(WakePs(r), o, v, w) /\ Works(Languish(r), o, v, w)
    BY <1>1, WakeWorks, LanguishWorks
  <1>4. Ready(r, r.nxtps) => Works(SendData(r), o, v, w)
    BY <1>1, SendDataWorks
  <1> HIDE DEF r
  <1>. QED
    BY <1>2, <1>3, <1>4 DEF Output, r

LEMMA OutputIfWorks ==
  ASSUME NEW k, NEW o, NEW v, NEW w, Works(k, o, v, w)
  PROVE  Works(OutputIf(k), o, v, w)
  BY OutputWorks DEF OutputIf

-----------------------------------------------------------------------------
(* pksack().                                                               *)

(* The packets released are those up to the number acknowledged.           *)
Reached(k, r, w, R, p, q, t, u) ==
    /\ w \in Seq(Nat) /\ R \in No /\ p \in 0 .. 2 /\ q \in 0 .. 2 /\ t \in -1 .. 3
    /\ p + Len(w) <= Window /\ Alive(k) /\ Sender(k, w, R, p, q, t) /\ u \in 0 .. p
    /\ r.os = k.os /\ r.ps = k.ps /\ r.rpr = Plus(R, -u)

LEMMA AckedIs ==
  ASSUME NEW k, NEW r, NEW w, NEW R, NEW p, NEW q, NEW t, NEW u, Reached(k, r, w, R, p, q, t, u)
  PROVE  \A x : x \in Acked(r) <=> \E i \in 1 - p .. -u : x = Plus(R, i)
  <1> USE DEF Reached
  <1> DEFINE n == Len(w)
             c == IF k.wr = "fill" THEN n + 1 ELSE n
  <1>w. Window \in 1 .. 2 /\ n \in Nat /\ c \in Nat /\ R \in Int
    BY PacketAssumption DEF No
  <1>1. /\ p + c <= Window /\ k.ps = Plus(R, -p)
        /\ DOMAIN k.os = {Plus(R, i) : i \in 1 - p .. c}
        /\ \A i \in 1 - p .. c :
             k.os[Plus(R, i)] = [st |-> IF i <= q THEN "sent" ELSE IF i <= n THEN "ready" ELSE "mark",
                                 d |-> k.os[Plus(R, i)].d]
    BY DEF Sender, Alive
  <1> HIDE DEF c, n
  <1>2. (r.rpr + 8 - r.ps) % 8 = p - u
    <2>1. (Plus(R, -u) + 8 - Plus(R, -p)) % 8 = (-u) - (-p)
      BY PlusFar
    <2>. QED
      BY <2>1, <1>1
  <1>3. ASSUME NEW i \in 1 - p .. c
        PROVE  /\ (Plus(R, i) + 7 - r.ps) % 8 = i - 1 + p
               /\ i <= 0 => k.os[Plus(R, i)].st = "sent"
    <2>1. (Plus(R, (i - 1) + 1) + 7 - Plus(R, -p)) % 8 = (i - 1) - (-p)
      <3>1. i - 1 \in Int /\ -p \in Int /\ 0 <= (i - 1) - (-p) /\ (i - 1) - (-p) < 8
        BY <1>w, <1>1
      <3> HIDE DEF Plus
      <3>. QED
        BY <3>1, PlusFar
    <2>2. (i - 1) + 1 = i
      BY <1>w
    <2>3. i <= 0 => k.os[Plus(R, i)].st = "sent"
      <3>1. k.os[Plus(R, i)].st = IF i <= q THEN "sent" ELSE IF i <= n THEN "ready" ELSE "mark"
        <4>1. k.os[Plus(R, i)] = [st |-> IF i <= q THEN "sent" ELSE IF i <= n THEN "ready" ELSE "mark",
                                  d |-> k.os[Plus(R, i)].d]
          BY <1>1
        <4>. QED
          BY <4>1
      <3>. QED
        BY <3>1, <1>w
    <2>. QED
      BY <2>1, <2>2, <2>3, <1>1, <1>w
  <1>4. ASSUME NEW x \in Acked(r)
        PROVE  x \in {Plus(R, i) : i \in 1 - p .. -u}
    <2>1. x \in DOMAIN k.os /\ (x + 7 - r.ps) % 8 < p - u
      BY <1>4, <1>2 DEF Acked
    <2>2. PICK i \in 1 - p .. c : x = Plus(R, i)
      BY <2>1, <1>1
    <2>3. i - 1 + p < p - u
      BY <2>1, <2>2, <1>3
    <2>4. i \in 1 - p .. -u
      BY <2>3, <1>w
    <2>. QED
      BY <2>2, <2>4
  <1>5. ASSUME NEW i \in 1 - p .. -u
        PROVE  Plus(R, i) \in Acked(r)
    <2>1. i \in 1 - p .. c /\ i <= 0 /\ i - 1 + p < p - u
      BY <1>w
    <2>2. Plus(R, i) \in DOMAIN r.os /\ r.os[Plus(R, i)].st = "sent"
      BY <2>1, <1>1, <1>3
    <2>3. (Plus(R, i) + 7 - r.ps) % 8 < (r.rpr + 8 - r.ps) % 8
      BY <2>1, <1>3, <1>2
    <2>. QED
      BY <2>2, <2>3 DEF Acked
  <1>. QED
    BY <1>4, <1>5

(* pksack() before its wakeup.                                             *)
Released(k) ==
    [k EXCEPT !.os = Without(@, Acked(k)), !.state = @ \ {"WAITO"},
              !.ps = CHOOSE x \in Acked(k) : \A y \in Acked(k) : (y - k.ps) % 8 <= (x - k.ps) % 8]

LEMMA ReleasedSender ==
  ASSUME NEW k, NEW w \in Seq(Nat), NEW R \in No, NEW p \in 0 .. 2, NEW q \in 0 .. 2, NEW t \in -1 .. 3,
         p + Len(w) <= Window, IsPack(k), Alive(k), Sender(k, w, R, p, q, t), NEW u \in 0 .. p, u < p,
         NEW r, r = [k EXCEPT !.rpr = Plus(R, -u)]
  PROVE  Sender(Released(r), w, R, u, q, t)
  <1> DEFINE n == Len(w)
             c == IF k.wr = "fill" THEN n + 1 ELSE n
             A == Acked(r)
             j == Released(r)
  <1>w. Window \in 1 .. 2 /\ n \in Nat /\ c \in Nat /\ R \in Int
    BY PacketAssumption DEF No
  <1>1. /\ p + c <= Window /\ t \in q - 1 .. q + 1
        /\ k.ps = Plus(R, -p) /\ k.pscopy = Plus(R, c) /\ k.nxtps = Plus(R, t)
        /\ k.os = [x \in {Plus(R, i) : i \in 1 - p .. c} |-> k.os[x]]
        /\ \A i \in 1 - p .. c :
             /\ k.os[Plus(R, i)] = [st |-> IF i <= q THEN "sent" ELSE IF i <= n THEN "ready" ELSE "mark",
                                    d |-> k.os[Plus(R, i)].d]
             /\ k.os[Plus(R, i)].d \in Nat
        /\ \A i \in 1 .. n : k.os[Plus(R, i)].d = w[i]
    BY DEF Sender, Alive
  <1>2. /\ r.os = k.os /\ r.ps = k.ps /\ r.rpr = Plus(R, -u) /\ r.wr = k.wr /\ r.op = k.op
        /\ r.pscopy = k.pscopy /\ r.nxtps = k.nxtps /\ IsPack(r)
    BY DEF IsPack, Fields
  <1>3. A = {Plus(R, i) : i \in 1 - p .. -u}
    <2> HIDE DEF A, c, n, j
    <2>1. r.os = k.os /\ r.ps = k.ps /\ r.rpr = Plus(R, -u)
      BY <1>2
    <2>2. Reached(k, r, w, R, p, q, t, u)
      BY <2>1 DEF Reached
    <2>3. \A x : x \in Acked(r) <=> \E i \in 1 - p .. -u : x = Plus(R, i)
      BY <2>2, AckedIs
    <2>. QED
      BY <2>3 DEF A
  <1> HIDE DEF A
  <1>4. ASSUME NEW i \in 1 - p .. -u
        PROVE  (Plus(R, i) - k.ps) % 8 = i + p
    <2>1. (Plus(R, i) - Plus(R, -p)) % 8 = i - (-p)
      BY PlusFar, <1>w
    <2>. QED
      BY <2>1, <1>1
  <1>5. (CHOOSE x \in A : \A y \in A : (y - k.ps) % 8 <= (x - k.ps) % 8) = Plus(R, -u)
    <2> DEFINE Q(x) == \A y \in A : (y - k.ps) % 8 <= (x - k.ps) % 8
    <2>1. -u \in 1 - p .. -u
      BY <1>w
    <2>2. Plus(R, -u) \in A
      BY <2>1, <1>3
    <2>3. Q(Plus(R, -u))
      <3>1. ASSUME NEW y \in A PROVE (y - k.ps) % 8 <= (Plus(R, -u) - k.ps) % 8
        <4>1. PICK i \in 1 - p .. -u : y = Plus(R, i)
          BY <1>3
        <4>. QED
          BY <4>1, <1>4, <2>1, <1>w
      <3>. QED
        BY <3>1
    <2>4. ASSUME NEW x \in A, Q(x)
          PROVE  x = Plus(R, -u)
      <3>1. PICK i \in 1 - p .. -u : x = Plus(R, i)
        BY <1>3
      <3>2. (Plus(R, -u) - k.ps) % 8 <= (x - k.ps) % 8
        BY <2>2, <2>4
      <3>3. -u + p <= i + p
        BY <3>1, <3>2, <1>4, <2>1
      <3>. QED
        BY <3>1, <3>3, <1>w
    <2> HIDE DEF Q
    <2>5. (CHOOSE x \in A : Q(x)) \in A /\ Q(CHOOSE x \in A : Q(x))
      BY <2>2, <2>3
    <2>6. (CHOOSE x \in A : Q(x)) = Plus(R, -u)
      BY <2>5, <2>4
    <2>. QED
      BY <2>6 DEF Q
  <1>6. /\ j.ps = Plus(R, -u) /\ j.rpr = Plus(R, -u) /\ j.pscopy = k.pscopy /\ j.nxtps = k.nxtps
        /\ j.wr = k.wr /\ j.op = k.op /\ j.os = Without(k.os, A)
    BY <1>2, <1>5 DEF Released, IsPack, Fields, A
  <1> DEFINE D == {Plus(R, i) : i \in 1 - p .. c}
             E == {Plus(R, i) : i \in 1 - u .. c}
  <1>7. D \ A = E
    <2>1. ASSUME NEW x \in D \ A PROVE x \in E
      <3>1. PICK i \in 1 - p .. c : x = Plus(R, i)
        OBVIOUS
      <3>2. i \notin 1 - p .. -u
        BY <3>1, <1>3
      <3>3. i \in 1 - u .. c
        BY <3>2, <1>w
      <3>. QED
        BY <3>1, <3>3
    <2>2. ASSUME NEW i \in 1 - u .. c PROVE Plus(R, i) \in D \ A
      <3>1. i \in 1 - p .. c
        BY <1>w
      <3>2. ASSUME NEW h \in 1 - p .. -u, Plus(R, i) = Plus(R, h) PROVE FALSE
        BY <3>2, PlusInj, <1>w, <1>1
      <3>. QED
        BY <3>1, <3>2, <1>3
    <2>. QED
      BY <2>1, <2>2
  <1>8. j.os = [x \in E |-> k.os[x]]
    BY <1>1, <1>6, <1>7 DEF Without
  <1>9. /\ \A i \in 1 - u .. c : i \in 1 - p .. c /\ Plus(R, i) \in E
        /\ \A i \in 1 .. n : i \in 1 - u .. c /\ Plus(R, i) \in E
    BY <1>w
  <1> HIDE DEF j, E
  <1>10. /\ \A i \in 1 - u .. c :
             /\ j.os[Plus(R, i)] = [st |-> IF i <= q THEN "sent" ELSE IF i <= n THEN "ready" ELSE "mark",
                                    d |-> j.os[Plus(R, i)].d]
             /\ j.os[Plus(R, i)].d \in Nat
         /\ \A i \in 1 .. n : j.os[Plus(R, i)].d = w[i]
    BY <1>1, <1>8, <1>9
  <1>11. u + c <= Window
    BY <1>1, <1>w
  <1>12. j.os = [x \in E |-> j.os[x]]
    BY <1>8
  <1>. QED
    BY <1>1, <1>6, <1>10, <1>11, <1>12 DEF Sender, j, E

(* The number in a frame of the other end.                                 *)
LEMMA ReleasedWorks ==
  ASSUME NEW k, NEW o, NEW v, NEW w, Works(k, o, v, w), o.tx.k \in Acks,
         NEW r, r = [k EXCEPT !.rpr = o.tx.val]
  PROVE  /\ Acked(r) = {} => r = k
         /\ Acked(r) # {} => Works(Released(r), o, v, w)
  <1>p. Pair(k, o, v, w) /\ Alive(k) /\ Pack(k) /\ IsPack(k) /\ Pack(o)
    BY DEF Works, Pair, Pack
  <1>1. /\ r.os = k.os /\ r.ps = k.ps /\ r.rpr = o.tx.val /\ r.op = k.op
    BY <1>p DEF IsPack, Fields
  <1>2. v \in Seq(Nat) /\ w \in Seq(Nat)
    BY <1>p DEF Pair, Dir
  <1>3. PICK R \in No, p \in 0 .. 2, q \in 0 .. 2, t \in -1 .. 3 : Link(k, o, v, R, p, q, t)
    BY <1>p DEF Pair, Dir
  <1>4. PICK S \in No, a \in 0 .. 2, b \in 0 .. 2, c \in -1 .. 3 : Link(o, k, w, S, a, b, c)
    BY <1>p DEF Pair, Dir
  <1>5. PICK u \in 0 .. p : o.tx.val = Plus(R, -u)
    BY <1>3 DEF Link, Acking
  <1>6. Sender(k, v, R, p, q, t) /\ p + Len(v) <= Window
    BY <1>3 DEF Link
  <1>7. k.rpr = Plus(R, -p)
    BY <1>6, <1>p DEF Sender, Alive
  <1>8. Reached(k, r, v, R, p, q, t, u)
    BY <1>1, <1>2, <1>3, <1>5, <1>6, <1>p DEF Reached
  <1>9. \A x : x \in Acked(r) <=> \E i \in 1 - p .. -u : x = Plus(R, i)
    BY <1>8, AckedIs
  <1>10. CASE u = p
    <2>1. Acked(r) = {}
      <3>1. 1 - p .. -u = {}
        BY <1>10
      <3>. QED
        BY <3>1, <1>9
    <2>2. r = k
      BY <1>10, <1>5, <1>7, <1>p DEF IsPack, Fields
    <2>. QED
      BY <2>1, <2>2
  <1>11. CASE u # p
    <2>1. u < p
      BY <1>11
    <2>2. Plus(R, -u) \in Acked(r)
      <3>1. -u \in 1 - p .. -u
        BY <2>1
      <3>. QED
        BY <3>1, <1>9
    <2> DEFINE j == Released(r)
    <2>3. Sender(j, v, R, u, q, t)
      <3>1. r = [k EXCEPT !.rpr = Plus(R, -u)]
        BY <1>5
      <3>. QED
        BY <3>1, <2>1, <1>2, <1>6, <1>p, ReleasedSender
    <2>4. /\ IsPack(j) /\ j.msg = k.msg /\ j.rmsg = k.rmsg /\ j.swindow = k.swindow /\ j.op = k.op
          /\ j.rd = k.rd /\ j.wr = k.wr /\ SameIn(k, j) /\ j.tx = k.tx
      <3> DEFINE X == Without(r.os, Acked(r))
                 Y == r.state \ {"WAITO"}
                 Z == CHOOSE x \in Acked(r) : \A y \in Acked(r) : (y - r.ps) % 8 <= (x - r.ps) % 8
      <3>1. j = [r EXCEPT !.os = X, !.state = Y, !.ps = Z]
        BY <1>p DEF Released, IsPack, Fields
      <3> HIDE DEF X, Y, Z, j
      <3>2. /\ IsPack(r) /\ r.msg = k.msg /\ r.rmsg = k.rmsg /\ r.swindow = k.swindow /\ r.op = k.op
            /\ r.rd = k.rd /\ r.wr = k.wr /\ SameIn(k, r) /\ r.tx = k.tx
        BY <1>p DEF IsPack, Fields, SameIn
      <3>. QED
        BY <3>1, <3>2 DEF IsPack, Fields, SameIn
    <2> HIDE DEF j
    <2>5. Pack(j)
      <3>1. k.op \notin Early
        BY <1>p, <2>2, <1>1 DEF Pack, Acked, None
      <3>. QED
        BY <3>1, <1>p, <2>4 DEF Pack, Alive
    <2>6. Link(j, o, v, R, u, q, t)
      <3>1. Acking(o.tx, R, u)
        BY <1>5 DEF Acking
      <3>2. u + Len(v) <= Window
        BY <1>6, <2>1, PacketAssumption, <1>2
      <3>. QED
        BY <3>1, <3>2, <2>3, <2>4, <1>3 DEF Link
    <2>7. Link(o, j, w, S, a, b, c)
      <3>1. Receiver(j, w, S, b)
        BY <1>4, <2>4, SameReceiver DEF Link
      <3>. QED
        BY <3>1, <2>4, <1>4 DEF Link
    <2>8. Dir(j, o, v)
      <3>1. u \in 0 .. 2
        OBVIOUS
      <3>. QED
        BY <3>1, <2>6, <1>2 DEF Dir
    <2>9. Dir(o, j, w)
      BY <2>7, <1>2 DEF Dir
    <2>. QED
      BY <2>2, <2>5, <2>8, <2>9, <2>4, <1>p DEF Works, Pair, Alive, j
  <1>. QED
    BY <1>10, <1>11

LEMMA SackWorks ==
  ASSUME NEW k, NEW o, NEW v, NEW w, Works(k, o, v, w), o.tx.k \in Acks
  PROVE  Works(Sack([k EXCEPT !.rpr = o.tx.val]), o, v, w)
  <1> DEFINE r == [k EXCEPT !.rpr = o.tx.val]
  <1>1. (Acked(r) = {} => r = k) /\ (Acked(r) # {} => Works(Released(r), o, v, w))
    BY ReleasedWorks
  <1> HIDE DEF r
  <1>2. Acked(r) # {} => Sack(r) = WakePs(Released(r))
    BY DEF Sack, Released
  <1>3. Acked(r) = {} => Sack(r) = r
    BY DEF Sack
  <1>4. Works(Sack(r), o, v, w)
    BY <1>1, <1>2, <1>3, WakeWorks
  <1>. QED
    BY <1>4 DEF r

LEMMA AcknowledgedWorks ==
  ASSUME NEW k, NEW o, NEW v, NEW w, Works(k, o, v, w), o.tx.k \in Acks
  PROVE  Works(Acknowledged(k, o.tx.val), o, v, w)
  <1> DEFINE r == [k EXCEPT !.rpr = o.tx.val]
  <1>1. Acked(r) = {} => r = k
    BY ReleasedWorks
  <1>2. Works(Sack(r), o, v, w)
    BY SackWorks
  <1> HIDE DEF r
  <1>3. Acknowledged(k, o.tx.val) = IF Acked(r) = {} THEN WakePs(r) ELSE Sack(r)
    BY DEF Acknowledged, r
  <1>. QED
    BY <1>1, <1>2, <1>3, WakeWorks

-----------------------------------------------------------------------------
(* pkcntl(), pkbadframe() and pktimeout().                                 *)
LEMMA InitBWorks ==
  ASSUME NEW k, NEW o, NEW v, NEW w, Works(k, o, v, w)
  PROVE  Works(InitB(k), o, v, w)
  <1>1. Calm(k)
    BY WorksCalm
  <1>2. Edited(k, InitB(k))
    BY <1>1 DEF Edited, Calm, IsPack, Fields, InitB, Names
  <1>. QED
    BY <1>2, EditWorks

LEMMA SwindowWorks ==
  ASSUME NEW k, NEW o, NEW v, NEW w, Works(k, o, v, w), NEW n \in 0 .. Window
  PROVE  Works([k EXCEPT !.swindow = n], o, v, w)
  <1>1. Calm(k)
    BY WorksCalm
  <1>2. Quiet(k, [k EXCEPT !.swindow = n])
    BY <1>1 DEF Quiet, Calm, IsPack, Fields, Says, Alive
  <1>. QED
    BY <1>2, QuietWorks

LEMMA InitCWorks ==
  ASSUME NEW k, NEW o, NEW v, NEW w, Works(k, o, v, w), NEW n \in 0 .. Window
  PROVE  Works(InitC(k, n), o, v, w)
  <1> DEFINE c == IF n > 0 THEN [k EXCEPT !.swindow = n] ELSE k
             s == [c EXCEPT !.state = {"LIVE"}, !.rmsg = @ \ {"INITA", "INITB"}]
             m == [c EXCEPT !.msg = @ \cup {"INITB"}]
  <1>1. Works(c, o, v, w)
    BY SwindowWorks
  <1>2. InitC(k, n) \in {c, m, WakeState(s)}
    BY DEF InitC
  <1> HIDE DEF c
  <1>3. Calm(c)
    BY <1>1, WorksCalm
  <1>4. Edited(c, s) /\ Edited(c, m)
    BY <1>3 DEF Edited, Calm, IsPack, Fields, Names
  <1> HIDE DEF s, m
  <1>5. Works(s, o, v, w) /\ Works(m, o, v, w)
    BY <1>1, <1>4, EditWorks
  <1>. QED
    BY <1>1, <1>2, <1>5, WakeWorks

LEMMA InitAWorks ==
  ASSUME NEW k, NEW o, NEW v, NEW w, Works(k, o, v, w), NEW n \in 0 .. Window
  PROVE  Works(InitA(k, n), o, v, w)
  <1>1. Calm(k)
    BY WorksCalm
  <1>2. Quiet(k, InitA(k, n))
    BY <1>1 DEF Quiet, Calm, IsPack, Fields, Says, Alive, InitA, Names
  <1>. QED
    BY <1>2, QuietWorks

LEMMA ClosedWorks ==
  ASSUME NEW k, NEW o, NEW v, NEW w, Works(k, o, v, w)
  PROVE  Works(Closed(k), o, v, w)
  <1> DEFINE c == [k EXCEPT !.state = {"DOWN", "RCLOSE"}, !.rmsg = {}]
  <1>1. Calm(k)
    BY WorksCalm
  <1>2. Edited(k, c)
    BY <1>1 DEF Edited, Calm, IsPack, Fields
  <1>3. Closed(k) = WakeState(WakePs(WakePr(c)))
    BY DEF Closed
  <1> HIDE DEF c
  <1>4. Works(WakePr(c), o, v, w)
    BY <1>2, EditWorks, WakeWorks
  <1>5. Works(WakePs(WakePr(c)), o, v, w)
    BY <1>4, WakeWorks
  <1>. QED
    BY <1>3, <1>5, WakeWorks

(* pkcntl() of the control message that the other end transmits.           *)
LEMMA CntlWorks ==
  ASSUME NEW k, NEW o, NEW v, NEW w, Works(k, o, v, w), o.tx # Idle, o.tx.k # "data"
  PROVE  Works(Cntl(k, o.tx), o, v, w)
  <1> DEFINE f == o.tx
             c == [k EXCEPT !.state = @ \ {"BADFRAME"}]
             j == [c EXCEPT !.state = @ \cup {"RXMIT"}, !.msg = @ \cup {"RR"}]
             r == CASE f.k = "INITB" -> InitB(c)
                    [] f.k = "INITC" -> InitC(c, f.val)
                    [] f.k = "INITA" -> InitA(c, f.val)
                    [] f.k = "RJ" -> Acknowledged(j, f.val)
                    [] f.k = "RR" -> Acknowledged(c, f.val)
             s == IF r.msg = {} THEN [r EXCEPT !.msg = r.rmsg] ELSE r
  <1>1. f.k \in Names /\ (f.k \in {"INITA", "INITC"} => f.val \in 0 .. Window)
    <2>1. Frame(f)
      BY DEF Works, Pair, Pack
    <2>2. PICK m \in Names, n \in Nat : f = Control(m, n) /\ (m \in {"INITA", "INITC"} => n <= Window)
      BY <2>1, DataIs DEF Frame
    <2>3. f.k = m /\ f.val = n
      BY <2>2, ControlIs
    <2>. QED
      BY <2>2, <2>3, PacketAssumption
  <1>2. Calm(k)
    BY WorksCalm
  <1>3. Edited(k, c)
    BY <1>2 DEF Edited, Calm, IsPack, Fields
  <1>4. Works(c, o, v, w)
    BY <1>3, EditWorks
  <1>5. Cntl(k, f) = IF f.k = "CLOSE" THEN Closed(c) ELSE IF k.msg = {} THEN OutputIf(s) ELSE s
    BY DEF Cntl
  <1> HIDE DEF c
  <1>6. Calm(c)
    BY <1>4, WorksCalm
  <1>7. Edited(c, j)
    BY <1>6 DEF Edited, Calm, IsPack, Fields, Names
  <1> HIDE DEF j
  <1>8. Works(j, o, v, w)
    BY <1>4, <1>7, EditWorks
  <1>9. f.k = "CLOSE" => Works(Closed(c), o, v, w)
    BY <1>4, ClosedWorks
  <1>10. f.k # "CLOSE" => Works(r, o, v, w)
    <2>1. CASE f.k = "INITB"
      BY <2>1, <1>4, InitBWorks
    <2>2. CASE f.k = "INITC"
      BY <2>2, <1>1, <1>4, InitCWorks
    <2>3. CASE f.k = "INITA"
      BY <2>3, <1>1, <1>4, InitAWorks
    <2>4. CASE f.k = "RJ"
      BY <2>4, <1>8, AcknowledgedWorks DEF Acks
    <2>5. CASE f.k = "RR"
      BY <2>5, <1>4, AcknowledgedWorks DEF Acks
    <2>. QED
      BY <2>1, <2>2, <2>3, <2>4, <2>5, <1>1 DEF Names
  <1> HIDE DEF r
  <1>11. f.k # "CLOSE" => Works(s, o, v, w)
    <2>1. Works(r, o, v, w) => Calm(r)
      BY WorksCalm
    <2>2. Calm(r) => Edited(r, s)
      BY DEF Edited, Calm, IsPack, Fields
    <2> HIDE DEF s
    <2>. QED
      BY <1>10, <2>1, <2>2, EditWorks
  <1> HIDE DEF s, f
  <1>12. Works(Cntl(k, f), o, v, w)
    BY <1>5, <1>9, <1>11, OutputIfWorks
  <1>. QED
    BY <1>12 DEF f

LEMMA BadframeWorks ==
  ASSUME NEW k, NEW o, NEW v, NEW w, Works(k, o, v, w)
  PROVE  Works(Badframe(k), o, v, w)
  <1> DEFINE c == [k EXCEPT !.state = @ \cup {"BADFRAME"}, !.timer = TRUE]
  <1>1. Calm(k)
    BY WorksCalm
  <1>2. Edited(k, c)
    BY <1>1 DEF Edited, Calm, IsPack, Fields
  <1>3. Badframe(k) \in {WakePr(k), WakePr(c)}
    BY DEF Badframe
  <1> HIDE DEF c
  <1>. QED
    BY <1>2, <1>3, EditWorks, WakeWorks

LEMMA ExpiredWorks ==
  ASSUME NEW k, NEW o, NEW v, NEW w, Works(k, o, v, w)
  PROVE  Works(Expired(k), o, v, w)
  <1> DEFINE c == WakePs(k)
             j == [c EXCEPT !.msg = @ \cup k.rmsg]
  <1>1. Works(c, o, v, w) /\ Calm(k)
    BY WakeWorks, WorksCalm
  <1>2. Expired(k) = OutputIf(j)
    BY DEF Expired
  <1> HIDE DEF c
  <1>3. Calm(c)
    BY <1>1, WorksCalm
  <1>4. Edited(c, j)
    BY <1>1, <1>3 DEF Edited, Calm, IsPack, Fields
  <1> HIDE DEF j
  <1>. QED
    BY <1>1, <1>2, <1>4, EditWorks, OutputIfWorks

LEMMA StartupWorks ==
  ASSUME NEW k, NEW o, NEW v, NEW w, Works(k, o, v, w)
  PROVE  Works(Startup(k), o, v, w)
  <1> DEFINE c == [k EXCEPT !.timer = TRUE]
  <1>1. Calm(k)
    BY WorksCalm
  <1>2. Edited(k, c)
    BY <1>1 DEF Edited, Calm, IsPack, Fields
  <1>3. Startup(k) = Expired(c)
    BY DEF Startup
  <1> HIDE DEF c
  <1>. QED
    BY <1>2, <1>3, EditWorks, ExpiredWorks

LEMMA LanguishedWorks ==
  ASSUME NEW k, NEW o, NEW v, NEW w, Works(k, o, v, w)
  PROVE  Works(Languished(k), o, v, w)
  <1> DEFINE c == [k EXCEPT !.state = @ \cup {IF "DRAINO" \in @ THEN "DOWN" ELSE "RXMIT"}]
             j == Output(c)
             l == [j EXCEPT !.timer = TRUE]
  <1>1. Calm(k)
    BY WorksCalm
  <1>2. Edited(k, c)
    BY <1>1 DEF Edited, Calm, IsPack, Fields
  <1>3. Languished(k) = Expired(l)
    BY DEF Languished
  <1> HIDE DEF c
  <1>4. Works(j, o, v, w)
    BY <1>2, EditWorks, OutputWorks
  <1> HIDE DEF j
  <1>5. Calm(j)
    BY <1>4, WorksCalm
  <1>6. Edited(j, l)
    BY <1>5 DEF Edited, Calm, IsPack, Fields
  <1> HIDE DEF l
  <1>. QED
    BY <1>3, <1>4, <1>6, EditWorks, ExpiredWorks

(* pktimeout()                                                             *)
LEMMA TickedWorks ==
  ASSUME NEW k, NEW o, NEW v, NEW w, Works(k, o, v, w)
  PROVE  Works(Ticked(k), o, v, w)
  <1> DEFINE s == [k EXCEPT !.moved = FALSE]
             t == [s EXCEPT !.timer = FALSE]
             c == [k EXCEPT !.timer = TRUE, !.state = @ \cup {"WAITO"}]
             j == [s EXCEPT !.msg = @ \cup {"RJ"}, !.state = @ \ {"BADFRAME"}]
  <1>1. Calm(k)
    BY WorksCalm
  <1>2. Edited(k, s) /\ Edited(k, t) /\ Edited(k, c) /\ Edited(k, j)
    BY <1>1 DEF Edited, Calm, IsPack, Fields, Names
  <1>3. Ticked(k) \in {c, Startup(j), Startup(s), WakePs(s), Startup(t), Languished(t), Expired(t)}
    BY DEF Ticked
  <1> HIDE DEF s, t, c, j
  <1>4. Works(s, o, v, w) /\ Works(t, o, v, w) /\ Works(c, o, v, w) /\ Works(j, o, v, w)
    BY <1>2, EditWorks
  <1>. QED
    BY <1>3, <1>4, StartupWorks, WakeWorks, LanguishedWorks, ExpiredWorks

-----------------------------------------------------------------------------
(* pkdata() and pkrend().                                                  *)

(* Small sets.                                                             *)
LEMMA OneMore ==
  ASSUME NEW D, IsFiniteSet(D), NEW x, x \notin D
  PROVE  /\ IsFiniteSet(D \cup {x}) /\ Cardinality(D \cup {x}) = Cardinality(D) + 1
         /\ Cardinality(D) \in Nat
  BY FS_AddElement, FS_CardinalityType

LEMMA TwoElements ==
  ASSUME NEW D, IsFiniteSet(D), NEW x \in D, NEW y \in D, x # y
  PROVE  Cardinality(D) \in Nat /\ Cardinality(D) >= 2
  <1>1. IsFiniteSet({}) /\ Cardinality({}) = 0
    BY FS_EmptySet
  <1>2. IsFiniteSet({x}) /\ Cardinality({x}) = 1
    BY FS_Singleton
  <1>3. IsFiniteSet({x} \cup {y}) /\ Cardinality({x} \cup {y}) = 2
    <2>1. y \notin {x}
      OBVIOUS
    <2>2. IsFiniteSet({x} \cup {y}) /\ Cardinality({x} \cup {y}) = Cardinality({x}) + 1
      BY <1>2, <2>1, OneMore
    <2>. QED
      BY <1>2, <2>2
  <1>4. {x} \cup {y} \subseteq D
    OBVIOUS
  <1>5. Cardinality({x} \cup {y}) <= Cardinality(D) /\ Cardinality(D) \in Nat
    BY <1>4, FS_Subset, FS_CardinalityType
  <1>. QED
    BY <1>3, <1>5

LEMMA BelowIs ==
  ASSUME NEW k, k.pr \in No
  PROVE  /\ \A x \in No : Below(k, x) \in 0 .. 7 /\ x = Plus(k.pr, -Below(k, x))
         /\ Below(k, k.pr) = 0 /\ Below(k, Plus(k.pr, -1)) = 1
         /\ next[k.pr] # k.pr /\ next[k.pr] # Plus(k.pr, -1) /\ k.pr # Plus(k.pr, -1)
         /\ Plus(k.pr, -1) \in No
  BY DEF Below, Plus, No, next

(* The slot of a packet that arrives is p_pr or the one before it.         *)
LEMMA SlotIs ==
  ASSUME NEW k, k.pr \in No, IsFiniteSet(DOMAIN k.is), Cardinality(DOMAIN k.is) <= 1
  PROVE  Slot(k) \notin DOMAIN k.is /\ Slot(k) \in {k.pr, Plus(k.pr, -1)}
  <1> DEFINE T == No \ (DOMAIN k.is \cup {next[k.pr]})
             P(x) == \A y \in No : Below(k, y) < Below(k, x) => y \in DOMAIN k.is
             m == Plus(k.pr, -1)
  <1>b. /\ \A x \in No : Below(k, x) \in 0 .. 7 /\ x = Plus(k.pr, -Below(k, x))
        /\ Below(k, k.pr) = 0 /\ Below(k, m) = 1
        /\ next[k.pr] # k.pr /\ next[k.pr] # m /\ k.pr # m /\ m \in No
    BY BelowIs
  <1>z. Plus(k.pr, 0) = k.pr
    BY PlusZero
  <1>1. ~(k.pr \in DOMAIN k.is /\ m \in DOMAIN k.is)
    <2> SUFFICES ASSUME k.pr \in DOMAIN k.is, m \in DOMAIN k.is PROVE FALSE
      OBVIOUS
    <2>1. Cardinality(DOMAIN k.is) \in Nat /\ Cardinality(DOMAIN k.is) >= 2
      BY <1>b, TwoElements
    <2>. QED
      BY <2>1
  <1> HIDE DEF m
  <1>2. \E x \in T : P(x)
    <2>1. CASE k.pr \notin DOMAIN k.is
      <3>1. k.pr \in T
        BY <2>1, <1>b
      <3>2. P(k.pr)
        BY <1>b
      <3>. QED
        BY <3>1, <3>2
    <2>2. CASE k.pr \in DOMAIN k.is
      <3>1. m \in T
        BY <2>2, <1>1, <1>b
      <3>2. P(m)
        <4>1. ASSUME NEW y \in No, Below(k, y) < 1 PROVE y \in DOMAIN k.is
          <5>1. Below(k, y) = 0 /\ y = Plus(k.pr, -Below(k, y))
            BY <4>1, <1>b
          <5>2. y = k.pr
            BY <5>1, <1>z
          <5>. QED
            BY <5>2, <2>2
        <4>. QED
          BY <4>1, <1>b
      <3>. QED
        BY <3>1, <3>2
    <2>. QED
      BY <2>1, <2>2
  <1>3. Slot(k) = CHOOSE x \in T : P(x)
    BY DEF Slot
  <1>4. Slot(k) \in T /\ P(Slot(k))
    BY <1>2, <1>3
  <1> DEFINE s == Slot(k)
  <1> HIDE DEF s
  <1>5. s \in No /\ s \notin DOMAIN k.is /\ P(s)
    BY <1>4 DEF s
  <1>6. Below(k, s) <= 1
    <2>1. Below(k, s) \in 0 .. 7
      BY <1>5, <1>b
    <2>2. ASSUME Below(k, s) > 1 PROVE FALSE
      BY <2>2, <1>5, <1>b, <1>1
    <2>. QED
      BY <2>1, <2>2
  <1>7. s = k.pr \/ s = m
    <2>1. s = Plus(k.pr, -Below(k, s)) /\ Below(k, s) \in 0 .. 7
      BY <1>5, <1>b
    <2>2. CASE Below(k, s) = 0
      BY <2>1, <2>2, <1>z
    <2>3. CASE Below(k, s) = 1
      BY <2>1, <2>3 DEF m
    <2>. QED
      BY <2>1, <2>2, <2>3, <1>6
  <1>. QED
    BY <1>5, <1>7 DEF s, m

(* The packet that arrives goes to a buffer of its own.                    *)
Stored(k, f, good) ==
    [k EXCEPT !.imap = @ \cup {Slot(k)},
              !.is = With(@, Slot(k), [st |-> "raw", seq |-> f.seq, good |-> good, d |-> f.d])]

LEMMA StoredReceiver ==
  ASSUME NEW k, NEW w \in Seq(Nat), NEW R \in No, NEW q \in 0 .. 2, IsPack(k), Alive(k),
         Receiver(k, w, R, q), Ipool(k) > 0, NEW f, f.k = "data", Sending(f, w, R, q), NEW good
  PROVE  Receiver(Stored(k, f, good), w, R, q)
  <1> DEFINE j == Stored(k, f, good)
             s == Slot(k)
             b == [st |-> "raw", seq |-> f.seq, good |-> good, d |-> f.d]
             a == k.rcount
             C == {Plus(R, i) : i \in 1 .. a}
  <1>w. Window \in 1 .. 2 /\ R \in Int
    BY PacketAssumption DEF No
  <1>1. /\ k.pr = R /\ a \in 0 .. q
        /\ DOMAIN k.is = C \cup k.imap \cup k.imask
        /\ k.imap \cap k.imask = {}
        /\ \A i \in 1 .. a : k.is[Plus(R, i)] = [st |-> "copy", d |-> w[i]]
        /\ \A x \in k.imap \cup k.imask : Raw(k, w, R, q, x)
        /\ k.imask # {} => k.rd = "mark"
        /\ k.rd = "copy" => a > 0
        /\ IsFiniteSet(DOMAIN k.is) /\ Cardinality(DOMAIN k.is) <= Window
    BY DEF Receiver, Alive
  <1>2. Cardinality(DOMAIN k.is) <= 1 /\ Cardinality(DOMAIN k.is) \in Nat /\ Cardinality(DOMAIN k.is) + 1 <= Window
    BY <1>1, <1>w, FS_CardinalityType DEF Ipool
  <1>3. s \notin DOMAIN k.is /\ s \in {R, Plus(R, -1)}
    BY <1>1, <1>2, SlotIs
  <1>4. /\ j.imap = k.imap \cup {s} /\ j.is = With(k.is, s, b) /\ j.op = k.op /\ j.pr = k.pr
        /\ j.rcount = k.rcount /\ j.imask = k.imask /\ j.rd = k.rd
    BY DEF Stored, IsPack, Fields
  <1> HIDE DEF j, s, b
  <1>5. /\ DOMAIN j.is = DOMAIN k.is \cup {s} /\ j.is = [x \in DOMAIN j.is |-> j.is[x]]
        /\ j.is[s] = b /\ \A x \in DOMAIN k.is : j.is[x] = k.is[x]
    BY <1>3, <1>4 DEF With
  <1>6. IsFiniteSet(DOMAIN j.is) /\ Cardinality(DOMAIN j.is) <= Window
    <2> DEFINE D == DOMAIN k.is
    <2>1. IsFiniteSet(D) /\ s \notin D /\ DOMAIN j.is = D \cup {s}
      BY <1>1, <1>3, <1>5
    <2>2. Cardinality(D) \in Nat /\ Cardinality(D) + 1 <= Window
      BY <1>2
    <2> HIDE DEF D
    <2>3. IsFiniteSet(D \cup {s}) /\ Cardinality(D \cup {s}) = Cardinality(D) + 1
      BY <2>1, OneMore
    <2>. QED
      BY <2>1, <2>2, <2>3
  <1>7. PICK u \in -1 .. 0 : s = Plus(R, u)
    <2>1. R = Plus(R, 0)
      BY PlusZero
    <2>2. CASE s = R
      BY <2>1, <2>2
    <2>3. CASE s = Plus(R, -1)
      BY <2>3
    <2>. QED
      BY <1>3, <2>2, <2>3
  <1>8. PICK g \in q - 1 .. q : f.seq = Plus(R, g) /\ (g >= 1 => f.d = w[g])
    BY DEF Sending
  <1>9. Raw(j, w, R, q, s)
    <2>1. /\ b = [st |-> "raw", seq |-> Plus(R, g), good |-> b.good, d |-> b.d] /\ b.d = f.d
      BY <1>8 DEF b
    <2>2. u \in -3 .. 0 /\ g \in -3 .. 2 /\ u >= a - 3 /\ g >= a - 3 /\ g >= a - 1
      BY <1>1
    <2> HIDE DEF a
    <2>3. j.rcount = a /\ j.is[s] = b
      BY <1>4, <1>5 DEF a
    <2>. QED
      BY <1>7, <1>8, <2>1, <2>2, <2>3 DEF Raw
  <1>10. ASSUME NEW x \in k.imap \cup k.imask
         PROVE  Raw(j, w, R, q, x)
    <2>1. x \in DOMAIN k.is /\ x # s
      BY <1>1, <1>3
    <2>2. j.is[x] = k.is[x] /\ (x \in j.imap <=> x \in k.imap)
      BY <2>1, <1>4, <1>5
    <2>3. Raw(k, w, R, q, x)
      BY <1>1
    <2>. QED
      BY <2>2, <2>3, <1>4 DEF Raw
  <1>11. \A i \in 1 .. a : j.is[Plus(R, i)] = [st |-> "copy", d |-> w[i]]
    BY <1>1, <1>5
  <1>12. DOMAIN j.is = C \cup j.imap \cup j.imask /\ j.imap \cap j.imask = {}
    BY <1>1, <1>3, <1>4, <1>5
  <1>13. \A x \in j.imap \cup j.imask : Raw(j, w, R, q, x)
    BY <1>9, <1>10, <1>4
  <1>. QED
    BY <1>1, <1>4, <1>5, <1>6, <1>11, <1>12, <1>13 DEF Receiver, j

LEMMA StoredWorks ==
  ASSUME NEW k, NEW o, NEW v, NEW w, Works(k, o, v, w), Ipool(k) > 0, o.tx.k = "data", NEW good
  PROVE  Works(Stored(k, o.tx, good), o, v, w)
  <1> DEFINE j == Stored(k, o.tx, good)
  <1>p. Pair(k, o, v, w) /\ Alive(k) /\ Pack(k) /\ IsPack(k) /\ Pack(o)
    BY DEF Works, Pair, Pack
  <1>1. /\ IsPack(j) /\ \A x \in Fields \ {"imap", "is"} : j[x] = k[x]
    <2> DEFINE X == k.imap \cup {Slot(k)}
               Y == With(k.is, Slot(k), [st |-> "raw", seq |-> o.tx.seq, good |-> good, d |-> o.tx.d])
    <2>1. j = [k EXCEPT !.imap = X, !.is = Y]
      BY <1>p DEF Stored, IsPack, Fields
    <2> HIDE DEF X, Y, j
    <2>. QED
      BY <2>1, <1>p DEF IsPack, Fields
  <1>2. v \in Seq(Nat) /\ w \in Seq(Nat)
    BY <1>p DEF Pair, Dir
  <1>3. PICK R \in No, p \in 0 .. 2, q \in 0 .. 2, t \in -1 .. 3 : Link(k, o, v, R, p, q, t)
    BY <1>p DEF Pair, Dir
  <1>4. PICK S \in No, a \in 0 .. 2, b \in 0 .. 2, c \in -1 .. 3 : Link(o, k, w, S, a, b, c)
    BY <1>p DEF Pair, Dir
  <1>5. Receiver(j, w, S, b)
    BY <1>p, <1>2, <1>4, StoredReceiver DEF Link
  <1> HIDE DEF j
  <1>6. Pack(j)
    BY <1>p, <1>1 DEF Pack, Fields, Alive
  <1>7. Link(o, j, w, S, a, b, c)
    BY <1>4, <1>5, <1>1 DEF Link, Fields
  <1>8. Link(j, o, v, R, p, q, t)
    BY <1>3, <1>1 DEF Link, Fields, Sender
  <1>9. Dir(o, j, w) /\ Dir(j, o, v)
    BY <1>2, <1>7, <1>8 DEF Dir
  <1>. QED
    BY <1>p, <1>1, <1>6, <1>9 DEF Works, Pair, Alive, Fields, j

LEMMA PkdataWorks ==
  ASSUME NEW k, NEW o, NEW v, NEW w, Works(k, o, v, w), Ipool(k) > 0, o.tx.k = "data", NEW good
  PROVE  Works(Pkdata(k, o.tx, good), o, v, w)
  <1> DEFINE f == o.tx
             c == [k EXCEPT !.state = @ \ {"BADFRAME"}]
             j == [c EXCEPT !.msg = @ \cup c.rmsg]
  <1>1. Calm(k)
    BY WorksCalm
  <1>2. Edited(k, c) /\ Edited(k, j) /\ c.is = k.is
    BY <1>1 DEF Edited, Calm, IsPack, Fields
  <1>3. Pkdata(k, f, good) \in {Output(j), WakePr(Stored(c, f, good))}
    BY DEF Pkdata, Stored
  <1>4. Ipool(c) > 0
    BY <1>2 DEF Ipool
  <1> HIDE DEF c, j
  <1>5. Works(c, o, v, w) /\ Works(j, o, v, w)
    BY <1>2, EditWorks
  <1>6. Works(Stored(c, f, good), o, v, w) /\ Works(Output(j), o, v, w)
    BY <1>4, <1>5, StoredWorks, OutputWorks
  <1> HIDE DEF f
  <1>7. Works(Pkdata(k, f, good), o, v, w)
    BY <1>3, <1>6, WakeWorks
  <1>. QED
    BY <1>7 DEF f

(* pkrend() of the frame that the other end transmits.                     *)
LEMMA RendWorks ==
  ASSUME NEW k, NEW o, NEW v, NEW w, Works(k, o, v, w), o.tx # Idle, NEW fate
  PROVE  Works(Rend(k, o.tx, fate), o, v, w)
  <1> DEFINE f == o.tx
             s == Sack([k EXCEPT !.rpr = f.val])
  <1>1. f.k = "data" => Works(s, o, v, w)
    BY SackWorks DEF Acks
  <1>2. f.k # "data" => Works(Cntl(k, f), o, v, w)
    BY CntlWorks
  <1>3. Works(Badframe(k), o, v, w)
    BY BadframeWorks
  <1> HIDE DEF s
  <1>4. f.k = "data" => /\ Works(Badframe(s), o, v, w)
                        /\ Ipool(s) > 0 => Works(Pkdata(s, f, fate = "good"), o, v, w)
    BY <1>1, BadframeWorks, PkdataWorks
  <1>5. Rend(k, f, fate) =
          IF fate = "lost" \/ k.op \in {"null", "closed"} THEN k
          ELSE IF fate = "header" THEN Badframe(k)
          ELSE IF f.k # "data" THEN Cntl(k, f)
          ELSE IF Ipool(s) > 0 THEN Pkdata(s, f, fate = "good")
          ELSE Badframe(s)
    BY DEF Rend, s
  <1> HIDE DEF f
  <1>6. Works(Rend(k, f, fate), o, v, w)
    BY <1>2, <1>3, <1>4, <1>5
  <1>. QED
    BY <1>6 DEF f

LEMMA RendPair ==
  ASSUME NEW k, NEW o, NEW v, NEW w, Pair(k, o, v, w), o.tx # Idle, NEW fate
  PROVE  Pair(Rend(k, o.tx, fate), o, v, w)
  <1>1. CASE Alive(k)
    BY <1>1, RendWorks DEF Works
  <1>2. CASE ~Alive(k)
    BY <1>2 DEF Rend, Alive
  <1>. QED
    BY <1>1, <1>2

LEMMA PairSwap ==
  ASSUME NEW k, NEW o, NEW v, NEW w, Pair(k, o, v, w)
  PROVE  Pair(o, k, w, v)
  BY DEF Pair

(* pkxint() of an end whose frame has arrived.                             *)
LEMMA XintPair ==
  ASSUME NEW k, NEW o, NEW v, NEW w, Pair(k, o, v, w), k.tx # Idle
  PROVE  Pair(Xint(k), o, v, w)
  <1> DEFINE j == [k EXCEPT !.tx = Idle]
  <1>p. Pack(k) /\ Pack(o) /\ IsPack(k)
    BY DEF Pair, Pack
  <1>0. k.op # "null"
    BY <1>p DEF Pack, Opening
  <1>1. CASE k.op # "closed"
    <2>1. Works(k, o, v, w)
      BY <1>0, <1>1 DEF Works, Alive
    <2>2. Calm(k)
      BY <2>1, WorksCalm
    <2>3. Quiet(k, j)
      BY <2>2 DEF Quiet, Calm, IsPack, Fields, Says, Alive
    <2>4. Xint(k) = Output(j)
      BY <1>1 DEF Xint
    <2> HIDE DEF j
    <2>. QED
      BY <2>1, <2>3, <2>4, QuietWorks, OutputWorks DEF Works
  <1>2. CASE k.op = "closed"
    <2>1. /\ IsPack(j) /\ j.tx = Idle /\ \A x \in Fields \ {"tx"} : j[x] = k[x]
      BY <1>p DEF IsPack, Fields
    <2>2. Pack(j)
      <3>1. j = [Opening EXCEPT !.tx = j.tx, !.op = "closed", !.rmsg = {}, !.timer = FALSE]
        BY <1>p, <1>2 DEF Pack, Opening
      <3> HIDE DEF j
      <3>2. Frame(j.tx)
        BY <2>1 DEF Frame
      <3>. QED
        BY <3>1, <3>2, <2>1, <1>2, <1>p DEF Pack, Fields
    <2> HIDE DEF j
    <2>3. PICK R \in No, p \in 0 .. 2, q \in 0 .. 2, t \in -1 .. 3 : Link(k, o, v, R, p, q, t)
      BY DEF Pair, Dir
    <2>4. PICK S \in No, a \in 0 .. 2, b \in 0 .. 2, c \in -1 .. 3 : Link(o, k, w, S, a, b, c)
      BY DEF Pair, Dir
    <2>5. Link(j, o, v, R, p, q, t)
      <3>1. Sender(j, v, R, p, q, t)
        BY <2>1, <1>2 DEF Sender, Fields
      <3>2. Sending(j.tx, v, R, q)
        BY <2>1, IdleIs DEF Sending
      <3>. QED
        BY <3>1, <3>2, <2>3 DEF Link
    <2>6. Link(o, j, w, S, a, b, c)
      <3>1. Receiver(j, w, S, b)
        BY <2>1, <1>2 DEF Receiver, Fields
      <3>2. Acking(j.tx, S, a)
        BY <2>1, IdleIs DEF Acking, Acks
      <3>. QED
        BY <3>1, <3>2, <2>4 DEF Link
    <2>7. Dir(j, o, v) /\ Dir(o, j, w)
      BY <2>5, <2>6 DEF Dir, Pair
    <2>8. Xint(k) = j
      BY <1>2 DEF Xint, j
    <2>. QED
      BY <2>2, <2>7, <2>8, <1>p DEF Pair
  <1>. QED
    BY <1>1, <1>2

-----------------------------------------------------------------------------
(* pkopen() and pkclose().                                                 *)

(* pkoutput() leaves the places of the processes, but for the wakeups.     *)
LEMMA OutputPlaces ==
  ASSUME NEW k, IsPack(k)
  PROVE  LET j == Output(k)
         IN  /\ j.rd = k.rd /\ j.imask = k.imask /\ j.rcount = k.rcount
             /\ k.op = "open" => j.op = "open"
             /\ k.wr # "asleep" => j.wr = k.wr
             /\ k.op \notin Early => j.op \notin Early
  <1> DEFINE Same(j) == /\ j.rd = k.rd /\ j.imask = k.imask /\ j.rcount = k.rcount
                        /\ k.op = "open" => j.op = "open"
                        /\ k.wr # "asleep" => j.wr = k.wr
                        /\ k.op \notin Early => j.op \notin Early
             r == Rewound(k)
  <1>1. IsPack(r) /\ Same(r)
    BY DEF Rewound, IsPack, Fields
  <1>2. Same(k)
    OBVIOUS
  <1> HIDE DEF r
  <1>3. Same(SendControl(r))
    <2> DEFINE X == First(r.msg)
               Y == CASE X \in {"RJ", "RR"} -> r.pr [] X \in {"INITA", "INITC"} -> Window [] OTHER -> 0
               Z == Control(X, Y)
    <2>1. SendControl(r) = [r EXCEPT !.tx = Z, !.msg = @ \ {X}]
      BY DEF SendControl
    <2> HIDE DEF X, Y, Z
    <2>. QED
      BY <1>1, <2>1 DEF IsPack, Fields
  <1>4. Same(WakePs(r))
    BY <1>1 DEF WakePs, IsPack, Fields, Early
  <1>5. Same(SendData(r))
    BY <1>1 DEF SendData, IsPack, Fields
  <1>6. Same(Languish(r))
    BY <1>1 DEF Languish, WakePs, IsPack, Fields, Early
  <1> HIDE DEF Same
  <1>7. Output(k) \in {k, SendControl(r), WakePs(r), SendData(r), Languish(r)}
    BY DEF Output, r
  <1>8. Same(Output(k))
    BY <1>2, <1>3, <1>4, <1>5, <1>6, <1>7
  <1>. QED
    BY <1>8 DEF Same

LEMMA OpenPair ==
  ASSUME NEW k, NEW o, NEW v, NEW w, Pair(k, o, v, w), k.op = "null"
  PROVE  Pair([Opening EXCEPT !.tx = k.tx], o, v, w)
  <1> DEFINE j == [Opening EXCEPT !.tx = k.tx]
  <1>p. Pack(k) /\ Pack(o) /\ k = [Opening EXCEPT !.op = "null"]
    BY DEF Pair, Pack
  <1>1. /\ IsPack(j) /\ j.op = "asleep" /\ \A x \in Fields \ {"op"} : j[x] = k[x]
    BY <1>p DEF IsPack, Fields, Opening
  <1>2. Pack(j)
    <2>1. k.swindow = 0 /\ k.rd = "user" /\ k.wr = "user"
      BY <1>p DEF Opening
    <2> HIDE DEF j
    <2>2. k.op \in Early
      BY DEF Early
    <2>3. /\ j.tx = k.tx /\ j.msg = k.msg /\ j.rmsg = k.rmsg /\ j.swindow = k.swindow
          /\ j.rd = k.rd /\ j.wr = k.wr /\ j.ps = k.ps /\ j.rpr = k.rpr /\ j.pscopy = k.pscopy
          /\ j.pr = k.pr /\ j.rcount = k.rcount /\ j.os = k.os
      BY <1>1 DEF Fields
    <2>4. IsPack(j) /\ j.op # "null" /\ j.op # "closed"
      BY <1>1
    <2>5. k.op \in Early => k.ps = 0 /\ k.rpr = 0 /\ k.pscopy = 0 /\ k.pr = 0 /\ k.rcount = 0 /\ k.os = None
      BY <1>p DEF Pack
    <2>. QED
      BY <1>p, <2>1, <2>2, <2>3, <2>4, <2>5 DEF Pack
  <1> HIDE DEF j
  <1>3. PICK R \in No, p \in 0 .. 2, q \in 0 .. 2, t \in -1 .. 3 : Link(k, o, v, R, p, q, t)
    BY DEF Pair, Dir
  <1>4. PICK S \in No, a \in 0 .. 2, b \in 0 .. 2, c \in -1 .. 3 : Link(o, k, w, S, a, b, c)
    BY DEF Pair, Dir
  <1>5. SameIn(k, j)
    BY <1>1 DEF SameIn, Fields
  <1>6. Link(j, o, v, R, p, q, t)
    BY <1>3, <1>1 DEF Link, Fields, Sender
  <1>7. Link(o, j, w, S, a, b, c)
    <2>1. Receiver(j, w, S, b)
      BY <1>4, <1>5, SameReceiver DEF Link
    <2>. QED
      BY <2>1, <1>1, <1>4 DEF Link, Fields
  <1>8. Dir(j, o, v) /\ Dir(o, j, w)
    BY <1>6, <1>7 DEF Dir, Pair
  <1>. QED
    BY <1>2, <1>8, <1>p DEF Pair, j

LEMMA OpenedPair ==
  ASSUME NEW k, NEW o, NEW v, NEW w, Pair(k, o, v, w), k.op = "woken",
         NEW r, r = [k EXCEPT !.ps = 0, !.pr = 0, !.rpr = 0, !.nxtps = 1, !.op = "open"]
  PROVE  Pair(r, o, v, w) /\ Pair([r EXCEPT !.state = {"DOWN"}, !.rmsg = {}], o, v, w)
  <1>p. Pack(k) /\ Works(k, o, v, w) /\ k.op \in Early
    BY DEF Pair, Works, Alive, Early
  <1>1. Calm(k) /\ k.ps = 0 /\ k.rpr = 0 /\ k.pr = 0
    BY <1>p, WorksCalm DEF Pack
  <1>2. next[0] = 1
    BY DEF next, No
  <1>3. Quiet(k, r)
    BY <1>1, <1>2, <1>p DEF Quiet, Calm, IsPack, Fields, Says, Alive, Early
  <1>4. Works(r, o, v, w)
    BY <1>3, <1>p, QuietWorks
  <1>5. Calm(r)
    BY <1>4, WorksCalm
  <1>6. Edited(r, [r EXCEPT !.state = {"DOWN"}, !.rmsg = {}])
    BY <1>5 DEF Edited, Calm, IsPack, Fields
  <1>. QED
    BY <1>4, <1>6, EditWorks DEF Works

(* A process of an open line goes from one place to another, except where  *)
(* it holds a buffer.                                                      *)
LEMMA WritePlace ==
  ASSUME NEW k, NEW o, NEW v, NEW w, Works(k, o, v, w), k.op = "open", k.wr # "fill", NEW x, x # "fill"
  PROVE  Works([k EXCEPT !.wr = x], o, v, w)
  <1>1. Calm(k)
    BY WorksCalm
  <1>2. Quiet(k, [k EXCEPT !.wr = x])
    BY <1>1 DEF Quiet, Calm, IsPack, Fields, Says, Alive
  <1>. QED
    BY <1>2, QuietWorks

LEMMA ReadPlace ==
  ASSUME NEW k, NEW o, NEW v, NEW w, Works(k, o, v, w), k.op = "open", k.imask = {},
         NEW x, x # "mark", x = "copy" => k.rcount > 0
  PROVE  Works([k EXCEPT !.rd = x], o, v, w)
  <1>1. Calm(k)
    BY WorksCalm
  <1>2. Quiet(k, [k EXCEPT !.rd = x])
    BY <1>1 DEF Quiet, Calm, IsPack, Fields, Says, Alive
  <1>. QED
    BY <1>2, QuietWorks

LEMMA ClosePlace ==
  ASSUME NEW k, NEW o, NEW v, NEW w, Works(k, o, v, w), k.rd = "user", k.wr = "user",
         NEW x, x \in {"drain", "close", "closing", "final"}
  PROVE  Works([k EXCEPT !.op = x], o, v, w)
  <1>1. Calm(k)
    BY WorksCalm
  <1>2. Quiet(k, [k EXCEPT !.op = x])
    BY <1>1 DEF Quiet, Calm, IsPack, Fields, Says, Alive, Early
  <1>. QED
    BY <1>2, QuietWorks

LEMMA ClosePair ==
  ASSUME NEW k, NEW o, NEW v, NEW w, Pair(k, o, v, w), k.op = "open", k.rd = "user", k.wr = "user",
         NEW c, c = [k EXCEPT !.state = @ \cup {"DRAINO"}, !.timer = TRUE]
  PROVE  Pair([Output(c) EXCEPT !.op = "drain"], o, v, w) /\ Pair([c EXCEPT !.op = "close"], o, v, w)
  <1>1. Works(k, o, v, w)
    BY DEF Works, Alive
  <1>2. Calm(k)
    BY <1>1, WorksCalm
  <1>3. Edited(k, c)
    BY <1>2 DEF Edited, Calm, IsPack, Fields
  <1>4. Works(c, o, v, w) /\ Works(Output(c), o, v, w)
    BY <1>1, <1>3, EditWorks, OutputWorks
  <1>5. IsPack(c) /\ c.rd = "user" /\ c.wr = "user"
    BY <1>3 DEF Edited, Fields
  <1>6. Output(c).rd = "user" /\ Output(c).wr = "user"
    BY <1>5, OutputPlaces
  <1>. QED
    BY <1>4, <1>5, <1>6, ClosePlace DEF Works

LEMMA CloseSendPair ==
  ASSUME NEW k, NEW o, NEW v, NEW w, Pair(k, o, v, w), k.op = "close",
         NEW c, c = [k EXCEPT !.state = @ \cup {"DOWN"}, !.timer = FALSE],
         NEW j, j = [c EXCEPT !.msg = {"CLOSE"}, !.timer = TRUE]
  PROVE  Pair([c EXCEPT !.op = "final"], o, v, w) /\ Pair([Output(j) EXCEPT !.op = "closing"], o, v, w)
  <1>1. Works(k, o, v, w)
    BY DEF Works, Alive
  <1>2. Calm(k) /\ k.rd = "user" /\ k.wr = "user"
    BY <1>1, WorksCalm DEF Calm
  <1>3. Edited(k, c) /\ Edited(k, j)
    BY <1>2 DEF Edited, Calm, IsPack, Fields, Names
  <1>4. Works(c, o, v, w) /\ Works(j, o, v, w)
    BY <1>1, <1>3, EditWorks
  <1>n. Works(Output(j), o, v, w)
    BY <1>4, OutputWorks
  <1>5. IsPack(j) /\ c.rd = "user" /\ c.wr = "user" /\ j.rd = "user" /\ j.wr = "user"
    BY <1>2, <1>3 DEF Edited, Fields
  <1>6. Output(j).rd = "user" /\ Output(j).wr = "user"
    BY <1>5, OutputPlaces
  <1>. QED
    BY <1>4, <1>n, <1>5, <1>6, ClosePlace DEF Works

LEMMA CloseFinalPair ==
  ASSUME NEW k, NEW o, NEW v, NEW w, Pair(k, o, v, w)
  PROVE  Pair([Opening EXCEPT !.tx = k.tx, !.op = "closed", !.rmsg = {}, !.timer = FALSE], o, v, w)
  <1> DEFINE j == [Opening EXCEPT !.tx = k.tx, !.op = "closed", !.rmsg = {}, !.timer = FALSE]
  <1>p. Pack(k) /\ Pack(o)
    BY DEF Pair
  <1>1. /\ IsPack(j) /\ j.op = "closed" /\ j.tx = k.tx /\ j.rd = "user" /\ j.wr = "user"
        /\ j.msg = {} /\ j.rmsg = {} /\ j.swindow = 0
        /\ j = [Opening EXCEPT !.tx = j.tx, !.op = "closed", !.rmsg = {}, !.timer = FALSE]
    BY DEF IsPack, Fields, Opening
  <1>2. Pack(j)
    <2> HIDE DEF j
    <2>1. 0 \in 0 .. Window
      BY PacketAssumption
    <2>. QED
      BY <1>1, <1>p, <2>1 DEF Pack, Early
  <1> HIDE DEF j
  <1>3. PICK R \in No, p \in 0 .. 2, q \in 0 .. 2, t \in -1 .. 3 : Link(k, o, v, R, p, q, t)
    BY DEF Pair, Dir
  <1>4. PICK S \in No, a \in 0 .. 2, b \in 0 .. 2, c \in -1 .. 3 : Link(o, k, w, S, a, b, c)
    BY DEF Pair, Dir
  <1>5. Link(j, o, v, R, p, q, t)
    BY <1>3, <1>1 DEF Link, Sender
  <1>6. Link(o, j, w, S, a, b, c)
    BY <1>4, <1>1 DEF Link, Receiver
  <1>7. Dir(j, o, v) /\ Dir(o, j, w)
    BY <1>5, <1>6 DEF Dir, Pair
  <1>. QED
    BY <1>2, <1>7, <1>p DEF Pair, j

-----------------------------------------------------------------------------
(* pkwrite().                                                              *)
LEMMA WriteSleepPair ==
  ASSUME NEW k, NEW o, NEW v, NEW w, Pair(k, o, v, w), k.op = "open", k.wr \in {"user", "write", "woken"}
  PROVE  Pair([Output(k) EXCEPT !.wr = "asleep"], o, v, w)
  <1>1. Works(k, o, v, w) /\ IsPack(k)
    BY DEF Works, Alive, Pair, Pack
  <1>2. Works(Output(k), o, v, w)
    BY <1>1, OutputWorks
  <1>3. Output(k).op = "open" /\ Output(k).wr # "fill"
    BY <1>1, OutputPlaces
  <1>. QED
    BY <1>2, <1>3, WritePlace DEF Works

LEMMA WriteUserPair ==
  ASSUME NEW k, NEW o, NEW v, NEW w, Pair(k, o, v, w), k.op = "open", k.wr \in {"user", "write", "woken"}
  PROVE  Pair([k EXCEPT !.wr = "user"], o, v, w)
  <1>1. Works(k, o, v, w)
    BY DEF Works, Alive
  <1>. QED
    BY <1>1, WritePlace DEF Works

(* pkwrite() marks the buffer behind the last one.                         *)
Filling(k) ==
    [k EXCEPT !.os = With(@, next[k.pscopy], [st |-> "mark", d |-> 0]), !.pscopy = next[k.pscopy], !.wr = "fill"]

(* With fewer buffers in use than the window has, there is one more.       *)
LEMMA RoomIs ==
  ASSUME NEW k, NEW w \in Seq(Nat), NEW R \in No, NEW p \in 0 .. 2, NEW q, NEW t, Alive(k),
         Sender(k, w, R, p, q, t), k.wr # "fill", Xcount(k) < k.swindow, k.swindow \in 0 .. Window
  PROVE  p + Len(w) + 1 <= Window
  <1>w. Window \in 1 .. 2 /\ Len(w) \in Nat /\ R \in Int
    BY PacketAssumption DEF No
  <1> DEFINE D == DOMAIN k.os
             e == p + Len(w)
  <1>1. e <= Window /\ D = {Plus(R, i) : i \in 1 - p .. Len(w)}
    BY DEF Sender, Alive
  <1>2. IsFiniteSet(D)
    <2>1. IsFiniteSet(No)
      <3> DEFINE l == 0
                 h == 7
      <3>1. l \in Int /\ h \in Int /\ No = l .. h
        BY DEF No
      <3> HIDE DEF l, h
      <3>2. IsFiniteSet(l .. h)
        BY <3>1, FS_Interval
      <3>. QED
        BY <3>1, <3>2
    <2>2. \A i \in 1 - p .. Len(w) : Plus(R, i) \in No
      BY <1>w, PlusNo
    <2>. QED
      BY <2>1, <2>2, <1>1, FS_Subset
  <1>3. Cardinality(D) \in Nat /\ Cardinality(D) < Window
    BY <1>2, FS_CardinalityType, <1>w DEF Xcount
  <1> HIDE DEF D
  <1>4. CASE e = 2
    <2>1. Plus(R, 1 - p) \in D /\ Plus(R, 2 - p) \in D
      <3>1. 1 - p \in 1 - p .. Len(w) /\ 2 - p \in 1 - p .. Len(w)
        BY <1>4, <1>w
      <3>. QED
        BY <3>1, <1>1
    <2>2. Plus(R, 1 - p) # Plus(R, 2 - p)
      BY PlusInj, <1>w
    <2>3. Cardinality(D) >= 2
      BY <2>1, <2>2, <1>2, TwoElements
    <2>. QED
      BY <2>3, <1>3, <1>w
  <1>5. CASE e = 1
    <2>1. Plus(R, 1 - p) \in D
      <3>1. 1 - p \in 1 - p .. Len(w)
        BY <1>5, <1>w
      <3>. QED
        BY <3>1, <1>1
    <2>2. Cardinality(D) # 0
      BY <2>1, <1>2, FS_EmptySet
    <2>. QED
      BY <2>2, <1>3, <1>5, <1>w
  <1>6. CASE e = 0
    BY <1>6, <1>w
  <1>. QED
    BY <1>4, <1>5, <1>6, <1>1, <1>w

LEMMA FillingSender ==
  ASSUME NEW k, NEW w \in Seq(Nat), NEW R \in No, NEW p \in 0 .. 2, NEW q \in 0 .. 2, NEW t \in -1 .. 3, Alive(k),
         IsPack(k), Sender(k, w, R, p, q, t), k.wr # "fill", p + Len(w) + 1 <= Window, q <= Len(w)
  PROVE  Sender(Filling(k), w, R, p, q, t)
  <1> DEFINE n == Len(w)
             j == Filling(k)
             x == next[k.pscopy]
             b == [st |-> "mark", d |-> 0]
             D == {Plus(R, i) : i \in 1 - p .. n}
             E == {Plus(R, i) : i \in 1 - p .. n + 1}
  <1>w. Window \in 1 .. 2 /\ n \in Nat /\ R \in Int
    BY PacketAssumption DEF No
  <1>1. /\ t \in q - 1 .. q + 1
        /\ k.ps = Plus(R, -p) /\ k.rpr = k.ps /\ k.pscopy = Plus(R, n) /\ k.nxtps = Plus(R, t)
        /\ k.os = [y \in D |-> k.os[y]]
        /\ \A i \in 1 - p .. n :
             /\ k.os[Plus(R, i)] = [st |-> IF i <= q THEN "sent" ELSE IF i <= n THEN "ready" ELSE "mark",
                                    d |-> k.os[Plus(R, i)].d]
             /\ k.os[Plus(R, i)].d \in Nat
        /\ \A i \in 1 .. n : k.os[Plus(R, i)].d = w[i]
    BY DEF Sender, Alive
  <1>2. x = Plus(R, n + 1)
    BY <1>1, <1>w, NextPlus
  <1>3. /\ j.ps = k.ps /\ j.rpr = k.rpr /\ j.pscopy = x /\ j.nxtps = k.nxtps /\ j.op = k.op /\ j.wr = "fill"
        /\ j.os = With(k.os, x, b)
    BY DEF Filling, IsPack, Fields
  <1> HIDE DEF j, x, b, D, E
  <1>4. E = D \cup {x}
    <2>1. ASSUME NEW i \in 1 - p .. n + 1 PROVE Plus(R, i) \in D \cup {x}
      <3>1. i \in 1 - p .. n \/ i = n + 1
        BY <1>w
      <3>. QED
        BY <3>1, <1>2 DEF D
    <2>2. ASSUME NEW i \in 1 - p .. n PROVE Plus(R, i) \in E
      <3>1. i \in 1 - p .. n + 1
        BY <1>w
      <3>. QED
        BY <3>1 DEF E
    <2>3. x \in E
      <3>1. n + 1 \in 1 - p .. n + 1
        BY <1>w
      <3>. QED
        BY <3>1, <1>2 DEF E
    <2>. QED
      BY <2>1, <2>2, <2>3 DEF D, E
  <1>5. j.os = [y \in E |-> IF y = x THEN b ELSE k.os[y]]
    BY <1>1, <1>3, <1>4 DEF With
  <1>6. ASSUME NEW i \in 1 - p .. n
        PROVE  Plus(R, i) # x /\ Plus(R, i) \in E
    <2>1. Plus(R, i) # Plus(R, n + 1)
      BY PlusInj, <1>w
    <2>2. Plus(R, i) \in D
      BY DEF D
    <2>. QED
      BY <2>1, <2>2, <1>2, <1>4
  <1>7. ASSUME NEW i \in 1 - p .. n + 1
        PROVE  /\ j.os[Plus(R, i)] = [st |-> IF i <= q THEN "sent" ELSE IF i <= n THEN "ready" ELSE "mark",
                                      d |-> j.os[Plus(R, i)].d]
               /\ j.os[Plus(R, i)].d \in Nat
    <2>1. CASE i \in 1 - p .. n
      <3>1. j.os[Plus(R, i)] = k.os[Plus(R, i)]
        BY <2>1, <1>5, <1>6
      <3>. QED
        BY <3>1, <2>1, <1>1
    <2>2. CASE i = n + 1
      <3>1. j.os[Plus(R, i)] = b
        BY <2>2, <1>2, <1>4, <1>5
      <3>2. ~(i <= q) /\ ~(i <= n)
        BY <2>2, <1>w
      <3>. QED
        BY <3>1, <3>2 DEF b
    <2>. QED
      BY <2>1, <2>2, <1>w
  <1>8. \A i \in 1 .. n : j.os[Plus(R, i)].d = w[i]
    <2> TAKE i \in 1 .. n
    <2>1. i \in 1 - p .. n
      BY <1>w
    <2>2. j.os[Plus(R, i)] = k.os[Plus(R, i)]
      BY <2>1, <1>5, <1>6
    <2>. QED
      BY <2>2, <1>1
  <1>9. j.os = [y \in E |-> j.os[y]]
    BY <1>5
  <1>10. p + (n + 1) <= Window
    BY <1>w
  <1>. QED
    BY <1>1, <1>2, <1>3, <1>7, <1>8, <1>9, <1>10 DEF Sender, j, E

LEMMA WriteMarkPair ==
  ASSUME NEW k, NEW o, NEW v, NEW w, Pair(k, o, v, w), k.op = "open", k.wr \in {"user", "write", "woken"},
         Xcount(k) < k.swindow
  PROVE  Pair(Filling(k), o, v, w)
  <1> DEFINE j == Filling(k)
  <1>p. Pack(k) /\ Pack(o) /\ IsPack(k) /\ Alive(k)
    BY DEF Pair, Pack, Alive
  <1>1. /\ IsPack(j) /\ j.wr = "fill" /\ \A x \in Fields \ {"os", "pscopy", "wr"} : j[x] = k[x]
    BY <1>p DEF Filling, IsPack, Fields
  <1>2. v \in Seq(Nat) /\ w \in Seq(Nat)
    BY DEF Pair, Dir
  <1>3. PICK R \in No, p \in 0 .. 2, q \in 0 .. 2, t \in -1 .. 3 : Link(k, o, v, R, p, q, t)
    BY DEF Pair, Dir
  <1>4. PICK S \in No, a \in 0 .. 2, b \in 0 .. 2, c \in -1 .. 3 : Link(o, k, w, S, a, b, c)
    BY DEF Pair, Dir
  <1>5. Sender(k, v, R, p, q, t) /\ q <= Len(v)
    BY <1>3 DEF Link
  <1>6. p + Len(v) + 1 <= Window
    BY <1>2, <1>5, <1>p, RoomIs DEF Pack
  <1>7. Sender(j, v, R, p, q, t)
    BY <1>2, <1>5, <1>6, <1>p, FillingSender
  <1> HIDE DEF j
  <1>8. Pack(j)
    BY <1>p, <1>1 DEF Pack, Fields, Early
  <1>9. Link(j, o, v, R, p, q, t)
    BY <1>3, <1>1, <1>7 DEF Link, Fields
  <1>10. Link(o, j, w, S, a, b, c)
    <2>1. SameIn(k, j)
      BY <1>1 DEF SameIn, Fields
    <2>2. Receiver(j, w, S, b)
      BY <1>4, <2>1, SameReceiver DEF Link
    <2>. QED
      BY <2>2, <1>1, <1>4 DEF Link, Fields
  <1>11. Dir(j, o, v) /\ Dir(o, j, w)
    BY <1>2, <1>9, <1>10 DEF Dir
  <1>. QED
    BY <1>8, <1>11, <1>p DEF Pair, j

(* pkwrite() has filled its buffer.                                        *)
Filled(k, d, x) == [k EXCEPT !.os[k.pscopy] = [st |-> "ready", d |-> d], !.wr = x]

LEMMA FilledSender ==
  ASSUME NEW k, NEW w \in Seq(Nat), NEW R \in No, NEW p \in 0 .. 2, NEW q \in 0 .. 2, NEW t \in -1 .. 3, Alive(k),
         IsPack(k), Sender(k, w, R, p, q, t), k.wr = "fill", q <= Len(w), NEW d \in Nat, NEW x, x # "fill"
  PROVE  Sender(Filled(k, d, x), Append(w, d), R, p, q, t) /\ p + Len(Append(w, d)) <= Window
  <1> DEFINE n == Len(w)
             j == Filled(k, d, x)
             b == [st |-> "ready", d |-> d]
             D == {Plus(R, i) : i \in 1 - p .. n + 1}
             z == Append(w, d)
  <1>w. Window \in 1 .. 2 /\ n \in Nat /\ R \in Int
    BY PacketAssumption DEF No
  <1>z. Len(z) = n + 1 /\ z[n + 1] = d /\ \A i \in 1 .. n : z[i] = w[i]
    OBVIOUS
  <1>1. /\ t \in q - 1 .. q + 1 /\ p + (n + 1) <= Window
        /\ k.ps = Plus(R, -p) /\ k.rpr = k.ps /\ k.pscopy = Plus(R, n + 1) /\ k.nxtps = Plus(R, t)
        /\ k.os = [y \in D |-> k.os[y]]
        /\ \A i \in 1 - p .. n + 1 :
             /\ k.os[Plus(R, i)] = [st |-> IF i <= q THEN "sent" ELSE IF i <= n THEN "ready" ELSE "mark",
                                    d |-> k.os[Plus(R, i)].d]
             /\ k.os[Plus(R, i)].d \in Nat
        /\ \A i \in 1 .. n : k.os[Plus(R, i)].d = w[i]
    BY DEF Sender, Alive
  <1>2. /\ j.ps = k.ps /\ j.rpr = k.rpr /\ j.pscopy = k.pscopy /\ j.nxtps = k.nxtps /\ j.op = k.op /\ j.wr = x
        /\ j.os = [k.os EXCEPT ![k.pscopy] = b]
    BY DEF Filled, IsPack, Fields
  <1> HIDE DEF j, b, D, z, n
  <1>3. /\ \A i \in 1 - p .. n + 1 : Plus(R, i) \in D
        /\ j.os = [y \in D |-> IF y = Plus(R, n + 1) THEN b ELSE k.os[y]]
    BY <1>1, <1>2 DEF D
  <1>4. ASSUME NEW i \in 1 - p .. n
        PROVE  j.os[Plus(R, i)] = k.os[Plus(R, i)]
    <2>1. Plus(R, i) # Plus(R, n + 1)
      BY PlusInj, <1>w, <1>1
    <2>2. i \in 1 - p .. n + 1
      BY <1>w
    <2>. QED
      BY <2>1, <2>2, <1>3
  <1>5. j.os[Plus(R, n + 1)] = b
    <2>1. n + 1 \in 1 - p .. n + 1
      BY <1>w
    <2>. QED
      BY <2>1, <1>3
  <1>6. ASSUME NEW i \in 1 - p .. n + 1
        PROVE  /\ j.os[Plus(R, i)] = [st |-> IF i <= q THEN "sent" ELSE IF i <= n + 1 THEN "ready" ELSE "mark",
                                      d |-> j.os[Plus(R, i)].d]
               /\ j.os[Plus(R, i)].d \in Nat
    <2>1. CASE i \in 1 - p .. n
      <3>1. j.os[Plus(R, i)] = k.os[Plus(R, i)]
        BY <2>1, <1>4
      <3>2. i <= n /\ i <= n + 1
        BY <2>1, <1>w
      <3>3. /\ k.os[Plus(R, i)] = [st |-> IF i <= q THEN "sent" ELSE IF i <= n THEN "ready" ELSE "mark",
                                   d |-> k.os[Plus(R, i)].d]
            /\ k.os[Plus(R, i)].d \in Nat
        BY <1>1
      <3>. QED
        BY <3>1, <3>2, <3>3
    <2>2. CASE i = n + 1
      <3>1. j.os[Plus(R, i)] = b
        BY <2>2, <1>5
      <3>2. ~(i <= q) /\ i <= n + 1
        BY <2>2, <1>w DEF n
      <3>. QED
        BY <3>1, <3>2 DEF b
    <2>. QED
      BY <2>1, <2>2, <1>w
  <1>7. \A i \in 1 .. n + 1 : j.os[Plus(R, i)].d = z[i]
    <2> TAKE i \in 1 .. n + 1
    <2>1. CASE i \in 1 .. n
      <3>1. i \in 1 - p .. n
        BY <2>1, <1>w
      <3>. QED
        BY <3>1, <2>1, <1>4, <1>1, <1>z
    <2>2. CASE i = n + 1
      BY <2>2, <1>5, <1>z DEF b
    <2>. QED
      BY <2>1, <2>2, <1>w
  <1>8. j.os = [y \in D |-> j.os[y]]
    BY <1>3
  <1>9. Sender(j, z, R, p, q, t)
    <2> DEFINE c == IF j.wr = "fill" THEN Len(z) + 1 ELSE Len(z)
    <2>1. c = n + 1
      BY <1>2, <1>z
    <2> HIDE DEF c
    <2>2. /\ p + c <= Window
          /\ t \in q - 1 .. q + 1
          /\ j.ps = Plus(R, -p) /\ j.rpr = j.ps /\ j.pscopy = Plus(R, c) /\ j.nxtps = Plus(R, t)
          /\ j.os = [y \in {Plus(R, i) : i \in 1 - p .. c} |-> j.os[y]]
          /\ \A i \in 1 - p .. c :
               /\ j.os[Plus(R, i)] = [st |-> IF i <= q THEN "sent" ELSE IF i <= Len(z) THEN "ready" ELSE "mark",
                                      d |-> j.os[Plus(R, i)].d]
               /\ j.os[Plus(R, i)].d \in Nat
          /\ \A i \in 1 .. Len(z) : j.os[Plus(R, i)].d = z[i]
      BY <1>1, <1>2, <1>6, <1>7, <1>8, <1>z, <2>1 DEF D
    <2>. QED
      BY <2>2 DEF Sender, c
  <1>. QED
    BY <1>9, <1>1, <1>z DEF j, z

(* A packet more behind those that are on their way.                       *)
LEMMA MoreWritten ==
  ASSUME NEW s, NEW r, NEW w \in Seq(Nat), NEW R, NEW q \in 0 .. 2, q <= Len(w), NEW d \in Nat
  PROVE  /\ Receiver(r, w, R, q) => Receiver(r, Append(w, d), R, q)
         /\ Sending(s.tx, w, R, q) => Sending(s.tx, Append(w, d), R, q)
  <1> DEFINE z == Append(w, d)
  <1>1. \A i \in 1 .. q : z[i] = w[i]
    OBVIOUS
  <1> HIDE DEF z
  <1>2. ASSUME NEW x, Raw(r, w, R, q, x)
        PROVE  Raw(r, z, R, q, x)
    <2>1. PICK u \in -3 .. 0, g \in -3 .. 2 :
            /\ x = Plus(R, u) /\ u >= r.rcount - 3
            /\ r.is[x] = [st |-> "raw", seq |-> Plus(R, g), good |-> r.is[x].good, d |-> r.is[x].d]
            /\ g >= r.rcount - 3 /\ g <= q
            /\ r.is[x].good /\ g >= 1 => r.is[x].d = w[g]
            /\ r.imask # {} /\ x \in r.imap => u >= -1 /\ g >= r.rcount - 1
      BY <1>2 DEF Raw
    <2>2. g >= 1 => z[g] = w[g]
      BY <1>1, <2>1
    <2>. QED
      BY <2>1, <2>2 DEF Raw
  <1>3. Receiver(r, w, R, q) => Receiver(r, z, R, q)
    BY <1>1, <1>2 DEF Receiver
  <1>4. Sending(s.tx, w, R, q) => Sending(s.tx, z, R, q)
    BY <1>1 DEF Sending
  <1>. QED
    BY <1>3, <1>4 DEF z

LEMMA WriteFillPair ==
  ASSUME NEW k, NEW o, NEW v, NEW w, Pair(k, o, v, w), k.wr = "fill", NEW d \in Nat, NEW x, x # "fill"
  PROVE  Pair(Output(Filled(k, d, x)), o, Append(v, d), w)
  <1> DEFINE j == Filled(k, d, x)
             z == Append(v, d)
  <1>p. Pack(k) /\ Pack(o) /\ IsPack(k) /\ Alive(k) /\ k.op = "open"
    BY DEF Pair, Pack, Alive
  <1>1. /\ IsPack(j) /\ j.wr = x /\ \A y \in Fields \ {"os", "wr"} : j[y] = k[y]
    BY <1>p DEF Filled, IsPack, Fields
  <1>2. v \in Seq(Nat) /\ w \in Seq(Nat) /\ z \in Seq(Nat)
    BY DEF Pair, Dir
  <1>3. PICK R \in No, p \in 0 .. 2, q \in 0 .. 2, t \in -1 .. 3 : Link(k, o, v, R, p, q, t)
    BY DEF Pair, Dir
  <1>4. PICK S \in No, a \in 0 .. 2, b \in 0 .. 2, c \in -1 .. 3 : Link(o, k, w, S, a, b, c)
    BY DEF Pair, Dir
  <1>5. Sender(k, v, R, p, q, t) /\ q <= Len(v)
    BY <1>3 DEF Link
  <1>6. Sender(j, z, R, p, q, t) /\ p + Len(z) <= Window /\ q <= Len(z)
    <2>1. Sender(j, z, R, p, q, t) /\ p + Len(z) <= Window
      BY <1>2, <1>5, <1>p, FilledSender
    <2>2. Len(z) = Len(v) + 1 /\ Len(v) \in Nat
      BY <1>2
    <2>. QED
      BY <2>1, <2>2, <1>5
  <1>7. Receiver(o, z, R, q) /\ Sending(k.tx, z, R, q)
    BY <1>2, <1>3, MoreWritten DEF Link
  <1> HIDE DEF j, z
  <1>8. Pack(j)
    BY <1>p, <1>1 DEF Pack, Fields, Early
  <1>9. Link(j, o, z, R, p, q, t)
    BY <1>3, <1>1, <1>6, <1>7 DEF Link, Fields
  <1>10. Link(o, j, w, S, a, b, c)
    <2>1. SameIn(k, j)
      BY <1>1 DEF SameIn, Fields
    <2>2. Receiver(j, w, S, b)
      BY <1>4, <2>1, SameReceiver DEF Link
    <2>. QED
      BY <2>2, <1>1, <1>4 DEF Link, Fields
  <1>11. Dir(j, o, z) /\ Dir(o, j, w)
    BY <1>2, <1>9, <1>10 DEF Dir
  <1>12. Works(j, o, z, w)
    BY <1>8, <1>11, <1>p, <1>1 DEF Pair, Works, Alive, Fields
  <1>. QED
    BY <1>12, OutputWorks DEF Works, j, z

-----------------------------------------------------------------------------
(* pkaccept(): the packets that arrived are marked for the scan.           *)
LEMMA AcceptReceiver ==
  ASSUME NEW k, NEW w, NEW R, NEW q, IsPack(k), Alive(k), Receiver(k, w, R, q), k.imask = {},
         NEW j, j = [k EXCEPT !.imask = @ \cup k.imap, !.imap = {}, !.rd = "mark"]
  PROVE  Receiver(j, w, R, q)
  <1>1. /\ j.pr = k.pr /\ j.rcount = k.rcount /\ j.is = k.is /\ j.op = k.op
        /\ j.imap = {} /\ j.imask = k.imap /\ j.rd = "mark"
    BY DEF IsPack, Fields
  <1>2. ASSUME NEW x, Raw(k, w, R, q, x)
        PROVE  Raw(j, w, R, q, x)
    BY <1>1, <1>2 DEF Raw
  <1>. QED
    BY <1>1, <1>2 DEF Receiver, Alive

LEMMA AcceptPair ==
  ASSUME NEW k, NEW o, NEW v, NEW w, Pair(k, o, v, w), k.op = "open", k.rd \in {"user", "accept"}
  PROVE  /\ Pair(Nothing(OutputIf(k)), o, v, w)
         /\ Pair([k EXCEPT !.imask = @ \cup k.imap, !.imap = {}, !.rd = "mark"], o, v, w)
  <1> DEFINE j == [k EXCEPT !.imask = @ \cup k.imap, !.imap = {}, !.rd = "mark"]
             c == OutputIf(k)
  <1>p. Pack(k) /\ Pack(o) /\ IsPack(k) /\ Alive(k) /\ Works(k, o, v, w)
    BY DEF Pair, Pack, Alive, Works
  <1>1. /\ IsPack(j) /\ j.rd = "mark" /\ \A x \in Fields \ {"imask", "imap", "rd"} : j[x] = k[x]
    BY <1>p DEF IsPack, Fields
  <1>2. v \in Seq(Nat) /\ w \in Seq(Nat)
    BY DEF Pair, Dir
  <1>3. PICK R \in No, p \in 0 .. 2, q \in 0 .. 2, t \in -1 .. 3 : Link(k, o, v, R, p, q, t)
    BY DEF Pair, Dir
  <1>4. PICK S \in No, a \in 0 .. 2, b \in 0 .. 2, e \in -1 .. 3 : Link(o, k, w, S, a, b, e)
    BY DEF Pair, Dir
  <1>5. Receiver(k, w, S, b)
    BY <1>4 DEF Link
  <1>6. k.imask = {}
    BY <1>5, <1>p DEF Receiver, Alive
  <1>7. Receiver(j, w, S, b)
    BY <1>5, <1>6, <1>p, AcceptReceiver
  <1>8. Pair(Nothing(c), o, v, w)
    <2>1. Works(c, o, v, w)
      BY <1>p, OutputIfWorks
    <2>2. c.op = "open" /\ c.imask = {}
      BY <1>6, <1>p, OutputPlaces DEF OutputIf
    <2> HIDE DEF c
    <2> DEFINE x == IF "DOWN" \in c.state THEN "user" ELSE "tosleep"
    <2>3. x # "mark" /\ x # "copy"
      OBVIOUS
    <2>4. Nothing(c) = [c EXCEPT !.rd = x]
      BY DEF Nothing
    <2> HIDE DEF x
    <2>. QED
      BY <2>1, <2>2, <2>3, <2>4, ReadPlace DEF Works
  <1> HIDE DEF j, c
  <1>9. Pack(j)
    BY <1>p, <1>1 DEF Pack, Fields, Early
  <1>10. Link(o, j, w, S, a, b, e)
    BY <1>4, <1>7, <1>1 DEF Link, Fields
  <1>11. Link(j, o, v, R, p, q, t)
    BY <1>3, <1>1 DEF Link, Fields, Sender
  <1>12. Dir(o, j, w) /\ Dir(j, o, v)
    BY <1>2, <1>10, <1>11 DEF Dir
  <1>. QED
    BY <1>8, <1>9, <1>12, <1>p DEF Pair, j, c

LEMMA ReadSleepPair ==
  ASSUME NEW k, NEW o, NEW v, NEW w, Pair(k, o, v, w), k.rd = "tosleep"
  PROVE  Pair([k EXCEPT !.rd = "asleep"], o, v, w)
  <1>1. k.op = "open" /\ Works(k, o, v, w) /\ Alive(k)
    BY DEF Pair, Pack, Works, Alive
  <1>2. PICK R \in No, p \in 0 .. 2, q \in 0 .. 2, t \in -1 .. 3 : Link(o, k, w, R, p, q, t)
    BY DEF Pair, Dir
  <1>3. k.imask = {}
    BY <1>1, <1>2 DEF Link, Receiver, Alive
  <1>. QED
    BY <1>1, <1>3, ReadPlace DEF Works

(* pkread() of one packet.                                                 *)
Copying(k, x) ==
    [k EXCEPT !.is = Without(@, {next[k.pr]}), !.pr = next[k.pr], !.rcount = @ - 1, !.msg = @ \cup {"RR"}, !.rd = x]

LEMMA TailIs ==
  ASSUME NEW w \in Seq(Nat), Len(w) >= 1
  PROVE  /\ Tail(w) \in Seq(Nat) /\ Len(Tail(w)) = Len(w) - 1
         /\ \A i \in 1 .. Len(w) - 1 : Tail(w)[i] = w[i + 1]
  OBVIOUS

LEMMA CopyReceiver ==
  ASSUME NEW k, NEW w \in Seq(Nat), NEW R \in No, NEW q \in 0 .. 2, q <= Len(w), IsPack(k), Alive(k),
         Receiver(k, w, R, q), k.rd = "copy", NEW x, x \in {"user", "copy"},
         x = "copy" => Used(Copying(k, x), next[next[k.pr]])
  PROVE  Receiver(Copying(k, x), Tail(w), Plus(R, 1), q - 1) /\ k.rcount \in 1 .. 2 /\ k.rcount <= q
  <1>0. PICK a \in 1 .. 2 : a = k.rcount /\ a <= q
    <2>1. k.rcount \in 0 .. q /\ k.rcount > 0
      BY DEF Receiver, Alive
    <2>. QED
      BY <2>1
  <1> DEFINE j == Copying(k, x)
             S == Plus(R, 1)
             z == Tail(w)
             C == {Plus(R, i) : i \in 1 .. a}
             D == {Plus(S, i) : i \in 1 .. a - 1}
  <1>1. /\ k.pr = R /\ a \in 0 .. q
        /\ k.is = [y \in DOMAIN k.is |-> k.is[y]]
        /\ DOMAIN k.is = C \cup k.imap \cup k.imask
        /\ \A i \in 1 .. a : k.is[Plus(R, i)] = [st |-> "copy", d |-> w[i]]
        /\ \A y \in k.imap \cup k.imask : Raw(k, w, R, q, y)
        /\ k.imask = {} /\ a > 0
        /\ IsFiniteSet(DOMAIN k.is) /\ Cardinality(DOMAIN k.is) <= Window
    BY <1>0 DEF Receiver, Alive
  <1>w. R \in Int /\ S \in No /\ S \in Int /\ Len(w) \in Nat /\ Len(w) >= 1
    BY <1>0, PlusNo DEF No
  <1>z. \A i \in 1 .. q - 1 : z[i] = w[i + 1]
    BY <1>0, <1>w, TailIs
  <1>2. next[k.pr] = S /\ \A i \in Int : Plus(S, i) = Plus(R, i + 1)
    <2>1. \A i \in Int : Plus(S, i) = Plus(R, 1 + i)
      BY <1>0, <1>w, PlusPlus
    <2>2. next[k.pr] = S
      BY <1>1, NextPlus
    <2>3. \A i \in Int : 1 + i = i + 1
      OBVIOUS
    <2>. QED
      BY <2>1, <2>2, <2>3
  <1>3. /\ j.is = Without(k.is, {S}) /\ j.pr = S /\ j.rcount = a - 1 /\ j.rd = x /\ j.op = k.op
        /\ j.imap = k.imap /\ j.imask = k.imask
    BY <1>0, <1>2 DEF Copying, IsPack, Fields
  <1> HIDE DEF j, S, z, C, D
  <1>4. ASSUME NEW y \in k.imap
        PROVE  y # S /\ Raw(j, z, S, q - 1, y) /\ y \notin D
    <2>1. PICK u \in -3 .. 0, g \in -3 .. 2 :
            /\ y = Plus(R, u) /\ u >= a - 3
            /\ k.is[y] = [st |-> "raw", seq |-> Plus(R, g), good |-> k.is[y].good, d |-> k.is[y].d]
            /\ g >= a - 3 /\ g <= q
            /\ k.is[y].good /\ g >= 1 => k.is[y].d = w[g]
      <3>1. Raw(k, w, R, q, y)
        BY <1>1
      <3>. QED
        BY <3>1, <1>0 DEF Raw
    <2>2. y # S
      <3>1. Plus(R, u) # Plus(R, 1)
        BY PlusInj, <1>0, <1>w
      <3>. QED
        BY <3>1, <2>1 DEF S
    <2>3. y \notin D
      <3> SUFFICES ASSUME NEW i \in 1 .. a - 1, y = Plus(S, i) PROVE FALSE
        BY DEF D
      <3>1. Plus(R, u) = Plus(R, i + 1)
        <4>1. i \in Int
          OBVIOUS
        <4>2. Plus(S, i) = Plus(R, i + 1)
          BY <4>1, PlusOne DEF S
        <4>. QED
          BY <2>1, <4>2
      <3>2. i + 1 \in 2 .. 2
        BY <1>0, <1>w
      <3>. QED
        BY <3>1, <3>2, PlusInj, <1>0, <1>w
    <2>4. y \in DOMAIN k.is
      BY <1>1
    <2>5. j.is[y] = k.is[y]
      BY <2>2, <2>4, <1>3 DEF Without
    <2>6. y = Plus(S, u - 1) /\ Plus(R, g) = Plus(S, g - 1)
      <3>1. u \in Int /\ g \in Int
        OBVIOUS
      <3>2. Plus(R, u) = Plus(S, u - 1) /\ Plus(R, g) = Plus(S, g - 1)
        BY <3>1, PlusOne DEF S
      <3>. QED
        BY <3>2, <2>1
    <2>7. u - 1 \in -3 .. 0 /\ g - 1 \in -3 .. 2 /\ u - 1 >= (a - 1) - 3 /\ g - 1 >= (a - 1) - 3 /\ g - 1 <= q - 1
      <3>1. u >= a - 3 /\ g >= a - 3 /\ g <= q
        BY <2>1
      <3>. QED
        BY <3>1
    <2>8. g - 1 >= 1 => z[g - 1] = w[g] /\ g >= 1
      <3>1. g - 1 >= 1 => g - 1 \in 1 .. q - 1 /\ (g - 1) + 1 = g
        BY <2>1
      <3>. QED
        BY <3>1, <1>z
    <2>9. j.is[y] = [st |-> "raw", seq |-> Plus(S, g - 1), good |-> j.is[y].good, d |-> j.is[y].d]
      BY <2>1, <2>5, <2>6
    <2>10. j.is[y].good /\ g - 1 >= 1 => j.is[y].d = z[g - 1]
      BY <2>1, <2>5, <2>8
    <2>11. Raw(j, z, S, q - 1, y)
      BY <2>6, <2>7, <2>9, <2>10, <1>3, <1>1 DEF Raw
    <2>. QED
      BY <2>2, <2>3, <2>11
  <1>5. C = {S} \cup D /\ S \notin D
    <2>1. ASSUME NEW i \in 1 .. a PROVE Plus(R, i) \in {S} \cup D
      <3>1. CASE i = 1
        BY <3>1 DEF S
      <3>2. CASE i = 2
        <4>1. Plus(S, 1) = Plus(R, 2) /\ 1 \in 1 .. a - 1
          BY <1>0, <1>w, <3>2 DEF S, Plus
        <4>. QED
          BY <4>1, <3>2 DEF D
      <3>. QED
        BY <3>1, <3>2, <1>0, <1>w
    <2>2. ASSUME NEW i \in 1 .. a - 1 PROVE Plus(S, i) \in C /\ Plus(S, i) # S
      <3>0. i \in Int /\ i + 1 \in 1 .. a
        BY <1>0
      <3>1. Plus(S, i) = Plus(R, i + 1) /\ i + 1 \in 1 .. a
        BY <3>0, PlusOne DEF S
      <3>2. Plus(R, i + 1) # Plus(R, 1)
        BY PlusInj, <1>0, <1>w
      <3>. QED
        BY <3>1, <3>2 DEF C, S
    <2>3. S \in C
      BY <1>0, <1>w DEF C, S
    <2>. QED
      BY <2>1, <2>2, <2>3 DEF C, D
  <1>6. DOMAIN j.is = DOMAIN k.is \ {S} /\ j.is = [y \in DOMAIN j.is |-> j.is[y]]
        /\ \A y \in DOMAIN k.is \ {S} : j.is[y] = k.is[y]
    BY <1>3 DEF Without
  <1>7. DOMAIN j.is = D \cup j.imap \cup j.imask
    BY <1>1, <1>3, <1>4, <1>5, <1>6
  <1>8. \A i \in 1 .. a - 1 : j.is[Plus(S, i)] = [st |-> "copy", d |-> z[i]]
    <2> TAKE i \in 1 .. a - 1
    <2>0. i \in Int /\ i + 1 \in 1 .. a /\ i \in 1 .. q - 1
      BY <1>0
    <2>1. Plus(S, i) = Plus(R, i + 1) /\ i + 1 \in 1 .. a /\ i \in 1 .. q - 1
      BY <2>0, PlusOne DEF S
    <2>2. Plus(S, i) \in D
      BY DEF D
    <2>3. Plus(S, i) \in DOMAIN k.is \ {S}
      BY <2>2, <1>1, <1>5
    <2>. QED
      BY <2>1, <2>3, <1>6, <1>1, <1>z
  <1>9. IsFiniteSet(DOMAIN j.is) /\ Cardinality(DOMAIN j.is) <= Window
    <2> DEFINE T == DOMAIN k.is
    <2>1. IsFiniteSet(T) /\ Cardinality(T) <= Window /\ DOMAIN j.is \subseteq T
      BY <1>1, <1>6
    <2> HIDE DEF T
    <2>2. IsFiniteSet(DOMAIN j.is) /\ Cardinality(DOMAIN j.is) <= Cardinality(T)
      BY <2>1, FS_Subset
    <2>3. Cardinality(DOMAIN j.is) \in Nat /\ Cardinality(T) \in Nat /\ Window \in Nat
      BY <2>1, <2>2, FS_CardinalityType, PacketAssumption
    <2>. QED
      BY <2>1, <2>2, <2>3
  <1>10. x = "copy" => a - 1 > 0
    <2> SUFFICES ASSUME x = "copy", a = 1 PROVE FALSE
      BY <1>0, <1>w
    <2>1. next[S] \in DOMAIN j.is
      BY <1>2 DEF Used, j
    <2>2. next[S] = Plus(R, 2)
      BY DEF next, S, Plus, No
    <2>3. D = {}
      BY DEF D
    <2>4. Plus(R, 2) \in k.imap
      BY <2>1, <2>2, <2>3, <1>7, <1>3, <1>1
    <2>5. PICK u \in -3 .. 0 : Plus(R, 2) = Plus(R, u)
      <3>1. Raw(k, w, R, q, Plus(R, 2))
        BY <2>4, <1>1
      <3>. QED
        BY <3>1 DEF Raw
    <2>. QED
      BY <2>5, PlusInj, <1>0, <1>w
  <1>11. Receiver(j, z, S, q - 1)
    <2>1. a - 1 \in 0 .. q - 1
      BY <1>0, <1>w
    <2>2. j.imap \cap j.imask = {} /\ j.imask = {}
      BY <1>1, <1>3
    <2>3. \A y \in j.imap \cup j.imask : Raw(j, z, S, q - 1, y)
      BY <1>3, <1>4, <2>2
    <2>4. j.rd = "copy" => j.rcount > 0
      BY <1>10, <1>3
    <2>. QED
      BY <2>1, <2>2, <2>3, <2>4, <1>3, <1>6, <1>7, <1>8, <1>9 DEF Receiver, D
  <1>. QED
    BY <1>11, <1>0 DEF j, z, S

(* The places of the sender are one less when a packet has been read.      *)
LEMMA CopySender ==
  ASSUME NEW s, NEW w \in Seq(Nat), NEW R \in No, NEW p \in 0 .. 2, NEW q \in 1 .. 2, NEW t \in -1 .. 3,
         Sender(s, w, R, p, q, t), Len(w) >= 1, s.op # "closed"
  PROVE  Sender(s, Tail(w), Plus(R, 1), p + 1, q - 1, t - 1) /\ t - 1 \in -1 .. 3
  <1> DEFINE c == IF s.wr = "fill" THEN Len(w) + 1 ELSE Len(w)
  <1>n. PICK n \in Nat : n = Len(w) /\ n >= 1
    OBVIOUS
  <1>c. PICK e \in Nat : e = c /\ e >= 1
    OBVIOUS
  <1> DEFINE S == Plus(R, 1)
             z == Tail(w)
             D == {Plus(R, i) : i \in 1 - p .. e}
             E == {Plus(S, i) : i \in 1 - (p + 1) .. e - 1}
  <1>z. Len(z) = n - 1 /\ \A i \in 1 .. n - 1 : z[i] = w[i + 1]
    BY <1>n, TailIs
  <1>d. e - 1 = IF s.wr = "fill" THEN Len(z) + 1 ELSE Len(z)
    BY <1>c, <1>n, <1>z
  <1>1. /\ p + e <= Window /\ t \in q - 1 .. q + 1
        /\ s.ps = Plus(R, -p) /\ s.rpr = s.ps /\ s.pscopy = Plus(R, e) /\ s.nxtps = Plus(R, t)
        /\ s.os = [y \in D |-> s.os[y]]
        /\ \A i \in 1 - p .. e :
             /\ s.os[Plus(R, i)] = [st |-> IF i <= q THEN "sent" ELSE IF i <= n THEN "ready" ELSE "mark",
                                    d |-> s.os[Plus(R, i)].d]
             /\ s.os[Plus(R, i)].d \in Nat
        /\ \A i \in 1 .. n : s.os[Plus(R, i)].d = w[i]
    BY <1>n, <1>c DEF Sender
  <1>w. Window \in 1 .. 2 /\ R \in Int
    BY PacketAssumption DEF No
  <1> HIDE DEF c, S, z, D, E
  <1>2. ASSUME NEW i \in Int
        PROVE  Plus(S, i) = Plus(R, i + 1) /\ Plus(R, i) = Plus(S, i - 1)
    BY PlusOne DEF S
  <1>3. /\ s.ps = Plus(S, -(p + 1)) /\ s.pscopy = Plus(S, e - 1) /\ s.nxtps = Plus(S, t - 1)
    <2>1. Plus(R, -p) = Plus(S, -p - 1) /\ -p - 1 = -(p + 1)
      BY <1>2
    <2>2. Plus(R, e) = Plus(S, e - 1) /\ Plus(R, t) = Plus(S, t - 1)
      BY <1>2
    <2>. QED
      BY <2>1, <2>2, <1>1
  <1>4. D = E
    <2>1. ASSUME NEW i \in 1 - p .. e PROVE Plus(R, i) \in E
      <3>1. i - 1 \in 1 - (p + 1) .. e - 1 /\ Plus(R, i) = Plus(S, i - 1)
        BY <1>2
      <3>. QED
        BY <3>1 DEF E
    <2>2. ASSUME NEW i \in 1 - (p + 1) .. e - 1 PROVE Plus(S, i) \in D
      <3>1. i + 1 \in 1 - p .. e /\ Plus(S, i) = Plus(R, i + 1)
        BY <1>2
      <3>. QED
        BY <3>1 DEF D
    <2>. QED
      BY <2>1, <2>2 DEF D, E
  <1>5. ASSUME NEW i \in 1 - (p + 1) .. e - 1
        PROVE  /\ s.os[Plus(S, i)] = [st |-> IF i <= q - 1 THEN "sent" ELSE IF i <= n - 1 THEN "ready" ELSE "mark",
                                      d |-> s.os[Plus(S, i)].d]
               /\ s.os[Plus(S, i)].d \in Nat
    <2>1. PICK h \in 1 - p .. e : h = i + 1
      OBVIOUS
    <2>2. Plus(S, i) = Plus(R, h)
      BY <2>1, <1>2
    <2>3. (h <= q <=> i <= q - 1) /\ (h <= n <=> i <= n - 1)
      BY <2>1
    <2>4. /\ s.os[Plus(R, h)] = [st |-> IF h <= q THEN "sent" ELSE IF h <= n THEN "ready" ELSE "mark",
                                 d |-> s.os[Plus(R, h)].d]
          /\ s.os[Plus(R, h)].d \in Nat
      BY <1>1
    <2>. QED
      BY <2>2, <2>3, <2>4
  <1>6. ASSUME NEW i \in 1 .. n - 1
        PROVE  s.os[Plus(S, i)].d = z[i]
    <2>1. PICK h \in 1 .. n : h = i + 1
      OBVIOUS
    <2>2. Plus(S, i) = Plus(R, h)
      BY <2>1, <1>2
    <2>. QED
      BY <2>1, <2>2, <1>1, <1>z
  <1>7. p + 1 + (e - 1) <= Window /\ t - 1 \in (q - 1) - 1 .. (q - 1) + 1 /\ t - 1 \in -1 .. 3
    <2>1. p + e <= Window /\ t \in q - 1 .. q + 1
      BY <1>1
    <2>. QED
      BY <2>1, <1>w
  <1>8. s.os = [y \in E |-> s.os[y]]
    BY <1>1, <1>4
  <1>9. Sender(s, z, S, p + 1, q - 1, t - 1)
    <2> DEFINE m == IF s.wr = "fill" THEN Len(z) + 1 ELSE Len(z)
    <2>1. m = e - 1 /\ Len(z) = n - 1
      BY <1>d, <1>z
    <2> HIDE DEF m
    <2>2. /\ p + 1 + m <= Window
          /\ t - 1 \in (q - 1) - 1 .. (q - 1) + 1
          /\ s.ps = Plus(S, -(p + 1)) /\ s.rpr = s.ps /\ s.pscopy = Plus(S, m) /\ s.nxtps = Plus(S, t - 1)
          /\ s.os = [y \in {Plus(S, i) : i \in 1 - (p + 1) .. m} |-> s.os[y]]
          /\ \A i \in 1 - (p + 1) .. m :
               /\ s.os[Plus(S, i)] = [st |-> IF i <= q - 1 THEN "sent" ELSE IF i <= Len(z) THEN "ready" ELSE "mark",
                                      d |-> s.os[Plus(S, i)].d]
               /\ s.os[Plus(S, i)].d \in Nat
          /\ \A i \in 1 .. Len(z) : s.os[Plus(S, i)].d = z[i]
      BY <1>1, <1>3, <1>5, <1>6, <1>7, <1>8, <2>1 DEF E
    <2>. QED
      BY <2>2 DEF Sender, m
  <1>. QED
    BY <1>7, <1>9 DEF S, z

(* The frames on their way.                                                *)
LEMMA CopyFrames ==
  ASSUME NEW f, NEW w \in Seq(Nat), NEW R \in No, NEW p \in 0 .. 2, NEW q \in 1 .. 2, q <= Len(w)
  PROVE  /\ Sending(f, w, R, q) => Sending(f, Tail(w), Plus(R, 1), q - 1)
         /\ Acking(f, R, p) => Acking(f, Plus(R, 1), p + 1)
  <1>1. ASSUME Sending(f, w, R, q), f.k = "data"
        PROVE  \E i \in (q - 1) - 1 .. q - 1 : f.seq = Plus(Plus(R, 1), i) /\ (i >= 1 => f.d = Tail(w)[i])
    <2>1. PICK i \in q - 1 .. q : f.seq = Plus(R, i) /\ (i >= 1 => f.d = w[i])
      BY <1>1 DEF Sending
    <2>2. PICK h \in (q - 1) - 1 .. q - 1 : h = i - 1
      OBVIOUS
    <2>3. Plus(R, i) = Plus(Plus(R, 1), h)
      BY <2>2, PlusOne
    <2>4. h >= 1 => Tail(w)[h] = w[i] /\ i >= 1
      <3>1. h >= 1 => h \in 1 .. Len(w) - 1 /\ i = h + 1 /\ Len(w) >= 1
        BY <2>2
      <3>. QED
        BY <3>1, TailIs
    <2>. QED
      BY <2>1, <2>3, <2>4
  <1>2. ASSUME Acking(f, R, p), f.k \in Acks
        PROVE  \E v \in 0 .. p + 1 : f.val = Plus(Plus(R, 1), -v)
    <2>1. PICK v \in 0 .. p : f.val = Plus(R, -v)
      BY <1>2 DEF Acking
    <2>2. PICK h \in 0 .. p + 1 : h = v + 1
      OBVIOUS
    <2>3. Plus(R, -v) = Plus(Plus(R, 1), -v - 1) /\ -v - 1 = -h
      BY <2>2, PlusOne
    <2>. QED
      BY <2>1, <2>3
  <1>. QED
    BY <1>1, <1>2 DEF Sending, Acking

LEMMA CopyPair ==
  ASSUME NEW k, NEW o, NEW v, NEW w, Pair(k, o, v, w), k.rd = "copy", NEW x, x \in {"user", "copy"},
         x = "copy" => Used(Copying(k, x), next[next[k.pr]])
  PROVE  Works(Copying(k, x), o, v, Tail(w))
  <1> DEFINE j == Copying(k, x)
             z == Tail(w)
  <1>p. Pack(k) /\ Pack(o) /\ IsPack(k) /\ Alive(k) /\ k.op = "open"
    BY DEF Pair, Pack, Alive
  <1>1. /\ IsPack(j) /\ j.msg = k.msg \cup {"RR"}
        /\ \A y \in Fields \ {"is", "pr", "rcount", "msg", "rd"} : j[y] = k[y]
    BY <1>p DEF Copying, IsPack, Fields
  <1>2. v \in Seq(Nat) /\ w \in Seq(Nat)
    BY DEF Pair, Dir
  <1>3. PICK R \in No, p \in 0 .. 2, q \in 0 .. 2, t \in -1 .. 3 : Link(k, o, v, R, p, q, t)
    BY DEF Pair, Dir
  <1>4. PICK S \in No, a \in 0 .. 2, b \in 0 .. 2, e \in -1 .. 3 : Link(o, k, w, S, a, b, e)
    BY DEF Pair, Dir
  <1>5. Receiver(j, z, Plus(S, 1), b - 1) /\ k.rcount \in 1 .. 2 /\ k.rcount <= b
    BY <1>2, <1>4, <1>p, CopyReceiver DEF Link
  <1>6. b \in 1 .. 2 /\ b <= Len(w) /\ Len(w) >= 1 /\ Len(w) \in Nat /\ a + Len(w) <= Window /\ Window \in 1 .. 2
    BY <1>5, <1>4, <1>2, PacketAssumption DEF Link
  <1>7. z \in Seq(Nat) /\ Len(z) = Len(w) - 1
    BY <1>2, <1>6, TailIs
  <1>8. Sending(o.tx, z, Plus(S, 1), b - 1) /\ Acking(k.tx, Plus(S, 1), a + 1)
    BY <1>2, <1>4, <1>6, CopyFrames DEF Link
  <1>9. \E u \in -1 .. 3 : Sender(o, z, Plus(S, 1), a + 1, b - 1, u)
    <2>1. CASE o.op = "closed"
      <3>1. Sender(o, z, Plus(S, 1), a + 1, b - 1, 0)
        BY <2>1 DEF Sender
      <3>. QED
        BY <3>1
    <2>2. CASE o.op # "closed"
      <3>1. Sender(o, w, S, a, b, e)
        BY <1>4 DEF Link
      <3>2. Sender(o, z, Plus(S, 1), a + 1, b - 1, e - 1) /\ e - 1 \in -1 .. 3
        BY <3>1, <2>2, <1>2, <1>6, CopySender
      <3>. QED
        BY <3>2
    <2>. QED
      BY <2>1, <2>2
  <1>10. PICK u \in -1 .. 3 : Sender(o, z, Plus(S, 1), a + 1, b - 1, u)
    BY <1>9
  <1> HIDE DEF j, z
  <1>11. Pack(j)
    BY <1>p, <1>1 DEF Pack, Fields, Early, Names
  <1>12. Link(o, j, z, Plus(S, 1), a + 1, b - 1, u)
    <2>1. a + 1 + Len(z) <= Window /\ b - 1 <= Len(z)
      BY <1>6, <1>7
    <2>. QED
      BY <2>1, <1>1, <1>5, <1>8, <1>10 DEF Link, Fields, j
  <1>13. Link(j, o, v, R, p, q, t)
    BY <1>3, <1>1 DEF Link, Fields, Sender
  <1>14. Plus(S, 1) \in No /\ a + 1 \in 0 .. 2 /\ b - 1 \in 0 .. 2
    BY <1>6 DEF Plus, No
  <1>15. Dir(o, j, z) /\ Dir(j, o, v)
    BY <1>2, <1>7, <1>12, <1>13, <1>14 DEF Dir
  <1>. QED
    BY <1>11, <1>15, <1>p, <1>1 DEF Pair, Works, Alive, Fields, j, z

-----------------------------------------------------------------------------
(* pkaccept(): the scan of the buffers.                                    *)

(* The state of the scan before buffer i: the buffers from i on and those  *)
(* that arrive meanwhile are as they were, and what is in the window was   *)
(* sent and has not been read.                                             *)
Marking(k, j, w, R, q, i) ==
    /\ IsPack(j) /\ \A f \in Fields \ {"is"} : j[f] = k[f]
    /\ j.is = [x \in DOMAIN j.is |-> j.is[x]]
    /\ \A x \in DOMAIN j.is : x \in k.imap \/ (x \in k.imask /\ x >= i) \/ \E h \in 1 .. 2 : x = Plus(R, h)
    /\ \A x \in k.imap : x \in DOMAIN j.is /\ j.is[x] = k.is[x]
    /\ \A x \in k.imask : x >= i => x \in DOMAIN j.is /\ j.is[x] = k.is[x]
    /\ \A h \in 1 .. 2 : Plus(R, h) \in DOMAIN j.is =>
         /\ h <= q /\ (h <= k.rcount \/ k.imask # {})
         /\ \E s \in {"copy", "mark"} : j.is[Plus(R, h)] = [st |-> s, d |-> w[h]]
    /\ \A h \in 1 .. 2 : h <= k.rcount => Plus(R, h) \in DOMAIN j.is
    /\ IsFiniteSet(DOMAIN j.is) /\ Cardinality(DOMAIN j.is) <= Window

(* No buffer that holds a packet as it arrived is in the window.           *)
LEMMA RawApart ==
  ASSUME NEW r, NEW w, NEW R \in No, NEW q, NEW x, Raw(r, w, R, q, x), NEW h \in 1 .. 2
  PROVE  x # Plus(R, h) /\ x \in No
  <1>1. PICK u \in -3 .. 0 : x = Plus(R, u)
    BY DEF Raw
  <1>. QED
    BY <1>1 DEF Plus, No

(* The scan starts.                                                        *)
LEMMA MarkingInit ==
  ASSUME NEW k, NEW w, NEW R \in No, NEW q \in 0 .. 2, IsPack(k), Alive(k), Receiver(k, w, R, q)
  PROVE  Marking(k, k, w, R, q, 0)
  <1>1. /\ k.rcount \in 0 .. q
        /\ k.is = [x \in DOMAIN k.is |-> k.is[x]]
        /\ DOMAIN k.is = {Plus(R, i) : i \in 1 .. k.rcount} \cup k.imap \cup k.imask
        /\ \A i \in 1 .. k.rcount : k.is[Plus(R, i)] = [st |-> "copy", d |-> w[i]]
        /\ \A x \in k.imap \cup k.imask : Raw(k, w, R, q, x)
        /\ IsFiniteSet(DOMAIN k.is) /\ Cardinality(DOMAIN k.is) <= Window
    BY DEF Receiver, Alive
  <1>a. PICK a \in 0 .. 2 : a = k.rcount /\ a <= q
    BY <1>1
  <1>2. \A x \in k.imap \cup k.imask : x \in No /\ x >= 0 /\ \A h \in 1 .. 2 : x # Plus(R, h)
    <2> TAKE x \in k.imap \cup k.imask
    <2>1. Raw(k, w, R, q, x)
      BY <1>1
    <2>2. \A h \in 1 .. 2 : x # Plus(R, h) /\ x \in No
      BY <2>1, RawApart
    <2>3. x \in No
      BY <2>2
    <2>. QED
      BY <2>2, <2>3 DEF No
  <1>3. ASSUME NEW h \in 1 .. 2, Plus(R, h) \in DOMAIN k.is
        PROVE  h <= a /\ k.is[Plus(R, h)] = [st |-> "copy", d |-> w[h]]
    <2>1. PICK i \in 1 .. a : Plus(R, h) = Plus(R, i)
      BY <1>1, <1>2, <1>3, <1>a
    <2>2. h = i
      <3>1. R \in Int
        BY DEF No
      <3>. QED
        BY <2>1, PlusInj, <3>1
    <2>. QED
      BY <2>2, <1>1, <1>a
  <1>4. ASSUME NEW h \in 1 .. 2, h <= a
        PROVE  Plus(R, h) \in DOMAIN k.is
    BY <1>1, <1>a, <1>4
  <1>5. \A x \in DOMAIN k.is : x \in k.imap \/ (x \in k.imask /\ x >= 0) \/ \E h \in 1 .. 2 : x = Plus(R, h)
    <2> TAKE x \in DOMAIN k.is
    <2>1. CASE x \in k.imap \cup k.imask
      BY <2>1, <1>2
    <2>2. CASE x \in {Plus(R, i) : i \in 1 .. k.rcount}
      <3>1. PICK i \in 1 .. a : x = Plus(R, i)
        BY <2>2, <1>a
      <3>2. i \in 1 .. 2
        OBVIOUS
      <3>. QED
        BY <3>1, <3>2
    <2>. QED
      BY <2>1, <2>2, <1>1
  <1>6. \A h \in 1 .. 2 : Plus(R, h) \in DOMAIN k.is =>
         /\ h <= q /\ (h <= k.rcount \/ k.imask # {})
         /\ \E s \in {"copy", "mark"} : k.is[Plus(R, h)] = [st |-> s, d |-> w[h]]
    <2> TAKE h \in 1 .. 2
    <2> HAVE Plus(R, h) \in DOMAIN k.is
    <2>1. h <= a /\ k.is[Plus(R, h)] = [st |-> "copy", d |-> w[h]]
      BY <1>3
    <2>. QED
      BY <2>1, <1>a
  <1>7. \A h \in 1 .. 2 : h <= k.rcount => Plus(R, h) \in DOMAIN k.is
    BY <1>4, <1>a
  <1>8. k.imap \cup k.imask \subseteq DOMAIN k.is
    BY <1>1
  <1>. QED
    BY <1>1, <1>5, <1>6, <1>7, <1>8 DEF Marking

(* A buffer that is not scanned.                                           *)
LEMMA MarkingSkip ==
  ASSUME NEW k, NEW j, NEW w, NEW R, NEW q, NEW i \in 0 .. 7, Marking(k, j, w, R, q, i), i \notin k.imask,
         k.imask \subseteq No
  PROVE  Marking(k, j, w, R, q, i + 1)
  <1>1. \A x \in k.imask : x >= i <=> x >= i + 1
    BY DEF No
  <1>. QED
    BY <1>1 DEF Marking

(* A packet that is damaged or not wanted is given up.                     *)
LEMMA MarkingDrop ==
  ASSUME NEW k, NEW j, NEW w, NEW R, NEW q, NEW i \in 0 .. 7, Marking(k, j, w, R, q, i), i \in k.imask,
         k.imask \subseteq No, k.imap \cap k.imask = {}, \A h \in 1 .. 2 : i # Plus(R, h),
         NEW m, m = [j EXCEPT !.is = Without(@, {i})]
  PROVE  Marking(k, m, w, R, q, i + 1)
  <1>1. \A x \in k.imask \ {i} : x >= i <=> x >= i + 1
    BY DEF No
  <1>2. IsPack(j) /\ IsPack(m) /\ m.is = Without(j.is, {i}) /\ \A f \in Fields \ {"is"} : m[f] = j[f]
    BY DEF Marking, IsPack, Fields
  <1>3. /\ DOMAIN m.is = DOMAIN j.is \ {i} /\ m.is = [x \in DOMAIN m.is |-> m.is[x]]
        /\ \A x \in DOMAIN j.is \ {i} : m.is[x] = j.is[x]
    BY <1>2 DEF Without
  <1>4. IsFiniteSet(DOMAIN m.is) /\ Cardinality(DOMAIN m.is) <= Window
    <2> DEFINE T == DOMAIN j.is
    <2>1. IsFiniteSet(T) /\ Cardinality(T) <= Window /\ DOMAIN m.is \subseteq T
      BY <1>3 DEF Marking
    <2> HIDE DEF T
    <2>2. IsFiniteSet(DOMAIN m.is) /\ Cardinality(DOMAIN m.is) <= Cardinality(T)
      BY <2>1, FS_Subset
    <2>3. Cardinality(DOMAIN m.is) \in Nat /\ Cardinality(T) \in Nat /\ Window \in Nat
      BY <2>1, <2>2, FS_CardinalityType, PacketAssumption
    <2>. QED
      BY <2>1, <2>2, <2>3
  <1>5. \A f \in Fields \ {"is"} : m[f] = k[f]
    BY <1>2 DEF Marking
  <1>6. \A x \in DOMAIN m.is : x \in k.imap \/ (x \in k.imask /\ x >= i + 1) \/ \E h \in 1 .. 2 : x = Plus(R, h)
    BY <1>1, <1>3 DEF Marking
  <1>7. /\ \A x \in k.imap : x \in DOMAIN m.is /\ m.is[x] = k.is[x]
        /\ \A x \in k.imask : x >= i + 1 => x \in DOMAIN m.is /\ m.is[x] = k.is[x]
    <2>1. ASSUME NEW x \in k.imap PROVE x \in DOMAIN m.is /\ m.is[x] = k.is[x]
      BY <1>3 DEF Marking
    <2>2. ASSUME NEW x \in k.imask, x >= i + 1 PROVE x \in DOMAIN m.is /\ m.is[x] = k.is[x]
      <3>1. x # i /\ x >= i
        BY <2>2 DEF No
      <3>. QED
        BY <3>1, <1>3 DEF Marking
    <2>. QED
      BY <2>1, <2>2
  <1>8. ASSUME NEW h \in 1 .. 2, Plus(R, h) \in DOMAIN m.is
        PROVE  /\ h <= q /\ (h <= k.rcount \/ k.imask # {})
               /\ \E s \in {"copy", "mark"} : m.is[Plus(R, h)] = [st |-> s, d |-> w[h]]
    BY <1>3, <1>8 DEF Marking
  <1>9. ASSUME NEW h \in 1 .. 2, h <= k.rcount
        PROVE  Plus(R, h) \in DOMAIN m.is
    BY <1>3, <1>9 DEF Marking
  <1>. QED
    BY <1>2, <1>3, <1>4, <1>5, <1>6, <1>7, <1>8, <1>9 DEF Marking

(* A packet of the window goes to the slot of its number.                  *)
LEMMA MarkingMove ==
  ASSUME NEW k, NEW j, NEW w, NEW R \in No, NEW q, NEW i \in 0 .. 7, Marking(k, j, w, R, q, i), i \in k.imask,
         k.imask \subseteq No, k.imap \cap k.imask = {},
         \A x \in k.imap \cup k.imask : \A h \in 1 .. 2 : x # Plus(R, h),
         NEW g \in 1 .. 2, g <= q, Plus(R, g) \notin DOMAIN j.is,
         NEW m, m = [j EXCEPT !.is = With(Without(@, {i}), Plus(R, g), [st |-> "mark", d |-> w[g]])]
  PROVE  Marking(k, m, w, R, q, i + 1)
  <1> DEFINE l == [j EXCEPT !.is = Without(@, {i})]
             y == Plus(R, g)
             b == [st |-> "mark", d |-> w[g]]
  <1>1. Marking(k, l, w, R, q, i + 1)
    BY MarkingDrop
  <1>2. /\ IsPack(j) /\ IsPack(m) /\ m.is = With(Without(j.is, {i}), y, b) /\ \A f \in Fields \ {"is"} : m[f] = j[f]
        /\ IsPack(l) /\ l.is = Without(j.is, {i})
    BY DEF Marking, IsPack, Fields
  <1>y. y \notin DOMAIN l.is /\ \A x \in k.imap \cup k.imask : x # y
    BY <1>2 DEF Without
  <1> HIDE DEF l, y, b
  <1>3. /\ DOMAIN m.is = DOMAIN l.is \cup {y} /\ m.is = [x \in DOMAIN m.is |-> m.is[x]]
        /\ m.is[y] = b /\ \A x \in DOMAIN l.is : m.is[x] = l.is[x]
    BY <1>2, <1>y DEF With
  <1>4. IsFiniteSet(DOMAIN m.is) /\ Cardinality(DOMAIN m.is) <= Window
    <2> DEFINE T == DOMAIN j.is
               U == DOMAIN l.is
    <2>1. IsFiniteSet(T) /\ Cardinality(T) <= Window /\ i \in T /\ U = T \ {i} /\ y \notin U /\ DOMAIN m.is = U \cup {y}
      BY <1>2, <1>3, <1>y DEF Marking, Without
    <2> HIDE DEF T, U
    <2>2. T = U \cup {i} /\ i \notin U /\ IsFiniteSet(U)
      BY <2>1, FS_Subset
    <2>3. Cardinality(T) = Cardinality(U) + 1
      BY <2>2, OneMore
    <2>4. IsFiniteSet(U \cup {y}) /\ Cardinality(U \cup {y}) = Cardinality(U) + 1
      BY <2>1, <2>2, OneMore
    <2>. QED
      BY <2>1, <2>3, <2>4
  <1>5. \A f \in Fields \ {"is"} : m[f] = k[f]
    BY <1>2 DEF Marking
  <1>6. \A x \in DOMAIN m.is : x \in k.imap \/ (x \in k.imask /\ x >= i + 1) \/ \E h \in 1 .. 2 : x = Plus(R, h)
    BY <1>1, <1>3 DEF Marking, y
  <1>7. /\ \A x \in k.imap : x \in DOMAIN m.is /\ m.is[x] = k.is[x]
        /\ \A x \in k.imask : x >= i + 1 => x \in DOMAIN m.is /\ m.is[x] = k.is[x]
    BY <1>1, <1>3 DEF Marking
  <1>8. ASSUME NEW h \in 1 .. 2, Plus(R, h) \in DOMAIN m.is
        PROVE  /\ h <= q /\ (h <= k.rcount \/ k.imask # {})
               /\ \E s \in {"copy", "mark"} : m.is[Plus(R, h)] = [st |-> s, d |-> w[h]]
    <2>1. CASE Plus(R, h) = y
      <3>1. h = g
        <4>1. R \in Int
          BY DEF No
        <4>. QED
          BY <2>1, <4>1, PlusInj DEF y
      <3>2. m.is[Plus(R, h)] = [st |-> "mark", d |-> w[h]]
        BY <3>1, <2>1, <1>3 DEF b
      <3>3. k.imask # {}
        OBVIOUS
      <3>. QED
        BY <3>1, <3>2, <3>3
    <2>2. CASE Plus(R, h) # y
      <3>1. Plus(R, h) \in DOMAIN l.is
        BY <2>2, <1>3, <1>8
      <3>. QED
        BY <3>1, <1>1, <1>3 DEF Marking
    <2>. QED
      BY <2>1, <2>2
  <1>9. ASSUME NEW h \in 1 .. 2, h <= k.rcount
        PROVE  Plus(R, h) \in DOMAIN m.is
    BY <1>1, <1>3, <1>9 DEF Marking
  <1>. QED
    BY <1>2, <1>3, <1>4, <1>5, <1>6, <1>7, <1>8, <1>9 DEF Marking

LEMMA InWindowIs ==
  ASSUME NEW R \in No, NEW g \in -3 .. 2, (Plus(R, g) + 7 - R) % 8 < 2
  PROVE  g \in 1 .. 2
  BY DEF Plus, No

(* One buffer of the scan.                                                 *)
LEMMA MarkMarking ==
  ASSUME NEW k, NEW j, NEW w, NEW R \in No, NEW q, NEW i \in 0 .. 7, Marking(k, j, w, R, q, i), i \in k.imask,
         k.pr = R, k.imap \cap k.imask = {}, \A x \in k.imap \cup k.imask : Raw(k, w, R, q, x)
  PROVE  Marking(k, Mark(j, i), w, R, q, i + 1)
  <1>1. \A x \in k.imap \cup k.imask : x \in No /\ \A h \in 1 .. 2 : x # Plus(R, h)
    <2> TAKE x \in k.imap \cup k.imask
    <2>1. \A h \in 1 .. 2 : x # Plus(R, h) /\ x \in No
      BY RawApart
    <2>2. x \in No
      BY <2>1
    <2>. QED
      BY <2>1, <2>2
  <1>2. k.imask \subseteq No /\ \A h \in 1 .. 2 : i # Plus(R, h)
    BY <1>1
  <1>3. /\ i \in DOMAIN j.is /\ j.is[i] = k.is[i] /\ j.pr = R
        /\ \A h \in 1 .. 2 : Plus(R, h) \in DOMAIN j.is =>
             \E s \in {"copy", "mark"} : j.is[Plus(R, h)] = [st |-> s, d |-> w[h]]
    BY DEF Marking, Fields
  <1>4. PICK g \in -3 .. 2 :
          /\ k.is[i] = [st |-> "raw", seq |-> Plus(R, g), good |-> k.is[i].good, d |-> k.is[i].d]
          /\ g <= q
          /\ k.is[i].good /\ g >= 1 => k.is[i].d = w[g]
    <2>1. Raw(k, w, R, q, i)
      OBVIOUS
    <2>. QED
      BY <2>1 DEF Raw
  <1> DEFINE b == j.is[i]
             l == [j EXCEPT !.is = Without(@, {i})]
             m == [j EXCEPT !.is = With(Vacated(j, i), b.seq, [st |-> "mark", d |-> b.d])]
  <1>b. b = k.is[i] /\ b.seq = Plus(R, g) /\ (b.good /\ g >= 1 => b.d = w[g]) /\ b.st = "raw"
    BY <1>3, <1>4
  <1>5. Mark(j, i) = IF ~b.good \/ Duplicate(j, i) THEN l ELSE m
    BY <1>b DEF Mark, Intact
  <1>6. Marking(k, l, w, R, q, i + 1)
    BY <1>2, MarkingDrop
  <1>7. ASSUME b.good, ~Duplicate(j, i)
        PROVE  Marking(k, m, w, R, q, i + 1)
    <2>1. InWindow(j, Plus(R, g)) /\ (Plus(R, g) = i \/ ~Used(j, Plus(R, g)))
      BY <1>7, <1>b DEF Duplicate
    <2>2. (Plus(R, g) + 7 - R) % 8 < 2
      <3>1. (Plus(R, g) + 7 - R) % 8 < Window
        BY <2>1, <1>3 DEF InWindow
      <3>2. PICK n \in 0 .. 7 : n = (Plus(R, g) + 7 - R) % 8
        BY PlusNo DEF No
      <3>. QED
        BY <3>1, <3>2, PacketAssumption
    <2>3. g \in 1 .. 2
      BY <2>2, InWindowIs
    <2>4. Plus(R, g) # i
      BY <2>3, <1>2
    <2>5. Plus(R, g) \notin DOMAIN j.is
      <3> SUFFICES ASSUME Plus(R, g) \in DOMAIN j.is PROVE FALSE
        OBVIOUS
      <3>1. PICK s \in {"copy", "mark"} : j.is[Plus(R, g)] = [st |-> s, d |-> w[g]]
        BY <2>3, <1>3
      <3>2. j.is[Plus(R, g)].st \in {"mark", "copy"}
        BY <3>1
      <3>3. Used(j, Plus(R, g))
        BY <3>2 DEF Used, Marked
      <3>. QED
        BY <3>3, <2>1, <2>4
    <2>6. b.seq = Plus(R, g) /\ b.d = w[g]
      BY <1>b, <1>7, <2>3
    <2>7. m = [j EXCEPT !.is = With(Without(@, {i}), Plus(R, g), [st |-> "mark", d |-> w[g]])]
      BY <2>5, <2>6 DEF Vacated
    <2> HIDE DEF m, b, l
    <2>. QED
      BY <1>1, <1>2, <1>4, <2>3, <2>5, <2>7, MarkingMove
  <1> HIDE DEF l, m, b
  <1>. QED
    BY <1>5, <1>6, <1>7

(* The loop of the scan.                                                   *)
Pass(k, j, x) == IF x \in k.imask THEN Mark(j, x) ELSE j

LEMMA MarkAllIs ==
  ASSUME NEW k
  PROVE  \E f : MarkAll(k) = f[8] /\ f[0] = k /\ \A i \in 0 .. 7 : f[i + 1] = Pass(k, f[i], i)
  <1> DEFINE E(f) == f = [i \in 0 .. 8 |->
                            IF i = 0 THEN k
                            ELSE IF i - 1 \in k.imask THEN Mark(f[i - 1], i - 1) ELSE f[i - 1]]
             p1 == Pass(k, k, 0)
             p2 == Pass(k, p1, 1)
             p3 == Pass(k, p2, 2)
             p4 == Pass(k, p3, 3)
             p5 == Pass(k, p4, 4)
             p6 == Pass(k, p5, 5)
             p7 == Pass(k, p6, 6)
             p8 == Pass(k, p7, 7)
             F == [i \in 0 .. 8 |->
                     IF i = 0 THEN k ELSE IF i = 1 THEN p1 ELSE IF i = 2 THEN p2 ELSE IF i = 3 THEN p3
                     ELSE IF i = 4 THEN p4 ELSE IF i = 5 THEN p5 ELSE IF i = 6 THEN p6 ELSE IF i = 7 THEN p7 ELSE p8]
  <1>1. E(F)
    <2>1. /\ p1 = Pass(k, k, 0) /\ p2 = Pass(k, p1, 1) /\ p3 = Pass(k, p2, 2) /\ p4 = Pass(k, p3, 3)
          /\ p5 = Pass(k, p4, 4) /\ p6 = Pass(k, p5, 5) /\ p7 = Pass(k, p6, 6) /\ p8 = Pass(k, p7, 7)
      OBVIOUS
    <2> HIDE DEF p1, p2, p3, p4, p5, p6, p7, p8
    <2>2. /\ F[0] = k /\ F[1] = p1 /\ F[2] = p2 /\ F[3] = p3 /\ F[4] = p4 /\ F[5] = p5 /\ F[6] = p6
          /\ F[7] = p7 /\ F[8] = p8
      OBVIOUS
    <2> DEFINE G == [i \in 0 .. 8 |->
                       IF i = 0 THEN k
                       ELSE IF i - 1 \in k.imask THEN Mark(F[i - 1], i - 1) ELSE F[i - 1]]
    <2>3. \A i \in 0 .. 8 : G[i] = F[i]
      <3> TAKE i \in 0 .. 8
      <3>0. G[i] = IF i = 0 THEN k ELSE Pass(k, F[i - 1], i - 1)
        BY DEF Pass
      <3> HIDE DEF F, G
      <3>1. CASE i = 0
        BY <3>0, <3>1, <2>2
      <3>2. CASE i = 1
        BY <3>0, <3>2, <2>1, <2>2
      <3>3. CASE i = 2
        BY <3>0, <3>3, <2>1, <2>2
      <3>4. CASE i = 3
        BY <3>0, <3>4, <2>1, <2>2
      <3>5. CASE i = 4
        BY <3>0, <3>5, <2>1, <2>2
      <3>6. CASE i = 5
        BY <3>0, <3>6, <2>1, <2>2
      <3>7. CASE i = 6
        BY <3>0, <3>7, <2>1, <2>2
      <3>8. CASE i = 7
        BY <3>0, <3>8, <2>1, <2>2
      <3>9. CASE i = 8
        BY <3>0, <3>9, <2>1, <2>2
      <3>. QED
        BY <3>1, <3>2, <3>3, <3>4, <3>5, <3>6, <3>7, <3>8, <3>9
    <2>4. F = [i \in 0 .. 8 |-> F[i]] /\ G = [i \in 0 .. 8 |-> G[i]]
      OBVIOUS
    <2> HIDE DEF F
    <2>5. F = G
      <3> HIDE DEF G
      <3>. QED
        BY <2>3, <2>4
    <2>. QED
      BY <2>5
  <1> HIDE DEF F
  <1> DEFINE f == CHOOSE f : E(f)
  <1>2. E(f)
    <2> HIDE DEF E
    <2>. QED
      BY <1>1
  <1>3. MarkAll(k) = f[8]
    BY DEF MarkAll
  <1> HIDE DEF f
  <1>4. f[0] = k
    BY <1>2
  <1>5. ASSUME NEW i \in 0 .. 7 PROVE f[i + 1] = Pass(k, f[i], i)
    <2>1. i + 1 \in 0 .. 8 /\ i + 1 # 0 /\ (i + 1) - 1 = i
      OBVIOUS
    <2>2. f[i + 1] = IF (i + 1) - 1 \in k.imask THEN Mark(f[(i + 1) - 1], (i + 1) - 1) ELSE f[(i + 1) - 1]
      BY <1>2, <2>1
    <2>. QED
      BY <2>1, <2>2 DEF Pass
  <1>. QED
    BY <1>3, <1>4, <1>5

LEMMA MarkAllMarking ==
  ASSUME NEW k, NEW w, NEW R \in No, NEW q \in 0 .. 2, IsPack(k), Alive(k), Receiver(k, w, R, q)
  PROVE  Marking(k, MarkAll(k), w, R, q, 8)
  <1>1. k.pr = R /\ k.imap \cap k.imask = {} /\ \A x \in k.imap \cup k.imask : Raw(k, w, R, q, x)
    BY DEF Receiver, Alive
  <1>2. k.imask \subseteq No
    <2>1. ASSUME NEW x \in k.imask PROVE x \in No
      <3>1. Raw(k, w, R, q, x)
        BY <1>1
      <3>2. \A h \in 1 .. 2 : x \in No
        BY <3>1, RawApart
      <3>. QED
        BY <3>2
    <2>. QED
      BY <2>1
  <1>3. PICK f : MarkAll(k) = f[8] /\ f[0] = k /\ \A i \in 0 .. 7 : f[i + 1] = Pass(k, f[i], i)
    BY MarkAllIs
  <1>4. ASSUME NEW i \in 0 .. 7, Marking(k, f[i], w, R, q, i)
        PROVE  Marking(k, f[i + 1], w, R, q, i + 1)
    <2>1. CASE i \in k.imask
      <3>1. Marking(k, Mark(f[i], i), w, R, q, i + 1)
        BY <2>1, <1>1, <1>4, MarkMarking
      <3>. QED
        BY <3>1, <2>1, <1>3 DEF Pass
    <2>2. CASE i \notin k.imask
      <3>1. Marking(k, f[i], w, R, q, i + 1)
        BY <2>2, <1>2, <1>4, MarkingSkip
      <3>. QED
        BY <3>1, <2>2, <1>3 DEF Pass
    <2>. QED
      BY <2>1, <2>2
  <1> DEFINE M(i) == Marking(k, f[i], w, R, q, i)
  <1>5. M(0)
    BY <1>3, MarkingInit
  <1>6. \A i \in 0 .. 7 : M(i) => M(i + 1)
    BY <1>4
  <1> HIDE DEF M
  <1>7. M(0 + 1) /\ 0 + 1 = 1
    BY <1>5, <1>6
  <1>8. M(2) /\ M(3) /\ M(4)
    BY <1>6, <1>7
  <1>9. M(5) /\ M(6) /\ M(7) /\ M(8)
    BY <1>6, <1>8
  <1>. QED
    BY <1>9, <1>3 DEF M

(* What is accepted are the first a packets of the window.                 *)
LEMMA AcceptedIs ==
  ASSUME NEW k, NEW m, NEW w, NEW R \in No, NEW q \in 0 .. 2, q <= Window, k.pr = R, k.rcount \in Nat,
         Marking(k, m, w, R, q, 8)
  PROVE  \E a \in 0 .. 2 :
           /\ a <= q /\ (k.imask = {} => a <= k.rcount)
           /\ \A i \in 1 .. 2 : i <= a => Plus(R, i) \in DOMAIN m.is
           /\ Accepted(m) = 1 .. a
           /\ \A i \in 1 .. 2 : i \in Held(m) <=> Plus(R, i) \in DOMAIN m.is
           /\ Held(m) \subseteq 1 .. 2
  <1> DEFINE H(i) == Plus(R, i) \in DOMAIN m.is
             T == Held(m)
  <1>w. Window \in 1 .. 2
    BY PacketAssumption
  <1>0. m.pr = R
    BY DEF Marking, Fields
  <1>1. \A i \in 1 .. 2 : H(i) =>
          /\ i <= q /\ (i <= k.rcount \/ k.imask # {})
          /\ \E s \in {"copy", "mark"} : m.is[Plus(R, i)] = [st |-> s, d |-> w[i]]
    BY DEF Marking
  <1>2. ASSUME NEW i \in 1 .. 2
        PROVE  Used(m, Ahead(m, i)) <=> H(i)
    <2>1. Ahead(m, i) = Plus(R, i)
      BY <1>0 DEF Ahead, Plus
    <2>2. H(i) => m.is[Plus(R, i)].st \in {"mark", "copy"}
      <3> HAVE H(i)
      <3>1. PICK s \in {"copy", "mark"} : m.is[Plus(R, i)] = [st |-> s, d |-> w[i]]
        BY <1>1
      <3>. QED
        BY <3>1
    <2>. QED
      BY <2>1, <2>2 DEF Used, Marked
  <1>3. T \subseteq 1 .. 2 /\ \A i \in 1 .. 2 : i \in T <=> H(i)
    <2>1. T = {i \in 1 .. Window : Used(m, Ahead(m, i))}
      BY DEF Held
    <2>2. \A i \in 1 .. Window : i \in 1 .. 2
      BY <1>w
    <2>3. \A i \in 1 .. 2 : H(i) => i \in 1 .. Window
      BY <1>1, <1>w
    <2> HIDE DEF T, H
    <2>. QED
      BY <2>1, <2>2, <2>3, <1>2
  <1>4. Accepted(m) = {i \in T : 1 .. i \subseteq T}
    BY DEF Accepted
  <1> HIDE DEF T
  <1>5. CASE ~H(1)
    <2>1. 1 \notin T
      BY <1>5, <1>3
    <2>2. {i \in T : 1 .. i \subseteq T} = 1 .. 0
      <3>1. ASSUME NEW i \in T, 1 .. i \subseteq T PROVE FALSE
        <4>1. i \in 1 .. 2
          BY <1>3
        <4>2. 1 \in 1 .. i
          BY <4>1
        <4>. QED
          BY <4>2, <3>1, <2>1
      <3>. QED
        BY <3>1
    <2>3. \A i \in 1 .. 2 : ~(i <= 0)
      OBVIOUS
    <2>4. 0 <= q /\ 0 <= k.rcount
      OBVIOUS
    <2>. QED
      BY <1>4, <2>2, <2>3, <2>4, <1>3 DEF T
  <1>6. CASE H(1) /\ ~H(2)
    <2>1. 1 \in T /\ 2 \notin T
      BY <1>6, <1>3
    <2>2. {i \in T : 1 .. i \subseteq T} = 1 .. 1
      <3>1. ASSUME NEW i \in T PROVE i = 1
        BY <2>1, <1>3
      <3>2. 1 .. 1 = {1}
        OBVIOUS
      <3>. QED
        BY <3>1, <3>2, <2>1
    <2>3. \A i \in 1 .. 2 : i <= 1 => i = 1
      OBVIOUS
    <2>4. 1 <= q /\ (1 <= k.rcount \/ k.imask # {})
      BY <1>1, <1>6
    <2>. QED
      BY <1>4, <2>2, <2>3, <2>4, <1>6, <1>3 DEF T
  <1>7. CASE H(1) /\ H(2)
    <2>1. 1 \in T /\ 2 \in T
      BY <1>7, <1>3
    <2>2. {i \in T : 1 .. i \subseteq T} = 1 .. 2
      <3>1. T = 1 .. 2
        <4>1. \A i \in 1 .. 2 : i = 1 \/ i = 2
          OBVIOUS
        <4>. QED
          BY <4>1, <2>1, <1>3
      <3>2. \A i \in 1 .. 2 : 1 .. i \subseteq 1 .. 2
        OBVIOUS
      <3>. QED
        BY <3>1, <3>2
    <2>3. \A i \in 1 .. 2 : i = 1 \/ i = 2
      OBVIOUS
    <2>4. 2 <= q /\ (2 <= k.rcount \/ k.imask # {})
      BY <1>1, <1>7
    <2>. QED
      BY <1>4, <2>2, <2>3, <2>4, <1>7, <1>3 DEF T
  <1>. QED
    BY <1>5, <1>6, <1>7

(* The first places are as many as they say.                               *)
LEMMA KeptCount ==
  ASSUME NEW R \in No, NEW a \in 0 .. 2
  PROVE  Cardinality({Plus(R, i) : i \in 1 .. a}) = a
  <1> DEFINE C == {Plus(R, i) : i \in 1 .. a}
  <1>1. CASE a = 0
    <2>1. C = {}
      BY <1>1
    <2>. QED
      BY <1>1, <2>1, FS_EmptySet
  <1>2. CASE a = 1
    <2>1. 1 .. a = {1}
      BY <1>2
    <2>2. C = {Plus(R, 1)}
      BY <2>1
    <2> DEFINE x == Plus(R, 1)
    <2> HIDE DEF x
    <2>3. Cardinality({x}) = 1
      BY FS_Singleton
    <2>. QED
      BY <1>2, <2>2, <2>3 DEF x
  <1>3. CASE a = 2
    <2>1. 1 .. a = {1, 2}
      BY <1>3
    <2>2. C = {Plus(R, 1)} \cup {Plus(R, 2)}
      BY <2>1
    <2>3. Plus(R, 2) \notin {Plus(R, 1)}
      BY DEF Plus, No
    <2> DEFINE x == Plus(R, 1)
               y == Plus(R, 2)
    <2> HIDE DEF x, y, C
    <2>4. IsFiniteSet({x}) /\ Cardinality({x}) = 1
      BY FS_Singleton
    <2>5. Cardinality({x} \cup {y}) = Cardinality({x}) + 1
      BY <2>4, <2>3, OneMore DEF x, y
    <2>. QED
      BY <1>3, <2>2, <2>4, <2>5 DEF x, y, C
  <1>. QED
    BY <1>1, <1>2, <1>3

LEMMA ScannedReceiver ==
  ASSUME NEW k, NEW w, NEW R \in No, NEW q \in 0 .. 2, q <= Window, IsPack(k), Alive(k), k.rd = "mark",
         Receiver(k, w, R, q)
  PROVE  /\ Receiver(Scanned(k), w, R, q)
         /\ IsPack(Scanned(k)) /\ Scanned(k).imask = {}
         /\ Scanned(k).msg \subseteq k.msg \cup {"RJ", "RR"}
         /\ \A f \in Fields \ {"is", "msg", "rcount", "imask"} : Scanned(k)[f] = k[f]
  <1> DEFINE m == MarkAll(k)
             kept == {Ahead(k, i) : i \in Accepted(m)}
             lost == {Ahead(k, i) : i \in Held(m) \ Accepted(m)}
             B == [x \in DOMAIN m.is \ lost |-> IF x \in kept THEN [st |-> "copy", d |-> m.is[x].d] ELSE m.is[x]]
             Y == m.msg \cup Answer(k, m, lost)
             r == Scanned(k)
  <1>1. /\ k.pr = R /\ k.rcount \in 0 .. q /\ k.imap \cap k.imask = {}
        /\ \A x \in k.imap \cup k.imask : Raw(k, w, R, q, x)
    BY DEF Receiver, Alive
  <1>2. Marking(k, m, w, R, q, 8)
    BY MarkAllMarking
  <1>3. IsPack(m) /\ \A f \in Fields \ {"is"} : m[f] = k[f]
    BY <1>2 DEF Marking
  <1>4. r = [m EXCEPT !.is = B, !.msg = Y, !.rcount = Cardinality(kept), !.imask = {}]
    BY <1>3 DEF Scanned, IsPack, Fields
  <1>5. Answer(k, m, lost) \subseteq {"RJ", "RR"}
    BY DEF Answer
  <1> HIDE DEF m, kept, lost, B, Y, r
  <1>6. /\ IsPack(r) /\ r.is = B /\ r.rcount = Cardinality(kept) /\ r.imask = {} /\ r.msg = Y
        /\ \A f \in Fields \ {"is", "msg", "rcount", "imask"} : r[f] = k[f]
    BY <1>3, <1>4 DEF IsPack, Fields
  <1>7. r.msg \subseteq k.msg \cup {"RJ", "RR"}
    <2>1. m.msg = k.msg
      BY <1>3 DEF Fields
    <2>. QED
      BY <1>5, <1>6, <2>1 DEF Y
  <1>8. PICK a \in 0 .. 2 :
           /\ a <= q /\ (k.imask = {} => a <= k.rcount)
           /\ \A i \in 1 .. 2 : i <= a => Plus(R, i) \in DOMAIN m.is
           /\ Accepted(m) = 1 .. a
           /\ \A i \in 1 .. 2 : i \in Held(m) <=> Plus(R, i) \in DOMAIN m.is
           /\ Held(m) \subseteq 1 .. 2
    <2>1. k.rcount \in Nat
      BY <1>1
    <2>. QED
      BY <2>1, <1>1, <1>2, AcceptedIs
  <1>9. \A i \in 1 .. 2 : Ahead(k, i) = Plus(R, i)
    BY <1>1 DEF Ahead, Plus
  <1>10. kept = {Plus(R, i) : i \in 1 .. a}
    <2>1. \A i \in 1 .. a : i \in 1 .. 2
      OBVIOUS
    <2>. QED
      BY <2>1, <1>8, <1>9 DEF kept
  <1>11. r.rcount = a
    BY <1>6, <1>10, KeptCount
  <1>12. \A x : x \in lost <=> \E i \in 1 .. 2 : x = Plus(R, i) /\ Plus(R, i) \in DOMAIN m.is /\ ~(i <= a)
    <2>1. ASSUME NEW x \in lost PROVE \E i \in 1 .. 2 : x = Plus(R, i) /\ Plus(R, i) \in DOMAIN m.is /\ ~(i <= a)
      <3>1. PICK i \in Held(m) \ Accepted(m) : x = Ahead(k, i)
        BY DEF lost
      <3>2. i \in 1 .. 2 /\ i \notin 1 .. a
        BY <1>8
      <3>. QED
        BY <3>1, <3>2, <1>8, <1>9
    <2>2. ASSUME NEW i \in 1 .. 2, Plus(R, i) \in DOMAIN m.is, ~(i <= a) PROVE Plus(R, i) \in lost
      <3>1. i \in Held(m) /\ i \notin Accepted(m)
        BY <2>2, <1>8
      <3>. QED
        BY <3>1, <1>9 DEF lost
    <2>. QED
      BY <2>1, <2>2
  <1>13. /\ \A x \in DOMAIN m.is : x \in k.imap \/ (x \in k.imask /\ x >= 8) \/ \E h \in 1 .. 2 : x = Plus(R, h)
         /\ \A x \in k.imap : x \in DOMAIN m.is /\ m.is[x] = k.is[x]
         /\ IsFiniteSet(DOMAIN m.is) /\ Cardinality(DOMAIN m.is) <= Window
    BY <1>2 DEF Marking
  <1>14. \A x \in k.imap \cup k.imask : x \in No /\ \A h \in 1 .. 2 : x # Plus(R, h)
    <2> TAKE x \in k.imap \cup k.imask
    <2>1. \A h \in 1 .. 2 : x # Plus(R, h) /\ x \in No
      BY <1>1, RawApart
    <2>2. x \in No
      BY <2>1
    <2>. QED
      BY <2>1, <2>2
  <1>15. /\ \A x \in k.imap : x \in DOMAIN B /\ B[x] = k.is[x]
         /\ DOMAIN B = DOMAIN m.is \ lost /\ B = [x \in DOMAIN B |-> B[x]]
    <2>1. ASSUME NEW x \in k.imap PROVE x \notin lost /\ x \notin kept
      <3>1. \A h \in 1 .. 2 : x # Plus(R, h)
        BY <1>14
      <3>2. \A i \in 1 .. a : i \in 1 .. 2
        OBVIOUS
      <3>. QED
        BY <3>1, <3>2, <1>12, <1>10
    <2>. QED
      BY <2>1, <1>13 DEF B
  <1>16. DOMAIN B = {Plus(R, i) : i \in 1 .. a} \cup k.imap
    <2>1. ASSUME NEW x \in DOMAIN B PROVE x \in {Plus(R, i) : i \in 1 .. a} \cup k.imap
      <3>1. x \in DOMAIN m.is /\ x \notin lost
        BY <1>15
      <3>2. CASE x \in k.imap
        BY <3>2
      <3>3. CASE x \in k.imask /\ x >= 8
        BY <3>3, <1>14 DEF No
      <3>4. CASE \E h \in 1 .. 2 : x = Plus(R, h)
        <4>1. PICK h \in 1 .. 2 : x = Plus(R, h)
          BY <3>4
        <4>2. h <= a
          BY <4>1, <3>1, <1>12
        <4>3. h \in 1 .. a
          BY <4>2
        <4>. QED
          BY <4>1, <4>3
      <3>. QED
        BY <3>1, <3>2, <3>3, <3>4, <1>13
    <2>2. ASSUME NEW i \in 1 .. a PROVE Plus(R, i) \in DOMAIN B
      <3>1. i \in 1 .. 2 /\ i <= a
        OBVIOUS
      <3>2. Plus(R, i) \in DOMAIN m.is
        BY <3>1, <1>8
      <3>3. Plus(R, i) \notin lost
        <4> SUFFICES ASSUME Plus(R, i) \in lost PROVE FALSE
          OBVIOUS
        <4>1. PICK h \in 1 .. 2 : Plus(R, i) = Plus(R, h) /\ ~(h <= a)
          BY <1>12
        <4>2. h = i
          <5>1. R \in Int
            BY DEF No
          <5>. QED
            BY <5>1, <4>1, <3>1, PlusInj
        <4>. QED
          BY <4>1, <4>2, <3>1
      <3>. QED
        BY <3>2, <3>3, <1>15
    <2>. QED
      BY <2>1, <2>2, <1>15
  <1>17. \A i \in 1 .. a : B[Plus(R, i)] = [st |-> "copy", d |-> w[i]]
    <2> TAKE i \in 1 .. a
    <2>1. i \in 1 .. 2 /\ Plus(R, i) \in kept /\ Plus(R, i) \in DOMAIN B /\ Plus(R, i) \in DOMAIN m.is
      BY <1>10, <1>16, <1>15
    <2>2. B[Plus(R, i)] = [st |-> "copy", d |-> m.is[Plus(R, i)].d]
      BY <2>1, <1>15 DEF B
    <2>3. PICK s \in {"copy", "mark"} : m.is[Plus(R, i)] = [st |-> s, d |-> w[i]]
      BY <2>1, <1>2 DEF Marking
    <2>4. m.is[Plus(R, i)].d = w[i]
      BY <2>3
    <2>. QED
      BY <2>2, <2>4
  <1>18. ASSUME NEW x \in k.imap PROVE Raw(r, w, R, q, x)
    <2>c. PICK c \in 0 .. 2 : c = k.rcount
      BY <1>1
    <2>1. PICK u \in -3 .. 0, g \in -3 .. 2 :
            /\ x = Plus(R, u) /\ u >= c - 3
            /\ k.is[x] = [st |-> "raw", seq |-> Plus(R, g), good |-> k.is[x].good, d |-> k.is[x].d]
            /\ g >= c - 3 /\ g <= q
            /\ k.is[x].good /\ g >= 1 => k.is[x].d = w[g]
            /\ k.imask # {} /\ x \in k.imap => u >= -1 /\ g >= c - 1
      <3>1. Raw(k, w, R, q, x)
        BY <1>1
      <3>. QED
        BY <3>1, <2>c DEF Raw
    <2>2. u >= a - 3 /\ g >= a - 3
      <3>1. CASE k.imask = {}
        <4>1. a <= c
          BY <3>1, <1>8, <2>c
        <4>. QED
          BY <4>1, <2>1
      <3>2. CASE k.imask # {}
        <4>1. u >= -1 /\ g >= c - 1
          BY <3>2, <2>1
        <4>. QED
          BY <4>1
      <3>. QED
        BY <3>1, <3>2
    <2>3. r.is[x] = k.is[x] /\ r.imask = {} /\ r.rcount = a
      BY <1>6, <1>15, <1>11
    <2>. QED
      BY <2>1, <2>2, <2>3 DEF Raw
  <1>19. IsFiniteSet(DOMAIN r.is) /\ Cardinality(DOMAIN r.is) <= Window
    <2> DEFINE T == DOMAIN m.is
               U == DOMAIN r.is
    <2>1. IsFiniteSet(T) /\ Cardinality(T) <= Window /\ U \subseteq T
      BY <1>6, <1>13, <1>15
    <2> HIDE DEF T, U
    <2>2. IsFiniteSet(U) /\ Cardinality(U) <= Cardinality(T)
      BY <2>1, FS_Subset
    <2>3. Cardinality(U) \in Nat /\ Cardinality(T) \in Nat /\ Window \in Nat
      BY <2>1, <2>2, FS_CardinalityType, PacketAssumption
    <2>. QED
      BY <2>1, <2>2, <2>3 DEF U
  <1>20. r.pr = R /\ r.imap = k.imap /\ r.rd = "mark"
    BY <1>6, <1>1 DEF Fields
  <1>21. Receiver(r, w, R, q)
    <2>1. r.rcount \in 0 .. q
      BY <1>11, <1>8
    <2>2. DOMAIN r.is = {Plus(R, i) : i \in 1 .. r.rcount} \cup r.imap \cup r.imask /\ r.imap \cap r.imask = {}
      BY <1>6, <1>11, <1>16, <1>20
    <2>3. \A i \in 1 .. r.rcount : r.is[Plus(R, i)] = [st |-> "copy", d |-> w[i]]
      BY <1>6, <1>11, <1>17
    <2>4. \A x \in r.imap \cup r.imask : Raw(r, w, R, q, x)
      BY <1>6, <1>18, <1>20
    <2>5. r.is = [x \in DOMAIN r.is |-> r.is[x]]
      BY <1>6, <1>15
    <2>. QED
      BY <2>1, <2>2, <2>3, <2>4, <2>5, <1>6, <1>19, <1>20 DEF Receiver
  <1>. QED
    BY <1>6, <1>7, <1>21 DEF r

LEMMA ScannedWorks ==
  ASSUME NEW k, NEW o, NEW v, NEW w, Pair(k, o, v, w), k.rd = "mark"
  PROVE  Works(Scanned(k), o, v, w) /\ Scanned(k).imask = {} /\ Scanned(k).op = "open" /\ IsPack(Scanned(k))
  <1> DEFINE j == Scanned(k)
  <1>p. Pack(k) /\ Pack(o) /\ IsPack(k) /\ Alive(k) /\ k.op = "open"
    BY DEF Pair, Pack, Alive
  <1>2. v \in Seq(Nat) /\ w \in Seq(Nat)
    BY DEF Pair, Dir
  <1>3. PICK R \in No, p \in 0 .. 2, q \in 0 .. 2, t \in -1 .. 3 : Link(k, o, v, R, p, q, t)
    BY DEF Pair, Dir
  <1>4. PICK S \in No, a \in 0 .. 2, b \in 0 .. 2, e \in -1 .. 3 : Link(o, k, w, S, a, b, e)
    BY DEF Pair, Dir
  <1>b. b <= Window
    BY <1>4, <1>2, PacketAssumption DEF Link
  <1>5. /\ Receiver(j, w, S, b) /\ IsPack(j) /\ j.imask = {} /\ j.msg \subseteq k.msg \cup {"RJ", "RR"}
        /\ \A f \in Fields \ {"is", "msg", "rcount", "imask"} : j[f] = k[f]
    <2>1. Receiver(k, w, S, b)
      BY <1>4 DEF Link
    <2>. QED
      BY <2>1, <1>b, <1>p, ScannedReceiver
  <1> HIDE DEF j
  <1>6. j.op = "open" /\ j.tx = k.tx
    BY <1>5, <1>p DEF Fields
  <1>7. Pack(j)
    BY <1>p, <1>5, <1>6 DEF Pack, Fields, Early, Names
  <1>8. Link(o, j, w, S, a, b, e)
    BY <1>4, <1>5, <1>6 DEF Link
  <1>9. Link(j, o, v, R, p, q, t)
    <2>1. /\ j.ps = k.ps /\ j.rpr = k.rpr /\ j.pscopy = k.pscopy /\ j.nxtps = k.nxtps /\ j.os = k.os
          /\ j.wr = k.wr /\ j.op = k.op /\ j.tx = k.tx
      BY <1>5 DEF Fields
    <2>2. Sender(k, v, R, p, q, t) <=> Sender(j, v, R, p, q, t)
      BY <2>1 DEF Sender
    <2>. QED
      BY <1>3, <2>1, <2>2 DEF Link
  <1>10. Dir(o, j, w) /\ Dir(j, o, v)
    BY <1>2, <1>8, <1>9 DEF Dir
  <1>. QED
    BY <1>5, <1>6, <1>7, <1>10, <1>p DEF Pair, Works, Alive, j

LEMMA ScanPair ==
  ASSUME NEW k, NEW o, NEW v, NEW w, Pair(k, o, v, w), k.rd = "mark", NEW c, c = OutputIf(Scanned(k))
  PROVE  /\ Pair(Nothing(c), o, v, w)
         /\ c.rcount # 0 => Pair([c EXCEPT !.rd = "copy"], o, v, w)
  <1>1. Works(c, o, v, w) /\ c.op = "open" /\ c.imask = {}
    BY ScannedWorks, OutputIfWorks, OutputPlaces DEF OutputIf
  <1>2. Pair(Nothing(c), o, v, w)
    <2> DEFINE x == IF "DOWN" \in c.state THEN "user" ELSE "tosleep"
    <2>3. x # "mark" /\ x # "copy"
      OBVIOUS
    <2>4. Nothing(c) = [c EXCEPT !.rd = x]
      BY DEF Nothing
    <2> HIDE DEF x
    <2>. QED
      BY <1>1, <2>3, <2>4, ReadPlace DEF Works
  <1>3. c.rcount \in Nat
    <2>1. PICK R \in No, p \in 0 .. 2, q \in 0 .. 2, t \in -1 .. 3 : Link(o, c, w, R, p, q, t)
      BY <1>1 DEF Works, Pair, Dir
    <2>2. c.rcount \in 0 .. q
      BY <2>1, <1>1 DEF Link, Receiver
    <2>. QED
      BY <2>2
  <1>4. c.rcount # 0 => Pair([c EXCEPT !.rd = "copy"], o, v, w)
    BY <1>1, <1>3, ReadPlace DEF Works
  <1>. QED
    BY <1>2, <1>4

-----------------------------------------------------------------------------
(* Both ends.  An end and its peer are a pair, whichever of them it is.    *)
LEMMA PairOf ==
  ASSUME IInv, NEW e \in End
  PROVE  /\ Pair(pk[e], pk[Peer(e)], written[e], written[Peer(e)])
         /\ Peer(e) \in End /\ Peer(e) # e /\ Peer(Peer(e)) = e
         /\ DOMAIN pk = End /\ DOMAIN written = End
  <1>1. CASE e = "a"
    BY <1>1 DEF IInv, Peer, End
  <1>2. CASE e = "b"
    BY <1>2, PairSwap DEF IInv, Peer, End
  <1>. QED
    BY <1>1, <1>2 DEF End

LEMMA PairGives ==
  ASSUME NEW e \in End, pk' = [d \in End |-> pk'[d]], written' = [d \in End |-> written'[d]],
         last' \in [End -> Nat], Pair(pk'[e], pk'[Peer(e)], written'[e], written'[Peer(e)])
  PROVE  IInv'
  <1>1. CASE e = "a"
    BY <1>1 DEF IInv, Peer, End
  <1>2. CASE e = "b"
    <2>1. Pair(pk'["b"], pk'["a"], written'["b"], written'["a"])
      BY <1>2 DEF Peer
    <2>2. Pair(pk'["a"], pk'["b"], written'["a"], written'["b"])
      BY <2>1, PairSwap
    <2>. QED
      BY <2>2 DEF IInv
  <1>. QED
    BY <1>1, <1>2 DEF End

(* A step of one end.                                                      *)
LEMMA Alone ==
  ASSUME IInv, NEW e \in End, NEW k, pk' = [pk EXCEPT ![e] = k], UNCHANGED <<written, last>>,
         Pair(k, pk[Peer(e)], written[e], written[Peer(e)])
  PROVE  IInv'
  <1>1. Peer(e) \in End /\ Peer(e) # e /\ DOMAIN pk = End
    BY PairOf
  <1>2. pk' = [d \in End |-> pk'[d]] /\ pk'[e] = k /\ pk'[Peer(e)] = pk[Peer(e)]
    BY <1>1
  <1>3. written' = [d \in End |-> written'[d]] /\ last' \in [End -> Nat]
    BY DEF IInv
  <1>. QED
    BY <1>2, <1>3, PairGives

LEMMA BecomesIInv ==
  ASSUME IInv, NEW e \in End, NEW k, Becomes(e, k), Pair(k, pk[Peer(e)], written[e], written[Peer(e)])
  PROVE  IInv'
  <1>1. pk' = [pk EXCEPT ![e] = k] /\ UNCHANGED <<written, last>>
    BY DEF Becomes
  <1>. QED
    BY <1>1, Alone

-----------------------------------------------------------------------------
(* An open line on which nothing is under way, and one that is not open.   *)
LEMMA StartPair ==
  ASSUME NEW n \in Nat
  PROVE  Pair(OpenLine(n), OpenLine(n), <<>>, <<>>)
  <1> DEFINE k == OpenLine(n)
             w == <<>>
  <1>n. PICK x \in No : x = n % 8
    BY DEF No
  <1>x. x \in No /\ w \in Seq(Nat) /\ Len(w) = 0 /\ Window \in 1 .. 2
    BY PacketAssumption DEF No
  <1>1. /\ IsPack(k) /\ k.msg = {} /\ k.rmsg = {} /\ k.tx = Idle /\ k.swindow = Window /\ k.op = "open"
        /\ k.ps = x /\ k.rpr = x /\ k.pscopy = x /\ k.pr = x /\ k.nxtps = next[x] /\ k.os = None
        /\ k.rcount = 0 /\ k.imap = {} /\ k.imask = {} /\ k.is = None /\ k.rd = "user" /\ k.wr = "user"
    <2>1. PICK y : y = next[x]
      OBVIOUS
    <2>2. k = [Opening EXCEPT !.state = {"LIVE"}, !.rmsg = {}, !.timer = FALSE, !.swindow = Window,
                 !.op = "open", !.ps = x, !.rpr = x, !.pscopy = x, !.pr = x, !.nxtps = y]
      BY <1>n, <2>1 DEF OpenLine
    <2> HIDE DEF k
    <2>. QED
      BY <2>1, <2>2 DEF IsPack, Fields, Opening
  <1> HIDE DEF k
  <1>2. Pack(k)
    BY <1>1, <1>x DEF Pack, Frame, Early
  <1>3. next[x] = Plus(x, 1) /\ Plus(x, 0) = x
    BY <1>x, NextPlus, PlusZero
  <1>4. DOMAIN None = {} /\ None = [y \in {} |-> None[y]] /\ IsFiniteSet({}) /\ Cardinality({}) = 0
    BY FS_EmptySet DEF None
  <1>5. Sender(k, w, x, 0, 0, 1)
    <2>1. {Plus(x, i) : i \in 1 - 0 .. 0} = {} /\ 1 - 0 .. 0 = {} /\ 1 .. 0 = {} /\ 1 \in 0 - 1 .. 0 + 1
      OBVIOUS
    <2>2. None = [y \in {Plus(x, i) : i \in 1 - 0 .. 0} |-> None[y]]
      BY <2>1, <1>4
    <2>. QED
      BY <1>1, <1>3, <1>x, <2>1, <2>2 DEF Sender
  <1>6. Receiver(k, w, x, 0)
    <2>1. {Plus(x, i) : i \in 1 .. 0} = {} /\ 1 .. 0 = {} /\ 0 \in 0 .. 0
      OBVIOUS
    <2>. QED
      BY <1>1, <1>4, <1>x, <2>1 DEF Receiver
  <1>7. Link(k, k, w, x, 0, 0, 1)
    BY <1>1, <1>5, <1>6, <1>x, IdleIs DEF Link, Sending, Acking, Acks
  <1>8. Dir(k, k, w)
    BY <1>7, <1>x DEF Dir
  <1>. QED
    BY <1>2, <1>8 DEF Pair, k

LEMMA NullPair ==
  ASSUME NEW k, k = [Opening EXCEPT !.op = "null"]
  PROVE  Pair(k, k, <<>>, <<>>)
  <1> DEFINE x == 0
             w == <<>>
  <1>x. x \in No /\ w \in Seq(Nat) /\ Len(w) = 0 /\ Window \in 1 .. 2
    BY PacketAssumption DEF No
  <1>1. /\ IsPack(k) /\ k.msg = {} /\ k.rmsg \subseteq Names /\ k.tx = Idle /\ k.swindow = 0 /\ k.op = "null"
        /\ k.ps = x /\ k.rpr = x /\ k.pscopy = x /\ k.pr = x /\ k.nxtps = x /\ k.os = None
        /\ k.rcount = 0 /\ k.imap = {} /\ k.imask = {} /\ k.is = None /\ k.rd = "user" /\ k.wr = "user"
    BY DEF IsPack, Fields, Opening, Names
  <1>2. Pack(k)
    BY <1>1, <1>x DEF Pack, Frame, Early
  <1> HIDE DEF x
  <1>3. Plus(x, 0) = x
    BY <1>x, PlusZero
  <1>4. DOMAIN None = {} /\ None = [y \in {} |-> None[y]] /\ IsFiniteSet({}) /\ Cardinality({}) = 0
    BY FS_EmptySet DEF None
  <1>5. Sender(k, w, x, 0, 0, 0)
    <2>1. {Plus(x, i) : i \in 1 - 0 .. 0} = {} /\ 1 - 0 .. 0 = {} /\ 1 .. 0 = {} /\ 0 \in 0 - 1 .. 0 + 1
      OBVIOUS
    <2>2. None = [y \in {Plus(x, i) : i \in 1 - 0 .. 0} |-> None[y]]
      BY <2>1, <1>4
    <2>. QED
      BY <1>1, <1>3, <1>x, <2>1, <2>2 DEF Sender
  <1>6. Receiver(k, w, x, 0)
    <2>1. {Plus(x, i) : i \in 1 .. 0} = {} /\ 1 .. 0 = {} /\ 0 \in 0 .. 0
      OBVIOUS
    <2>. QED
      BY <1>1, <1>4, <1>x, <2>1 DEF Receiver
  <1>7. Link(k, k, w, x, 0, 0, 0)
    BY <1>1, <1>5, <1>6, <1>x, IdleIs DEF Link, Sending, Acking, Acks
  <1>8. Dir(k, k, w)
    BY <1>7, <1>x DEF Dir
  <1>. QED
    BY <1>2, <1>8 DEF Pair

LEMMA InitIInv == Init => IInv
  <1> SUFFICES ASSUME Init PROVE IInv
    OBVIOUS
  <1>1. PICK k : pk = [e \in End |-> k] /\ Pair(k, k, <<>>, <<>>)
    <2>1. CASE \E n \in Start : pk = [e \in End |-> OpenLine(n)]
      BY <2>1, StartPair, PacketAssumption
    <2>2. CASE pk = [e \in End |-> [Opening EXCEPT !.op = "null"]]
      BY <2>2, NullPair
    <2>. QED
      BY <2>1, <2>2 DEF Init
  <1>2. written = [e \in End |-> <<>>] /\ last = [e \in End |-> 0]
    BY DEF Init
  <1>3. pk["a"] = k /\ pk["b"] = k /\ written["a"] = <<>> /\ written["b"] = <<>>
    BY <1>1, <1>2 DEF End
  <1>. QED
    BY <1>1, <1>2, <1>3 DEF IInv

-----------------------------------------------------------------------------
(* The steps.                                                              *)
LEMMA ArriveStep == ASSUME IInv, NEW e \in End, NEW fate, Arrive(e, fate) PROVE IInv'
  <1> DEFINE k == pk[e]
             o == pk[Peer(e)]
             v == written[e]
             w == written[Peer(e)]
  <1>1. Pair(k, o, v, w) /\ Peer(e) \in End /\ Peer(e) # e /\ DOMAIN pk = End
    BY PairOf
  <1>2. k.tx # Idle /\ pk' = [pk EXCEPT ![e] = Xint(@), ![Peer(e)] = Rend(@, k.tx, fate)]
        /\ UNCHANGED <<written, last>>
    BY DEF Arrive
  <1>3. /\ pk' = [d \in End |-> pk'[d]]
        /\ pk'[e] = Xint(k) /\ pk'[Peer(e)] = Rend(o, k.tx, fate)
    BY <1>1, <1>2
  <1>4. written' = [d \in End |-> written'[d]] /\ last' \in [End -> Nat]
    BY <1>2 DEF IInv
  <1> HIDE DEF k, o, v, w
  <1>5. Pair(Rend(o, k.tx, fate), k, w, v)
    BY <1>1, <1>2, PairSwap, RendPair
  <1>6. Pair(Xint(k), Rend(o, k.tx, fate), v, w)
    BY <1>2, <1>5, PairSwap, XintPair
  <1>. QED
    BY <1>2, <1>3, <1>4, <1>6, PairGives DEF v, w

LEMMA TickStep == ASSUME IInv, NEW e \in End, Tick(e) PROVE IInv'
  <1>1. Works(pk[e], pk[Peer(e)], written[e], written[Peer(e)]) /\ DOMAIN pk = End
    BY PairOf DEF Tick, Works, Alive
  <1>2. Pair(Ticked(pk[e]), pk[Peer(e)], written[e], written[Peer(e)])
    BY <1>1, TickedWorks DEF Works
  <1>3. pk' = [pk EXCEPT ![e] = Ticked(pk[e])] /\ UNCHANGED <<written, last>>
    BY DEF Tick
  <1>. QED
    BY <1>2, <1>3, Alone

LEMMA OpenStep == ASSUME IInv, NEW e \in End, Open(e) PROVE IInv'
  <1>1. Pair([Opening EXCEPT !.tx = pk[e].tx], pk[Peer(e)], written[e], written[Peer(e)])
    BY PairOf, OpenPair DEF Open
  <1>. QED
    BY <1>1, BecomesIInv DEF Open

LEMMA OpenedStep == ASSUME IInv, NEW e \in End, Opened(e) PROVE IInv'
  <1> DEFINE r == [pk[e] EXCEPT !.ps = 0, !.pr = 0, !.rpr = 0, !.nxtps = 1, !.op = "open"]
             d == [r EXCEPT !.state = {"DOWN"}, !.rmsg = {}]
  <1>1. /\ Pair(r, pk[Peer(e)], written[e], written[Peer(e)])
        /\ Pair(d, pk[Peer(e)], written[e], written[Peer(e)])
    BY PairOf, OpenedPair DEF Opened
  <1>2. Becomes(e, r) \/ Becomes(e, d)
    BY DEF Opened
  <1> HIDE DEF r, d
  <1>. QED
    BY <1>1, <1>2, BecomesIInv

(* A process that writes or reads is at an open end.                       *)
LEMMA WriterOpen ==
  ASSUME IInv, NEW e \in End, MayWrite(e)
  PROVE  pk[e].op = "open" /\ pk[e].wr \in {"user", "write", "woken"}
  BY PairOf DEF MayWrite, Pair, Pack

LEMMA ReaderOpen ==
  ASSUME IInv, NEW e \in End, MayRead(e)
  PROVE  pk[e].op = "open" /\ pk[e].rd \in {"user", "accept"}
  BY PairOf DEF MayRead, Pair, Pack

LEMMA WriteStep ==
  ASSUME IInv, NEW e \in End, WriteSleep(e) \/ WriteMark(e) \/ WriteDown(e)
  PROVE  IInv'
  <1> DEFINE k == pk[e]
             o == pk[Peer(e)]
             v == written[e]
             w == written[Peer(e)]
  <1>1. Pair(k, o, v, w)
    BY PairOf
  <1>2. k.op = "open" /\ k.wr \in {"user", "write", "woken"}
    BY <1>1, WriterOpen DEF WriteSleep, WriteMark, WriteDown, Pair, Pack
  <1>3. CASE WriteSleep(e)
    <2>1. Pair([Output(k) EXCEPT !.wr = "asleep"], o, v, w)
      BY <1>1, <1>2, WriteSleepPair
    <2>. QED
      BY <1>3, <2>1, BecomesIInv DEF WriteSleep
  <1>4. Pair([k EXCEPT !.wr = "user"], o, v, w)
    BY <1>1, <1>2, WriteUserPair
  <1>5. CASE WriteMark(e)
    <2>1. Xcount(k) < k.swindow /\ (Becomes(e, [k EXCEPT !.wr = "user"]) \/ Becomes(e, Filling(k)))
      BY <1>5 DEF WriteMark, Filling
    <2>2. Pair(Filling(k), o, v, w)
      BY <1>1, <1>2, <2>1, WriteMarkPair
    <2>. QED
      BY <1>4, <2>1, <2>2, BecomesIInv
  <1>6. CASE WriteDown(e)
    BY <1>4, <1>6, BecomesIInv DEF WriteDown
  <1>. QED
    BY <1>3, <1>5, <1>6

LEMMA WriteFillStep ==
  ASSUME IInv, NEW e \in End, NEW place, place \in {"user", "write"}, WriteFill(e, place)
  PROVE  IInv'
  <1>d. PICK d \in Nat : d = last[e] + 1
    BY DEF IInv
  <1>1. /\ Pair(pk[e], pk[Peer(e)], written[e], written[Peer(e)])
        /\ Peer(e) \in End /\ Peer(e) # e /\ DOMAIN pk = End /\ DOMAIN written = End
    BY PairOf
  <1>2. /\ pk[e].wr = "fill" /\ pk' = [pk EXCEPT ![e] = Output(Filled(pk[e], d, place))]
        /\ written' = [written EXCEPT ![e] = Append(@, d)] /\ last' = [last EXCEPT ![e] = d]
    BY <1>d DEF WriteFill, Filled
  <1>3. Pair(Output(Filled(pk[e], d, place)), pk[Peer(e)], Append(written[e], d), written[Peer(e)])
    BY <1>1, <1>2, WriteFillPair
  <1>4. /\ pk' = [c \in End |-> pk'[c]] /\ written' = [c \in End |-> written'[c]]
        /\ pk'[e] = Output(Filled(pk[e], d, place)) /\ pk'[Peer(e)] = pk[Peer(e)]
        /\ written'[e] = Append(written[e], d) /\ written'[Peer(e)] = written[Peer(e)]
    BY <1>1, <1>2
  <1>5. last' \in [End -> Nat]
    BY <1>2 DEF IInv
  <1>. QED
    BY <1>3, <1>4, <1>5, PairGives

LEMMA ReadStep ==
  ASSUME IInv, NEW e \in End, Accept(e) \/ ReadSleep(e) \/ Scan(e)
  PROVE  IInv'
  <1> DEFINE k == pk[e]
             o == pk[Peer(e)]
             v == written[e]
             w == written[Peer(e)]
  <1>1. Pair(k, o, v, w)
    BY PairOf
  <1>2. CASE Accept(e)
    <2> DEFINE j == [k EXCEPT !.imask = @ \cup k.imap, !.imap = {}, !.rd = "mark"]
    <2>1. k.op = "open" /\ k.rd \in {"user", "accept"}
      BY <1>2, ReaderOpen DEF Accept
    <2>2. Pair(Nothing(OutputIf(k)), o, v, w) /\ Pair(j, o, v, w)
      BY <1>1, <2>1, AcceptPair
    <2>3. Becomes(e, Nothing(OutputIf(k))) \/ Becomes(e, j)
      BY <1>2 DEF Accept
    <2> HIDE DEF j
    <2>. QED
      BY <2>2, <2>3, BecomesIInv
  <1>3. CASE ReadSleep(e)
    <2>1. Pair([k EXCEPT !.rd = "asleep"], o, v, w)
      BY <1>1, <1>3, ReadSleepPair DEF ReadSleep
    <2>. QED
      BY <1>3, <2>1, BecomesIInv DEF ReadSleep
  <1>4. CASE Scan(e)
    <2> DEFINE c == OutputIf(Scanned(k))
    <2>1. /\ Pair(Nothing(c), o, v, w)
          /\ c.rcount # 0 => Pair([c EXCEPT !.rd = "copy"], o, v, w)
      BY <1>1, <1>4, ScanPair DEF Scan
    <2>2. Becomes(e, Nothing(c)) \/ (c.rcount # 0 /\ Becomes(e, [c EXCEPT !.rd = "copy"]))
      BY <1>4 DEF Scan
    <2> HIDE DEF c
    <2>. QED
      BY <2>1, <2>2, BecomesIInv
  <1>. QED
    BY <1>2, <1>3, <1>4

LEMMA CopyStep ==
  ASSUME IInv, NEW e \in End, NEW place, place \in {"user", "copy"}, Copy(e, place)
  PROVE  IInv'
  <1> DEFINE j == Copying(pk[e], place)
             z == Tail(written[Peer(e)])
  <1>1. /\ Pair(pk[e], pk[Peer(e)], written[e], written[Peer(e)])
        /\ Peer(e) \in End /\ Peer(e) # e /\ DOMAIN pk = End /\ DOMAIN written = End
    BY PairOf
  <1>2. /\ pk[e].rd = "copy" /\ (place = "copy" => Used(j, next[next[pk[e].pr]]))
        /\ pk' = [pk EXCEPT ![e] = IF place = "user" THEN Output(j) ELSE j]
        /\ written' = [written EXCEPT ![Peer(e)] = z] /\ last' = last
    BY DEF Copy, Copying
  <1>3. Works(j, pk[Peer(e)], written[e], z)
    BY <1>1, <1>2, CopyPair
  <1> HIDE DEF j, z
  <1>4. PICK c : c = IF place = "user" THEN Output(j) ELSE j
    OBVIOUS
  <1>5. Pair(c, pk[Peer(e)], written[e], z)
    BY <1>3, <1>4, OutputWorks DEF Works
  <1>6. /\ pk' = [d \in End |-> pk'[d]] /\ written' = [d \in End |-> written'[d]]
        /\ pk'[e] = c /\ pk'[Peer(e)] = pk[Peer(e)]
        /\ written'[e] = written[e] /\ written'[Peer(e)] = z
    BY <1>1, <1>2, <1>4
  <1>7. last' \in [End -> Nat]
    BY <1>2 DEF IInv
  <1>. QED
    BY <1>5, <1>6, <1>7, PairGives

LEMMA CloseStep ==
  ASSUME IInv, NEW e \in End, Close(e) \/ CloseSend(e) \/ CloseFinal(e)
  PROVE  IInv'
  <1> DEFINE k == pk[e]
             o == pk[Peer(e)]
             v == written[e]
             w == written[Peer(e)]
  <1>1. Pair(k, o, v, w)
    BY PairOf
  <1>2. CASE Close(e)
    <2>1. PICK c : c = [k EXCEPT !.state = @ \cup {"DRAINO"}, !.timer = TRUE]
      OBVIOUS
    <2>2. Pair([Output(c) EXCEPT !.op = "drain"], o, v, w) /\ Pair([c EXCEPT !.op = "close"], o, v, w)
      BY <1>1, <1>2, <2>1, ClosePair DEF Close
    <2>3. Becomes(e, [Output(c) EXCEPT !.op = "drain"]) \/ Becomes(e, [c EXCEPT !.op = "close"])
      BY <1>2, <2>1 DEF Close
    <2>. QED
      BY <2>2, <2>3, BecomesIInv
  <1>3. CASE CloseSend(e)
    <2>1. PICK c : c = [k EXCEPT !.state = @ \cup {"DOWN"}, !.timer = FALSE]
      OBVIOUS
    <2>2. PICK j : j = [c EXCEPT !.msg = {"CLOSE"}, !.timer = TRUE]
      OBVIOUS
    <2>3. Pair([c EXCEPT !.op = "final"], o, v, w) /\ Pair([Output(j) EXCEPT !.op = "closing"], o, v, w)
      BY <1>1, <1>3, <2>1, <2>2, CloseSendPair DEF CloseSend
    <2>4. Becomes(e, [c EXCEPT !.op = "final"]) \/ Becomes(e, [Output(j) EXCEPT !.op = "closing"])
      BY <1>3, <2>1, <2>2 DEF CloseSend
    <2>. QED
      BY <2>3, <2>4, BecomesIInv
  <1>4. CASE CloseFinal(e)
    <2>1. Pair([Opening EXCEPT !.tx = k.tx, !.op = "closed", !.rmsg = {}, !.timer = FALSE], o, v, w)
      BY <1>1, CloseFinalPair
    <2>. QED
      BY <1>4, <2>1, BecomesIInv DEF CloseFinal
  <1>. QED
    BY <1>2, <1>3, <1>4

(* Every step of the driver and of the line keeps IInv.                    *)
LEMMA NextIInv == IInv /\ [Next]_vars => IInv'
  <1> SUFFICES ASSUME IInv, [Next]_vars PROVE IInv'
    OBVIOUS
  <1>1. CASE UNCHANGED vars
    BY <1>1 DEF vars, IInv
  <1>2. ASSUME NEW e \in End, \E fate \in {"good", "bad", "header", "lost"} : Arrive(e, fate) PROVE IInv'
    BY <1>2, ArriveStep
  <1>3. ASSUME NEW e \in End, Tick(e) \/ Open(e) \/ Opened(e) PROVE IInv'
    BY <1>3, TickStep, OpenStep, OpenedStep
  <1>4. ASSUME NEW e \in End, WriteSleep(e) \/ WriteMark(e) \/ WriteDown(e) PROVE IInv'
    BY <1>4, WriteStep
  <1>5. ASSUME NEW e \in End, WriteFill(e, "user") \/ WriteFill(e, "write") PROVE IInv'
    BY <1>5, WriteFillStep
  <1>6. ASSUME NEW e \in End, Accept(e) \/ ReadSleep(e) \/ Scan(e) PROVE IInv'
    BY <1>6, ReadStep
  <1>7. ASSUME NEW e \in End, Copy(e, "user") \/ Copy(e, "copy") PROVE IInv'
    BY <1>7, CopyStep
  <1>8. ASSUME NEW e \in End, Close(e) \/ CloseSend(e) \/ CloseFinal(e) PROVE IInv'
    BY <1>8, CloseStep
  <1>. QED
    BY <1>1, <1>2, <1>3, <1>4, <1>5, <1>6, <1>7, <1>8 DEF Next

(* The packets accepted are those after the last one read, as the receiver *)
(* of IInv has them.                                                       *)
LEMMA IInvInOrder == IInv => InOrder
  <1> SUFFICES ASSUME IInv, NEW e \in End
               PROVE  LET w == written[Peer(e)]
                      IN  /\ pk[e].rcount <= Len(w)
                          /\ \A i \in 1 .. pk[e].rcount :
                               LET x == Ahead(pk[e], i)
                               IN  x \in DOMAIN pk[e].is /\ pk[e].is[x] = [st |-> "copy", d |-> w[i]]
    BY DEF InOrder
  <1> DEFINE k == pk[e]
             w == written[Peer(e)]
  <1>1. Pack(k) /\ Dir(pk[Peer(e)], k, w)
    BY PairOf DEF Pair
  <1> HIDE DEF k, w
  <1>2. PICK R \in No, p \in 0 .. 2, q \in 0 .. 2, t \in -1 .. 3 : Link(pk[Peer(e)], k, w, R, p, q, t)
    BY <1>1 DEF Dir
  <1>3. q <= Len(w) /\ Len(w) \in Nat /\ Receiver(k, w, R, q)
    BY <1>1, <1>2 DEF Link, Dir
  <1>4. CASE k.op = "closed"
    <2>1. k.rcount = 0
      BY <1>1, <1>4 DEF Pack, Opening
    <2>. QED
      BY <2>1, <1>3 DEF k, w
  <1>5. CASE k.op # "closed"
    <2>1. /\ k.pr = R /\ k.rcount \in 0 .. q
          /\ \A i \in 1 .. k.rcount : Plus(R, i) \in DOMAIN k.is /\ k.is[Plus(R, i)] = [st |-> "copy", d |-> w[i]]
      BY <1>3, <1>5 DEF Receiver
    <2>2. \A i \in 1 .. k.rcount : Ahead(k, i) = Plus(R, i)
      BY <2>1 DEF Ahead, Plus
    <2>3. k.rcount <= Len(w)
      BY <2>1, <1>3
    <2>. QED
      BY <2>1, <2>2, <2>3 DEF k, w
  <1>. QED
    BY <1>4, <1>5

(* The packets not read are those after the last one read, as the sender   *)
(* of IInv has them.                                                       *)
LEMMA IInvKept == IInv => Kept
  <1> SUFFICES ASSUME IInv, NEW e \in End, pk[e].op # "closed"
               PROVE  LET n == Len(written[e])
                          top == Newest(pk[e])
                      IN  /\ n <= (top + 8 - pk[e].rpr) % 8
                          /\ \A i \in 1 .. n : LET x == (top + 8 - n + i) % 8
                                               IN  Ready(pk[e], x) /\ pk[e].os[x].d = written[e][i]
    BY DEF Kept
  <1> DEFINE k == pk[e]
             w == written[e]
             top == Newest(k)
  <1>1. Dir(k, pk[Peer(e)], w)
    BY PairOf DEF Pair
  <1>o. k.op # "closed"
    OBVIOUS
  <1> HIDE DEF k, w, top
  <1>2. PICK R \in No, p \in 0 .. 2, q \in 0 .. 2, t \in -1 .. 3 : Link(k, pk[Peer(e)], w, R, p, q, t)
    BY <1>1 DEF Dir
  <1>3. PICK n \in 0 .. 2 : n = Len(w) /\ p + n <= 2
    <2>1. Len(w) \in Nat /\ p + Len(w) <= Window /\ Window \in 1 .. 2
      BY <1>1, <1>2, PacketAssumption DEF Link, Dir
    <2>2. \A m \in Nat, l \in 1 .. 2 : p + m <= l => m \in 0 .. 2 /\ p + m <= 2
      OBVIOUS
    <2>3. Len(w) \in 0 .. 2 /\ p + Len(w) <= 2
      BY <2>1, <2>2
    <2>. QED
      BY <2>3
  <1>4. PICK c \in 0 .. 3 : c = IF k.wr = "fill" THEN n + 1 ELSE n
    BY <1>3
  <1>5. /\ k.rpr = Plus(R, -p) /\ k.pscopy = Plus(R, c)
        /\ DOMAIN k.os = {Plus(R, i) : i \in 1 - p .. c}
        /\ \A i \in 1 - p .. c :
             k.os[Plus(R, i)].st = IF i <= q THEN "sent" ELSE IF i <= n THEN "ready" ELSE "mark"
        /\ \A i \in 1 .. n : k.os[Plus(R, i)].d = w[i]
    <2>1. Sender(k, w, R, p, q, t)
      BY <1>2 DEF Link
    <2>2. /\ k.rpr = k.ps /\ k.ps = Plus(R, -p) /\ k.pscopy = Plus(R, c)
          /\ k.os = [x \in {Plus(R, i) : i \in 1 - p .. c} |-> k.os[x]]
          /\ \A i \in 1 - p .. c :
               k.os[Plus(R, i)] = [st |-> IF i <= q THEN "sent" ELSE IF i <= n THEN "ready" ELSE "mark",
                                   d |-> k.os[Plus(R, i)].d]
          /\ \A i \in 1 .. n : k.os[Plus(R, i)].d = w[i]
      BY <2>1, <1>3, <1>4, <1>o DEF Sender
    <2>3. ASSUME NEW i \in 1 - p .. c
          PROVE  k.os[Plus(R, i)].st = IF i <= q THEN "sent" ELSE IF i <= n THEN "ready" ELSE "mark"
      <3>1. PICK b : b = IF i <= q THEN "sent" ELSE IF i <= n THEN "ready" ELSE "mark"
        OBVIOUS
      <3>2. k.os[Plus(R, i)] = [st |-> b, d |-> k.os[Plus(R, i)].d]
        BY <2>2, <3>1
      <3>. QED
        BY <3>1, <3>2
    <2>. QED
      BY <2>2, <2>3
  <1>6. top = Plus(R, n)
    <2>1. previous[Plus(R, c)] = Plus(R, c - 1)
      BY NextPlus
    <2>. QED
      BY <2>1, <1>4, <1>5 DEF Newest, top
  <1>7. n <= (top + 8 - k.rpr) % 8
    <2>1. (Plus(R, n) + 8 - Plus(R, -p)) % 8 = n + p
      <3>1. 0 <= n - (-p) /\ n - (-p) < 8
        BY <1>3
      <3>. QED
        BY <3>1, PlusFar
    <2>. QED
      BY <2>1, <1>5, <1>6
  <1>8. ASSUME NEW i \in 1 .. n
        PROVE  Ready(k, (top + 8 - n + i) % 8) /\ k.os[(top + 8 - n + i) % 8].d = w[i]
    <2>1. (top + 8 - n + i) % 8 = Plus(R, i)
      <3>1. (Plus(R, n) + 8 - n + i) % 8 = Plus(R, i)
        BY DEF Plus, No
      <3>. QED
        BY <3>1, <1>6
    <2>2. i \in 1 - p .. c /\ i <= n
      BY <1>4
    <2>3. Plus(R, i) \in DOMAIN k.os /\ k.os[Plus(R, i)].st \in {"sent", "ready"}
      BY <1>5, <2>2
    <2>4. k.os[Plus(R, i)].d = w[i]
      BY <1>5
    <2>. QED
      BY <2>1, <2>3, <2>4 DEF Ready
  <1>. QED
    BY <1>3, <1>7, <1>8 DEF k, w, top

-----------------------------------------------------------------------------
(* Sender, receiver and the frames under way agree on every packet, in     *)
(* both directions, whatever the line loses and damages, and whichever end *)
(* is closed or opened meanwhile.                                          *)
THEOREM Invariance == Spec => []IInv
  <1>1. Init => IInv
    BY InitIInv
  <1>2. IInv /\ [Next]_vars => IInv'
    BY NextIInv
  <1>. QED
    BY <1>1, <1>2, PTL DEF Spec

(* Packets are read once and in the order written: what pkaccept() has     *)
(* accepted are the oldest packets written at the other end and not read,  *)
(* for every window, every number at which the line starts and any number  *)
(* of packets, losses and retransmissions.                                 *)
THEOREM InOrderHolds == Spec => []InOrder
  <1>1. IInv => InOrder
    BY IInvInOrder
  <1>. QED
    BY <1>1, Invariance, PTL

(* pksack() releases no packet that the other end has not read: until the  *)
(* line is closed, each is in the output buffer of its number, ready to be *)
(* sent again.                                                             *)
THEOREM KeptHolds == Spec => []Kept
  <1>1. IInv => Kept
    BY IInvKept
  <1>. QED
    BY <1>1, Invariance, PTL

=============================================================================

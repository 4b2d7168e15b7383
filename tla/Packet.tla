------------------------------- MODULE Packet -------------------------------
(***************************************************************************)
(* The packet driver: arch/pdp11/dev/pk0.c, pk1.c and pk2.c at both ends   *)
(* of a serial line.                                                       *)
(*                                                                         *)
(* A frame is a control message with a number, or a packet with its        *)
(* sequence number, the last number its sender has read, and the data; tx  *)
(* is the frame that an end transmits.  The line loses frames and damages  *)
(* headers and packets, but keeps their order.  That a packet is taken     *)
(* from p_ob[] while it is sent, and may be overwritten once it is         *)
(* acknowledged, is one more way of damaging it.                           *)
(*                                                                         *)
(* An end is a struct pack with the places of its processes:               *)
(*   rd  user, accept, mark, tosleep, asleep, copy          in pkread()    *)
(*   wr  user, asleep, woken, write, fill                   in pkwrite()   *)
(*   op  null, asleep, woken, open          before, in and behind pkopen() *)
(*       drain, close, closing, final, closed                 in pkclose() *)
(* Each function of the driver is an operator from a struct pack to the    *)
(* one it leaves.  Packets have one size, and a read takes whole ones.     *)
(* timer is whether p_timer runs: it may run out at any tick.  moved is    *)
(* whether p_nout differs from p_tout.                                     *)
(***************************************************************************)
EXTENDS Integers, Sequences, FiniteSets

CONSTANTS
    Window,         \* p_rwindow of both ends, maxwindow at most
    MaxPackets,     \* bound on the packets written at an end; a packet's data is its number
    MaxFaults,      \* bound on the frames that the line loses or damages and the early ticks:
                    \* those that come while a frame, a read or a write is under way
    Writers,        \* the ends that are written to
    Closers,        \* the ends that are closed
    Start           \* packets read at each end, on the lines that are open initially

End == {"a", "b"}
Peer(e) == IF e = "a" THEN "b" ELSE "a"

ASSUME PacketAssumption ==
    /\ Window \in 1 .. 2 /\ {MaxPackets, MaxFaults} \cup Start \subseteq Nat
    /\ Writers \subseteq End /\ Closers \subseteq End

VARIABLES
    pk,             \* the struct pack of each end
    written,        \* what pkwrite() has taken at each end and no pkread() has given out yet
    last,           \* the number of the last packet written at each end
    faults          \* the frames lost or damaged and the early ticks

vars == <<pk, written, last, faults>>

No == 0 .. 7
next == [x \in No |-> (x + 1) % 8]
previous == [x \in No |-> (x + 7) % 8]

(* The control messages in the order of their bits.                        *)
Messages == <<"CLOSE", "RJ", "RR", "INITC", "INITB", "INITA">>
First(m) ==
    Messages[CHOOSE i \in 1 .. 6 : Messages[i] \in m /\ \A j \in 1 .. i - 1 : Messages[j] \notin m]

Idle == [k |-> "idle"]
Control(m, val) == [k |-> m, val |-> val]
Data(seq, pr, d) == [k |-> "data", seq |-> seq, val |-> pr, d |-> d]

(* The buffers of p_os[] and p_is[] that are not B_NULL; p_xcount and      *)
(* p_ipool follow from them.  An output buffer is mark, ready or sent (and *)
(* ready); an input buffer is raw, with the number in the control byte and *)
(* whether the block check holds, mark, or copy.                           *)
None == [x \in {} |-> 0]
Without(f, S) == [x \in DOMAIN f \ S |-> f[x]]
With(f, x, b) == [y \in DOMAIN f \cup {x} |-> IF y = x THEN b ELSE f[y]]
Xcount(k) == Cardinality(DOMAIN k.os)
Ipool(k) == Window - Cardinality(DOMAIN k.is)

Opening ==
    [state |-> {}, msg |-> {}, rmsg |-> {"INITA"}, timer |-> TRUE, moved |-> FALSE, tx |-> Idle,
     ps |-> 0, rpr |-> 0, nxtps |-> 0, pscopy |-> 0, swindow |-> 0, os |-> None,
     pr |-> 0, rcount |-> 0, imap |-> {}, is |-> None,
     rd |-> "user", imask |-> {}, wr |-> "user", op |-> "asleep"]

(* An open line on which n packets have been read at each end.             *)
OpenLine(n) ==
    LET x == n % 8
    IN  [Opening EXCEPT !.state = {"LIVE"}, !.rmsg = {}, !.timer = FALSE, !.swindow = Window, !.op = "open",
           !.ps = x, !.rpr = x, !.pscopy = x, !.pr = x, !.nxtps = next[x]]

Init ==
    /\ pk \in {[e \in End |-> OpenLine(n)] : n \in Start}
              \cup {[e \in End |-> [Opening EXCEPT !.op = "null"]]}
    /\ written = [e \in End |-> <<>>]
    /\ last = [e \in End |-> 0]
    /\ faults = 0

-----------------------------------------------------------------------------
(* wakeup() of &p_pr, &p_ps and &p_state.                                  *)
WakePr(k) == [k EXCEPT !.rd = IF @ = "asleep" THEN "accept" ELSE @]
WakePs(k) == [k EXCEPT !.wr = IF @ = "asleep" THEN "woken" ELSE @,
                       !.op = CASE @ = "drain" -> "close" [] @ = "closing" -> "final" [] OTHER -> @]
WakeState(k) == [k EXCEPT !.op = IF @ = "asleep" THEN "woken" ELSE @]

(* pkoutput(): a control message goes before packets, but a packet that is *)
(* ready before an acknowledgement alone.                                  *)
Ready(k, x) == x \in DOMAIN k.os /\ k.os[x].st \in {"ready", "sent"}

Rewound(k) ==
    IF "RXMIT" \in k.state
      THEN [k EXCEPT !.nxtps = next[k.rpr], !.state = @ \ {"RXMIT"}]
      ELSE k

SendControl(k) ==
    LET m == First(k.msg)
        val == CASE m \in {"RJ", "RR"} -> k.pr [] m \in {"INITA", "INITC"} -> Window [] OTHER -> 0
    IN  [k EXCEPT !.tx = Control(m, val), !.msg = @ \ {m}]

SendData(k) ==
    [k EXCEPT !.tx = Data(k.nxtps, k.pr, k.os[k.nxtps].d),
              !.os[k.nxtps].st = "sent", !.nxtps = next[@], !.moved = TRUE]

Languish(k) ==
    WakePs(IF Xcount(k) > 0 THEN [k EXCEPT !.timer = TRUE, !.state = @ \cup {"WAITO"}]
                           ELSE [k EXCEPT !.state = @ \ {"WAITO"}])

ControlFirst(k) == k.msg \ {"RR"} # {} \/ (k.msg # {} /\ ~Ready(k, k.nxtps))

Output(k) ==
    LET r == Rewound(k)
    IN  IF k.tx # Idle THEN k
        ELSE IF ControlFirst(r) THEN SendControl(r)
        ELSE IF "DOWN" \in r.state \/ "LIVE" \notin r.state THEN WakePs(r)
        ELSE IF Ready(r, r.nxtps) THEN SendData(r)
        ELSE Languish(r)

OutputIf(k) == IF k.msg # {} THEN Output(k) ELSE k

(* pksack(): the packets from p_ps up to p_rpr are released.               *)
Bug_AckedNext(k) ==                     \* mutant of Acked: one too many
    {x \in DOMAIN k.os : (x + 7 - k.ps) % 8 <= (k.rpr + 8 - k.ps) % 8 /\ k.os[x].st = "sent"}

Acked(k) == {x \in DOMAIN k.os : (x + 7 - k.ps) % 8 < (k.rpr + 8 - k.ps) % 8 /\ k.os[x].st = "sent"}

Sack(k) ==
    LET freed == Acked(k)
    IN  IF freed = {} THEN k
        ELSE WakePs([k EXCEPT
               !.os = Without(@, freed), !.state = @ \ {"WAITO"},
               !.ps = CHOOSE x \in freed : \A y \in freed : (y - k.ps) % 8 <= (x - k.ps) % 8])

-----------------------------------------------------------------------------
(* pkcntl()                                                                *)
InitB(k) ==
    CASE "LIVE" \in k.state -> [k EXCEPT !.msg = @ \cup {"INITC"}]
      [] "LIVE" \notin k.state /\ "INITa" \in k.state ->
           [k EXCEPT !.state = @ \cup {"INITb"}, !.rmsg = @ \ {"INITA"}, !.msg = @ \cup {"INITC"}]
      [] OTHER -> [k EXCEPT !.state = @ \cup {"INITb"}]

InitC(k, val) ==
    LET w == IF val > 0 THEN [k EXCEPT !.swindow = val] ELSE k
    IN  CASE {"INITa", "INITb"} \subseteq k.state ->
               WakeState([w EXCEPT !.state = {"LIVE"}, !.rmsg = @ \ {"INITA", "INITB"}])
          [] ~({"INITa", "INITb"} \subseteq k.state) /\ "LIVE" \notin k.state ->
               [w EXCEPT !.msg = @ \cup {"INITB"}]
          [] OTHER -> w

InitA(k, val) ==
    [k EXCEPT !.state = @ \cup {"INITa"}, !.msg = @ \cup {"INITB"}, !.rmsg = @ \cup {"INITB"},
              !.swindow = val]

Acknowledged(k, val) ==
    LET r == [k EXCEPT !.rpr = val]
    IN  IF Acked(r) = {} THEN WakePs(r) ELSE Sack(r)

Closed(k) ==
    WakeState(WakePs(WakePr([k EXCEPT !.state = {"DOWN", "RCLOSE"}, !.rmsg = {}])))

Cntl(k, f) ==
    LET c == [k EXCEPT !.state = @ \ {"BADFRAME"}]
        r == CASE f.k = "INITB" -> InitB(c)
               [] f.k = "INITC" -> InitC(c, f.val)
               [] f.k = "INITA" -> InitA(c, f.val)
               [] f.k = "RJ" ->
                    Acknowledged([c EXCEPT !.state = @ \cup {"RXMIT"}, !.msg = @ \cup {"RR"}], f.val)
               [] f.k = "RR" -> Acknowledged(c, f.val)
        s == IF r.msg = {} THEN [r EXCEPT !.msg = r.rmsg] ELSE r
    IN  IF f.k = "CLOSE" THEN Closed(c)
        ELSE IF k.msg = {} THEN OutputIf(s) ELSE s

(* pkbadframe()                                                            *)
Badframe(k) ==
    IF "BADFRAME" \in k.state THEN WakePr(k)
    ELSE WakePr([k EXCEPT !.state = @ \cup {"BADFRAME"}, !.timer = TRUE])

(* pkdata(): the packet goes to the first free slot from p_pr down.        *)
Below(k, x) == (k.pr + 8 - x) % 8
Slot(k) == CHOOSE x \in No \ (DOMAIN k.is \cup {next[k.pr]}) :
    \A y \in No : Below(k, y) < Below(k, x) => y \in DOMAIN k.is

Pkdata(k, f, good) ==
    LET c == [k EXCEPT !.state = @ \ {"BADFRAME"}]
    IN  IF "DRAINO" \in c.state \/ "LIVE" \notin c.state
          THEN Output([c EXCEPT !.msg = @ \cup c.rmsg])
          ELSE WakePr([c EXCEPT !.imap = @ \cup {Slot(c)},
                         !.is = With(@, Slot(c), [st |-> "raw", seq |-> f.seq, good |-> good, d |-> f.d])])

(* pkrend(): the number in the header of a packet counts even if the       *)
(* packet is damaged; without a free buffer the packet is a bad frame.     *)
(* pkrend() is called once for the header and once when the data is in;    *)
(* both are one step here, as if nothing happened while the data comes in. *)
Rend(k, f, fate) ==
    LET s == Sack([k EXCEPT !.rpr = f.val])
    IN  IF fate = "lost" \/ k.op \in {"null", "closed"} THEN k
        ELSE IF fate = "header" THEN Badframe(k)
        ELSE IF f.k # "data" THEN Cntl(k, f)
        ELSE IF Ipool(s) > 0 THEN Pkdata(s, f, fate = "good")
        ELSE Badframe(s)

(* The frame of e arrives, and with pkxint() e sends the next.             *)
Xint(k) == IF k.op = "closed" THEN [k EXCEPT !.tx = Idle] ELSE Output([k EXCEPT !.tx = Idle])

Arrive(e, fate) ==
    /\ pk[e].tx # Idle
    /\ fate = "bad" => pk[e].tx.k = "data"
    /\ faults' = IF fate = "good" THEN faults ELSE faults + 1
    /\ faults' <= MaxFaults
    /\ pk' = [pk EXCEPT ![e] = Xint(@), ![Peer(e)] = Rend(@, pk[e].tx, fate)]
    /\ UNCHANGED <<written, last>>

Becomes(e, k) == pk' = [pk EXCEPT ![e] = k] /\ UNCHANGED <<written, last, faults>>

-----------------------------------------------------------------------------
(* pktimeout()                                                             *)
Expired(k) == OutputIf([WakePs(k) EXCEPT !.msg = @ \cup k.rmsg])
Startup(k) == Expired([k EXCEPT !.timer = TRUE])

Languished(k) ==
    Expired([Output([k EXCEPT !.state = @ \cup {IF "DRAINO" \in @ THEN "DOWN" ELSE "RXMIT"}])
             EXCEPT !.timer = TRUE])

Ticked(k) ==
    LET s == [k EXCEPT !.moved = FALSE]
        t == [s EXCEPT !.timer = FALSE]
    IN  IF ~k.timer
          THEN IF ~k.moved /\ Xcount(k) > 0 THEN [k EXCEPT !.timer = TRUE, !.state = @ \cup {"WAITO"}]
               ELSE IF "BADFRAME" \in s.state
                 THEN Startup([s EXCEPT !.msg = @ \cup {"RJ"}, !.state = @ \ {"BADFRAME"}])
               ELSE IF s.rmsg # {} THEN Startup(s)
               ELSE WakePs(s)
        ELSE IF "LIVE" \notin t.state THEN Startup(t)
        ELSE IF "WAITO" \in t.state THEN Languished(t)
        ELSE Expired(t)

Still == \A e \in End :
    pk[e].tx = Idle /\ pk[e].rd \in {"user", "asleep"} /\ pk[e].wr \in {"user", "asleep"}

Tick(e) ==
    /\ pk[e].op \notin {"null", "closed"}
    /\ faults' = IF Still THEN faults ELSE faults + 1
    /\ faults' <= MaxFaults
    /\ pk' = [pk EXCEPT ![e] = Ticked(@)]
    /\ UNCHANGED <<written, last>>

-----------------------------------------------------------------------------
(* pkopen()                                                                *)
Open(e) == pk[e].op = "null" /\ Becomes(e, [Opening EXCEPT !.tx = pk[e].tx])

Opened(e) ==
    /\ pk[e].op = "woken"
    /\ Becomes(e, LET r == [pk[e] EXCEPT !.ps = 0, !.pr = 0, !.rpr = 0, !.nxtps = 1, !.op = "open"]
                  IN  IF "LIVE" \in r.state THEN r ELSE [r EXCEPT !.state = {"DOWN"}, !.rmsg = {}])

-----------------------------------------------------------------------------
(* pkwrite()                                                               *)
MayWrite(e) ==
    \/ /\ e \in Writers /\ pk[e].op = "open" /\ pk[e].wr = "user" /\ last[e] < MaxPackets
       /\ "LIVE" \in pk[e].state
    \/ pk[e].wr = "write"
    \/ pk[e].wr = "woken" /\ "DOWN" \notin pk[e].state

WriteSleep(e) ==
    /\ MayWrite(e) /\ Xcount(pk[e]) >= pk[e].swindow
    /\ Becomes(e, [Output(pk[e]) EXCEPT !.wr = "asleep"])

WriteMark(e) ==
    LET x == next[pk[e].pscopy]
    IN  /\ MayWrite(e) /\ Xcount(pk[e]) < pk[e].swindow
        /\ Becomes(e, IF x \in DOMAIN pk[e].os THEN [pk[e] EXCEPT !.wr = "user"]
                      ELSE [pk[e] EXCEPT !.os = With(@, x, [st |-> "mark", d |-> 0]), !.pscopy = x,
                                         !.wr = "fill"])

WriteDown(e) == pk[e].wr = "woken" /\ "DOWN" \in pk[e].state /\ Becomes(e, [pk[e] EXCEPT !.wr = "user"])

WriteFill(e, place) ==
    LET d == last[e] + 1
    IN  /\ pk[e].wr = "fill" /\ (place = "write" => d < MaxPackets)
        /\ pk' = [pk EXCEPT ![e] = Output([@ EXCEPT !.os[pk[e].pscopy] = [st |-> "ready", d |-> d],
                                                     !.wr = place])]
        /\ written' = [written EXCEPT ![e] = Append(@, d)]
        /\ last' = [last EXCEPT ![e] = d]
        /\ UNCHANGED faults

-----------------------------------------------------------------------------
(* pkread() and pkaccept()                                                 *)
MayRead(e) ==
    \/ Peer(e) \in Writers /\ pk[e].op = "open" /\ pk[e].rd = "user"
    \/ pk[e].rd = "accept"

(* Nothing was accepted.                                                   *)
Nothing(k) == [k EXCEPT !.rd = IF "DOWN" \in k.state THEN "user" ELSE "tosleep"]

Accept(e) ==
    /\ MayRead(e)
    /\ Becomes(e, IF pk[e].imap = {} /\ pk[e].rcount = 0
                    THEN Nothing(OutputIf(pk[e]))
                    ELSE [pk[e] EXCEPT !.imask = @ \cup pk[e].imap, !.imap = {}, !.rd = "mark"])

ReadSleep(e) == pk[e].rd = "tosleep" /\ Becomes(e, [pk[e] EXCEPT !.rd = "asleep"])

InWindow(k, x) == (x + 7 - k.pr) % 8 < Window

(* The bits of a control byte that stand for B_MARK and B_COPY.            *)
Marked(b) == b.st \in {"mark", "copy"} \/ (b.st = "raw" /\ b.seq \div 4 = 1)
Copied(b) == b.st = "copy" \/ (b.st = "raw" /\ (b.seq \div 2) % 2 = 1)
Used(k, x) == x \in DOMAIN k.is /\ (Marked(k.is[x]) \/ Copied(k.is[x]))

(* A packet is accepted if its number is in the window, and changes places *)
(* with what is in the slot of that number.                                *)
Duplicate(k, x) ==
    LET seq == k.is[x].seq
    IN  ~InWindow(k, seq) \/ (seq # x /\ Used(k, seq))

Intact(b) == b.st = "raw" /\ b.good
Vacated(k, x) ==
    LET seq == k.is[x].seq
    IN  IF seq # x /\ seq \in DOMAIN k.is THEN With(k.is, x, k.is[seq]) ELSE Without(k.is, {x})

Mark(k, x) ==
    LET b == k.is[x]
    IN  IF ~Intact(b) \/ Duplicate(k, x) THEN [k EXCEPT !.is = Without(@, {x})]
        ELSE [k EXCEPT !.is = With(Vacated(k, x), b.seq, [st |-> "mark", d |-> b.d])]

MarkAll(k) ==
    LET pass[i \in 0 .. 8] ==
          IF i = 0 THEN k
          ELSE IF i - 1 \in k.imask THEN Mark(pass[i - 1], i - 1) ELSE pass[i - 1]
    IN  pass[8]

(* The marked packets up to the first number that is missing can be read;  *)
(* what is behind it is given up.  A damaged packet is rejected, and a     *)
(* packet given up or not wanted acknowledged again.                       *)
Ahead(k, i) == (k.pr + i) % 8
Held(k) == {i \in 1 .. Window : Used(k, Ahead(k, i))}
Bug_AcceptedGaps(k) == Held(k)           \* mutant of Accepted: missing numbers do not matter

Accepted(k) == {i \in Held(k) : 1 .. i \subseteq Held(k)}

Answer(k, m, lost) ==
    LET fewer == Cardinality(DOMAIN m.is) < Cardinality(DOMAIN k.is)
    IN  IF \E x \in k.imask : ~k.is[x].good THEN {"RJ"} ELSE IF fewer \/ lost # {} THEN {"RR"} ELSE {}

Scanned(k) ==
    LET m == MarkAll(k)
        kept == {Ahead(k, i) : i \in Accepted(m)}
        lost == {Ahead(k, i) : i \in Held(m) \ Accepted(m)}
    IN  [m EXCEPT
          !.is = [x \in DOMAIN @ \ lost |-> IF x \in kept THEN [st |-> "copy", d |-> @[x].d] ELSE @[x]],
          !.msg = @ \cup Answer(k, m, lost),
          !.rcount = Cardinality(kept), !.imask = {}]

Scan(e) ==
    /\ pk[e].rd = "mark"
    /\ Becomes(e, LET k == OutputIf(Scanned(pk[e]))
                  IN  IF k.rcount = 0 THEN Nothing(k) ELSE [k EXCEPT !.rd = "copy"])

(* One packet is given to the process, which may want the next one too.    *)
Copy(e, place) ==
    LET x == next[pk[e].pr]
        k == [pk[e] EXCEPT !.is = Without(@, {x}), !.pr = x, !.rcount = @ - 1, !.msg = @ \cup {"RR"},
                           !.rd = place]
    IN  /\ pk[e].rd = "copy" /\ (place = "copy" => Used(k, next[x]))
        /\ pk' = [pk EXCEPT ![e] = IF place = "user" THEN Output(k) ELSE k]
        /\ written' = [written EXCEPT ![Peer(e)] = Tail(@)]
        /\ UNCHANGED <<last, faults>>

-----------------------------------------------------------------------------
(* pkclose(), with NTRIES 1                                                *)
Close(e) ==
    LET k == [pk[e] EXCEPT !.state = @ \cup {"DRAINO"}, !.timer = TRUE]
    IN  /\ e \in Closers /\ pk[e].op = "open" /\ pk[e].rd = "user" /\ pk[e].wr = "user"
        /\ Becomes(e, IF Xcount(k) > 0 /\ "LIVE" \in k.state /\ k.state \cap {"RCLOSE", "DOWN"} = {}
                        THEN [Output(k) EXCEPT !.op = "drain"]
                        ELSE [k EXCEPT !.op = "close"])

CloseSend(e) ==
    LET k == [pk[e] EXCEPT !.state = @ \cup {"DOWN"}, !.timer = FALSE]
    IN  /\ pk[e].op = "close"
        /\ Becomes(e, IF "RCLOSE" \in k.state THEN [k EXCEPT !.op = "final"]
                      ELSE [Output([k EXCEPT !.msg = {"CLOSE"}, !.timer = TRUE]) EXCEPT !.op = "closing"])

CloseFinal(e) ==
    /\ pk[e].op = "final"
    /\ Becomes(e, [Opening EXCEPT !.tx = pk[e].tx, !.op = "closed", !.rmsg = {}, !.timer = FALSE])

-----------------------------------------------------------------------------
Next == \E e \in End :
    \/ \E fate \in {"good", "bad", "header", "lost"} : Arrive(e, fate)
    \/ Tick(e) \/ Open(e) \/ Opened(e)
    \/ WriteSleep(e) \/ WriteMark(e) \/ WriteDown(e) \/ WriteFill(e, "user") \/ WriteFill(e, "write")
    \/ Accept(e) \/ ReadSleep(e) \/ Scan(e) \/ Copy(e, "user") \/ Copy(e, "copy")
    \/ Close(e) \/ CloseSend(e) \/ CloseFinal(e)

Spec == Init /\ [][Next]_vars

-----------------------------------------------------------------------------
(* Packets are read once and in the order they were written, whatever the  *)
(* line loses and damages and however often they are sent: the packets     *)
(* that pkaccept() has accepted at one end are the oldest ones that were   *)
(* written at the other and not read yet.                                  *)
InOrder == \A e \in End :
    LET w == written[Peer(e)]
    IN  /\ pk[e].rcount <= Len(w)
        /\ \A i \in 1 .. pk[e].rcount : LET x == Ahead(pk[e], i)
                                        IN  x \in DOMAIN pk[e].is /\ pk[e].is[x] = [st |-> "copy", d |-> w[i]]

(* pksack() releases a packet only when it has been read: until the line   *)
(* is closed, every packet written and not read is in an output buffer,    *)
(* under the number after its predecessor's, and pkoutput() sends it again *)
(* when it goes back to the packet after p_rpr.                            *)
Newest(k) == IF k.wr = "fill" THEN previous[k.pscopy] ELSE k.pscopy

Kept == \A e \in End :
    LET n == Len(written[e])
        top == Newest(pk[e])
    IN  pk[e].op # "closed" =>
          /\ n <= (top + 8 - pk[e].rpr) % 8
          /\ \A i \in 1 .. n : LET x == (top + 8 - n + i) % 8
                               IN  Ready(pk[e], x) /\ pk[e].os[x].d = written[e][i]
=============================================================================

--------------------------- MODULE Ax25PeerProofs ---------------------------
(***************************************************************************)
(* Proofs about one AX.25 link and any peer at all, for every modulus,     *)
(* window, number of retries and amount of data.                           *)
(***************************************************************************)
EXTENDS Ax25Peer, SequenceTheorems, TLAPS

LEMMA ModPositive == ASSUME NEW m \in {Basic, Extended} PROVE m \in Nat /\ Window < m /\ m > 1
BY LinkAssumption
-----------------------------------------------------------------------------
(* Sequence numbers.  Within one round, % is a case distinction. *)

\* From a to b, round the modulus.
LEMMA Distance ==
    ASSUME NEW m \in Nat \ {0}, NEW a \in 0..(m - 1), NEW b \in 0..(m - 1)
    PROVE  (b - a + m) % m = IF b >= a THEN b - a ELSE b - a + m
<1>1. CASE b >= a
  <2>. DEFINE d == b - a
  <2>1. d \in 0..(m - 1) /\ b - a + m = d + m
    BY <1>1
  <2>. HIDE DEF d
  <2>2. (d + m) % m = d
    BY <2>1
  <2>. QED
    BY <1>1, <2>1, <2>2 DEF d
<1>2. CASE ~(b >= a)
  BY <1>2
<1>. QED
  BY <1>1, <1>2

\* j steps on from a, at most once round.
LEMMA StepsOn ==
    ASSUME NEW m \in Nat \ {0}, NEW a \in 0..(m - 1), NEW j \in 0..m
    PROVE  (a + j) % m = IF a + j < m THEN a + j ELSE a + j - m
<1>1. CASE a + j < m
  BY <1>1
<1>2. CASE ~(a + j < m)
  <2>. DEFINE d == a + j - m
  <2>1. d \in 0..(m - 1) /\ a + j = d + m
    BY <1>2
  <2>. HIDE DEF d
  <2>2. (d + m) % m = d
    BY <2>1
  <2>. QED
    BY <1>2, <2>1, <2>2 DEF d
<1>. QED
  BY <1>1, <1>2

LEMMA MinTwo == ASSUME NEW a \in Int, NEW b \in Int PROVE Min({a, b}) = IF a <= b THEN a ELSE b
BY DEF Min

LEMMA MaxTwo == ASSUME NEW a \in Int, NEW b \in Int PROVE Max({a, b}) = IF a >= b THEN a ELSE b
BY DEF Max
-----------------------------------------------------------------------------
(***************************************************************************)
(* What a link keeps between and within calls; g is how much data layer 3  *)
(* has handed over.                                                        *)
(***************************************************************************)
Fields == {"st", "mod", "vs", "vr", "va", "pending", "sent", "rc", "peerBusy", "rejSent", "rxbuf",
           "srejSent", "t1", "t3", "poll", "out", "up", "err"}

Typed(l) ==
    /\ DOMAIN l = Fields
    /\ l.st \in LinkState /\ l.mod \in {Basic, Extended}
    /\ l.vs \in 0..(l.mod - 1) /\ l.va \in 0..(l.mod - 1)
    /\ l.rc \in 0..(N2 + 1) /\ l.t1 \in BOOLEAN /\ l.t3 \in BOOLEAN
    /\ l.pending \in Seq(Nat) /\ l.sent \in Seq([ns : Nat, info : Nat])

\* What waits is in the order it was handed over: first what was sent, then what is queued.
Ordered(l, g) ==
    /\ \A i, j \in 1..Len(l.sent) : i < j => l.sent[i].info < l.sent[j].info
    /\ \A i, j \in 1..Len(l.pending) : i < j => l.pending[i] < l.pending[j]
    /\ \A i \in 1..Len(l.sent), j \in 1..Len(l.pending) : l.sent[i].info < l.pending[j]
    /\ \A i \in 1..Len(l.sent) : l.sent[i].info <= g
    /\ \A i \in 1..Len(l.pending) : l.pending[i] <= g

Retrying(l) == l.st # "disconnected" => l.rc <= N2

LOK(l, g) == Typed(l) /\ SentInSequence(l) /\ Timed(l) /\ Ordered(l, g) /\ Retrying(l)

Core(l) == <<l.st, l.mod, l.vs, l.va, l.rc, l.t1, l.t3, l.pending, l.sent>>

\* Nothing else of a link matters here.
LEMMA SameCore ==
    ASSUME NEW l, NEW k, NEW g, LOK(l, g), DOMAIN k = Fields, Core(k) = Core(l)
    PROVE  LOK(k, g)
<1>1. /\ k.st = l.st /\ k.mod = l.mod /\ k.vs = l.vs /\ k.va = l.va /\ k.rc = l.rc
      /\ k.t1 = l.t1 /\ k.t3 = l.t3 /\ k.pending = l.pending /\ k.sent = l.sent
  BY DEF Core
<1>. QED
  BY <1>1 DEF LOK, Typed, SentInSequence, Timed, Ordered, Retrying, Outstanding

LEMMA EmitCore ==
    ASSUME NEW l, DOMAIN l = Fields, NEW frames
    PROVE  DOMAIN Emit(l, frames) = Fields /\ Core(Emit(l, frames)) = Core(l)
BY DEF Emit, Core, Fields

LEMMA TxCore ==
    ASSUME NEW l, DOMAIN l = Fields, NEW type, NEW command, NEW pf
    PROVE  DOMAIN Tx(l, type, command, pf) = Fields /\ Core(Tx(l, type, command, pf)) = Core(l)
BY EmitCore DEF Tx

LEMMA TxPollCore ==
    ASSUME NEW l, DOMAIN l = Fields
    PROVE  DOMAIN TxPoll(l) = Fields /\ Core(TxPoll(l)) = Core(l)
<1>1. DOMAIN Polled(l) = Fields /\ Core(Polled(l)) = Core(l)
  BY DEF Polled, Core, Fields
<1>. QED
  BY <1>1, TxCore, ZenonT(60) DEF TxPoll

LEMMA SettledCore ==
    ASSUME NEW l, DOMAIN l = Fields
    PROVE  DOMAIN Settled(l) = Fields /\ Core(Settled(l)) = Core(l)
BY DEF Settled, Core, Fields

LEMMA DrainCore ==
    ASSUME NEW l, DOMAIN l = Fields
    PROVE  DOMAIN DrainRxBuf(l) = Fields /\ Core(DrainRxBuf(l)) = Core(l)
<1>. DEFINE held(i) == (l.vr + i) % l.mod
            k == CHOOSE n \in 0..l.mod : /\ \A i \in 0..(n - 1) : held(i) \in DOMAIN l.rxbuf
                                         /\ n = l.mod \/ held(n) \notin DOMAIN l.rxbuf
            a == l.up \o [i \in 1..k |-> l.rxbuf[held(i - 1)]]
            drained == {held(i) : i \in 0..(k - 1)}
            b == [n \in DOMAIN l.rxbuf \ drained |-> l.rxbuf[n]]
            c == l.srejSent \ drained
            d == (l.vr + k) % l.mod
<1>1. DrainRxBuf(l) = [l EXCEPT !.up = a, !.rxbuf = b, !.srejSent = c, !.vr = d]
  BY Zenon DEF DrainRxBuf
<1>. HIDE DEF a, b, c, d, k, drained, held
<1>. QED
  BY <1>1 DEF Core, Fields
-----------------------------------------------------------------------------
(* The operators that change what matters. *)

LEMMA ResetFields ==
    ASSUME NEW l, DOMAIN l = Fields
    PROVE  /\ DOMAIN Reset(l) = Fields /\ Reset(l).st = l.st /\ Reset(l).mod = l.mod
           /\ Reset(l).vs = 0 /\ Reset(l).va = 0 /\ Reset(l).rc = 0
           /\ Reset(l).t1 = l.t1 /\ Reset(l).t3 = l.t3
           /\ Reset(l).pending = <<>> /\ Reset(l).sent = <<>>
BY DEF Reset, Fields

\* A link without data and with the right timer, in a state of its own.
LEMMA FreshLink ==
    ASSUME NEW k, NEW g, DOMAIN k = Fields, k.st \in LinkState, k.mod \in {Basic, Extended},
           k.vs = 0, k.va = 0, k.rc = 0, k.t1 \in BOOLEAN, k.t3 \in BOOLEAN,
           k.pending = <<>>, k.sent = <<>>, Timed(k)
    PROVE  LOK(k, g)
<1>1. k.mod \in Nat /\ k.mod > 1 /\ N2 \in Nat /\ Window \in Nat
  BY ModPositive, LinkAssumption
<1>2. Typed(k)
  BY <1>1 DEF Typed
<1>3. Outstanding(k) = 0
  BY <1>1, Distance DEF Outstanding
<1>4. SentInSequence(k) /\ Ordered(k, g) /\ Retrying(k)
  BY <1>1, <1>3 DEF SentInSequence, Ordered, Retrying
<1>. QED
  BY <1>2, <1>4 DEF LOK

\* A link that goes down keeps what waited; only its timers and its state count.
LEMMA DownLink ==
    ASSUME NEW l, NEW k, NEW g, Typed(l), Ordered(l, g), DOMAIN k = Fields,
           k.mod = l.mod, k.vs = l.vs, k.va = l.va, k.rc = l.rc,
           k.pending = l.pending, k.sent = l.sent,
           k.st = "disconnected", k.t1 = FALSE, k.t3 = FALSE
    PROVE  LOK(k, g)
<1>1. Typed(k) /\ Ordered(k, g)
  BY DEF Typed, Ordered, LinkState
<1>2. SentInSequence(k) /\ Timed(k) /\ Retrying(k)
  BY DEF SentInSequence, Timed, Retrying, Up
<1>. QED
  BY <1>1, <1>2 DEF LOK

LEMMA StopAllFields ==
    ASSUME NEW l, DOMAIN l = Fields
    PROVE  LET k == [StopAll(l) EXCEPT !.st = "disconnected"]
           IN  /\ DOMAIN k = Fields /\ k.mod = l.mod /\ k.vs = l.vs /\ k.va = l.va /\ k.rc = l.rc
               /\ k.pending = l.pending /\ k.sent = l.sent
               /\ k.st = "disconnected" /\ k.t1 = FALSE /\ k.t3 = FALSE
BY DEF StopAll, Fields

LEMMA StopKeeps ==
    ASSUME NEW l, NEW g, Typed(l), Ordered(l, g)
    PROVE  LOK([StopAll(l) EXCEPT !.st = "disconnected"], g)
<1>1. DOMAIN l = Fields
  BY DEF Typed
<1>. QED
  BY <1>1, StopAllFields, DownLink

LEMMA FailKeeps ==
    ASSUME NEW l, NEW g, Typed(l), Ordered(l, g)
    PROVE  LOK(Fail(l), g)
<1>. DEFINE e == [l EXCEPT !.err = TRUE]
            t == Tx(e, "DM", FALSE, TRUE)
<1>1. DOMAIN e = Fields /\ Core(e) = Core(l)
  BY DEF Typed, Core, Fields
<1>. HIDE DEF e
<1>2. DOMAIN t = Fields /\ Core(t) = Core(l)
  BY <1>1, TxCore, ZenonT(60)
<1>. HIDE DEF t
<1>3. Typed(t) /\ Ordered(t, g)
  BY <1>2 DEF Core, Typed, Ordered
<1>4. Fail(l) = [StopAll(t) EXCEPT !.st = "disconnected"]
  BY DEF Fail, t, e
<1>. QED
  BY <1>3, <1>4, StopKeeps
-----------------------------------------------------------------------------
(* The sender's window. *)

LEMMA RoomType ==
    ASSUME NEW l, Typed(l)
    PROVE  /\ Outstanding(l) \in Nat /\ Room(l) \in 0..Len(l.pending)
           /\ Room(l) > 0 => Room(l) <= Window - Outstanding(l)
<1>1. l.mod \in Nat \ {0} /\ l.vs \in 0..(l.mod - 1) /\ l.va \in 0..(l.mod - 1) /\ Window \in Nat
  BY ModPositive, LinkAssumption DEF Typed
<1>2. Outstanding(l) \in Nat
  BY <1>1, Distance DEF Outstanding
<1>3. Len(l.pending) \in Nat
  BY DEF Typed
<1>. DEFINE w == Max({Window - Outstanding(l), 0})
<1>4. w \in Nat /\ (w > 0 => w <= Window - Outstanding(l))
  BY <1>1, <1>2, MaxTwo
<1>. HIDE DEF w
<1>5. Min({Len(l.pending), w}) = IF Len(l.pending) <= w THEN Len(l.pending) ELSE w
  BY <1>3, <1>4, MinTwo
<1>. QED
  BY <1>1, <1>2, <1>3, <1>4, <1>5 DEF Room, w

\* The fields of a link that has sent k of its queued frames.
LEMMA SendFields ==
    ASSUME NEW l, Typed(l), Room(l) # 0
    PROVE  LET k == Room(l)
               batch == [i \in 1..k |-> [ns |-> (l.vs + i - 1) % l.mod, info |-> l.pending[i]]]
               s == SendPending(l)
           IN  /\ DOMAIN s = Fields /\ s.st = l.st /\ s.mod = l.mod /\ s.va = l.va /\ s.rc = l.rc
               /\ s.pending = SubSeq(l.pending, k + 1, Len(l.pending)) /\ s.sent = l.sent \o batch
               /\ s.vs = (l.vs + k) % l.mod /\ s.t1 = TRUE /\ s.t3 = FALSE
<1>. DEFINE k == Room(l)
            batch == [i \in 1..k |-> [ns |-> (l.vs + i - 1) % l.mod, info |-> l.pending[i]]]
            e == [l EXCEPT !.pending = SubSeq(@, k + 1, Len(@)), !.sent = @ \o batch,
                           !.vs = (@ + k) % l.mod, !.t1 = TRUE, !.t3 = FALSE]
            fr == [i \in 1..k |-> IFrame(l, batch[i])]
<1>1. SendPending(l) = Emit(e, fr)
  BY DEF SendPending
<1>. HIDE DEF k, batch, fr
<1>2. /\ DOMAIN e = Fields /\ e.st = l.st /\ e.mod = l.mod /\ e.va = l.va /\ e.rc = l.rc
      /\ e.pending = SubSeq(l.pending, k + 1, Len(l.pending)) /\ e.sent = l.sent \o batch
      /\ e.vs = (l.vs + k) % l.mod /\ e.t1 = TRUE /\ e.t3 = FALSE
  BY DEF Typed, Fields
<1>. HIDE DEF e
<1>3. DOMAIN Emit(e, fr) = Fields /\ Core(Emit(e, fr)) = Core(e)
  BY <1>2, EmitCore
<1>4. /\ DOMAIN SendPending(l) = Fields /\ SendPending(l).st = e.st /\ SendPending(l).mod = e.mod
      /\ SendPending(l).va = e.va /\ SendPending(l).rc = e.rc /\ SendPending(l).pending = e.pending
      /\ SendPending(l).sent = e.sent /\ SendPending(l).vs = e.vs
      /\ SendPending(l).t1 = e.t1 /\ SendPending(l).t3 = e.t3
  BY <1>1, <1>3 DEF Core
<1>. QED
  BY <1>2, <1>4 DEF k, batch

\* Sending keeps what waits in order.
LEMMA SendOrdered ==
    ASSUME NEW l, NEW g, Typed(l), Ordered(l, g), Room(l) # 0
    PROVE  /\ Ordered(SendPending(l), g)
           /\ SendPending(l).pending \in Seq(Nat) /\ SendPending(l).sent \in Seq([ns : Nat, info : Nat])
           /\ Len(SendPending(l).sent) = Len(l.sent) + Room(l)
           /\ \A i \in 1..Len(l.sent) : SendPending(l).sent[i] = l.sent[i]
           /\ \A i \in 1..Room(l) : SendPending(l).sent[Len(l.sent) + i].ns = (l.vs + i - 1) % l.mod
<1>. DEFINE k == Room(l)
            n == Len(l.sent)
            batch == [i \in 1..k |-> [ns |-> (l.vs + i - 1) % l.mod, info |-> l.pending[i]]]
            p == SubSeq(l.pending, k + 1, Len(l.pending))
            q == l.sent \o batch
<1>1. SendPending(l).pending = p /\ SendPending(l).sent = q
  BY SendFields
<1>2. k \in 1..Len(l.pending) /\ l.pending \in Seq(Nat) /\ Len(l.pending) \in Nat
  BY RoomType, SMTT(40) DEF Typed
<1>3. l.sent \in Seq([ns : Nat, info : Nat]) /\ n \in Nat
  BY DEF Typed
<1>4. l.mod \in Nat \ {0} /\ l.vs \in 0..(l.mod - 1)
  BY ModPositive DEF Typed
<1>. HIDE DEF k
<1>5. p \in Seq(Nat) /\ Len(p) = Len(l.pending) - k /\ \A i \in 1..Len(p) : p[i] = l.pending[i + k]
  BY <1>2
<1>6. batch \in Seq([ns : Nat, info : Nat]) /\ Len(batch) = k
  <2>1. ASSUME NEW i \in 1..k PROVE (l.vs + i - 1) % l.mod \in Nat /\ l.pending[i] \in Nat
    BY <1>2, <1>4, SMTT(40)
  <2>2. batch \in [1..k -> [ns : Nat, info : Nat]]
    BY <2>1
  <2>. HIDE DEF batch
  <2>3. k \in Nat
    BY <1>2
  <2>4. batch \in Seq([ns : Nat, info : Nat])
    BY <2>2, <2>3, SeqDef, ZenonT(60)
  <2>5. DOMAIN batch = 1..k
    BY <2>2
  <2>. QED
    BY <2>3, <2>4, <2>5, LenProperties
<1>7. /\ q \in Seq([ns : Nat, info : Nat]) /\ Len(q) = n + k
      /\ \A i \in 1..n : q[i] = l.sent[i]
      /\ \A i \in 1..k : n + i \in 1..Len(q) /\ q[n + i] = batch[i]
  <2>. HIDE DEF batch
  <2>1. q \in Seq([ns : Nat, info : Nat]) /\ Len(q) = n + k
    BY <1>3, <1>6, ConcatProperties
  <2>2. \A i \in 1..n : q[i] = l.sent[i]
    BY <1>2, <1>3, <1>6
  <2>3. ASSUME NEW i \in 1..k PROVE n + i \in 1..Len(q) /\ q[n + i] = batch[i]
    BY <1>2, <1>3, <1>6, <2>1
  <2>. QED
    BY <2>1, <2>2, <2>3
<1>8. \A i \in 1..k : batch[i].ns = (l.vs + i - 1) % l.mod /\ batch[i].info = l.pending[i]
  OBVIOUS
<1>. HIDE DEF p, q, batch, n
<1>9. \A i \in 1..Len(q) : (i \in 1..n /\ q[i].info = l.sent[i].info)
                          \/ (i - n \in 1..k /\ q[i].info = l.pending[i - n])
  <2>. SUFFICES ASSUME NEW i \in 1..Len(q), i \notin 1..n
                PROVE  i - n \in 1..k /\ q[i].info = l.pending[i - n]
    BY <1>7
  <2>1. i - n \in 1..k /\ n + (i - n) = i
    BY <1>2, <1>3, <1>7
  <2>. QED
    BY <1>7, <1>8, <2>1
<1>10. k \in Nat /\ \A i \in 1..k : i \in 1..Len(l.pending)
  BY <1>2
<1>11. \A i, j \in 1..Len(q) : i < j => q[i].info < q[j].info
  <2>. SUFFICES ASSUME NEW i \in 1..Len(q), NEW j \in 1..Len(q), i < j PROVE q[i].info < q[j].info
    OBVIOUS
  <2>a. i \in Int /\ j \in Int /\ i >= 1 /\ n \in Int
    BY <1>3
  <2>1. CASE j \in 1..n
    <3>1. i \in 1..n
      BY <2>a, <2>1
    <3>2. q[i].info = l.sent[i].info /\ q[j].info = l.sent[j].info
      BY <1>7, <2>1, <3>1
    <3>. QED
      BY <2>1, <3>1, <3>2 DEF Ordered, n
  <2>2. CASE j - n \in 1..k /\ i \in 1..n
    BY <1>9, <1>10, <1>3, <1>7, <2>2 DEF Ordered, n
  <2>3. CASE j - n \in 1..k /\ i - n \in 1..k
    <3>1. i \notin 1..n /\ j \notin 1..n /\ i - n < j - n
      BY <1>10, <2>a, <2>3
    <3>2. q[i].info = l.pending[i - n] /\ q[j].info = l.pending[j - n]
      BY <1>9, <3>1
    <3>. QED
      BY <1>10, <2>3, <3>1, <3>2 DEF Ordered
  <2>. QED
    BY <1>9, <2>1, <2>2, <2>3
<1>12. \A i, j \in 1..Len(p) : i < j => p[i] < p[j]
  <2>. SUFFICES ASSUME NEW i \in 1..Len(p), NEW j \in 1..Len(p), i < j PROVE p[i] < p[j]
    OBVIOUS
  <2>1. i + k \in 1..Len(l.pending) /\ j + k \in 1..Len(l.pending) /\ i + k < j + k
    BY <1>2, <1>5
  <2>. QED
    BY <1>5, <2>1 DEF Ordered
<1>13. \A i \in 1..Len(q), j \in 1..Len(p) : q[i].info < p[j]
  <2>. SUFFICES ASSUME NEW i \in 1..Len(q), NEW j \in 1..Len(p) PROVE q[i].info < p[j]
    OBVIOUS
  <2>1. j + k \in 1..Len(l.pending) /\ p[j] = l.pending[j + k]
    BY <1>2, <1>5
  <2>2. CASE i \in 1..n
    BY <1>7, <2>1, <2>2 DEF Ordered, n
  <2>3. CASE i - n \in 1..k /\ q[i].info = l.pending[i - n]
    <3>1. i - n \in 1..Len(l.pending) /\ i - n < j + k
      BY <1>2, <1>5, <1>10, <2>3
    <3>. QED
      BY <2>1, <2>3, <3>1 DEF Ordered
  <2>. QED
    BY <1>9, <2>2, <2>3
<1>14. (\A i \in 1..Len(q) : q[i].info <= g) /\ (\A i \in 1..Len(p) : p[i] <= g)
  <2>1. \A i \in 1..Len(p) : i + k \in 1..Len(l.pending)
    BY <1>2, <1>5
  <2>. QED
    BY <1>5, <1>9, <1>10, <2>1 DEF Ordered, n
<1>15. Ordered(SendPending(l), g)
  BY <1>1, <1>11, <1>12, <1>13, <1>14 DEF Ordered
<1>. QED
  BY <1>1, <1>5, <1>7, <1>8, <1>15 DEF k, n

LEMMA SendKeeps ==
    ASSUME NEW l, NEW g, LOK(l, g), l.st \in Up
    PROVE  LOK(SendPending(l), g)
<1>1. CASE Room(l) = 0
  BY <1>1 DEF SendPending
<1>2. CASE Room(l) # 0
  <2>. DEFINE s == SendPending(l)
              k == Room(l)
              m == l.mod
              n == Len(l.sent)
  <2>1. Typed(l) /\ SentInSequence(l) /\ Ordered(l, g) /\ Retrying(l)
    BY DEF LOK
  <2>2. /\ DOMAIN s = Fields /\ s.st = l.st /\ s.mod = l.mod /\ s.va = l.va /\ s.rc = l.rc
        /\ s.vs = (l.vs + k) % m /\ s.t1 = TRUE /\ s.t3 = FALSE
    BY <1>2, <2>1, SendFields
  <2>3. /\ Ordered(s, g) /\ s.pending \in Seq(Nat) /\ s.sent \in Seq([ns : Nat, info : Nat])
        /\ Len(s.sent) = n + k
        /\ \A i \in 1..n : s.sent[i] = l.sent[i]
        /\ \A i \in 1..k : s.sent[n + i].ns = (l.vs + i - 1) % m
    BY <1>2, <2>1, SendOrdered
  <2>4. m \in Nat \ {0} /\ Window \in Nat /\ Window < m /\ l.vs \in 0..(m - 1) /\ l.va \in 0..(m - 1)
    BY <2>1, ModPositive, LinkAssumption DEF Typed
  <2>5. n = Outstanding(l) /\ n \in Nat /\ \A i \in 1..n : l.sent[i].ns = (l.va + i - 1) % m
    BY <2>1 DEF SentInSequence, Typed
  <2>6. k \in Nat /\ k >= 1 /\ n + k <= Window
    <3>1. k \in 0..Len(l.pending) /\ (k > 0 => k <= Window - n)
      BY <2>1, <2>5, RoomType
    <3>2. Len(l.pending) \in Nat /\ k # 0
      BY <1>2, <2>1 DEF Typed
    <3>. HIDE DEF k, n
    <3>. QED
      BY <2>4, <2>5, <3>1, <3>2
  <2>. HIDE DEF s, k, m, n
  <2>7. n = IF l.vs >= l.va THEN l.vs - l.va ELSE l.vs - l.va + m
    BY <2>4, <2>5, Distance DEF Outstanding, m
  <2>k. k \in 0..m /\ k < m
    BY <2>4, <2>5, <2>6
  <2>8. s.vs = IF l.vs + k < m THEN l.vs + k ELSE l.vs + k - m
    BY <2>2, <2>4, <2>k, StepsOn
  <2>9. s.vs \in 0..(m - 1)
    BY <2>4, <2>k, <2>8
  <2>10. Outstanding(s) = IF s.vs >= l.va THEN s.vs - l.va ELSE s.vs - l.va + m
    BY <2>2, <2>4, <2>9, Distance, SMTT(40) DEF Outstanding, m
  <2>11. Outstanding(s) = n + k
    BY <2>4, <2>6, <2>7, <2>8, <2>10
  <2>12. ASSUME NEW i \in 1..(n + k) PROVE s.sent[i].ns = (l.va + i - 1) % m
    <3>1. CASE i \in 1..n
      BY <2>3, <2>5, <3>1
    <3>2. CASE i \notin 1..n
      <4>. DEFINE j == i - n
      <4>1. j \in 1..k /\ n + j = i
        BY <2>5, <2>6, <3>2
      <4>2. s.sent[i].ns = (l.vs + j - 1) % m
        BY <2>3, <4>1
      <4>3. j - 1 \in 0..m /\ i - 1 \in 0..m /\ l.vs + j - 1 = l.vs + (j - 1) /\ l.va + i - 1 = l.va + (i - 1)
        BY <2>4, <2>5, <2>6, <4>1
      <4>4. (l.vs + j - 1) % m = IF l.vs + (j - 1) < m THEN l.vs + (j - 1) ELSE l.vs + (j - 1) - m
        BY <2>4, <4>3, StepsOn
      <4>5. (l.va + i - 1) % m = IF l.va + (i - 1) < m THEN l.va + (i - 1) ELSE l.va + (i - 1) - m
        BY <2>4, <4>3, StepsOn
      <4>. QED
        BY <2>4, <2>5, <2>6, <2>7, <4>1, <4>2, <4>4, <4>5
    <3>. QED
      BY <3>1, <3>2
  <2>13. SentInSequence(s)
    <3>1. DOMAIN s.sent = 1..(n + k) /\ Len(s.sent) = n + k
      BY <2>3
    <3>. QED
      BY <2>2, <2>6, <2>11, <2>12, <3>1 DEF SentInSequence, m
  <2>14. Typed(s)
    BY <2>1, <2>2, <2>3, <2>9 DEF Typed, m
  <2>15. Timed(s) /\ Retrying(s)
    BY <2>1, <2>2 DEF Timed, Retrying, Up
  <2>. QED
    BY <2>3, <2>13, <2>14, <2>15 DEF LOK, s
<1>. QED
  BY <1>1, <1>2

\* What is left of a sequence without its first k elements.
LEMMA Suffix ==
    ASSUME NEW S, NEW q \in Seq(S), NEW k \in 0..Len(q)
    PROVE  /\ SubSeq(q, k + 1, Len(q)) \in Seq(S)
           /\ Len(SubSeq(q, k + 1, Len(q))) = Len(q) - k
           /\ \A i \in 1..(Len(q) - k) : i + k \in 1..Len(q) /\ SubSeq(q, k + 1, Len(q))[i] = q[i + k]
OBVIOUS

\* The i-th frame after nr is the (i + d)-th after va, when nr is d steps after va.
LEMMA SameNumber ==
    ASSUME NEW m \in Nat \ {0}, NEW va \in 0..(m - 1), NEW nr \in 0..(m - 1), NEW i \in Nat, NEW d \in Nat,
           d = IF nr >= va THEN nr - va ELSE nr - va + m, i >= 1, i + d <= m
    PROVE  (va + (i + d) - 1) % m = (nr + i - 1) % m
<1>1. /\ i + d - 1 \in 0..m /\ i - 1 \in 0..m
      /\ va + (i + d) - 1 = va + (i + d - 1) /\ nr + i - 1 = nr + (i - 1)
  OBVIOUS
<1>2. (va + (i + d) - 1) % m = IF va + (i + d - 1) < m THEN va + (i + d - 1) ELSE va + (i + d - 1) - m
  BY <1>1, StepsOn
<1>3. (nr + i - 1) % m = IF nr + (i - 1) < m THEN nr + (i - 1) ELSE nr + (i - 1) - m
  BY <1>1, StepsOn
<1>. QED
  BY <1>2, <1>3

\* What ackOwn() drops is what N(R) names, and the rest keeps its order and its numbers.
LEMMA AckKeeps ==
    ASSUME NEW l, NEW g, LOK(l, g), l.st \in Up, NEW nr \in 0..(l.mod - 1)
    PROVE  LOK(AckOwn(l, nr), g) /\ AckOwn(l, nr).st = l.st /\ AckOwn(l, nr).mod = l.mod
<1>1. CASE ~InWindow(l, l.va, nr, l.vs)
  BY <1>1 DEF AckOwn
<1>2. CASE InWindow(l, l.va, nr, l.vs)
  <2>. DEFINE m == l.mod
              n == Len(l.sent)
              d == (nr - l.va + l.mod) % l.mod
              k == Min({d, Len(l.sent)})
              a == AckOwn(l, nr)
  <2>1. Typed(l) /\ SentInSequence(l) /\ Ordered(l, g) /\ Timed(l)
    BY DEF LOK
  <2>2. /\ m \in Nat \ {0} /\ Window \in Nat /\ Window < m /\ N2 \in Nat
        /\ l.vs \in 0..(m - 1) /\ l.va \in 0..(m - 1) /\ nr \in 0..(m - 1)
    BY <2>1, ModPositive, LinkAssumption DEF Typed
  <2>3. /\ n = Outstanding(l) /\ n \in Nat /\ n <= Window
        /\ \A i \in 1..n : l.sent[i].ns = (l.va + i - 1) % m
        /\ l.sent \in Seq([ns : Nat, info : Nat])
    BY <2>1, SMTT(40) DEF SentInSequence, Typed
  <2>4. d = IF nr >= l.va THEN nr - l.va ELSE nr - l.va + m
    BY <2>2, Distance
  <2>5. n = IF l.vs >= l.va THEN l.vs - l.va ELSE l.vs - l.va + m
    BY <2>2, <2>3, Distance DEF Outstanding
  <2>6. d <= n /\ d \in Nat
    <3>1. d <= Outstanding(l)
      BY <1>2 DEF InWindow, Outstanding
    <3>2. d \in Nat
      BY <2>2, <2>4
    <3>. QED
      BY <2>3, <3>1, <3>2
  <2>7. k = d
    <3>. HIDE DEF d
    <3>. QED
      BY <2>3, <2>6, MinTwo
  <2>8. a = [l EXCEPT !.sent = SubSeq(@, k + 1, Len(@)), !.va = nr, !.rc = 0,
                      !.t1 = (nr # l.vs), !.t3 = (nr = l.vs) \/ @]
    BY <1>2 DEF AckOwn
  <2>. HIDE DEF m, k, d
  <2>9. /\ DOMAIN a = Fields /\ a.st = l.st /\ a.mod = m /\ a.vs = l.vs /\ a.va = nr /\ a.rc = 0
        /\ a.t1 = (nr # l.vs) /\ a.t3 = ((nr = l.vs) \/ l.t3) /\ a.pending = l.pending
        /\ a.sent = SubSeq(l.sent, k + 1, n)
    BY <2>1, <2>8 DEF Typed, Fields, m
  <2>. HIDE DEF n, a
  <2>10. /\ a.sent \in Seq([ns : Nat, info : Nat]) /\ Len(a.sent) = n - d
         /\ \A i \in 1..(n - d) : i + d \in 1..n /\ a.sent[i] = l.sent[i + d]
    <3>1. d \in 0..n /\ a.sent = SubSeq(l.sent, d + 1, n)
      BY <2>3, <2>6, <2>7, <2>9
    <3>. QED
      BY <2>3, <3>1, Suffix, ZenonT(60) DEF n
  <2>11. Outstanding(a) = IF l.vs >= nr THEN l.vs - nr ELSE l.vs - nr + m
    <3>1. Outstanding(a) = (l.vs - nr + m) % m
      BY <2>9 DEF Outstanding
    <3>. QED
      BY <2>2, <3>1, Distance
  <2>12. Outstanding(a) = n - d
    BY <2>2, <2>4, <2>5, <2>6, <2>11
  <2>13. ASSUME NEW i \in 1..(n - d) PROVE a.sent[i].ns = (nr + i - 1) % m
    <3>1. a.sent[i].ns = (l.va + (i + d) - 1) % m
      BY <2>3, <2>10
    <3>2. i \in Nat /\ i >= 1 /\ i + d <= m
      BY <2>2, <2>3, <2>6
    <3>3. (l.va + (i + d) - 1) % m = (nr + i - 1) % m
      <4>. DEFINE v == l.va
      <4>1. m \in Nat \ {0} /\ v \in 0..(m - 1) /\ nr \in 0..(m - 1)
        BY <2>2
      <4>2. d = IF nr >= v THEN nr - v ELSE nr - v + m
        BY <2>4
      <4>. HIDE DEF v
      <4>3. (v + (i + d) - 1) % m = (nr + i - 1) % m
        BY <2>6, <3>2, <4>1, <4>2, SameNumber
      <4>. QED
        BY <4>3 DEF v
    <3>. QED
      BY <3>1, <3>3
  <2>14. SentInSequence(a)
    <3>1. DOMAIN a.sent = 1..(n - d) /\ Len(a.sent) <= Window
      BY <2>2, <2>3, <2>6, <2>10
    <3>. QED
      BY <2>9, <2>10, <2>12, <2>13, <3>1 DEF SentInSequence
  <2>15. Typed(a)
    BY <2>1, <2>2, <2>9, <2>10 DEF Typed, m
  <2>16. Timed(a)
    <3>1. a.sent # <<>> => nr # l.vs
      BY <2>2, <2>9, <2>10, <2>11, <2>12
    <3>. QED
      BY <2>1, <2>9, <3>1 DEF Timed, Up
  <2>17. Ordered(a, g)
    <3>1. \A i \in 1..Len(a.sent) : i + d \in 1..n /\ a.sent[i].info = l.sent[i + d].info
      BY <2>10
    <3>2. \A i, j \in 1..Len(a.sent) : i < j => a.sent[i].info < a.sent[j].info
      <4>. SUFFICES ASSUME NEW i \in 1..Len(a.sent), NEW j \in 1..Len(a.sent), i < j
                    PROVE  a.sent[i].info < a.sent[j].info
        OBVIOUS
      <4>1. i + d < j + d
        BY <2>6
      <4>. QED
        BY <2>1, <3>1, <4>1 DEF Ordered, n
    <3>. QED
      BY <2>1, <2>9, <3>1, <3>2 DEF Ordered, n
  <2>18. Retrying(a)
    BY <2>2, <2>9 DEF Retrying
  <2>. QED
    BY <2>9, <2>14, <2>15, <2>16, <2>17, <2>18 DEF LOK, a, m
<1>. QED
  BY <1>1, <1>2

\* A repetition starts T1 and nothing else.
LEMMA ResendKeeps ==
    ASSUME NEW l, NEW g, LOK(l, g), l.st \in Up, NEW which
    PROVE  LOK(Resend(l, which), g) /\ Resend(l, which).st = l.st
<1>. DEFINE e == [l EXCEPT !.t1 = @ \/ which # <<>>]
            fr == [i \in 1..Len(which) |-> IFrame(l, which[i])]
<1>1. Resend(l, which) = Emit(e, fr)
  BY DEF Resend
<1>2. /\ DOMAIN e = Fields /\ e.st = l.st /\ e.mod = l.mod /\ e.vs = l.vs /\ e.va = l.va
      /\ e.rc = l.rc /\ e.t1 = (l.t1 \/ which # <<>>) /\ e.t3 = l.t3
      /\ e.pending = l.pending /\ e.sent = l.sent
  BY DEF LOK, Typed, Fields
<1>. HIDE DEF e, fr
<1>3. Typed(e) /\ SentInSequence(e) /\ Ordered(e, g) /\ Retrying(e)
  BY <1>2 DEF LOK, Typed, SentInSequence, Outstanding, Ordered, Retrying
<1>4. Timed(e)
  BY <1>2 DEF LOK, Timed, Up
<1>5. LOK(e, g)
  BY <1>3, <1>4 DEF LOK
<1>6. DOMAIN Emit(e, fr) = Fields /\ Core(Emit(e, fr)) = Core(e)
  BY <1>2, EmitCore
<1>. QED
  BY <1>1, <1>2, <1>5, <1>6, SameCore DEF Core
-----------------------------------------------------------------------------
(* The entry points. *)

\* A frame sent, a poll and what a call leaves behind change nothing that matters.
LEMMA TxKeeps ==
    ASSUME NEW l, NEW g, LOK(l, g), NEW type, NEW command, NEW pf
    PROVE  LOK(Tx(l, type, command, pf), g) /\ Tx(l, type, command, pf).st = l.st
<1>1. DOMAIN l = Fields
  BY DEF LOK, Typed
<1>. QED
  BY <1>1, TxCore, SameCore DEF Core

LEMMA SettledKeeps ==
    ASSUME NEW l, NEW g, LOK(l, g)
    PROVE  LOK(Settled(l), g) /\ Settled(l).rc = l.rc /\ Settled(l).st = l.st
<1>1. DOMAIN l = Fields
  BY DEF LOK, Typed
<1>. QED
  BY <1>1, SettledCore, SameCore DEF Core

\* A set-up: the link starts again with a timer.
LEMMA SetUpKeeps ==
    ASSUME NEW l, NEW g, DOMAIN l = Fields, l.mod \in {Basic, Extended}, l.t1 \in BOOLEAN, l.t3 \in BOOLEAN,
           NEW type, NEW command, NEW pf
    PROVE  /\ LOK([Tx(Reset(l), type, command, pf) EXCEPT !.t1 = TRUE, !.st = "connecting"], g)
           /\ LOK([Tx(Reset(l), type, command, pf) EXCEPT !.t3 = TRUE, !.st = "connected"], g)
<1>. DEFINE r == Tx(Reset(l), type, command, pf)
            a == [r EXCEPT !.t1 = TRUE, !.st = "connecting"]
            b == [r EXCEPT !.t3 = TRUE, !.st = "connected"]
<1>1. /\ DOMAIN r = Fields /\ r.mod = l.mod /\ r.vs = 0 /\ r.va = 0 /\ r.rc = 0
      /\ r.t1 = l.t1 /\ r.t3 = l.t3 /\ r.pending = <<>> /\ r.sent = <<>>
  <2>. HIDE DEF Reset
  <2>1. DOMAIN Reset(l) = Fields
    BY ResetFields
  <2>2. DOMAIN r = Fields /\ Core(r) = Core(Reset(l))
    BY <2>1, TxCore
  <2>. QED
    BY <2>2, ResetFields DEF Core
<1>. HIDE DEF r
<1>2. /\ DOMAIN a = Fields /\ a.mod = l.mod /\ a.vs = 0 /\ a.va = 0 /\ a.rc = 0 /\ a.st = "connecting"
      /\ a.t1 = TRUE /\ a.t3 = l.t3 /\ a.pending = <<>> /\ a.sent = <<>>
  BY <1>1 DEF Fields
<1>3. /\ DOMAIN b = Fields /\ b.mod = l.mod /\ b.vs = 0 /\ b.va = 0 /\ b.rc = 0 /\ b.st = "connected"
      /\ b.t1 = l.t1 /\ b.t3 = TRUE /\ b.pending = <<>> /\ b.sent = <<>>
  BY <1>1 DEF Fields
<1>. HIDE DEF a, b
<1>4. Timed(a) /\ Timed(b)
  BY <1>2, <1>3 DEF Timed, Up
<1>5. LOK(a, g) /\ LOK(b, g)
  BY <1>2, <1>3, <1>4, FreshLink DEF LinkState
<1>. QED
  BY <1>5 DEF a, b, r

LEMMA ConnectKeeps == ASSUME NEW l, NEW g, LOK(l, g) PROVE LOK(DoConnect(l, Mod), g)
<1>. DEFINE e == [l EXCEPT !.mod = Mod]
<1>1. DOMAIN e = Fields /\ e.mod = Mod /\ e.t1 = l.t1 /\ e.t3 = l.t3
  BY DEF LOK, Typed, Fields
<1>2. l.t1 \in BOOLEAN /\ l.t3 \in BOOLEAN /\ Mod \in {Basic, Extended}
  BY PeerAssumption DEF LOK, Typed
<1>3. DoConnect(l, Mod) = [Tx(Reset(e), Connect(Mod), TRUE, TRUE) EXCEPT !.t1 = TRUE, !.st = "connecting"]
  BY DEF DoConnect
<1>. HIDE DEF e
<1>4. DOMAIN e = Fields /\ e.mod \in {Basic, Extended} /\ e.t1 \in BOOLEAN /\ e.t3 \in BOOLEAN
  BY <1>1, <1>2
<1>5. LOK([Tx(Reset(e), Connect(Mod), TRUE, TRUE) EXCEPT !.t1 = TRUE, !.st = "connecting"], g)
  BY <1>4, SetUpKeeps
<1>. QED
  BY <1>3, <1>5

LEMMA DisconnectKeeps == ASSUME NEW l, NEW g, LOK(l, g) PROVE LOK(DoDisconnect(l), g)
<1>1. CASE l.st = "connecting"
  BY <1>1, StopKeeps DEF DoDisconnect, LOK
<1>2. CASE l.st # "connecting"
  <2>. DEFINE e == [l EXCEPT !.pending = <<>>, !.sent = <<>>]
              t == Tx(e, "DISC", TRUE, TRUE)
              d == [t EXCEPT !.rc = 0, !.t1 = TRUE, !.t3 = FALSE, !.st = "disconnecting"]
  <2>1. /\ DOMAIN e = Fields /\ e.mod = l.mod /\ e.vs = l.vs /\ e.va = l.va
        /\ e.pending = <<>> /\ e.sent = <<>>
    BY DEF LOK, Typed, Fields
  <2>2. DoDisconnect(l) = d
    BY <1>2 DEF DoDisconnect
  <2>. HIDE DEF e
  <2>3. DOMAIN t = Fields /\ Core(t) = Core(e)
    BY <2>1, TxCore
  <2>. HIDE DEF t
  <2>4. /\ DOMAIN d = Fields /\ d.mod = l.mod /\ d.vs = l.vs /\ d.va = l.va /\ d.rc = 0
        /\ d.pending = <<>> /\ d.sent = <<>> /\ d.t1 = TRUE /\ d.t3 = FALSE /\ d.st = "disconnecting"
    BY <2>1, <2>3 DEF Core, Fields
  <2>. HIDE DEF d
  <2>5. Typed(d) /\ Ordered(d, g)
    <3>1. 0 \in 0..(N2 + 1) /\ d.pending \in Seq(Nat) /\ d.sent \in Seq([ns : Nat, info : Nat])
      BY <2>4, LinkAssumption
    <3>2. Typed(d)
      BY <2>4, <3>1 DEF LOK, Typed, LinkState
    <3>3. Ordered(d, g)
      BY <2>4 DEF Ordered
    <3>. QED
      BY <3>2, <3>3
  <2>6. SentInSequence(d) /\ Timed(d) /\ Retrying(d)
    BY <2>4, LinkAssumption DEF SentInSequence, Timed, Retrying, Up
  <2>. QED
    BY <2>2, <2>5, <2>6 DEF LOK
<1>. QED
  BY <1>1, <1>2

LEMMA DoSendKeeps == ASSUME NEW l, NEW g \in Nat, LOK(l, g) PROVE LOK(DoSend(l, g + 1), g + 1)
<1>. DEFINE q == [l EXCEPT !.pending = Append(@, g + 1)]
<1>1. /\ DOMAIN q = Fields /\ q.st = l.st /\ q.mod = l.mod /\ q.vs = l.vs /\ q.va = l.va /\ q.rc = l.rc
      /\ q.t1 = l.t1 /\ q.t3 = l.t3 /\ q.sent = l.sent /\ q.pending = Append(l.pending, g + 1)
  BY DEF LOK, Typed, Fields
<1>2. DoSend(l, g + 1) = IF l.st = "connected" THEN SendPending(q) ELSE q
  BY DEF DoSend
<1>. HIDE DEF q
<1>3. /\ q.pending \in Seq(Nat) /\ Len(q.pending) = Len(l.pending) + 1 /\ Len(l.pending) \in Nat
      /\ q.pending[Len(l.pending) + 1] = g + 1
      /\ \A i \in 1..Len(l.pending) : q.pending[i] = l.pending[i] /\ l.pending[i] \in Nat
  <2>1. l.pending \in Seq(Nat)
    BY DEF LOK, Typed
  <2>. QED
    BY <1>1, <2>1
<1>4. Typed(q) /\ SentInSequence(q) /\ Timed(q) /\ Retrying(q)
  BY <1>1, <1>3 DEF LOK, Typed, SentInSequence, Outstanding, Timed, Retrying
<1>5. Ordered(q, g + 1)
  <2>1. l.sent \in Seq([ns : Nat, info : Nat]) /\ Ordered(l, g)
    BY DEF LOK, Typed
  <2>2. \A i \in 1..Len(l.sent) : l.sent[i].info \in Nat
    <3>. SUFFICES ASSUME NEW i \in 1..Len(l.sent) PROVE l.sent[i].info \in Nat
      OBVIOUS
    <3>1. l.sent[i] \in [ns : Nat, info : Nat]
      BY <2>1, ElementOfSeq
    <3>. QED
      BY <3>1
  <2>a. \A i \in 1..Len(l.pending) : q.pending[i] <= g /\ q.pending[i] \in Nat
    BY <1>3, <2>1 DEF Ordered
  <2>3. \A i, j \in 1..Len(q.pending) : i < j => q.pending[i] < q.pending[j]
    <3>. SUFFICES ASSUME NEW i \in 1..Len(q.pending), NEW j \in 1..Len(q.pending), i < j
                  PROVE  q.pending[i] < q.pending[j]
      OBVIOUS
    <3>1. i \in 1..Len(l.pending)
      BY <1>3
    <3>2. CASE j \in 1..Len(l.pending)
      BY <1>3, <2>1, <3>1, <3>2 DEF Ordered
    <3>3. CASE j = Len(l.pending) + 1
      BY <1>3, <2>a, <3>1, <3>3
    <3>. QED
      BY <1>3, <3>2, <3>3, SMTT(40)
  <2>4. \A i \in 1..Len(l.sent), j \in 1..Len(q.pending) : l.sent[i].info < q.pending[j]
    <3>. SUFFICES ASSUME NEW i \in 1..Len(l.sent), NEW j \in 1..Len(q.pending)
                  PROVE  l.sent[i].info < q.pending[j]
      OBVIOUS
    <3>1. CASE j \in 1..Len(l.pending)
      BY <1>3, <2>1, <3>1 DEF Ordered
    <3>2. CASE j = Len(l.pending) + 1
      BY <1>3, <2>1, <2>2, <3>2, SMTT(40) DEF Ordered
    <3>. QED
      BY <1>3, <3>1, <3>2
  <2>5. \A i \in 1..Len(q.pending) : q.pending[i] <= g + 1
    <3>. SUFFICES ASSUME NEW i \in 1..Len(q.pending) PROVE q.pending[i] <= g + 1
      OBVIOUS
    <3>1. CASE i \in 1..Len(l.pending)
      BY <2>a, <3>1
    <3>2. CASE i = Len(l.pending) + 1
      BY <1>3, <3>2
    <3>. QED
      BY <1>3, <3>1, <3>2
  <2>6. \A i \in 1..Len(l.sent) : l.sent[i].info <= g + 1
    BY <2>1, <2>2 DEF Ordered
  <2>. QED
    BY <1>1, <2>1, <2>3, <2>4, <2>5, <2>6 DEF Ordered
<1>6. LOK(q, g + 1)
  BY <1>4, <1>5 DEF LOK
<1>. QED
  BY <1>1, <1>2, <1>6, SendKeeps DEF Up

\* Timer recovery begins or ends: the data stays, and T1 is not stopped.
LEMMA RecoverKeeps ==
    ASSUME NEW l, NEW k, NEW g, LOK(l, g), l.st \in Up, DOMAIN k = Fields,
           k.mod = l.mod, k.vs = l.vs, k.va = l.va, k.t3 = l.t3,
           k.pending = l.pending, k.sent = l.sent,
           k.st \in Up, k.rc \in 0..N2, k.t1 \in BOOLEAN, l.t1 => k.t1
    PROVE  LOK(k, g)
<1>1. k.rc \in 0..(N2 + 1) /\ k.rc <= N2
  BY LinkAssumption
<1>2. Typed(k) /\ Ordered(k, g) /\ Retrying(k)
  BY <1>1 DEF LOK, Typed, Ordered, Retrying, Up, LinkState
<1>3. SentInSequence(k)
  BY DEF LOK, SentInSequence, Outstanding
<1>4. Timed(k)
  BY DEF LOK, Timed, Up
<1>. QED
  BY <1>2, <1>3, <1>4 DEF LOK

LEMMA SmallRc ==
    ASSUME NEW l, NEW g, LOK(l, g), l.st # "disconnected"
    PROVE  l.rc \in 0..N2 /\ (l.rc < N2 => l.rc + 1 \in 0..N2) /\ 0 \in 0..N2
BY LinkAssumption DEF LOK, Typed, Retrying

LEMMA ProbeKeeps ==
    ASSUME NEW l, NEW g, LOK(l, g), CanProbe(l)
    PROVE  LOK(DoProbe(l), g) /\ DoProbe(l).rc = l.rc
<1>. DEFINE p == TxPoll(l)
            k == DoProbe(l)
<1>1. DOMAIN p = Fields /\ Core(p) = Core(l)
  BY TxPollCore DEF LOK, Typed
<1>2. k = [p EXCEPT !.t1 = TRUE]
  BY DEF DoProbe
<1>. HIDE DEF p, k
<1>3. /\ DOMAIN k = Fields /\ k.mod = l.mod /\ k.vs = l.vs /\ k.va = l.va /\ k.t3 = l.t3 /\ k.rc = l.rc
      /\ k.pending = l.pending /\ k.sent = l.sent /\ k.st = l.st /\ k.t1 = TRUE
  BY <1>1, <1>2 DEF Core, Fields
<1>4. l.st \in Up /\ l.rc \in 0..N2
  BY SmallRc DEF CanProbe, Up
<1>5. LOK(k, g)
  BY <1>3, <1>4, RecoverKeeps
<1>. QED
  BY <1>3, <1>5 DEF k

LEMMA SabmKeeps ==
    ASSUME NEW l, NEW g, LOK(l, g), NEW f, NEW mod \in {Basic, Extended}
    PROVE  LOK(OnSabm(l, f, mod), g)
<1>. DEFINE e == [l EXCEPT !.mod = mod, !.err = (l.st = "connected")]
<1>1. DOMAIN e = Fields /\ e.mod = mod /\ e.t1 = l.t1 /\ e.t3 = l.t3
  BY DEF LOK, Typed, Fields
<1>2. l.t1 \in BOOLEAN /\ l.t3 \in BOOLEAN
  BY DEF LOK, Typed
<1>3. OnSabm(l, f, mod) = [Tx(Reset(e), "UA", FALSE, f.pf) EXCEPT !.t3 = TRUE, !.st = "connected"]
  BY DEF OnSabm
<1>. HIDE DEF e
<1>4. DOMAIN e = Fields /\ e.mod \in {Basic, Extended} /\ e.t1 \in BOOLEAN /\ e.t3 \in BOOLEAN
  BY <1>1, <1>2
<1>5. LOK([Tx(Reset(e), "UA", FALSE, f.pf) EXCEPT !.t3 = TRUE, !.st = "connected"], g)
  BY <1>4, SetUpKeeps
<1>. QED
  BY <1>3, <1>5

LEMMA ReestablishKeeps == ASSUME NEW l, NEW g, LOK(l, g) PROVE LOK(Reestablish(l), g)
<1>. DEFINE e == [l EXCEPT !.err = TRUE]
<1>1. DOMAIN e = Fields /\ e.mod = l.mod /\ e.t1 = l.t1 /\ e.t3 = l.t3
  BY DEF LOK, Typed, Fields
<1>2. l.t1 \in BOOLEAN /\ l.t3 \in BOOLEAN /\ l.mod \in {Basic, Extended}
  BY DEF LOK, Typed
<1>3. Reestablish(l) = [Tx(Reset(e), Connect(l.mod), TRUE, TRUE) EXCEPT !.t1 = TRUE, !.st = "connecting"]
  BY DEF Reestablish
<1>. HIDE DEF e
<1>4. DOMAIN e = Fields /\ e.mod \in {Basic, Extended} /\ e.t1 \in BOOLEAN /\ e.t3 \in BOOLEAN
  BY <1>1, <1>2
<1>5. LOK([Tx(Reset(e), Connect(l.mod), TRUE, TRUE) EXCEPT !.t1 = TRUE, !.st = "connecting"], g)
  BY <1>4, SetUpKeeps
<1>. QED
  BY <1>3, <1>5

LEMMA DiscKeeps ==
    ASSUME NEW l, NEW g, LOK(l, g), NEW f
    PROVE  LOK(OnDisc(l, f), g)
<1>. DEFINE t == Tx(l, "UA", FALSE, f.pf)
<1>1. LOK(t, g)
  BY TxKeeps
<1>2. OnDisc(l, f) = [StopAll(t) EXCEPT !.st = "disconnected"]
  BY DEF OnDisc
<1>. HIDE DEF t
<1>. QED
  BY <1>1, <1>2, StopKeeps DEF LOK

LEMMA DmKeeps == ASSUME NEW l, NEW g, LOK(l, g) PROVE LOK(OnDm(l), g)
BY StopKeeps DEF OnDm, LOK

LEMMA UaKeeps == ASSUME NEW l, NEW g, LOK(l, g) PROVE LOK(OnUa(l), g)
<1>1. CASE l.st = "connecting"
  <2>. DEFINE r == Reset(l)
              k == [r EXCEPT !.t1 = FALSE, !.t3 = TRUE, !.st = "connected"]
  <2>1. /\ DOMAIN r = Fields /\ r.mod = l.mod /\ r.vs = 0 /\ r.va = 0 /\ r.rc = 0
        /\ r.pending = <<>> /\ r.sent = <<>>
    BY ResetFields DEF LOK, Typed
  <2>2. OnUa(l) = SendPending(k)
    BY <1>1 DEF OnUa
  <2>. HIDE DEF r
  <2>3. /\ DOMAIN k = Fields /\ k.mod = l.mod /\ k.vs = 0 /\ k.va = 0 /\ k.rc = 0
        /\ k.t1 = FALSE /\ k.t3 = TRUE /\ k.st = "connected" /\ k.pending = <<>> /\ k.sent = <<>>
    BY <2>1 DEF Fields
  <2>. HIDE DEF k
  <2>4. k.mod \in {Basic, Extended} /\ k.st \in LinkState /\ Timed(k) /\ k.st \in Up
    BY <2>3 DEF LOK, Typed, LinkState, Timed, Up
  <2>5. LOK(k, g)
    BY <2>3, <2>4, FreshLink
  <2>. QED
    BY <2>2, <2>4, <2>5, SendKeeps
<1>2. CASE l.st = "disconnecting"
  <2>1. OnUa(l) = [StopAll(l) EXCEPT !.st = "disconnected"]
    BY <1>2 DEF OnUa
  <2>. QED
    BY <2>1, StopKeeps DEF LOK
<1>3. CASE l.st \notin {"connecting", "disconnecting"}
  BY <1>3 DEF OnUa
<1>. QED
  BY <1>1, <1>2, <1>3
-----------------------------------------------------------------------------
(* I-frames and supervisory frames. *)

LEMMA InSequenceKeeps ==
    ASSUME NEW l, NEW g, LOK(l, g), l.st \in Up, NEW f, f.pf \in BOOLEAN
    PROVE  LOK(InSequence(l, f), g)
<1>. DEFINE e == [l EXCEPT !.vr = (@ + 1) % l.mod, !.rejSent = FALSE, !.up = Append(@, f.info)]
            d == DrainRxBuf(e)
<1>1. DOMAIN e = Fields /\ Core(e) = Core(l)
  <2>. DEFINE v == (l.vr + 1) % l.mod
              u == Append(l.up, f.info)
  <2>1. e = [l EXCEPT !.vr = v, !.rejSent = FALSE, !.up = u]
    OBVIOUS
  <2>. HIDE DEF v, u
  <2>. QED
    BY <2>1 DEF LOK, Typed, Core, Fields
<1>2. InSequence(l, f) = CASE f.pf -> Tx(d, "RR", FALSE, TRUE)
                           [] ~f.pf /\ Room(d) > 0 -> SendPending(d)
                           [] OTHER -> Tx(d, "RR", FALSE, FALSE)
  BY Zenon DEF InSequence
<1>. HIDE DEF e
<1>3. DOMAIN d = Fields /\ Core(d) = Core(l)
  BY <1>1, DrainCore
<1>. HIDE DEF d
<1>4. LOK(d, g) /\ d.st = l.st
  BY <1>3, SameCore DEF Core
<1>5. /\ LOK(Tx(d, "RR", FALSE, TRUE), g) /\ LOK(Tx(d, "RR", FALSE, FALSE), g)
      /\ LOK(SendPending(d), g)
  BY <1>4, TxKeeps, SendKeeps
<1>. HIDE DEF Tx, SendPending, Room
<1>6. InSequence(l, f) \in {Tx(d, "RR", FALSE, TRUE), SendPending(d), Tx(d, "RR", FALSE, FALSE)}
  BY <1>2
<1>. QED
  BY <1>5, <1>6

LEMMA SelectiveKeeps ==
    ASSUME NEW l, NEW g, LOK(l, g), NEW f
    PROVE  LOK(Selective(l, f), g)
<1>. DEFINE gap == [i \in 1..((f.ns - l.vr + l.mod) % l.mod) |-> (l.vr + i - 1) % l.mod]
            ask == SelectSeq(gap, LAMBDA n : n \notin l.srejSent)
            rx == IF f.ns \in DOMAIN l.rxbuf THEN l.rxbuf
                  ELSE [n \in DOMAIN l.rxbuf \cup {f.ns} |-> IF n = f.ns THEN f.info ELSE l.rxbuf[n]]
            asked == l.srejSent \cup Range(gap)
            h == [l EXCEPT !.rxbuf = rx, !.srejSent = asked]
            fr == [i \in 1..Len(ask) |-> Frame("SREJ", FALSE, FALSE, ask[i])]
            s == Emit(h, fr)
<1>1. Selective(l, f) = IF f.pf THEN Tx(s, "RR", FALSE, TRUE) ELSE s
  BY Zenon DEF Selective
<1>. HIDE DEF gap, ask, rx, asked, fr
<1>2. DOMAIN h = Fields /\ Core(h) = Core(l)
  BY DEF LOK, Typed, Core, Fields
<1>. HIDE DEF h
<1>3. DOMAIN s = Fields /\ Core(s) = Core(l)
  BY <1>2, EmitCore
<1>. HIDE DEF s
<1>4. LOK(s, g)
  BY <1>3, SameCore
<1>. QED
  BY <1>1, <1>4, TxKeeps, ZenonT(60)

LEMMA OutOfSequenceKeeps ==
    ASSUME NEW l, NEW g, LOK(l, g), NEW f
    PROVE  LOK(OutOfSequence(l, f), g)
<1>. DEFINE t == Tx(l, "REJ", FALSE, f.pf)
            r == [t EXCEPT !.rejSent = TRUE]
<1>1. DOMAIN t = Fields /\ Core(t) = Core(l)
  BY TxCore, ZenonT(60) DEF LOK, Typed
<1>2. OutOfSequence(l, f) \in {Selective(l, f), r, Tx(l, "RR", FALSE, TRUE), l}
  BY DEF OutOfSequence
<1>. HIDE DEF t
<1>3. DOMAIN r = Fields /\ Core(r) = Core(l)
  BY <1>1 DEF Core, Fields
<1>. HIDE DEF r
<1>4. LOK(r, g)
  BY <1>3, SameCore
<1>. QED
  BY <1>2, <1>4, SelectiveKeeps, TxKeeps

LEMMA IKeeps ==
    ASSUME NEW l, NEW g, LOK(l, g), NEW f, f.pf \in BOOLEAN, f.nr \in 0..(l.mod - 1)
    PROVE  LOK(OnI(l, f), g)
<1>1. CASE l.st \notin Up
  BY <1>1 DEF OnI
<1>2. CASE l.st \in Up
  <2>. DEFINE a == AckOwn(l, f.nr)
  <2>1. LOK(a, g) /\ a.st \in Up
    BY <1>2, AckKeeps
  <2>2. OnI(l, f) \in {InSequence(a, f), OutOfSequence(a, f)}
    BY <1>2 DEF OnI
  <2>. HIDE DEF a
  <2>. QED
    BY <2>1, <2>2, InSequenceKeeps, OutOfSequenceKeeps
<1>. QED
  BY <1>1, <1>2

LEMMA LeaveKeeps ==
    ASSUME NEW l, NEW g, LOK(l, g), l.st \in Up, NEW f
    PROVE  LOK(LeaveRecovery(l, f), g) /\ LeaveRecovery(l, f).st \in Up
<1>. DEFINE e == [l EXCEPT !.rc = 0, !.st = "connected"]
            which == SelectSeq(e.sent, LAMBDA s : InWindow(e, l.va, s.ns, (e.vs - 1 + e.mod) % e.mod))
<1>1. /\ DOMAIN e = Fields /\ e.mod = l.mod /\ e.vs = l.vs /\ e.va = l.va /\ e.t3 = l.t3 /\ e.t1 = l.t1
      /\ e.pending = l.pending /\ e.sent = l.sent /\ e.st = "connected" /\ e.rc = 0
  BY DEF LOK, Typed, Fields
<1>2. LeaveRecovery(l, f) = IF l.st = "recovering" /\ f.pf THEN Resend(e, which) ELSE l
  BY Zenon DEF LeaveRecovery, RetransmitFrom
<1>. HIDE DEF e, which
<1>3. e.rc \in 0..N2 /\ e.st \in Up /\ e.t1 \in BOOLEAN
  BY <1>1, LinkAssumption DEF Up, LOK, Typed
<1>4. LOK(e, g)
  BY <1>1, <1>3, RecoverKeeps
<1>5. LOK(Resend(e, which), g) /\ Resend(e, which).st = e.st
  BY <1>3, <1>4, ResendKeeps
<1>. QED
  BY <1>2, <1>3, <1>5

LEMMA SupervisoryKeeps ==
    ASSUME NEW l, NEW g, LOK(l, g), NEW f, f.nr \in 0..(l.mod - 1)
    PROVE  LOK(OnS(l, f), g)
<1>1. CASE l.st \notin Up
  BY <1>1 DEF OnS
<1>2. CASE l.st \in Up
  <2>. DEFINE e == [l EXCEPT !.peerBusy = (f.type = "RNR"),
                             !.poll = IF f.pf /\ ~f.command THEN "none" ELSE @]
              a == AckOwn(e, f.nr)
              w1 == SelectSeq(a.sent, LAMBDA s : InWindow(a, f.nr, s.ns, (a.vs - 1 + a.mod) % a.mod))
              w2 == SelectSeq(a.sent, LAMBDA s : s.ns = f.nr)
              b == CASE f.type = "REJ"  -> Resend(a, w1)
                     [] f.type = "SREJ" -> Resend(a, w2)
                     [] OTHER           -> a
              c == LeaveRecovery(b, f)
              d == IF f.pf /\ f.command THEN Tx(c, "RR", FALSE, TRUE) ELSE c
  <2>1. OnS(l, f) = IF d.st = "connected" THEN SendPending(d) ELSE d
    BY <1>2, Zenon DEF OnS, RetransmitFrom, RetransmitOne
  <2>2. DOMAIN e = Fields /\ Core(e) = Core(l)
    <3>. DEFINE x == (f.type = "RNR")
                y == IF f.pf /\ ~f.command THEN "none" ELSE l.poll
    <3>1. e = [l EXCEPT !.peerBusy = x, !.poll = y]
      OBVIOUS
    <3>. HIDE DEF x, y
    <3>. QED
      BY <3>1 DEF LOK, Typed, Core, Fields
  <2>. HIDE DEF e
  <2>3. LOK(e, g) /\ e.st \in Up /\ e.mod = l.mod
    BY <1>2, <2>2, SameCore DEF Core
  <2>4. LOK(a, g) /\ a.st \in Up
    BY <2>3, AckKeeps
  <2>. HIDE DEF a, w1, w2
  <2>5. /\ LOK(Resend(a, w1), g) /\ Resend(a, w1).st \in Up
        /\ LOK(Resend(a, w2), g) /\ Resend(a, w2).st \in Up
    BY <2>4, ResendKeeps
  <2>6. b \in {Resend(a, w1), Resend(a, w2), a}
    BY Zenon
  <2>. HIDE DEF b
  <2>7. LOK(b, g) /\ b.st \in Up
    BY <2>4, <2>5, <2>6
  <2>8. LOK(c, g) /\ c.st \in Up
    BY <2>7, LeaveKeeps
  <2>. HIDE DEF c
  <2>9. LOK(d, g) /\ d.st \in Up
    <3>1. LOK(Tx(c, "RR", FALSE, TRUE), g) /\ Tx(c, "RR", FALSE, TRUE).st \in Up
      BY <2>8, TxKeeps
    <3>2. d \in {Tx(c, "RR", FALSE, TRUE), c}
      BY Zenon
    <3>. QED
      BY <2>8, <3>1, <3>2
  <2>. HIDE DEF d
  <2>. QED
    BY <2>1, <2>9, SendKeeps
<1>. QED
  BY <1>1, <1>2

\* Whatever frame arrives, in whatever state.
LEMMA ReceiveKeeps ==
    ASSUME NEW l, NEW g, LOK(l, g), NEW f \in Frames(l.mod)
    PROVE  LOK(OnReceive(l, f), g)
<1>1. l.mod \in Nat /\ l.mod > 1
  BY ModPositive DEF LOK, Typed
<1>2. /\ f.pf \in BOOLEAN /\ f.nr \in 0..(l.mod - 1)
      /\ f.type \in {"SABM", "SABME", "DISC", "UA", "DM", "FRMR", "RR", "RNR", "REJ", "SREJ", "I"}
  <2>. DEFINE m == l.mod
  <2>1. m \in Nat /\ m > 1 /\ f \in Frames(m)
    BY <1>1
  <2>. HIDE DEF m
  <2>2. /\ f.pf \in BOOLEAN /\ f.nr \in 0..(m - 1)
        /\ f.type \in {"SABM", "SABME", "DISC", "UA", "DM", "FRMR", "RR", "RNR", "REJ", "SREJ", "I"}
    <3>1. CASE f \in [type : {"SABM", "SABME", "DISC", "UA", "DM", "FRMR"}, command : {TRUE}, pf : BOOLEAN,
                      nr : {0}, ns : {0}, info : {0}]
      BY <2>1, <3>1
    <3>2. CASE f \in [type : {"RR", "RNR", "REJ", "SREJ"}, command : BOOLEAN, pf : BOOLEAN,
                      nr : 0..(m - 1), ns : {0}, info : {0}]
      BY <3>2
    <3>3. CASE f \in [type : {"I"}, command : {TRUE}, pf : BOOLEAN,
                      nr : 0..(m - 1), ns : 0..(m - 1), info : {0}]
      BY <3>3
    <3>. QED
      BY <2>1, <3>1, <3>2, <3>3 DEF Frames
  <2>. QED
    BY <2>2 DEF m
<1>. HIDE DEF Frames
<1>3. OnReceive(l, f) \in {OnSabm(l, f, Basic), OnSabm(l, f, Extended), OnDisc(l, f), OnUa(l), OnDm(l),
                           OnI(l, f), OnS(l, f), Reestablish(l)}
  BY <1>2 DEF OnReceive
<1>. QED
  BY <1>2, <1>3, SabmKeeps, DiscKeeps, UaKeeps, DmKeeps, IKeeps, SupervisoryKeeps, ReestablishKeeps
-----------------------------------------------------------------------------
(* Timers. *)

LEMMA T1Keeps ==
    ASSUME NEW l, NEW g, LOK(l, g), l.t1
    PROVE  LOK(OnT1(l), g) /\ OnT1(l).rc = l.rc + 1
<1>. DEFINE r == [l EXCEPT !.rc = @ + 1]
            u == [r EXCEPT !.st = "recovering"]
            k == OnT1(l)
<1>1. l.st # "disconnected" /\ l.st \in LinkState
  BY DEF LOK, Typed, Timed
<1>2. l.rc \in 0..N2 /\ (l.rc < N2 => l.rc + 1 \in 0..N2) /\ l.rc + 1 \in 0..(N2 + 1)
  BY <1>1, SmallRc, LinkAssumption
<1>3. /\ DOMAIN r = Fields /\ r.mod = l.mod /\ r.vs = l.vs /\ r.va = l.va /\ r.t3 = l.t3 /\ r.t1 = l.t1
      /\ r.pending = l.pending /\ r.sent = l.sent /\ r.st = l.st /\ r.rc = l.rc + 1
  BY DEF LOK, Typed, Fields
<1>4. r = Retry(l)
  BY DEF Retry
<1>. HIDE DEF r
<1>5. Typed(r) /\ Ordered(r, g)
  BY <1>2, <1>3 DEF LOK, Typed, Ordered
<1>6. CASE l.st \in Up /\ l.rc < N2
  <2>1. k = TxPoll(u)
    BY <1>4, <1>6 DEF OnT1, Up
  <2>2. /\ DOMAIN u = Fields /\ u.mod = l.mod /\ u.vs = l.vs /\ u.va = l.va /\ u.t3 = l.t3 /\ u.t1 = l.t1
        /\ u.pending = l.pending /\ u.sent = l.sent /\ u.st = "recovering" /\ u.rc = l.rc + 1
    BY <1>3 DEF Fields
  <2>. HIDE DEF u
  <2>3. u.st \in Up /\ u.rc \in 0..N2 /\ u.t1 \in BOOLEAN
    BY <1>2, <1>6, <2>2 DEF Up, LOK, Typed
  <2>4. LOK(u, g)
    BY <1>6, <2>2, <2>3, RecoverKeeps
  <2>5. DOMAIN TxPoll(u) = Fields /\ Core(TxPoll(u)) = Core(u)
    BY <2>2, TxPollCore
  <2>. QED
    BY <2>1, <2>2, <2>4, <2>5, SameCore DEF Core
<1>7. CASE l.st \in {"connecting", "disconnecting"} /\ l.rc < N2
  <2>1. k \in {Tx(r, Connect(l.mod), TRUE, TRUE), Tx(r, "DISC", TRUE, TRUE)}
    <3>1. CASE l.st = "connecting"
      <4>1. k = Tx(r, Connect(l.mod), TRUE, TRUE)
        BY <1>4, <1>7, <3>1, SMT DEF OnT1, Up
      <4>. QED
        BY <4>1, Zenon
    <3>2. CASE l.st = "disconnecting"
      <4>1. k = Tx(r, "DISC", TRUE, TRUE)
        BY <1>4, <1>7, <3>2, SMT DEF OnT1, Up
      <4>. QED
        BY <4>1, Zenon
    <3>. QED
      BY <1>7, <3>1, <3>2
  <2>2. SentInSequence(r) /\ Timed(r) /\ Retrying(r)
    BY <1>2, <1>3, <1>7 DEF LOK, SentInSequence, Timed, Retrying, Up
  <2>3. LOK(r, g)
    BY <1>5, <2>2 DEF LOK
  <2>4. /\ LOK(Tx(r, Connect(l.mod), TRUE, TRUE), g) /\ Tx(r, Connect(l.mod), TRUE, TRUE).rc = r.rc
        /\ LOK(Tx(r, "DISC", TRUE, TRUE), g) /\ Tx(r, "DISC", TRUE, TRUE).rc = r.rc
    BY <1>3, <2>3, TxKeeps, TxCore, ZenonT(60) DEF Core
  <2>. QED
    BY <1>3, <2>1, <2>4
<1>8. CASE ~(l.rc < N2)
  <2>. DEFINE s == [StopAll(r) EXCEPT !.st = "disconnected"]
  <2>1. k \in {Fail(r), s}
    BY <1>1, <1>4, <1>8 DEF OnT1, Up, LinkState
  <2>2. LOK(s, g) /\ s.rc = r.rc
    BY <1>3, <1>5, StopKeeps, StopAllFields
  <2>3. LOK(Fail(r), g)
    BY <1>5, FailKeeps
  <2>4. Fail(r).rc = r.rc
    <3>. DEFINE e == [r EXCEPT !.err = TRUE]
                t == Tx(e, "DM", FALSE, TRUE)
    <3>1. DOMAIN e = Fields /\ e.rc = r.rc
      BY <1>3 DEF Fields
    <3>2. Fail(r) = [StopAll(t) EXCEPT !.st = "disconnected"]
      BY DEF Fail
    <3>. HIDE DEF e
    <3>3. DOMAIN t = Fields /\ t.rc = r.rc
      BY <3>1, TxCore DEF Core
    <3>. HIDE DEF t
    <3>. QED
      BY <3>2, <3>3, StopAllFields, ZenonT(60)
  <2>. HIDE DEF s
  <2>. QED
    BY <1>3, <2>1, <2>2, <2>3, <2>4
<1>. QED
  BY <1>1, <1>6, <1>7, <1>8 DEF LinkState, Up

LEMMA T3Keeps ==
    ASSUME NEW l, NEW g, LOK(l, g)
    PROVE  LOK(OnT3(l), g) /\ (l.st # "connected" => OnT3(l) = l)
<1>1. CASE l.st = "connected"
  <2>. DEFINE e == [l EXCEPT !.rc = 0, !.st = "recovering"]
              p == TxPoll(e)
              k == [p EXCEPT !.t1 = TRUE]
  <2>1. /\ DOMAIN e = Fields /\ e.mod = l.mod /\ e.vs = l.vs /\ e.va = l.va /\ e.t3 = l.t3
        /\ e.pending = l.pending /\ e.sent = l.sent /\ e.st = "recovering" /\ e.rc = 0
    BY DEF LOK, Typed, Fields
  <2>2. OnT3(l) = k
    BY <1>1 DEF OnT3
  <2>. HIDE DEF e
  <2>3. DOMAIN p = Fields /\ Core(p) = Core(e)
    BY <2>1, TxPollCore
  <2>. HIDE DEF p
  <2>4. /\ DOMAIN k = Fields /\ k.mod = l.mod /\ k.vs = l.vs /\ k.va = l.va /\ k.t3 = l.t3
        /\ k.pending = l.pending /\ k.sent = l.sent /\ k.st = "recovering" /\ k.rc = 0 /\ k.t1 = TRUE
    BY <2>1, <2>3 DEF Core, Fields
  <2>. HIDE DEF k
  <2>5. k.st \in Up /\ k.rc \in 0..N2 /\ l.st \in Up
    BY <1>1, <2>4, LinkAssumption DEF Up
  <2>6. LOK(k, g)
    BY <2>4, <2>5, RecoverKeeps
  <2>. QED
    BY <1>1, <2>2, <2>6
<1>2. CASE l.st # "connected"
  BY <1>2 DEF OnT3
<1>. QED
  BY <1>1, <1>2

\* send() neither answers nor repeats anything.
LEMMA DoSendRc ==
    ASSUME NEW l, NEW g \in Nat, LOK(l, g)
    PROVE  DoSend(l, g + 1).rc = l.rc
<1>. DEFINE q == [l EXCEPT !.pending = Append(@, g + 1)]
            k == Room(q)
            batch == [i \in 1..k |-> [ns |-> (q.vs + i - 1) % q.mod, info |-> q.pending[i]]]
            e == [q EXCEPT !.pending = SubSeq(@, k + 1, Len(@)), !.sent = @ \o batch,
                           !.vs = (@ + k) % q.mod, !.t1 = TRUE, !.t3 = FALSE]
            fr == [i \in 1..k |-> IFrame(q, batch[i])]
<1>1. DOMAIN q = Fields /\ q.rc = l.rc
  BY DEF LOK, Typed, Fields
<1>2. DoSend(l, g + 1) \in {q, SendPending(q)}
  BY DEF DoSend
<1>. HIDE DEF q
<1>3. SendPending(q) \in {q, Emit(e, fr)}
  BY Zenon DEF SendPending
<1>4. DOMAIN e = Fields /\ e.rc = q.rc
  <2>. DEFINE x == SubSeq(q.pending, k + 1, Len(q.pending))
              y == q.sent \o batch
              z == (q.vs + k) % q.mod
  <2>1. e = [q EXCEPT !.pending = x, !.sent = y, !.vs = z, !.t1 = TRUE, !.t3 = FALSE]
    OBVIOUS
  <2>. HIDE DEF x, y, z
  <2>. QED
    BY <1>1, <2>1 DEF Fields
<1>. HIDE DEF e, fr
<1>5. Emit(e, fr).rc = e.rc
  BY <1>4, EmitCore DEF Core
<1>. QED
  BY <1>1, <1>2, <1>3, <1>4, <1>5
-----------------------------------------------------------------------------
(* The link of Ax25Peer. *)

PeerInv ==
    /\ given \in Nat /\ unanswered \in Nat /\ unanswered <= link.rc
    /\ LOK(link, given)

LEMMA PeerInit == Init => PeerInv
<1>. SUFFICES ASSUME Init PROVE PeerInv
  OBVIOUS
<1>. DEFINE k == NewLink(Mod)
<1>1. /\ DOMAIN k = Fields /\ k.mod = Mod /\ k.vs = 0 /\ k.va = 0 /\ k.rc = 0 /\ k.st = "disconnected"
      /\ k.t1 = FALSE /\ k.t3 = FALSE /\ k.pending = <<>> /\ k.sent = <<>>
  BY DEF NewLink, Fields
<1>. HIDE DEF k
<1>2. k.st \in LinkState /\ k.mod \in {Basic, Extended} /\ Timed(k)
  BY <1>1, PeerAssumption DEF LinkState, Timed, Up
<1>3. LOK(k, 0)
  BY <1>1, <1>2, FreshLink
<1>. QED
  BY <1>1, <1>3 DEF Init, PeerInv, k

\* What a call leaves behind keeps the invariant when the call does.
LEMMA BecomesKeeps ==
    ASSUME NEW l, LOK(l, given'), Becomes(l), given' \in Nat, unanswered' \in Nat, unanswered' <= l.rc
    PROVE  PeerInv'
<1>1. LOK(link', given') /\ link'.rc = l.rc
  BY SettledKeeps DEF Becomes
<1>2. given' \in Nat /\ unanswered' \in Nat /\ unanswered' <= link'.rc
  BY <1>1
<1>. QED
  BY <1>1, <1>2 DEF PeerInv

LEMMA RcNat == ASSUME NEW l, NEW g, LOK(l, g) PROVE l.rc \in Nat /\ 0 <= l.rc
BY LinkAssumption DEF LOK, Typed

LEMMA PeerNext == PeerInv /\ [Next]_vars => PeerInv'
<1>. SUFFICES ASSUME PeerInv, [Next]_vars PROVE PeerInv'
  OBVIOUS
<1>0. given \in Nat /\ unanswered \in Nat /\ unanswered <= link.rc /\ LOK(link, given) /\ link.rc \in Nat
  BY RcNat DEF PeerInv
<1>1. CASE UserConnect
  <2>1. LOK(DoConnect(link, Mod), given)
    BY <1>0, ConnectKeeps
  <2>. QED
    BY <1>0, <1>1, <2>1, RcNat, BecomesKeeps DEF UserConnect
<1>2. CASE UserDisconnect
  <2>1. LOK(DoDisconnect(link), given)
    BY <1>0, DisconnectKeeps
  <2>. QED
    BY <1>0, <1>2, <2>1, RcNat, BecomesKeeps DEF UserDisconnect
<1>3. CASE UserSend
  <2>1. LOK(DoSend(link, given + 1), given + 1) /\ DoSend(link, given + 1).rc = link.rc
    BY <1>0, DoSendKeeps, DoSendRc
  <2>. QED
    BY <1>0, <1>3, <2>1, BecomesKeeps DEF UserSend
<1>4. CASE UserProbe
  <2>1. LOK(DoProbe(link), given) /\ DoProbe(link).rc = link.rc
    BY <1>0, <1>4, ProbeKeeps DEF UserProbe
  <2>. QED
    BY <1>0, <1>4, <2>1, BecomesKeeps DEF UserProbe
<1>5. ASSUME NEW f \in Frames(link.mod), Receive(f) PROVE PeerInv'
  <2>1. LOK(OnReceive(link, f), given)
    BY <1>0, ReceiveKeeps
  <2>. QED
    BY <1>0, <1>5, <2>1, RcNat, BecomesKeeps DEF Receive
<1>6. CASE T1
  <2>1. LOK(OnT1(link), given) /\ OnT1(link).rc = link.rc + 1
    BY <1>0, <1>6, T1Keeps DEF T1
  <2>2. unanswered' \in Nat /\ unanswered' <= OnT1(link).rc
    BY <1>0, <1>6, <2>1 DEF T1
  <2>. QED
    BY <1>0, <1>6, <2>1, <2>2, BecomesKeeps DEF T1
<1>7. CASE T3
  <2>1. LOK(OnT3(link), given) /\ (link.st # "connected" => OnT3(link) = link)
    BY <1>0, T3Keeps
  <2>2. OnT3(link).rc \in Nat
    BY <2>1, RcNat
  <2>3. unanswered' \in Nat /\ unanswered' <= OnT3(link).rc
    BY <1>0, <1>7, <2>1, <2>2 DEF T3
  <2>. QED
    BY <1>0, <1>7, <2>1, <2>3, BecomesKeeps DEF T3
<1>8. CASE UNCHANGED vars
  BY <1>8 DEF vars, PeerInv
<1>. QED
  BY <1>1, <1>2, <1>3, <1>4, <1>5, <1>6, <1>7, <1>8 DEF Next

\* The concatenation of what was sent and what is queued is in order.
LEMMA QueueOrdered == PeerInv => QueueInOrder
<1>. SUFFICES ASSUME PeerInv PROVE QueueInOrder
  OBVIOUS
<1>. DEFINE s == link.sent
            p == link.pending
            q == [i \in DOMAIN link.sent |-> link.sent[i].info]
            w == q \o p
<1>1. s \in Seq([ns : Nat, info : Nat]) /\ p \in Seq(Nat) /\ Ordered(link, given)
  BY DEF PeerInv, LOK, Typed
<1>2. q = [i \in 1..Len(s) |-> s[i].info]
  BY <1>1
<1>a. Len(s) \in Nat /\ Len(p) \in Nat
  BY <1>1
<1>3. \A i \in 1..Len(s) : s[i].info \in Nat
  <2>. SUFFICES ASSUME NEW i \in 1..Len(s) PROVE s[i].info \in Nat
    OBVIOUS
  <2>1. s[i] \in [ns : Nat, info : Nat]
    BY <1>1, ElementOfSeq
  <2>. QED
    BY <2>1
<1>b. /\ \A i, j \in 1..Len(s) : i < j => s[i].info < s[j].info
      /\ \A i, j \in 1..Len(p) : i < j => p[i] < p[j]
      /\ \A i \in 1..Len(s), j \in 1..Len(p) : s[i].info < p[j]
  BY <1>1 DEF Ordered
<1>c. QueueInOrder = \A i, j \in DOMAIN w : i < j => w[i] < w[j]
  BY Zenon DEF QueueInOrder
<1>. HIDE DEF s, p, q
<1>4. q \in Seq(Nat) /\ Len(q) = Len(s) /\ \A i \in 1..Len(s) : q[i] = s[i].info
  <2>1. q \in [1..Len(s) -> Nat]
    BY <1>2, <1>3
  <2>2. q \in Seq(Nat)
    BY <1>a, <2>1, SeqDef
  <2>3. Len(q) = Len(s)
    BY <1>a, <2>1, <2>2, LenProperties
  <2>. QED
    BY <1>2, <2>2, <2>3
<1>5. /\ w \in Seq(Nat) /\ Len(w) = Len(s) + Len(p)
      /\ \A i \in 1..(Len(s) + Len(p)) : w[i] = IF i <= Len(s) THEN s[i].info ELSE p[i - Len(s)]
  <2>1. /\ w \in Seq(Nat) /\ Len(w) = Len(q) + Len(p)
        /\ \A i \in 1..(Len(q) + Len(p)) : w[i] = IF i <= Len(q) THEN q[i] ELSE p[i - Len(q)]
    BY <1>1, <1>4, ConcatProperties
  <2>. HIDE DEF w
  <2>2. ASSUME NEW i \in 1..(Len(s) + Len(p))
        PROVE  w[i] = IF i <= Len(s) THEN s[i].info ELSE p[i - Len(s)]
    <3>1. i <= Len(s) => i \in 1..Len(s)
      BY <1>a
    <3>. QED
      BY <1>4, <2>1, <3>1
  <2>. QED
    BY <1>4, <2>1, <2>2
<1>6. DOMAIN w = 1..(Len(s) + Len(p))
  BY <1>5
<1>. HIDE DEF w
<1>7. \A i, j \in DOMAIN w : i < j => w[i] < w[j]
  <2>. SUFFICES ASSUME NEW i \in 1..(Len(s) + Len(p)), NEW j \in 1..(Len(s) + Len(p)), i < j
                PROVE  w[i] < w[j]
    BY <1>6
  <2>1. CASE j <= Len(s)
    <3>1. i \in 1..Len(s) /\ j \in 1..Len(s)
      BY <1>a, <2>1
    <3>. QED
      BY <1>5, <1>b, <2>1, <3>1, SMTT(40)
  <2>2. CASE i <= Len(s) /\ ~(j <= Len(s))
    <3>1. i \in 1..Len(s) /\ (j - Len(s)) \in 1..Len(p)
      BY <1>a, <2>2
    <3>. QED
      BY <1>5, <1>b, <2>2, <3>1
  <2>3. CASE ~(i <= Len(s)) /\ ~(j <= Len(s))
    <3>1. (i - Len(s)) \in 1..Len(p) /\ (j - Len(s)) \in 1..Len(p) /\ i - Len(s) < j - Len(s)
      BY <1>a, <2>3
    <3>. QED
      BY <1>5, <1>b, <2>3, <3>1
  <2>. QED
    BY <1>a, <2>1, <2>2, <2>3
<1>. QED
  BY <1>7, <1>c

(***************************************************************************)
(* For every modulus, window and number of retries, and whatever the peer  *)
(* sends: the list of unacknowledged I-frames is exactly V(A) to V(S),     *)
(* never past the window, and what waits is in the order layer 3 handed it *)
(* over, each piece once (ackOwn, sendPending, the retransmissions).       *)
(***************************************************************************)
THEOREM SentTheorem == Spec => []SentOK
<1>1. PeerInv => SentOK
  BY QueueOrdered DEF PeerInv, LOK, SentOK
<1>. QED
  BY <1>1, PeerInit, PeerNext, PTL DEF Spec

(***************************************************************************)
(* No peer can leave the link waiting without a timer, and a link that is  *)
(* down has none running (startT1, startT3, stopAll).                      *)
(***************************************************************************)
THEOREM TimedTheorem == Spec => []NeverUntimed
<1>1. PeerInv => NeverUntimed
  BY DEF PeerInv, LOK, NeverUntimed
<1>. QED
  BY <1>1, PeerInit, PeerNext, PTL DEF Spec

(***************************************************************************)
(* However the expiries of T1 interleave with the user's calls and with    *)
(* T3, N2 + 1 of them with nothing heard in between take the link down.    *)
(***************************************************************************)
THEOREM GivesUpTheorem == Spec => []GivesUp
<1>1. PeerInv => GivesUp
  <2>. SUFFICES ASSUME PeerInv PROVE GivesUp
    OBVIOUS
  <2>1. unanswered \in Nat /\ unanswered <= link.rc /\ link.rc \in 0..(N2 + 1) /\ Retrying(link)
    BY DEF PeerInv, LOK, Typed
  <2>2. unanswered = N2 + 1 => ~(link.rc <= N2)
    BY <2>1, LinkAssumption
  <2>. QED
    BY <2>1, <2>2, LinkAssumption DEF GivesUp, Retrying
<1>. QED
  BY <1>1, PeerInit, PeerNext, PTL DEF Spec
=============================================================================

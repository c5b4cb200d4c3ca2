------------------------------- MODULE Ax25Link -------------------------------
(***************************************************************************)
(* The AX.25 connected-mode data link of packages/ax25/src/link.ts: one    *)
(* ConnectedLink as a record, and each of its entry points as an operator  *)
(* from the record before the call to the record after it.                 *)
(*                                                                         *)
(* A call's effects on the outside are fields that start every call empty: *)
(*   out   the frames transmitted, in order                                *)
(*   up    the data delivered to layer 3, in order                         *)
(*   err   whether the host was told of an error                           *)
(*                                                                         *)
(* Timers are armed or stopped; when an armed one expires is up to the     *)
(* module that runs the link.  poll is the outstanding poll (RR command,   *)
(* P=1): none, sent once or sent more than once.  Round-trip samples,      *)
(* protocol ids and addresses are left out.                                *)
(***************************************************************************)
EXTENDS Integers, Sequences, FiniteSets, SequencesExt, FiniteSetsExt

CONSTANTS Basic, Extended,  \* the moduli of SABM and SABME (8 and 128 in the code)
          Window,           \* I-frames outstanding at once (cfg.window)
          N2,               \* retries (cfg.n2)
          Srej              \* cfg.srej: selective reject instead of go-back-N

ASSUME LinkAssumption ==
    /\ Basic \in Nat /\ Extended \in Nat /\ Window \in Nat \ {0} /\ N2 \in Nat
    /\ Window < Basic /\ Window < Extended /\ Srej \in BOOLEAN

LinkState == {"disconnected", "connecting", "connected", "recovering", "disconnecting"}
Up == {"connected", "recovering"}

NewLink(mod) ==
    [st |-> "disconnected", mod |-> mod, vs |-> 0, vr |-> 0, va |-> 0,
     pending |-> <<>>, sent |-> <<>>, rc |-> 0, peerBusy |-> FALSE, rejSent |-> FALSE,
     rxbuf |-> <<>>, srejSent |-> {}, t1 |-> FALSE, t3 |-> FALSE, poll |-> "none",
     out |-> <<>>, up |-> <<>>, err |-> FALSE]

\* What a call leaves behind once its effects have gone out.
Settled(l) == [l EXCEPT !.out = <<>>, !.up = <<>>, !.err = FALSE]

Outstanding(l) == (l.vs - l.va + l.mod) % l.mod

InWindow(l, lo, x, hi) == (x - lo + l.mod) % l.mod <= (hi - lo + l.mod) % l.mod
----------------------------------------------------------------------------
(* Transmitting. *)

Frame(type, command, pf, nr) ==
    [type |-> type, command |-> command, pf |-> pf, nr |-> nr, ns |-> 0, info |-> 0]

IFrame(l, s) ==
    [type |-> "I", command |-> TRUE, pf |-> FALSE, nr |-> l.vr, ns |-> s.ns, info |-> s.info]

Emit(l, frames) == [l EXCEPT !.out = @ \o frames]

Polled(l) == [l EXCEPT !.poll = IF @ = "none" THEN "once" ELSE "repeated"]

Tx(l, type, command, pf) == Emit(l, <<Frame(type, command, pf, l.vr)>>)

TxPoll(l) == Tx(Polled(l), "RR", TRUE, TRUE)

Connect(mod) == IF mod = Extended THEN "SABME" ELSE "SABM"

StopAll(l) == [l EXCEPT !.t1 = FALSE, !.t3 = FALSE, !.poll = "none"]

\* Mutant: the I-frames of the previous link are kept.
ResetKeepsSent(l) ==
    [l EXCEPT !.vs = 0, !.vr = 0, !.va = 0, !.rc = 0, !.pending = <<>>,
              !.peerBusy = FALSE, !.rejSent = FALSE, !.rxbuf = <<>>, !.srejSent = {},
              !.poll = "none"]

Reset(l) ==
    [l EXCEPT !.vs = 0, !.vr = 0, !.va = 0, !.rc = 0, !.pending = <<>>, !.sent = <<>>,
              !.peerBusy = FALSE, !.rejSent = FALSE, !.rxbuf = <<>>, !.srejSent = {},
              !.poll = "none"]

\* Mutant: <= for < in the window test.
RoomPlusOne(l) == IF l.peerBusy THEN 0
                  ELSE Min({Len(l.pending), Max({Window + 1 - Outstanding(l), 0})})

\* How many queued I-frames the window has room for now.
Room(l) == IF l.peerBusy THEN 0
           ELSE Min({Len(l.pending), Max({Window - Outstanding(l), 0})})

\* Mutant: V(S) is not taken modulo the modulus.
SendNoWrap(l) ==
    LET k == Room(l)
        batch == [i \in 1..k |-> [ns |-> (l.vs + i - 1) % l.mod, info |-> l.pending[i]]]
    IN  IF k = 0 THEN l
        ELSE Emit([l EXCEPT !.pending = SubSeq(@, k + 1, Len(@)), !.sent = @ \o batch,
                            !.vs = @ + k, !.t1 = TRUE, !.t3 = FALSE],
                  [i \in 1..k |-> IFrame(l, batch[i])])

SendPending(l) ==
    LET k == Room(l)
        batch == [i \in 1..k |-> [ns |-> (l.vs + i - 1) % l.mod, info |-> l.pending[i]]]
    IN  IF k = 0 THEN l
        ELSE Emit([l EXCEPT !.pending = SubSeq(@, k + 1, Len(@)), !.sent = @ \o batch,
                            !.vs = (@ + k) % l.mod, !.t1 = TRUE, !.t3 = FALSE],
                  [i \in 1..k |-> IFrame(l, batch[i])])

\* Mutants: an N(R) outside the window counts; a partial acknowledgement stops T1.
AckAnything(l, nr) ==
    LET k == Min({(nr - l.va + l.mod) % l.mod, Len(l.sent)})
    IN  [l EXCEPT !.sent = SubSeq(@, k + 1, Len(@)), !.va = nr, !.rc = 0,
                  !.t1 = (nr # l.vs), !.t3 = (nr = l.vs) \/ @]

AckStopsT1(l, nr) ==
    IF ~InWindow(l, l.va, nr, l.vs) THEN l
    ELSE LET k == Min({(nr - l.va + l.mod) % l.mod, Len(l.sent)})
         IN  [l EXCEPT !.sent = SubSeq(@, k + 1, Len(@)), !.va = nr, !.rc = 0,
                       !.t1 = FALSE, !.t3 = TRUE]

\* N(R) acknowledges everything before it; one outside the window is ignored.
AckOwn(l, nr) ==
    IF ~InWindow(l, l.va, nr, l.vs) THEN l
    ELSE LET k == Min({(nr - l.va + l.mod) % l.mod, Len(l.sent)})
         IN  [l EXCEPT !.sent = SubSeq(@, k + 1, Len(@)), !.va = nr, !.rc = 0,
                       !.t1 = (nr # l.vs), !.t3 = (nr = l.vs) \/ @]

Resend(l, which) ==
    Emit([l EXCEPT !.t1 = @ \/ which # <<>>], [i \in 1..Len(which) |-> IFrame(l, which[i])])

RetransmitFrom(l, nr) ==
    LET last == (l.vs - 1 + l.mod) % l.mod
    IN  Resend(l, SelectSeq(l.sent, LAMBDA s : InWindow(l, nr, s.ns, last)))

RetransmitOne(l, nr) == Resend(l, SelectSeq(l.sent, LAMBDA s : s.ns = nr))

Fail(l) == [StopAll(Tx([l EXCEPT !.err = TRUE], "DM", FALSE, TRUE)) EXCEPT !.st = "disconnected"]
----------------------------------------------------------------------------
(* User requests. *)

\* connect(), only called on a disconnected link; mod is cfg.modulo.
DoConnect(l, mod) ==
    LET r == Reset([l EXCEPT !.mod = mod])
    IN  [Tx(r, Connect(mod), TRUE, TRUE) EXCEPT !.t1 = TRUE, !.st = "connecting"]

DoDisconnect(l) ==
    IF l.st = "connecting" THEN [StopAll(l) EXCEPT !.st = "disconnected"]
    ELSE [Tx([l EXCEPT !.pending = <<>>, !.sent = <<>>], "DISC", TRUE, TRUE)
            EXCEPT !.rc = 0, !.t1 = TRUE, !.t3 = FALSE, !.st = "disconnecting"]

DoSend(l, info) ==
    LET q == [l EXCEPT !.pending = Append(@, info)]
    IN  IF l.st = "connected" THEN SendPending(q) ELSE q

CanProbe(l) == l.st = "connected" /\ l.poll = "none"
DoProbe(l) == [TxPoll(l) EXCEPT !.t1 = TRUE]
----------------------------------------------------------------------------
(* Inbound frames. *)

OnSabm(l, f, mod) ==
    LET r == Reset([l EXCEPT !.mod = mod, !.err = (l.st = "connected")])
    IN  [Tx(r, "UA", FALSE, f.pf) EXCEPT !.t3 = TRUE, !.st = "connected"]

OnDisc(l, f) == [StopAll(Tx(l, "UA", FALSE, f.pf)) EXCEPT !.st = "disconnected"]

OnUa(l) ==
    CASE l.st = "connecting" ->
            SendPending([Reset(l) EXCEPT !.t1 = FALSE, !.t3 = TRUE, !.st = "connected"])
      [] l.st = "disconnecting" -> [StopAll(l) EXCEPT !.st = "disconnected"]
      [] OTHER -> l

OnDm(l) == IF l.st # "disconnected" THEN [StopAll(l) EXCEPT !.st = "disconnected"] ELSE l

\* Hand up the frames the receive buffer holds next in sequence.
DrainRxBuf(l) ==
    LET held(i) == (l.vr + i) % l.mod
        k == CHOOSE n \in 0..l.mod : /\ \A i \in 0..(n - 1) : held(i) \in DOMAIN l.rxbuf
                                     /\ n = l.mod \/ held(n) \notin DOMAIN l.rxbuf
        drained == {held(i) : i \in 0..(k - 1)}
    IN  [l EXCEPT !.up = @ \o [i \in 1..k |-> l.rxbuf[held(i - 1)]],
                  !.rxbuf = [n \in DOMAIN @ \ drained |-> @[n]],
                  !.srejSent = @ \ drained,
                  !.vr = (@ + k) % l.mod]

InSequence(l, f) ==
    LET d == DrainRxBuf([l EXCEPT !.vr = (@ + 1) % l.mod, !.rejSent = FALSE,
                                  !.up = Append(@, f.info)])
    IN  CASE f.pf -> Tx(d, "RR", FALSE, TRUE)
          [] ~f.pf /\ Room(d) > 0 -> SendPending(d)
          [] OTHER -> Tx(d, "RR", FALSE, FALSE)

\* Hold the frame and reject each number still missing before it, once.
Selective(l, f) ==
    LET gap == [i \in 1..((f.ns - l.vr + l.mod) % l.mod) |-> (l.vr + i - 1) % l.mod]
        ask == SelectSeq(gap, LAMBDA n : n \notin l.srejSent)
        h == [l EXCEPT !.rxbuf = IF f.ns \in DOMAIN @ THEN @
                                 ELSE [n \in DOMAIN @ \cup {f.ns} |-> IF n = f.ns THEN f.info ELSE @[n]],
                       !.srejSent = @ \cup Range(gap)]
        s == Emit(h, [i \in 1..Len(ask) |-> Frame("SREJ", FALSE, FALSE, ask[i])])
    IN  IF f.pf THEN Tx(s, "RR", FALSE, TRUE) ELSE s

OutOfSequence(l, f) ==
    CASE Srej /\ InWindow(l, l.vr, f.ns, (l.vr + l.mod - 2) % l.mod) -> Selective(l, f)
      [] OTHER -> IF ~l.rejSent THEN [Tx(l, "REJ", FALSE, f.pf) EXCEPT !.rejSent = TRUE]
                  ELSE IF f.pf THEN Tx(l, "RR", FALSE, TRUE) ELSE l

OnI(l, f) ==
    IF l.st \notin Up THEN l
    ELSE LET a == AckOwn(l, f.nr)
         IN  IF f.ns = a.vr THEN InSequence(a, f) ELSE OutOfSequence(a, f)

\* Mutant: the final is noted and nothing is repeated.
LeaveQuietly(l, f) ==
    IF l.st = "recovering" /\ f.pf THEN [l EXCEPT !.rc = 0, !.st = "connected"] ELSE l

\* The final (or any poll) ends timer recovery: everything unacknowledged again.
LeaveRecovery(l, f) ==
    IF l.st = "recovering" /\ f.pf
    THEN RetransmitFrom([l EXCEPT !.rc = 0, !.st = "connected"], l.va)
    ELSE l

OnS(l, f) ==
    IF l.st \notin Up THEN l
    ELSE LET a == AckOwn([l EXCEPT !.peerBusy = (f.type = "RNR"),
                                   !.poll = IF f.pf /\ ~f.command THEN "none" ELSE @], f.nr)
             b == CASE f.type = "REJ"  -> RetransmitFrom(a, f.nr)
                    [] f.type = "SREJ" -> RetransmitOne(a, f.nr)
                    [] OTHER           -> a
             c == LeaveRecovery(b, f)
             d == IF f.pf /\ f.command THEN Tx(c, "RR", FALSE, TRUE) ELSE c
         IN  IF d.st = "connected" THEN SendPending(d) ELSE d

\* FRMR: the link is set up again from any state.
Reestablish(l) ==
    LET r == Reset([l EXCEPT !.err = TRUE])
    IN  [Tx(r, Connect(l.mod), TRUE, TRUE) EXCEPT !.t1 = TRUE, !.st = "connecting"]

OnReceive(l, f) ==
    CASE f.type = "SABM"  -> OnSabm(l, f, Basic)
      [] f.type = "SABME" -> OnSabm(l, f, Extended)
      [] f.type = "DISC"  -> OnDisc(l, f)
      [] f.type = "UA"    -> OnUa(l)
      [] f.type = "DM"    -> OnDm(l)
      [] f.type = "I"     -> OnI(l, f)
      [] f.type \in {"RR", "RNR", "REJ", "SREJ"} -> OnS(l, f)
      [] f.type = "FRMR"  -> Reestablish(l)
----------------------------------------------------------------------------
(* Timers.  An expired timer stays set until somebody stops or restarts it. *)

\* Mutant: retries are not counted.
RetryUncounted(l) == l

\* rc++ < n2, whichever way it goes.
Retry(l) == [l EXCEPT !.rc = @ + 1]

\* Mutant: T1 is not started again after a repetition.
OneShot(l) ==
    LET again == [Retry(l) EXCEPT !.t1 = FALSE]
    IN  CASE l.st = "connecting" /\ l.rc < N2 -> Tx(again, Connect(l.mod), TRUE, TRUE)
          [] l.st = "disconnecting" /\ l.rc < N2 -> Tx(again, "DISC", TRUE, TRUE)
          [] l.st \in Up /\ l.rc < N2 -> TxPoll([again EXCEPT !.st = "recovering"])
          [] l.st # "disconnected" /\ l.rc >= N2 -> Fail(l)
          [] OTHER -> l

OnT1(l) ==
    LET r == Retry(l)
    IN  CASE l.st = "connecting" ->
                IF l.rc < N2 THEN Tx(r, Connect(l.mod), TRUE, TRUE) ELSE Fail(r)
          [] l.st = "disconnecting" ->
                IF l.rc < N2 THEN Tx(r, "DISC", TRUE, TRUE)
                ELSE [StopAll(r) EXCEPT !.st = "disconnected"]
          [] l.st \in Up ->
                IF l.rc < N2 THEN TxPoll([r EXCEPT !.st = "recovering"]) ELSE Fail(r)
          [] OTHER -> l

\* Mutant: the keepalive poll is not timed.
PollUntimed(l) ==
    IF l.st = "connected" THEN TxPoll([l EXCEPT !.rc = 0, !.st = "recovering"]) ELSE l

OnT3(l) ==
    IF l.st = "connected"
    THEN [TxPoll([l EXCEPT !.rc = 0, !.st = "recovering"]) EXCEPT !.t1 = TRUE]
    ELSE l
----------------------------------------------------------------------------
(* What a link keeps, whatever it receives. *)

LinkOK(l) ==
    /\ l.st \in LinkState /\ l.mod \in {Basic, Extended} /\ {l.vs, l.vr, l.va} \subseteq 0..(l.mod - 1)
    /\ l.pending \in Seq(Nat) /\ l.sent \in Seq([ns : 0..(l.mod - 1), info : Nat])
    /\ l.rc \in 0..(N2 + 1) /\ {l.peerBusy, l.rejSent, l.t1, l.t3} \subseteq BOOLEAN
    /\ DOMAIN l.rxbuf \cup l.srejSent \subseteq 0..(l.mod - 1) /\ Range(l.rxbuf) \subseteq Nat
    /\ l.poll \in {"none", "once", "repeated"} /\ l = Settled(l)

\* The unacknowledged I-frames of a link that is up are those from V(A) to V(S).
SentInSequence(l) ==
    l.st \in Up => /\ Len(l.sent) = Outstanding(l)
                   /\ Len(l.sent) <= Window
                   /\ \A i \in DOMAIN l.sent : l.sent[i].ns = (l.va + i - 1) % l.mod

\* What waits for an answer is timed, and what is down is not.
Timed(l) ==
    /\ l.st \in {"connecting", "disconnecting"} => l.t1
    /\ l.st \in Up /\ l.sent # <<>> => l.t1
    /\ l.st \in Up => l.t1 \/ l.t3
    /\ l.st = "disconnected" => ~l.t1 /\ ~l.t3
============================================================================

---------------------------- MODULE NetromCircuit ----------------------------
(***************************************************************************)
(* One end of a NET/ROM transport circuit (packages/packet/src/            *)
(* netrom-circuit.ts): a record, and each entry point of NetromCircuit as  *)
(* an operator from the record before the call to the record after it.     *)
(* out and up are the packets sent and the messages handed up by the call. *)
(*                                                                         *)
(* A message is the sequence of its fragments, a fragment its message's    *)
(* mark, its place and whether more follow.  The window both ends propose  *)
(* is the same, so its negotiation is left out; index and id of a circuit  *)
(* are one number, as the node that makes them sets both alike.  No packet *)
(* of this code carries the choke flag, so choked is never set.            *)
(***************************************************************************)
EXTENDS Integers, Sequences, FiniteSets, SequencesExt, FiniteSetsExt

CONSTANTS Mod,      \* MOD, 256
          Window,   \* fragments outstanding at once, 4
          N2,       \* retransmissions before the circuit is given up
          MaxTxq    \* MAX_TXQ, fragments that may wait

ASSUME CircuitAssumption ==
    Mod \in Nat /\ Window \in 1..(Mod - 1) /\ N2 \in Nat /\ MaxTxq \in Nat

CircuitState == {"disconnected", "connecting", "connected", "disconnecting"}

NewCircuit ==
    [st |-> "disconnected", your |-> 0, vs |-> 0, va |-> 0, vr |-> 0,
     txq |-> <<>>, sent |-> <<>>, frags |-> <<>>, t1 |-> FALSE, rc |-> 0,
     stopped |-> FALSE,   \* history: T1 was stopped by an InfoAck while waiting for a ConnAck or a DiscAck
     crossed |-> FALSE,   \* history: it was given the connect request of another circuit
     out |-> <<>>, up |-> <<>>]

Settled(c) == [c EXCEPT !.out = <<>>, !.up = <<>>]

ArmFresh(c) == [c EXCEPT !.t1 = TRUE, !.rc = 0]
Disarm(c) == [c EXCEPT !.t1 = FALSE, !.rc = 0]

NoInfo == <<>>
Packet(op, to, tx, rx, info) == [op |-> op, to |-> to, tx |-> tx, rx |-> rx, info |-> info]
Tx(c, op, to, tx, rx, info) == [c EXCEPT !.out = Append(@, Packet(op, to, tx, rx, info))]
Info(c, s) == Packet("Info", c.your, s.seq, c.vr, s.info)

Outstanding(c) == (c.vs - c.va + Mod) % Mod

\* How many waiting fragments the window has room for.
Room(c) == Min({Len(c.txq), Max({Window - Outstanding(c), 0})})

Pump(c) ==
    LET n == Room(c)
        new == [i \in 1..n |-> [seq |-> (c.vs + i - 1) % Mod, info |-> c.txq[i]]]
        d == [c EXCEPT !.txq = SubSeq(@, n + 1, Len(@)), !.vs = (@ + n) % Mod, !.sent = @ \o new,
                       !.out = @ \o [i \in 1..n |-> Info(c, new[i])]]
    IN  IF d.sent # <<>> /\ ~d.t1 THEN ArmFresh(d) ELSE d
----------------------------------------------------------------------------
(* The user's calls. *)

\* me is the number of this end's circuit.
DoConnect(c, me) == [ArmFresh(Tx(c, "ConnReq", me, 0, 0, NoInfo)) EXCEPT !.st = "connecting"]

DoDisconnect(c) ==
    IF c.st \in {"disconnected", "disconnecting"} THEN c
    ELSE [ArmFresh(Tx(c, "DiscReq", c.your, 0, 0, NoInfo)) EXCEPT !.st = "disconnecting"]

\* A message whose fragments do not all fit is dropped whole.
Fits(c, frags) == Len(c.txq) + Len(frags) <= MaxTxq

DoSend(c, frags) ==
    LET d == [c EXCEPT !.txq = @ \o frags] IN IF c.st = "connected" THEN Pump(d) ELSE d
----------------------------------------------------------------------------
(* Received packets. *)

OnConnReq(c, me, p) ==
    LET d == [c EXCEPT !.your = p.to, !.st = "connected",
                       !.crossed = @ \/ (c.st # "disconnected" /\ c.your # p.to)]
    IN  Pump(Tx(d, "ConnAck", p.to, me, 0, NoInfo))

OnConnAck(c, p) ==
    IF c.st # "connecting" THEN c
    ELSE Pump([Disarm(c) EXCEPT !.your = p.tx, !.st = "connected"])

OnDiscReq(c) ==
    [Disarm(Tx(c, "DiscAck", c.your, 0, 0, NoInfo)) EXCEPT !.st = "disconnected"]

OnDiscAck(c) == IF c.st = "disconnecting" THEN [Disarm(c) EXCEPT !.st = "disconnected"] ELSE c

\* A fragment in sequence: the last one completes the message.
Accept(c, frag) ==
    LET d == [c EXCEPT !.vr = (@ + 1) % Mod, !.frags = Append(@, frag)]
    IN  IF frag.more THEN d ELSE [d EXCEPT !.frags = <<>>, !.up = Append(@, d.frags)]

\* Mutant: fragments are taken as they come.
OnInfoAny(c, p) ==
    IF c.st # "connected" THEN c
    ELSE LET d == Accept(c, p.info) IN Tx(d, "InfoAck", d.your, 0, d.vr, NoInfo)

\* What is out of sequence is only acknowledged again.
OnInfo(c, p) ==
    IF c.st # "connected" THEN c
    ELSE LET d == IF p.tx = c.vr THEN Accept(c, p.info) ELSE c
         IN  Tx(d, "InfoAck", d.your, 0, d.vr, NoInfo)

\* An acknowledgement outside the window takes everything off.
Acked(c, r) == Min({(r - c.va + Mod) % Mod, Len(c.sent)})

\* Mutant: the timer is stopped by every acknowledgement.
OnInfoAckStops(c, p) ==
    LET k == Acked(c, p.rx)
        d == [c EXCEPT !.sent = SubSeq(@, k + 1, Len(@)), !.va = (@ + k) % Mod]
        e == Disarm(d)
    IN  IF e.st = "connected" /\ e.txq # <<>> THEN Pump(e) ELSE e

\* The timer is armed afresh or stopped in every state, those that wait for a ConnAck or a DiscAck included.
OnInfoAck(c, p) ==
    LET k == Acked(c, p.rx)
        d == [c EXCEPT !.sent = SubSeq(@, k + 1, Len(@)), !.va = (@ + k) % Mod]
        e == IF d.sent # <<>> THEN ArmFresh(d)
             ELSE [Disarm(d) EXCEPT !.stopped = @ \/ c.st # "connected"]
    IN  IF e.st = "connected" THEN Pump(e) ELSE e

OnPacket(c, me, p) ==
    CASE p.op = "ConnReq" -> OnConnReq(c, me, p)
      [] p.op = "ConnAck" -> OnConnAck(c, p)
      [] p.op = "DiscReq" -> OnDiscReq(c)
      [] p.op = "DiscAck" -> OnDiscAck(c)
      [] p.op = "Info" -> OnInfo(c, p)
      [] p.op = "InfoAck" -> OnInfoAck(c, p)
----------------------------------------------------------------------------
(* The timer: poll() once T1 is due. *)

\* What is sent again in each state.
Again(c, me) ==
    CASE c.st = "connecting" -> <<Packet("ConnReq", me, 0, 0, NoInfo)>>
      [] c.st = "disconnecting" -> <<Packet("DiscReq", c.your, 0, 0, NoInfo)>>
      [] c.st = "connected" -> [i \in DOMAIN c.sent |-> Info(c, c.sent[i])]
      [] OTHER -> <<>>

\* Mutant: retransmissions are not counted.
PollUncounted(c, me) == [c EXCEPT !.out = @ \o Again(c, me)]

Poll(c, me) ==
    IF c.rc >= N2 THEN [Disarm(c) EXCEPT !.st = "disconnected"]
    ELSE [c EXCEPT !.rc = @ + 1, !.out = @ \o Again(c, me)]
=============================================================================

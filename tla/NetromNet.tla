------------------------------ MODULE NetromNet ------------------------------
(***************************************************************************)
(* Two NET/ROM nodes (apps/ingest/src/netromnode.ts) with their circuits   *)
(* (NetromCircuit), over a network that keeps the order of packets and may *)
(* lose them.  A node dials circuits for its users, accepts those that     *)
(* come in, and hands each packet to the circuit it names; a circuit that  *)
(* is down is taken off the node's list.                                   *)
(*                                                                         *)
(* A circuit's timer expires when the network is silent, and up to         *)
(* MaxPremature times earlier, while an answer is still on its way.        *)
(***************************************************************************)
EXTENDS NetromCircuit

CONSTANTS A, B,
          Dialers,     \* nodes whose users connect onward
          Talkers,     \* nodes whose users send
          First,       \* First[n]: n's next circuit number at the start
          MaxFrags,    \* bound: fragments of a message
          MaxMsgs,     \* bound: messages the users send
          MaxCircuits, MaxDials, MaxHangups, MaxLosses, MaxPremature

VARIABLES circ,     \* circ[n][i]: circuit i of node n, on the list unless disconnected
          next,     \* next[n]: the number of n's next circuit
          chan,     \* chan[n]: packets on their way to n
          handed,   \* history: handed[n][i], messages handed over on that circuit
          got,      \* history: got[n][i], messages that came up on it
          used      \* how often each bounded event has happened

vars == <<circ, next, chan, handed, got, used>>

Node == {A, B}
Other(n) == CHOOSE m \in Node : m # n
Circuits == 1..MaxCircuits
Bounds == [dial |-> MaxDials, message |-> MaxMsgs, hangup |-> MaxHangups, loss |-> MaxLosses,
           premature |-> MaxPremature]

ASSUME NetAssumption == A # B /\ Dialers \subseteq Node /\ Talkers \subseteq Node
                           /\ First \in [Node -> Nat \ {0}]

Init ==
    /\ circ = [n \in Node |-> [i \in Circuits |-> NewCircuit]]
    /\ next = First
    /\ chan = [n \in Node |-> <<>>]
    /\ handed = [n \in Node |-> [i \in Circuits |-> 0]]
    /\ got = [n \in Node |-> [i \in Circuits |-> <<>>]]
    /\ used = [e \in DOMAIN Bounds |-> 0]

Use(e) == used[e] < Bounds[e] /\ used' = [used EXCEPT ![e] = @ + 1]
Listed(n, i) == circ[n][i].st # "disconnected"

\* A call at circuit i of n that leaves it as c, while the network holds ch.
Call(n, i, c, ch) ==
    /\ circ' = [circ EXCEPT ![n][i] = Settled(c)]
    /\ chan' = [ch EXCEPT ![Other(n)] = @ \o c.out]
    /\ got' = [got EXCEPT ![n][i] = @ \o c.up]

\* The dialer: a new circuit under the next number.
Dial(n) ==
    /\ n \in Dialers /\ next[n] \in Circuits
    /\ Use("dial")
    /\ Call(n, next[n], DoConnect(NewCircuit, next[n]), chan)
    /\ next' = [next EXCEPT ![n] = @ + 1]
    /\ UNCHANGED handed

Message(n, i, m, size) ==
    [k \in 1..size |-> [of |-> <<n, i, m>>, k |-> k, more |-> k < size]]

Send(n, i) ==
    /\ n \in Talkers /\ circ[n][i].st \in {"connecting", "connected"}
    /\ Use("message")
    /\ \E size \in 1..MaxFrags :
          LET frags == Message(n, i, handed[n][i] + 1, size) IN
          Fits(circ[n][i], frags) /\ Call(n, i, DoSend(circ[n][i], frags), chan)
    /\ handed' = [handed EXCEPT ![n][i] = @ + 1]
    /\ UNCHANGED next

Hangup(n, i) ==
    /\ circ[n][i].st \in {"connecting", "connected"}
    /\ Use("hangup")
    /\ Call(n, i, DoDisconnect(circ[n][i]), chan)
    /\ UNCHANGED <<next, handed>>

Rest(n) == [chan EXCEPT ![n] = Tail(@)]

\* The packet names a circuit on the list.
Demux(n) ==
    /\ chan[n] # <<>>
    /\ LET p == Head(chan[n]) IN
          /\ p.to \in Circuits /\ Listed(n, p.to)
          /\ Call(n, p.to, OnPacket(circ[n][p.to], p.to, p), Rest(n))
    /\ UNCHANGED <<next, handed, used>>

\* The circuits that may have accepted this connect request before.
Accepted(n, p) == {i \in Circuits : circ[n][i].your = p.to /\ circ[n][i].st = "connected"}

Strange(n) ==
    /\ chan[n] # <<>>
    /\ LET p == Head(chan[n]) IN ~(p.to \in Circuits /\ Listed(n, p.to))

\* A connect request that was repeated is acknowledged again by the circuit it made.
Reack(n) ==
    /\ Strange(n)
    /\ LET p == Head(chan[n]) IN
          /\ p.op = "ConnReq" /\ Accepted(n, p) # {}
          /\ LET i == Min(Accepted(n, p)) IN Call(n, i, OnPacket(circ[n][i], i, p), Rest(n))
    /\ UNCHANGED <<next, handed, used>>

\* Mutant: every connect request that names no circuit of this node opens one.
AcceptAlways(n) ==
    /\ Strange(n) /\ next[n] \in Circuits
    /\ LET p == Head(chan[n]) IN
          /\ p.op = "ConnReq"
          /\ Call(n, next[n], OnPacket(NewCircuit, next[n], p), Rest(n))
    /\ next' = [next EXCEPT ![n] = @ + 1]
    /\ UNCHANGED <<handed, used>>

AcceptInbound(n) ==
    /\ Strange(n) /\ next[n] \in Circuits
    /\ LET p == Head(chan[n]) IN
          /\ p.op = "ConnReq" /\ Accepted(n, p) = {}
          /\ Call(n, next[n], OnPacket(NewCircuit, next[n], p), Rest(n))
    /\ next' = [next EXCEPT ![n] = @ + 1]
    /\ UNCHANGED <<handed, used>>

\* Anything else for a circuit that is not there is dropped, and so, at the bound of this model, is
\* a connect request for which no number is left.
Ignore(n) ==
    /\ Strange(n)
    /\ LET p == Head(chan[n]) IN
          p.op = "ConnReq" => next[n] \notin Circuits /\ Accepted(n, p) = {}
    /\ chan' = Rest(n)
    /\ UNCHANGED <<circ, next, handed, got, used>>

Arrive(n) == Demux(n) \/ Reack(n) \/ AcceptInbound(n) \/ Ignore(n)

Lose(n) ==
    /\ chan[n] # <<>>
    /\ Use("loss")
    /\ chan' = Rest(n)
    /\ UNCHANGED <<circ, next, handed, got>>

Silent == \A n \in Node : chan[n] = <<>>

T1(n, i) ==
    /\ circ[n][i].t1
    /\ IF Silent THEN UNCHANGED used ELSE Use("premature")
    /\ Call(n, i, Poll(circ[n][i], i), chan)
    /\ UNCHANGED <<next, handed>>

Next == \E n \in Node :
    \/ Dial(n) \/ Arrive(n) \/ Lose(n)
    \/ \E i \in Circuits : Send(n, i) \/ Hangup(n, i) \/ T1(n, i)

Spec == Init /\ [][Next]_vars

\* The channel is a radio link that delivers what it does not lose, and the node polls its circuits
\* every second: while nothing is on its way, a timer that is armed expires.
Fairness ==
    /\ \A n \in Node : []<>(chan[n] = <<>>)
    /\ WF_vars(Silent /\ \E n \in Node : \E i \in Circuits : T1(n, i))

FairSpec == Spec /\ Fairness
----------------------------------------------------------------------------
\* The type invariant: counters within the modulus, and the unacknowledged fragments are exactly the
\* ones numbered from V(A) up to V(S), at most a window of them.
TypeOK ==
    \A n \in Node : \A i \in Circuits :
        LET c == circ[n][i] IN
        /\ c.st \in CircuitState /\ c.rc \in 0..N2 /\ c.your \in 0..MaxCircuits
        /\ {c.vs, c.va, c.vr} \subseteq 0..(Mod - 1)
        /\ Len(c.sent) = Outstanding(c) /\ Len(c.sent) <= Window
        /\ \A k \in DOMAIN c.sent : c.sent[k].seq = (c.va + k - 1) % Mod

Crossed == \E n \in Node : \E i \in Circuits : circ[n][i].crossed

(***************************************************************************)
(* What comes up on a circuit are the messages one circuit of the other    *)
(* node was given, whole, from the first on and in order: nothing twice,   *)
(* nothing of another circuit, no message put together from two.  This     *)
(* fails once a node took a connect request for one of its own circuits,   *)
(* because the number the sender gave it is also one of the node's.        *)
(***************************************************************************)
OneStream == Crossed \/
    \A n \in Node : \A i \in Circuits : got[n][i] # <<>> =>
        \E o \in Circuits : \A j \in DOMAIN got[n][i] :
            \E size \in 1..MaxFrags : got[n][i][j] = Message(Other(n), o, j, size)

\* A connect request that is repeated because its answer was lost opens one circuit, not two.
OneCircuitPerDial == Crossed \/
    \A n \in Node : \A i, j \in Circuits :
        i # j /\ circ[n][i].st = "connected" /\ circ[n][j].st = "connected"
          => circ[n][i].your # circ[n][j].your

\* A connect request ends: with a circuit, or given up after N2 repetitions.
ConnectEnds ==
    \A n \in Dialers : \A i \in Circuits :
        circ[n][i].st = "connecting" ~> circ[n][i].st # "connecting" \/ circ[n][i].stopped

(***************************************************************************)
(* netrom-circuit.ts 46-47: the circuit is "eventually torn down instead   *)
(* of wedging forever".  It is, unless an acknowledgement arrived while    *)
(* the DiscReq was outstanding and stopped its timer.                      *)
(***************************************************************************)
DisconnectEnds ==
    \A n \in Node : \A i \in Circuits :
        circ[n][i].st = "disconnecting" ~> circ[n][i].st = "disconnected" \/ circ[n][i].stopped

\* Both requests of a circuit end: they are answered or given up after N2 repetitions.
RequestsEnd == ConnectEnds /\ DisconnectEnds

\* Every message handed over comes up at the other node, unless the circuit goes down.
Delivered ==
    \A n \in Talkers : \A i \in Circuits : \A m \in 1..MaxMsgs :
        handed[n][i] >= m ~>
            \/ circ[n][i].st \in {"disconnecting", "disconnected"} \/ Crossed
            \/ \E o \in Circuits : \E j \in DOMAIN got[Other(n)][o] :
                  got[Other(n)][o][j][1].of = <<n, i, m>>
=============================================================================

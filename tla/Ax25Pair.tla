------------------------------- MODULE Ax25Pair -------------------------------
(***************************************************************************)
(* Two stations, each a ConnectedLink (Ax25Link) to the other, over a      *)
(* channel that keeps the order of frames and may lose them: a radio       *)
(* channel or an AXIP port, as apps/ingest and apps/web run the link.      *)
(*                                                                         *)
(* An armed T1 expires when the channel is silent, T3 (ten times as long)  *)
(* when it is silent and no T1 runs; up to MaxPremature times a timer also *)
(* expires earlier, while an answer is still on its way.  Layer-3 data is  *)
(* numbered per station in the order it was handed to send().              *)
(***************************************************************************)
EXTENDS Ax25Link

CONSTANTS A, B,
          Caller,        \* stations that call connect()
          Mod,           \* cfg.modulo of a caller: Basic or Extended
          Established,   \* start from a link that is up, as after SABM and UA
          SendIn,        \* the states in which layer 3 hands data over
          Talker,        \* stations whose layer 3 sends
          MaxMsgs, MaxConnects, MaxDisconnects, MaxProbes, MaxLosses, MaxPremature

VARIABLES link,       \* link[s]: the ConnectedLink of s
          chan,       \* chan[s]: frames on their way to s
          given,      \* given[s]: how many pieces of data s's layer 3 handed over
          delivered,  \* delivered[s]: what came up at s, in order
          used        \* how often each bounded event has happened

vars == <<link, chan, given, delivered, used>>

Station == {A, B}
Peer(s) == CHOOSE p \in Station : p # s
Bounds == [connect |-> MaxConnects, disconnect |-> MaxDisconnects, probe |-> MaxProbes,
           loss |-> MaxLosses, premature |-> MaxPremature]

ASSUME PairAssumption == A # B /\ Mod \in {Basic, Extended} /\ SendIn \subseteq LinkState

\* Both ends as the SABM and its UA leave them.
Fresh == IF Established THEN [NewLink(Mod) EXCEPT !.st = "connected", !.t3 = TRUE] ELSE NewLink(Mod)

Init ==
    /\ link = [s \in Station |-> Fresh]
    /\ chan = [s \in Station |-> <<>>]
    /\ given = [s \in Station |-> 0]
    /\ delivered = [s \in Station |-> <<>>]
    /\ used = [e \in DOMAIN Bounds |-> 0]

Use(e) == used[e] < Bounds[e] /\ used' = [used EXCEPT ![e] = @ + 1]

\* A call at s that leaves its link as l: what it sent and handed up goes out.
Call(s, l) ==
    /\ link' = [link EXCEPT ![s] = Settled(l)]
    /\ delivered' = [delivered EXCEPT ![s] = @ \o l.up]

Transmit(s, l) == chan' = [chan EXCEPT ![Peer(s)] = @ \o l.out]

UserConnect(s) ==
    /\ s \in Caller /\ link[s].st = "disconnected"
    /\ Use("connect")
    /\ LET l == DoConnect(link[s], Mod) IN Call(s, l) /\ Transmit(s, l)
    /\ UNCHANGED given

UserDisconnect(s) ==
    /\ link[s].st # "disconnected"
    /\ Use("disconnect")
    /\ LET l == DoDisconnect(link[s]) IN Call(s, l) /\ Transmit(s, l)
    /\ UNCHANGED given

UserSend(s) ==
    /\ s \in Talker /\ given[s] < MaxMsgs /\ link[s].st \in SendIn
    /\ given' = [given EXCEPT ![s] = @ + 1]
    /\ LET l == DoSend(link[s], given[s] + 1) IN Call(s, l) /\ Transmit(s, l)
    /\ UNCHANGED used

UserProbe(s) ==
    /\ CanProbe(link[s])
    /\ Use("probe")
    /\ LET l == DoProbe(link[s]) IN Call(s, l) /\ Transmit(s, l)
    /\ UNCHANGED given

Receive(s) ==
    /\ chan[s] # <<>>
    /\ LET l == OnReceive(link[s], Head(chan[s]))
       IN  /\ Call(s, l)
           /\ chan' = [chan EXCEPT ![s] = Tail(@), ![Peer(s)] = @ \o l.out]
    /\ UNCHANGED <<given, used>>

Lose(s) ==
    /\ chan[s] # <<>>
    /\ Use("loss")
    /\ chan' = [chan EXCEPT ![s] = Tail(@)]
    /\ UNCHANGED <<link, given, delivered>>

Silent == \A s \in Station : chan[s] = <<>>

\* A timer expires when nothing it waits for can still come, or prematurely.
Expire(due) == IF due THEN UNCHANGED used ELSE Use("premature")

T1(s) ==
    /\ link[s].t1 /\ Expire(Silent)
    /\ LET l == OnT1(link[s]) IN Call(s, l) /\ Transmit(s, l)
    /\ UNCHANGED given

T3Due(s) == Silent /\ \A p \in Station : ~link[p].t1

T3(s) ==
    /\ link[s].t3 /\ Expire(T3Due(s))
    /\ LET l == OnT3(link[s]) IN Call(s, l) /\ Transmit(s, l)
    /\ UNCHANGED given

Next == \E s \in Station :
    \/ UserConnect(s) \/ UserDisconnect(s) \/ UserSend(s) \/ UserProbe(s)
    \/ Receive(s) \/ Lose(s) \/ T1(s) \/ T3(s)

Spec == Init /\ [][Next]_vars

(***************************************************************************)
(* Frames that are not lost arrive, and the host's clock calls poll() for  *)
(* ever, so a timer that is due expires.  Nothing else is fair.  The first *)
(* conjunct is WF_vars(Receive(s)) with its enabling condition written     *)
(* out: Receive is enabled exactly when a frame is on its way to s.        *)
(***************************************************************************)
Fairness ==
    \A s \in Station :
        /\ []<>(chan[s] = <<>>) \/ []<><<Receive(s)>>_vars
        /\ WF_vars(Silent /\ T1(s))
        /\ WF_vars(T3Due(s) /\ T3(s))

FairSpec == Spec /\ Fairness
----------------------------------------------------------------------------
\* The type invariant: both links keep their counters within the modulus and their retries within N2.
TypeOK ==
    /\ \A s \in Station : LinkOK(link[s])
    /\ \A s \in Station : given[s] \in 0..MaxMsgs /\ delivered[s] \in Seq(1..MaxMsgs)

(***************************************************************************)
(* Whatever calls, resets and reconnects happen, no piece of data comes up *)
(* twice and none comes up after a later one.                              *)
(***************************************************************************)
InOrder ==
    \A s \in Station : \A i, j \in DOMAIN delivered[s] : i < j => delivered[s][i] < delivered[s][j]

\* What a pair of links promises: a reliable stream in each direction.
Stream == INSTANCE ReliableStream WITH taken <- [s \in Station |-> delivered[Peer(s)]]

(***************************************************************************)
(* A link that is up is a reliable stream in both directions: the data     *)
(* that comes up at one end is the data handed over at the other, from the *)
(* first piece on, in order, without a gap and without a copy.             *)
(***************************************************************************)
IsReliableStream == Stream!Spec

(***************************************************************************)
(* The T3 keepalive: a link that is up is never silent for ever.           *)
(***************************************************************************)
KeptAlive == \A s \in Station : []<>(link[s].st \notin Up \/ ~Silent)

(***************************************************************************)
(* A connect or disconnect request ends: answered, or given up after N2    *)
(* repetitions.                                                            *)
(***************************************************************************)
RequestsEnd ==
    \A s \in Station : link[s].st \in {"connecting", "disconnecting"}
                         ~> link[s].st \in Up \cup {"disconnected"}

(***************************************************************************)
(* A link is not half open for ever: an end that believes it is up while   *)
(* the other is down finds out by its T3 poll and gives up.                *)
(***************************************************************************)
HalfOpenEnds == []<>((link[A].st \in Up) = (link[B].st \in Up))

\* The T3 keepalive does both: it goes on while a link is up, and finds an end that is gone.
Supervised == KeptAlive /\ HalfOpenEnds

(***************************************************************************)
(* Every piece of data handed over comes up at the other end, unless the   *)
(* link gives up and the sender's host sees it go down.                    *)
(***************************************************************************)
EventuallyDelivered ==
    \A s \in Station : \A n \in 1..MaxMsgs :
        given[s] >= n ~> Len(delivered[Peer(s)]) >= n \/ link[s].st = "disconnected"
============================================================================

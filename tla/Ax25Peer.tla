------------------------------- MODULE Ax25Peer -------------------------------
(***************************************************************************)
(* One ConnectedLink (Ax25Link) whose peer is any station at all: another  *)
(* implementation, one that lost its state, one that answers late or not   *)
(* at all.  Every frame the decoder can produce for this link may arrive   *)
(* in every state, and every armed timer may expire at any time.           *)
(***************************************************************************)
EXTENDS Ax25Link

CONSTANTS Mod,       \* cfg.modulo: Basic or Extended
          MaxMsgs    \* pieces of data layer 3 hands over

ASSUME PeerAssumption == Mod \in {Basic, Extended} /\ MaxMsgs \in Nat

VARIABLES link,        \* the ConnectedLink
          given,       \* how many pieces of data layer 3 has handed over
          unanswered   \* expiries of T1 since the link last heard or was asked anything

vars == <<link, given, unanswered>>

\* The decoder reads N(S) and N(R) modulo the link's modulus.
Frames(mod) ==
    [type : {"SABM", "SABME", "DISC", "UA", "DM", "FRMR"}, command : {TRUE}, pf : BOOLEAN,
     nr : {0}, ns : {0}, info : {0}]
    \cup [type : {"RR", "RNR", "REJ", "SREJ"}, command : BOOLEAN, pf : BOOLEAN,
          nr : 0..(mod - 1), ns : {0}, info : {0}]
    \cup [type : {"I"}, command : {TRUE}, pf : BOOLEAN,
          nr : 0..(mod - 1), ns : 0..(mod - 1), info : {0}]

Init == link = NewLink(Mod) /\ given = 0 /\ unanswered = 0

Becomes(l) == link' = Settled(l)

UserConnect ==
    /\ link.st = "disconnected"
    /\ Becomes(DoConnect(link, Mod)) /\ unanswered' = 0 /\ UNCHANGED given

UserDisconnect ==
    /\ link.st # "disconnected"
    /\ Becomes(DoDisconnect(link)) /\ unanswered' = 0 /\ UNCHANGED given

UserSend ==
    /\ given < MaxMsgs
    /\ given' = given + 1
    /\ Becomes(DoSend(link, given + 1)) /\ UNCHANGED unanswered

UserProbe ==
    /\ CanProbe(link)
    /\ Becomes(DoProbe(link)) /\ UNCHANGED <<given, unanswered>>

Receive(f) == Becomes(OnReceive(link, f)) /\ unanswered' = 0 /\ UNCHANGED given

T1 ==
    /\ link.t1
    /\ Becomes(OnT1(link)) /\ unanswered' = unanswered + 1 /\ UNCHANGED given

T3 ==
    /\ link.t3
    /\ Becomes(OnT3(link)) /\ UNCHANGED given
    /\ unanswered' = IF link.st = "connected" THEN 0 ELSE unanswered

Next ==
    \/ UserConnect \/ UserDisconnect \/ UserSend \/ UserProbe
    \/ \E f \in Frames(link.mod) : Receive(f)
    \/ T1 \/ T3

Spec == Init /\ [][Next]_vars
----------------------------------------------------------------------------
\* Unacknowledged and queued data is in the order it was handed over, without copies.
QueueInOrder ==
    LET waiting == [i \in DOMAIN link.sent |-> link.sent[i].info] \o link.pending
    IN  \A i, j \in DOMAIN waiting : i < j => waiting[i] < waiting[j]

(***************************************************************************)
(* No peer, however it numbers its frames, can bring the list of           *)
(* unacknowledged I-frames out of step with V(A) and V(S) or past the      *)
(* window: what ackOwn() drops is what N(R) names.  Rejects, selective     *)
(* rejects, recovery and busy peers never reorder or copy what waits.      *)
(***************************************************************************)
SentOK == SentInSequence(link) /\ QueueInOrder

(***************************************************************************)
(* No peer can leave the link waiting without a timer: an unanswered       *)
(* connect, disconnect or I-frame always has T1 running, a link that is up *)
(* has T1 or T3, and a link that is down has neither.                      *)
(***************************************************************************)
NeverUntimed == Timed(link)

(***************************************************************************)
(* N2: after at most N2 + 1 expiries of T1 in a row with nothing heard in  *)
(* between, the link is down.                                              *)
(***************************************************************************)
GivesUp == unanswered <= N2 + 1 /\ (unanswered = N2 + 1 => link.st = "disconnected")
============================================================================

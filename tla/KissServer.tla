------------------------------ MODULE KissServer ------------------------------
(***************************************************************************)
(* The KISS-over-TCP server that shares the box's radio ports with other   *)
(* applications: KissServer of apps/ingest/src/hubserver.ts around         *)
(* KissServerCore of packages/hub/src/kissserver.ts.  It composes the      *)
(* transmit arbiter (TxArbiter) and the token bucket (TokenBucket).        *)
(*                                                                         *)
(* The process is one event loop.  task is the handler that is running: a  *)
(* client's read, which offers its frames one by one, or pump(), which     *)
(* hands waiting frames to the radios.  A new event (data, close, timer,   *)
(* connection) is taken up only when no handler runs, and handlers take no *)
(* time.  Of a data frame only its port and whether the policy lets it     *)
(* through are kept.  Receive (heard()) changes nothing here except that a *)
(* client that does not read is closed, which Close covers.                *)
(***************************************************************************)
EXTENDS Integers, Sequences, FiniteSets, SequencesExt, FiniteSetsExt

CONSTANTS Clients, Ports, Sizes,
          FramesPerMinute, BytesPerMinute, MaxQueue, MaxAge, Minute, NoPort,
          Burst, Refill, Second,
          MaxClients,   \* KISS_SERVER_MAX_CLIENTS
          MaxChunk,     \* bound: data frames in one read
          MaxReads,     \* bound: reads in a behaviour
          MaxOffers, MaxNow

\* What the arbiter and the bucket assume of their parameters.
ASSUME KissAssumption ==
    /\ FramesPerMinute \in Nat /\ BytesPerMinute \in Nat /\ MaxAge \in Nat
    /\ Minute \in Nat \ {0} /\ MaxQueue \in Nat \ {0}
    /\ Sizes \subseteq Nat /\ MaxOffers \in Nat /\ MaxNow \in Nat
    /\ IsFiniteSet(Ports) /\ NoPort \notin Ports
    /\ Burst \in Nat \ {0} /\ Refill \in Nat \ {0} /\ Second \in Nat \ {0}

VARIABLES now, ring, turn, queues, spent, drops, serving, offers, accepted, taken, passed,
          level, at,   \* the bucket
          view,        \* view[c]: the ports client c sees; none when it is not connected
          order,       \* the ports the arbiter has a rotation for, as they were added
          timer,       \* when the pump's timer is due, 0 when none is set
          task,        \* the handler that runs
          refused,     \* refused[c][why]: the server's own counts of c's refused frames
          reads,       \* how many reads there were
          got,         \* history: data frames read from c
          sent,        \* history: sent[c], frames of c handed to a radio
          sends        \* history: when a frame was handed to a radio

arbiterVars == <<ring, turn, queues, spent, drops, serving, offers, accepted, taken, passed>>
vars == <<now, arbiterVars, level, at, view, order, timer, task, refused, reads, got, sent, sends>>

Arbiter == INSTANCE TxArbiter
Bucket == INSTANCE TokenBucket WITH elapsed <- now, taken <- sends, promised <- <<>>,
                                    MaxElapsed <- MaxNow, Steps <- {}

\* "policy" stands for tx-off, port, invalid and call.
TxRefusal == {"policy", "gate"} \cup Arbiter!DropReason
NoRefusals == [why \in TxRefusal |-> 0]
Idle == [do |-> "idle"]
Connected == {c \in Clients : view[c] # {}}

Init ==
    /\ Arbiter!Init
    /\ level = Bucket!Full /\ at = 0
    /\ view = [c \in Clients |-> {}]
    /\ order = <<>> /\ timer = 0 /\ task = Idle
    /\ refused = [c \in Clients |-> NoRefusals]
    /\ reads = 0 /\ got = [c \in Clients |-> 0] /\ sent = [c \in Clients |-> 0] /\ sends = <<>>

Tick ==
    /\ task = Idle
    /\ Arbiter!Tick
    /\ UNCHANGED <<level, at, view, order, timer, task, refused, reads, got, sent, sends>>
----------------------------------------------------------------------------
(* Clients. *)

\* A client sees every port, or the one its listener carries.
Connect(c) ==
    /\ task = Idle
    /\ view[c] = {} /\ Cardinality(Connected) < MaxClients
    /\ \E ports \in {Ports} \cup {{p} : p \in Ports} : view' = [view EXCEPT ![c] = ports]
    /\ UNCHANGED <<now, arbiterVars, level, at, order, timer, task, refused, reads, got, sent, sends>>

Close(c) ==
    /\ task = Idle /\ view[c] # {}
    /\ Arbiter!RemoveClient(c)
    /\ view' = [view EXCEPT ![c] = {}]
    /\ refused' = [refused EXCEPT ![c] = NoRefusals]
    /\ got' = [got EXCEPT ![c] = 0] /\ sent' = [sent EXCEPT ![c] = 0]
    /\ UNCHANGED <<level, at, order, timer, task, reads, sends>>

\* A read that holds n data frames.
Data(c, n) ==
    /\ task = Idle /\ view[c] # {}
    /\ reads < MaxReads /\ reads' = reads + 1
    /\ task' = [do |-> "read", conn |-> c, left |-> n, queued |-> FALSE]
    /\ UNCHANGED <<now, arbiterVars, level, at, view, order, timer, refused, got, sent, sends>>

Reading(c) == task.do = "read" /\ task.conn = c /\ task.left > 0

\* Mutant: a refused frame forgets that an earlier one was queued.
ReadRefuseForgets(c) ==
    /\ Reading(c)
    /\ refused' = [refused EXCEPT ![c]["policy"] = @ + 1]
    /\ got' = [got EXCEPT ![c] = @ + 1]
    /\ task' = [task EXCEPT !.left = @ - 1, !.queued = FALSE]
    /\ UNCHANGED <<now, arbiterVars, level, at, view, order, timer, reads, sent, sends>>

\* The policy turns the next frame of the read away.
ReadRefuse(c) ==
    /\ Reading(c)
    /\ refused' = [refused EXCEPT ![c]["policy"] = @ + 1]
    /\ got' = [got EXCEPT ![c] = @ + 1]
    /\ task' = [task EXCEPT !.left = @ - 1]
    /\ UNCHANGED <<now, arbiterVars, level, at, view, order, timer, reads, sent, sends>>

\* What the arbiter says it refused or dropped because of an offer.
Dropped(c) == {why \in Arbiter!DropReason : drops'[c][why] > drops[c][why]}

\* Mutant: only a frame that was not queued counts as refused.
RefusedUnqueued(c) ==
    [why \in TxRefusal |->
        refused[c][why] + IF why \in Dropped(c) /\ accepted'[c] = accepted[c] THEN 1 ELSE 0]

RefusedAfter(c) ==
    [why \in TxRefusal |-> refused[c][why] + IF why \in Dropped(c) THEN 1 ELSE 0]

\* The next frame of the read is offered to the arbiter.
ReadOffer(c, p, bytes) ==
    /\ Reading(c) /\ p \in view[c]
    /\ Arbiter!Offer(c, p, bytes)
    /\ LET queued == accepted'[c] # accepted[c]
       IN  /\ task' = [task EXCEPT !.left = @ - 1, !.queued = @ \/ queued]
           /\ order' = IF queued /\ p \notin Range(order) THEN Append(order, p) ELSE order
    /\ refused' = [refused EXCEPT ![c] = RefusedAfter(c)]
    /\ got' = [got EXCEPT ![c] = @ + 1]
    /\ UNCHANGED <<level, at, view, timer, reads, sent, sends>>

Pump == [do |-> "pump", left |-> <<>>]

\* The end of a read: pump() if a frame was queued, which returns if its timer is set.
EndRead ==
    /\ task.do = "read" /\ task.left = 0
    /\ task' = IF task.queued /\ timer = 0 THEN Pump ELSE Idle
    /\ UNCHANGED <<now, arbiterVars, level, at, view, order, timer, refused, reads, got, sent, sends>>
----------------------------------------------------------------------------
(* pump() *)

\* The ports with a frame waiting, in the order the arbiter first met them.
Waiting == SelectSeq(order, LAMBDA p : ring[p] # <<>>)

SomeWaiting == \E p \in Range(order) : ring[p] # <<>>

\* Another pass over the ports, or the end when nothing waits.
PumpPass ==
    /\ task.do = "pump" /\ task.left = <<>>
    /\ task' = IF SomeWaiting THEN [task EXCEPT !.left = Waiting] ELSE Idle
    /\ UNCHANGED <<now, arbiterVars, level, at, view, order, timer, refused, reads, got, sent, sends>>

AtPort(p) == task.do = "pump" /\ task.left # <<>> /\ Head(task.left) = p

\* Mutant: the bucket is asked only before the first port of a pass.
MayPassFirst == Bucket!Wait = 0 \/ Len(task.left) < Len(Waiting)

MayPass == Bucket!Wait = 0

\* No token: sleep until there is one.
PumpSleep(p) ==
    /\ AtPort(p) /\ serving = NoPort /\ ~MayPass
    /\ Bucket!Refilled(Bucket!Level)
    /\ timer' = now + Bucket!Wait
    /\ task' = Idle
    /\ UNCHANGED <<now, arbiterVars, view, order, refused, reads, got, sent, sends>>

\* take(), whose answer the pump does not look at.
TakeToken == Bucket!Refilled(IF Bucket!Level >= Refill THEN Bucket!Level - Refill ELSE Bucket!Level)

\* A frame whose turn has come goes to its radio; the transmit gate may refuse it.
HandOver(c) ==
    /\ TakeToken
    /\ sends' = Append(sends, now)
    /\ \/ sent' = [sent EXCEPT ![c] = @ + 1] /\ UNCHANGED refused
       \/ refused' = [refused EXCEPT ![c]["gate"] = @ + 1] /\ UNCHANGED sent
    /\ task' = [task EXCEPT !.left = Tail(@)]

\* next(): a stale frame is passed over and the search goes on.
PumpTurn(p) ==
    /\ AtPort(p) /\ (serving = p \/ MayPass)
    /\ Arbiter!Turn(p)
    /\ IF serving' = NoPort
       THEN HandOver(ring[p][turn[p] + 1])
       ELSE UNCHANGED <<level, at, task, refused, sent, sends>>
    /\ UNCHANGED <<view, order, timer, reads, got>>

\* next() found only stale frames: on to the next port.
PumpNull(p) ==
    /\ AtPort(p)
    /\ Arbiter!NoTurn(p)
    /\ task' = [task EXCEPT !.left = Tail(@)]
    /\ UNCHANGED <<level, at, view, order, timer, refused, reads, got, sent, sends>>

TimerFires ==
    /\ task = Idle /\ timer # 0 /\ now >= timer
    /\ timer' = 0 /\ task' = Pump
    /\ UNCHANGED <<now, arbiterVars, level, at, view, order, refused, reads, got, sent, sends>>

Next ==
    \/ Tick \/ EndRead \/ PumpPass \/ TimerFires
    \/ \E c \in Clients :
          \/ Connect(c) \/ Close(c)
          \/ \E n \in 1..MaxChunk : Data(c, n)
          \/ ReadRefuse(c)
          \/ \E p \in Ports, b \in Sizes : ReadOffer(c, p, b)
    \/ \E p \in Ports : PumpSleep(p) \/ PumpTurn(p) \/ PumpNull(p)

Spec == Init /\ [][Next]_vars
----------------------------------------------------------------------------
(***************************************************************************)
(* No lost wake-up: when no handler runs and a client frame waits, the     *)
(* pump's timer is set, so the frame does not wait for the next read.      *)
(***************************************************************************)
NoLostWakeup == task = Idle /\ (\E p \in Ports : ring[p] # <<>>) => timer # 0

(***************************************************************************)
(* Whatever the clients send, over all ports together the radios are       *)
(* handed at most burst frames at once and one more every refillSec.       *)
(***************************************************************************)
SendsPaced == Bucket!Paced

\* A frame waits, and goes out, only for a connected client and only on a port that client sees.
OnlyForClients == \A p \in Ports : \A c \in Range(ring[p]) : p \in view[c]

(***************************************************************************)
(* Nothing a client sends vanishes: every data frame read was handed to a  *)
(* radio, still waits, or is in the counts read() gives, under one reason; *)
(* and nothing waits for a client that has gone.                           *)
(***************************************************************************)
FramesAccounted ==
    /\ OnlyForClients
    /\ \A c \in Connected :
          LET waiting == MapThenSumSet(LAMBDA p : Len(queues[p][c]), Ports)
              counted == MapThenSumSet(LAMBDA why : refused[c][why], TxRefusal)
          IN  got[c] = sent[c] + waiting + counted + drops[c]["stale"]
============================================================================

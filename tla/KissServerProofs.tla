-------------------------- MODULE KissServerProofs --------------------------
(***************************************************************************)
(* Proofs about the KISS server, for any clients, ports and limits.  The   *)
(* server keeps to the contracts of the arbiter and of the token bucket,   *)
(* so that what is proved of these holds of it, and its pump is never left *)
(* asleep with a frame waiting.                                            *)
(***************************************************************************)
EXTENDS KissServer, TLAPS

AP == INSTANCE TxArbiterProofs
BP == INSTANCE TokenBucketProofs WITH elapsed <- now, taken <- sends, promised <- <<>>,
                                      MaxElapsed <- MaxNow, Steps <- {}

LEMMA ArbiterParameters == AP!ArbiterAssumption
BY KissAssumption DEF AP!ArbiterAssumption, IsFiniteSet, AP!IsFiniteSet

LEMMA BucketParameters == BP!BucketAssumption
BY KissAssumption DEF BP!BucketAssumption
-----------------------------------------------------------------------------
(***************************************************************************)
(* The arbiter the server uses and the one TxArbiterProofs is about are    *)
(* two instances of one module.                                            *)
(***************************************************************************)
LEMMA SameCount == ASSUME NEW S PROVE Arbiter!Cardinality(S) = AP!Cardinality(S)
BY DEF Arbiter!Cardinality, AP!Cardinality, Arbiter!IsFiniteSet, AP!IsFiniteSet

LEMMA SameBytes == ASSUME NEW S PROVE Arbiter!BytesOf(S) = AP!BytesOf(S)
BY DEF Arbiter!BytesOf, AP!BytesOf, Arbiter!MapThenSumSet, AP!MapThenSumSet,
       Arbiter!MapThenFoldSet, AP!MapThenFoldSet

LEMMA SameInit == Arbiter!Init => AP!Init
BY DEF Arbiter!Init, AP!Init, Arbiter!NoDrops, AP!NoDrops, Arbiter!DropReason, AP!DropReason

LEMMA SameOffer ==
    ASSUME NEW c, NEW p, NEW b, Arbiter!Offer(c, p, b) PROVE AP!Offer(c, p, b)
BY SameCount, SameBytes
   DEF Arbiter!Offer, AP!Offer, Arbiter!Accept, AP!Accept, Arbiter!RefuseFrames, AP!RefuseFrames,
       Arbiter!RefuseBytes, AP!RefuseBytes, Arbiter!Recent, AP!Recent, Arbiter!Count, AP!Count,
       Arbiter!WithinFrames, AP!WithinFrames, Arbiter!WithinBytes, AP!WithinBytes,
       Arbiter!Push, AP!Push, Arbiter!Forget, AP!Forget

LEMMA SameTurn == ASSUME NEW p, Arbiter!Turn(p) PROVE AP!Turn(p)
BY DEF Arbiter!Turn, AP!Turn, Arbiter!ServeTurn, AP!ServeTurn, Arbiter!RemoveAt, AP!RemoveAt,
       Arbiter!Wrap, AP!Wrap, Arbiter!Pass, AP!Pass, Arbiter!Range, AP!Range,
       Arbiter!Count, AP!Count, Arbiter!Forget, AP!Forget

LEMMA SameRemove == ASSUME NEW c, Arbiter!RemoveClient(c) PROVE AP!RemoveClient(c)
BY DEF Arbiter!RemoveClient, AP!RemoveClient, Arbiter!RemoveAt, AP!RemoveAt,
       Arbiter!Wrap, AP!Wrap, Arbiter!Range, AP!Range, Arbiter!Forget, AP!Forget,
       Arbiter!TurnWithout, AP!TurnWithout, Arbiter!IndexIn, AP!IndexIn,
       Arbiter!NoDrops, AP!NoDrops, Arbiter!DropReason, AP!DropReason

LEMMA SameNext == [Arbiter!Next]_Arbiter!vars => [AP!Next]_AP!vars
<1>1. ASSUME NEW p, Arbiter!NoTurn(p) PROVE AP!NoTurn(p)
  BY <1>1 DEF Arbiter!NoTurn, AP!NoTurn
<1>2. Arbiter!Next => AP!Next
  BY <1>1, SameOffer, SameTurn, SameRemove, Zenon DEF Arbiter!Next, AP!Next, Arbiter!Tick, AP!Tick
<1>. QED
  BY <1>2 DEF Arbiter!vars, AP!vars

LEMMA SameSpec == Arbiter!Spec => AP!Spec
BY SameInit, SameNext, PTL DEF Arbiter!Spec, AP!Spec
-----------------------------------------------------------------------------
(***************************************************************************)
(* Every step of the server is one operation of the arbiter or leaves it   *)
(* alone.                                                                  *)
(***************************************************************************)
LEMMA ArbiterStep == [Next]_vars => [Arbiter!Next]_Arbiter!vars
<1>. SUFFICES ASSUME Next PROVE Arbiter!Next \/ UNCHANGED Arbiter!vars
  BY DEF vars, arbiterVars, Arbiter!vars
<1>1. CASE Tick
  BY <1>1 DEF Tick, Arbiter!Next
<1>2. CASE EndRead \/ PumpPass \/ TimerFires
  BY <1>2 DEF EndRead, PumpPass, TimerFires, arbiterVars, Arbiter!vars
<1>3. ASSUME NEW c \in Clients, Close(c) PROVE Arbiter!Next
  BY <1>3 DEF Close, Arbiter!Next
<1>4. ASSUME NEW c \in Clients, \/ Connect(c) \/ ReadRefuse(c)
                                \/ \E n \in 1..MaxChunk : Data(c, n)
      PROVE  UNCHANGED Arbiter!vars
  BY <1>4 DEF Connect, ReadRefuse, Data, arbiterVars, Arbiter!vars
<1>5. ASSUME NEW c \in Clients, NEW p \in Ports, NEW b \in Sizes, ReadOffer(c, p, b)
      PROVE  Arbiter!Next
  BY <1>5 DEF ReadOffer, Arbiter!Next
<1>6. ASSUME NEW p \in Ports, PumpSleep(p) PROVE UNCHANGED Arbiter!vars
  BY <1>6 DEF PumpSleep, arbiterVars, Arbiter!vars
<1>7. ASSUME NEW p \in Ports, PumpTurn(p) \/ PumpNull(p) PROVE Arbiter!Next
  BY <1>7 DEF PumpTurn, PumpNull, Arbiter!Next
<1>. QED
  BY <1>1, <1>2, <1>3, <1>4, <1>5, <1>6, <1>7 DEF Next

(***************************************************************************)
(* The server uses the arbiter as its specification says: the calls of the *)
(* event loop, the read handlers and the pump never meet inside next().    *)
(***************************************************************************)
THEOREM UsesArbiter == Spec => Arbiter!Spec
<1>1. Init => Arbiter!Init
  BY DEF Init
<1>. QED
  BY <1>1, ArbiterStep, PTL DEF Spec, Arbiter!Spec

(***************************************************************************)
(* So the arbiter's own guarantees hold with every client, read and timer  *)
(* around it: the rotations are sound, no client exceeds its frames or its *)
(* bytes per minute, none has two turns while another waits, and every     *)
(* frame the arbiter drops is counted.                                     *)
(***************************************************************************)
THEOREM ArbiterGuarantees ==
    Spec => [](/\ Arbiter!RotationOK /\ Arbiter!BudgetKept /\ Arbiter!BytesKept
               /\ Arbiter!BusyClientWaits /\ Arbiter!DropsCounted)
<1>1. AP!Spec => [](AP!TypeOK /\ AP!RotationOK)
  BY ArbiterParameters, AP!RotationTheorem
<1>2. AP!Spec => []AP!BudgetKept
  BY ArbiterParameters, AP!BudgetTheorem
<1>3. AP!RotationOK => Arbiter!RotationOK
  BY DEF Arbiter!RotationOK, AP!RotationOK, Arbiter!IsInjective, AP!IsInjective,
         Arbiter!Range, AP!Range
<1>4. AP!BudgetKept => Arbiter!BudgetKept
  BY SameCount, Zenon DEF Arbiter!BudgetKept, AP!BudgetKept, Arbiter!Within, AP!Within
<1>5. AP!Spec => []AP!BusyClientWaits
  BY ArbiterParameters, AP!FairTheorem
<1>6. AP!BusyClientWaits => Arbiter!BusyClientWaits
  BY DEF Arbiter!BusyClientWaits, AP!BusyClientWaits
<1>7. AP!Spec => []AP!BytesKept
  BY ArbiterParameters, AP!BytesTheorem
<1>8. AP!BytesKept => Arbiter!BytesKept
  BY SameBytes, Zenon DEF Arbiter!BytesKept, AP!BytesKept, Arbiter!Within, AP!Within
<1>9. AP!Spec => []AP!DropsCounted
  BY ArbiterParameters, AP!DropsTheorem
<1>10. AP!DropsCounted => Arbiter!DropsCounted
  BY SameCount, Zenon
     DEF Arbiter!DropsCounted, AP!DropsCounted, Arbiter!Range, AP!Range, Arbiter!MapThenSumSet,
         AP!MapThenSumSet, Arbiter!MapThenFoldSet, AP!MapThenFoldSet
<1>. QED
  BY <1>1, <1>2, <1>3, <1>4, <1>5, <1>6, <1>7, <1>8, <1>9, <1>10, UsesArbiter, SameSpec, PTL
-----------------------------------------------------------------------------
(***************************************************************************)
(* The server's own invariant.  What makes it inductive: while next() is   *)
(* passing over stale frames the pump stands at that port with a token in  *)
(* hand, a port with a frame waiting is one the pump will look at, and a   *)
(* read remembers that it queued something.                                *)
(***************************************************************************)
TaskOK ==
    \/ task = Idle
    \/ task.do = "read" /\ DOMAIN task = {"do", "conn", "left", "queued"}
    \/ task.do = "pump" /\ DOMAIN task = {"do", "left"}

InNext == serving # NoPort => AtPort(serving) /\ Bucket!Level >= Refill

Listed == \A p \in Ports : ring[p] # <<>> => p \in Range(order)

SomeoneWaits == \E p \in Ports : ring[p] # <<>>

ReadWakes == task.do = "read" /\ SomeoneWaits => timer # 0 \/ task.queued

\* Offers are numbered, so that an accepted frame is a new one.
Fresh == \A c \in Clients : \A a \in accepted[c] : a.n < offers

KInv ==
    /\ AP!IInv /\ BP!IInv
    /\ order \in Seq(Ports) /\ TaskOK /\ InNext /\ Listed /\ Fresh
    /\ ReadWakes /\ NoLostWakeup

\* The pump waits exactly when there is no token.
LEMMA WaitLemma ==
    ASSUME BP!TypeOK
    PROVE  /\ Bucket!Level \in Int /\ Bucket!Wait \in Nat
           /\ Bucket!Wait = 0 <=> Bucket!Level >= Refill
<1>1. Bucket!Level \in Int
  BY BucketParameters, BP!LevelType DEF BP!Level, Bucket!Level, BP!Full, Bucket!Full
<1>2. Refill \in Nat \ {0} /\ Second \in Nat \ {0}
  BY KissAssumption
<1>3. CASE Bucket!Level >= Refill
  BY <1>1, <1>3 DEF Bucket!Wait
<1>4. CASE ~(Bucket!Level >= Refill)
  <2>. DEFINE a == Refill - Bucket!Level
  <2>1. a \in Nat \ {0} /\ Refill - Bucket!Level + Second - 1 = a + Second - 1
    BY <1>1, <1>2, <1>4
  <2>2. Bucket!Wait = ((a + Second - 1) \div Second) * Second
    BY <1>4, <2>1 DEF Bucket!Wait
  <2>. HIDE DEF a
  <2>3. Bucket!Wait >= a /\ Bucket!Wait \in Int
    BY <1>2, <2>1, <2>2, BucketParameters, BP!RoundUp
  <2>. QED
    BY <1>1, <1>2, <1>4, <2>1, <2>3
<1>. QED
  BY <1>1, <1>3, <1>4

(***************************************************************************)
(* Every step of the server is an operation of the bucket or leaves it     *)
(* alone: the pump takes a token only when one is there.                   *)
(***************************************************************************)
LEMMA BucketStep == KInv /\ [Next]_vars => [Bucket!Next]_Bucket!vars
<1>. SUFFICES ASSUME KInv, Next PROVE Bucket!Next \/ UNCHANGED Bucket!vars
  BY DEF vars, Bucket!vars
<1>1. CASE Tick
  BY <1>1 DEF Tick, Arbiter!Tick, Bucket!Next, Bucket!Tick
<1>2. CASE EndRead \/ PumpPass \/ TimerFires
  BY <1>2 DEF EndRead, PumpPass, TimerFires, Bucket!vars
<1>3. ASSUME NEW c \in Clients, \/ Connect(c) \/ Close(c) \/ ReadRefuse(c)
                                \/ \E n \in 1..MaxChunk : Data(c, n)
      PROVE  UNCHANGED Bucket!vars
  BY <1>3 DEF Connect, Close, ReadRefuse, Data, Arbiter!RemoveClient, Bucket!vars
<1>4. ASSUME NEW c \in Clients, NEW p \in Ports, NEW b \in Sizes, ReadOffer(c, p, b)
      PROVE  UNCHANGED Bucket!vars
  BY <1>4 DEF ReadOffer, Arbiter!Offer, Bucket!vars
<1>5. BP!TypeOK /\ Refill \in Nat
  BY KissAssumption DEF KInv, BP!IInv
<1>6. ASSUME NEW p \in Ports, PumpSleep(p) PROVE Bucket!Refuse
  BY <1>5, <1>6, WaitLemma DEF PumpSleep, MayPass, Bucket!Refuse
<1>7. ASSUME NEW p \in Ports, PumpNull(p) PROVE UNCHANGED Bucket!vars
  BY <1>7 DEF PumpNull, Arbiter!NoTurn, Bucket!vars
<1>8. ASSUME NEW p \in Ports, PumpTurn(p) PROVE Bucket!Take \/ UNCHANGED Bucket!vars
  <2>1. now' = now
    BY <1>8 DEF PumpTurn, Arbiter!Turn
  <2>2. CASE serving' # NoPort
    BY <1>8, <2>1, <2>2 DEF PumpTurn, Bucket!vars
  <2>3. CASE serving' = NoPort
    <3>1. Bucket!Level >= Refill
      <4>1. CASE MayPass
        BY <1>5, <4>1, WaitLemma DEF MayPass
      <4>2. CASE serving = p
        BY <4>2, KissAssumption DEF KInv, InNext
      <4>. QED
        BY <1>8, <4>1, <4>2 DEF PumpTurn
    <3>2. Bucket!Refilled(Bucket!Level - Refill) /\ sends' = Append(sends, now)
      BY <1>8, <2>3, <3>1 DEF PumpTurn, HandOver, TakeToken
    <3>. QED
      BY <2>1, <3>1, <3>2 DEF Bucket!Take
  <2>. QED
    BY <2>2, <2>3
<1>. QED
  BY <1>1, <1>2, <1>3, <1>4, <1>6, <1>7, <1>8 DEF Next, Bucket!Next

\* The bucket of the server is the one TokenBucketProofs is about.
LEMMA SameBucket == [Bucket!Next]_Bucket!vars => [BP!Next]_BP!vars
BY DEF Bucket!Next, BP!Next, Bucket!Tick, BP!Tick, Bucket!Take, BP!Take, Bucket!Refuse, BP!Refuse,
       Bucket!WaitSec, BP!WaitSec, Bucket!SetBack, BP!SetBack, Bucket!Refilled, BP!Refilled,
       Bucket!Level, BP!Level, Bucket!Wait, BP!Wait, Bucket!Full, BP!Full, Bucket!vars, BP!vars

\* Nothing but an accepted frame makes a client wait that did not.
LEMMA RingsShrink ==
    ASSUME AP!IInv, NEW p \in Ports, ring'[p] # <<>>,
           \/ UNCHANGED ring \/ \E x \in Ports : Arbiter!Turn(x)
           \/ \E c \in Clients : Arbiter!RemoveClient(c)
    PROVE  ring[p] # <<>>
<1>1. CASE UNCHANGED ring
  BY <1>1
<1>2. ASSUME NEW x \in Ports, Arbiter!Turn(x) PROVE ring[p] # <<>>
  <2>1. CASE x = p
    BY <1>2, <2>1 DEF Arbiter!Turn
  <2>2. CASE x # p
    <3>1. ring'[p] = ring[p]
      BY <1>2, <2>2 DEF Arbiter!Turn, Arbiter!ServeTurn, AP!IInv, AP!RestOK
    <3>. QED
      BY <3>1
  <2>. QED
    BY <2>1, <2>2
<1>3. ASSUME NEW c \in Clients, Arbiter!RemoveClient(c) PROVE ring[p] # <<>>
  <2>1. CASE c \in Arbiter!Range(ring[p])
    BY <2>1 DEF Arbiter!Range
  <2>2. CASE c \notin Arbiter!Range(ring[p])
    BY <1>3, <2>2 DEF Arbiter!RemoveClient
  <2>. QED
    BY <2>1, <2>2
<1>. QED
  BY <1>1, <1>2, <1>3

Own == order \in Seq(Ports) /\ TaskOK /\ InNext /\ Listed /\ Fresh /\ ReadWakes /\ NoLostWakeup

LEMMA TaskShapes ==
    /\ Idle.do = "idle" /\ Pump.do = "pump" /\ Pump.left = <<>>
    /\ DOMAIN Pump = {"do", "left"} /\ Idle # Pump
BY DEF Idle, Pump

\* A step in which no handler takes part, and a close, are as the invariant wants them.
LEMMA EventKeeps ==
    ASSUME KInv, \/ Tick \/ TimerFires
                 \/ \E c \in Clients : Connect(c) \/ Close(c) \/ \E n \in 1..MaxChunk : Data(c, n)
    PROVE  Own'
<1>1. /\ order' = order /\ serving' = serving /\ task = Idle /\ offers' = offers
      /\ \/ task' = Idle /\ timer' = timer
         \/ task' = Pump
         \/ \E c \in Clients, n \in 1..MaxChunk :
               task' = [do |-> "read", conn |-> c, left |-> n, queued |-> FALSE] /\ timer' = timer
  BY DEF Tick, TimerFires, Connect, Close, Data, Arbiter!Tick, Arbiter!RemoveClient, arbiterVars
<1>2. \A p \in Ports : ring'[p] # <<>> => ring[p] # <<>>
  BY RingsShrink DEF KInv, Tick, TimerFires, Connect, Close, Data, Arbiter!Tick, arbiterVars
<1>3. \A c \in Clients : accepted'[c] \subseteq accepted[c]
  BY DEF KInv, AP!IInv, AP!RestOK, Tick, TimerFires, Connect, Close, Data, Arbiter!Tick,
         Arbiter!RemoveClient, arbiterVars
<1>4. serving = NoPort
  BY <1>1, TaskShapes DEF KInv, InNext, AtPort
<1>5. TaskOK'
  BY <1>1, TaskShapes DEF TaskOK
<1>6. InNext' /\ Listed' /\ Fresh' /\ order' \in Seq(Ports)
  BY <1>1, <1>2, <1>3, <1>4 DEF KInv, InNext, Listed, Fresh
<1>7. ReadWakes' /\ NoLostWakeup'
  BY <1>1, <1>2, TaskShapes DEF KInv, ReadWakes, NoLostWakeup, SomeoneWaits
<1>. QED
  BY <1>5, <1>6, <1>7 DEF Own

\* A refused frame and the end of a read.
LEMMA ReadKeeps ==
    ASSUME KInv, EndRead \/ \E c \in Clients : ReadRefuse(c)
    PROVE  Own'
<1>1. /\ UNCHANGED <<order, serving, ring, accepted, offers, timer>> /\ task.do = "read"
      /\ \/ task' = [task EXCEPT !.left = @ - 1]
         \/ task' = IF task.queued /\ timer = 0 THEN Pump ELSE Idle
  BY DEF EndRead, ReadRefuse, Reading, arbiterVars
<1>2. DOMAIN task = {"do", "conn", "left", "queued"}
  BY <1>1, TaskShapes DEF KInv, TaskOK
<1>3. serving = NoPort
  BY <1>1 DEF KInv, InNext, AtPort
<1>4. TaskOK'
  BY <1>1, <1>2, TaskShapes DEF TaskOK
<1>5. InNext' /\ Listed' /\ Fresh' /\ order' \in Seq(Ports)
  BY <1>1, <1>3 DEF KInv, InNext, Listed, Fresh
<1>6. ReadWakes' /\ NoLostWakeup'
  BY <1>1, <1>2, TaskShapes DEF KInv, ReadWakes, NoLostWakeup, SomeoneWaits
<1>. QED
  BY <1>4, <1>5, <1>6 DEF Own

\* An offered frame.
LEMMA OfferKeeps ==
    ASSUME KInv, NEW c \in Clients, NEW p \in Ports, NEW b \in Sizes, ReadOffer(c, p, b)
    PROVE  Own'
<1>. DEFINE item == [n |-> offers, at |-> now, bytes |-> b]
            queued == accepted'[c] # accepted[c]
<1>1. /\ UNCHANGED <<serving, timer>> /\ task.do = "read"
      /\ task' = [task EXCEPT !.left = @ - 1, !.queued = @ \/ queued]
      /\ order' = IF queued /\ p \notin Range(order) THEN Append(order, p) ELSE order
      /\ offers' = offers + 1
  BY DEF ReadOffer, Reading, Arbiter!Offer
<1>2. \/ UNCHANGED <<ring, accepted>>
      \/ accepted' = [accepted EXCEPT ![c] = @ \cup {item}]
         /\ (ring' = ring \/ ring' = [ring EXCEPT ![p] = Append(@, c)])
  BY DEF ReadOffer, Arbiter!Offer, Arbiter!RefuseFrames, Arbiter!RefuseBytes, Arbiter!Accept
<1>3. DOMAIN task = {"do", "conn", "left", "queued"} /\ serving = NoPort
  BY <1>1, TaskShapes DEF KInv, TaskOK, InNext, AtPort
<1>4. offers \in Nat /\ accepted \in [Clients -> SUBSET AP!Queued] /\ DOMAIN ring = Ports
  BY DEF KInv, AP!IInv, AP!RestOK
<1>5. Fresh' /\ item.n = offers
  BY <1>1, <1>2, <1>4 DEF KInv, Fresh, AP!Queued
<1>6. queued \/ UNCHANGED <<ring, accepted>>
  <2>1. item \notin accepted[c]
    BY <1>4, <1>5 DEF KInv, Fresh
  <2>. QED
    BY <1>2, <1>4, <2>1
<1>. HIDE DEF item, queued
<1>7. order' \in Seq(Ports) /\ Range(order) \subseteq Range(order') /\ (queued => p \in Range(order'))
  <2>1. order \in Seq(Ports)
    BY DEF KInv
  <2>2. Range(Append(order, p)) = Range(order) \cup {p}
    BY <2>1 DEF Range
  <2>. QED
    BY <1>1, <2>1, <2>2
<1>8. Listed'
  BY <1>2, <1>4, <1>6, <1>7 DEF KInv, Listed
<1>9. task'.do = "read" /\ task'.queued = (task.queued \/ queued) /\ DOMAIN task' = DOMAIN task
  BY <1>1, <1>3
<1>10. ReadWakes'
  BY <1>1, <1>6, <1>9 DEF KInv, ReadWakes, SomeoneWaits
<1>11. TaskOK' /\ InNext' /\ NoLostWakeup'
  BY <1>1, <1>3, <1>9, TaskShapes DEF TaskOK, InNext, NoLostWakeup
<1>. QED
  BY <1>5, <1>7, <1>8, <1>10, <1>11 DEF Own

\* The pump: a new pass, a sleep, a turn and an empty ring.
LEMMA PumpKeeps ==
    ASSUME KInv, PumpPass \/ \E p \in Ports : PumpSleep(p) \/ PumpTurn(p) \/ PumpNull(p)
    PROVE  Own'
<1>1. /\ order' = order /\ task.do = "pump" /\ offers' = offers /\ accepted' = accepted
      /\ now' = now
  BY DEF PumpPass, PumpSleep, PumpTurn, PumpNull, AtPort, Arbiter!Turn, Arbiter!NoTurn, arbiterVars
<1>2. \A p \in Ports : ring'[p] # <<>> => ring[p] # <<>>
  BY RingsShrink DEF KInv, PumpPass, PumpSleep, PumpTurn, PumpNull, Arbiter!NoTurn, arbiterVars
<1>3. DOMAIN task = {"do", "left"} /\ now \in Nat
  BY <1>1, TaskShapes DEF KInv, TaskOK, AP!IInv, AP!RestOK
<1>4. Listed' /\ Fresh' /\ order' \in Seq(Ports)
  BY <1>1, <1>2 DEF KInv, Listed, Fresh
<1>5. CASE PumpPass
  <2>1. UNCHANGED <<ring, serving, timer>> /\ serving = NoPort
    BY <1>5 DEF PumpPass, KInv, InNext, AtPort, arbiterVars
  <2>2. task' = [task EXCEPT !.left = Waiting] \/ (task' = Idle /\ ~SomeoneWaits)
    BY <1>5 DEF PumpPass, SomeWaiting, SomeoneWaits, KInv, Listed
  <2>. HIDE DEF Waiting
  <2>3. TaskOK' /\ InNext' /\ ReadWakes' /\ NoLostWakeup'
    BY <1>1, <1>3, <2>1, <2>2, TaskShapes
       DEF TaskOK, InNext, ReadWakes, NoLostWakeup, SomeoneWaits
  <2>. QED
    BY <1>4, <2>3 DEF Own
<1>6. ASSUME NEW p \in Ports, PumpSleep(p) PROVE Own'
  <2>1. task' = Idle /\ serving' = NoPort /\ timer' = now + Bucket!Wait /\ Bucket!Wait # 0
    BY <1>6 DEF PumpSleep, MayPass, arbiterVars
  <2>2. timer' # 0
    BY <1>3, <2>1, WaitLemma DEF KInv, BP!IInv
  <2>3. TaskOK' /\ InNext' /\ ReadWakes' /\ NoLostWakeup'
    BY <2>1, <2>2, TaskShapes DEF TaskOK, InNext, ReadWakes, NoLostWakeup
  <2>. QED
    BY <1>4, <2>3 DEF Own
<1>7. ASSUME NEW p \in Ports, PumpTurn(p), serving' # NoPort PROVE Own'
  <2>1. /\ UNCHANGED <<level, at, task>> /\ serving' = p /\ AtPort(p)
        /\ (serving = p \/ MayPass)
    BY <1>7 DEF PumpTurn, Arbiter!Turn
  <2>2. Bucket!Level >= Refill
    BY <2>1, WaitLemma, KissAssumption DEF KInv, BP!IInv, InNext, MayPass
  <2>3. InNext'
    BY <1>1, <2>1, <2>2 DEF InNext, AtPort, Bucket!Level, Bucket!Full
  <2>4. TaskOK' /\ ReadWakes' /\ NoLostWakeup'
    BY <1>1, <1>3, <2>1, TaskShapes DEF TaskOK, ReadWakes, NoLostWakeup
  <2>. QED
    BY <1>4, <2>3, <2>4 DEF Own
<1>8. ASSUME NEW p \in Ports, PumpNull(p) \/ (PumpTurn(p) /\ serving' = NoPort) PROVE Own'
  <2>1. task' = [task EXCEPT !.left = Tail(@)] /\ serving' = NoPort
    BY <1>8 DEF PumpNull, PumpTurn, HandOver, Arbiter!NoTurn
  <2>2. TaskOK' /\ InNext' /\ ReadWakes' /\ NoLostWakeup'
    BY <1>1, <1>3, <2>1, TaskShapes DEF TaskOK, InNext, ReadWakes, NoLostWakeup
  <2>. QED
    BY <1>4, <2>2 DEF Own
<1>. QED
  BY <1>5, <1>6, <1>7, <1>8

LEMMA InitKInv == Init => KInv
<1>. SUFFICES ASSUME Init PROVE KInv
  OBVIOUS
<1>1. AP!IInv
  BY ArbiterParameters, SameInit, AP!InitIInv DEF Init
<1>2. BP!IInv
  <2>1. BP!Init
    BY DEF Init, Arbiter!Init, BP!Init, Bucket!Full, BP!Full
  <2>. QED
    BY <2>1, BucketParameters, BP!InitInv
<1>3. Own
  BY TaskShapes DEF Init, Arbiter!Init, Own, TaskOK, InNext, Listed, Fresh, ReadWakes, NoLostWakeup
<1>. QED
  BY <1>1, <1>2, <1>3 DEF KInv, Own

LEMMA NextKInv == KInv /\ [Next]_vars => KInv'
<1>. SUFFICES ASSUME KInv, [Next]_vars PROVE KInv'
  OBVIOUS
<1>1. AP!IInv'
  BY ArbiterParameters, ArbiterStep, SameNext, AP!NextIInv DEF KInv
<1>2. BP!IInv'
  BY BucketParameters, BucketStep, SameBucket, BP!NextInv DEF KInv
<1>3. Own'
  <2>1. CASE UNCHANGED vars
    BY <2>1 DEF KInv, Own, vars, arbiterVars, TaskOK, InNext, AtPort, Bucket!Level, Bucket!Full,
                Listed, Fresh, ReadWakes, SomeoneWaits, NoLostWakeup
  <2>2. CASE Next
    BY <2>2, EventKeeps, ReadKeeps, OfferKeeps, PumpKeeps DEF Next
  <2>. QED
    BY <2>1, <2>2
<1>. QED
  BY <1>1, <1>2, <1>3 DEF KInv, Own

LEMMA AlwaysKInv == Spec => []KInv
BY InitKInv, NextKInv, PTL DEF Spec

(***************************************************************************)
(* No lost wake-up: whatever the clients send, refuse and close, whenever  *)
(* the process is idle and a frame waits on any port, the pump's timer is  *)
(* set.                                                                    *)
(***************************************************************************)
THEOREM WakeupTheorem == Spec => []NoLostWakeup
<1>1. KInv => NoLostWakeup
  BY DEF KInv
<1>. QED
  BY <1>1, AlwaysKInv, PTL

(***************************************************************************)
(* The server uses the bucket as its specification says, although the pump *)
(* asks waitSec() first and does not look at what take() answers: a token  *)
(* is there whenever it takes one, also after next() dropped stale frames. *)
(***************************************************************************)
THEOREM UsesBucket == Spec => Bucket!Spec
<1>1. Init => Bucket!Init
  BY DEF Init, Arbiter!Init, Bucket!Init
<1>. QED
  BY <1>1, AlwaysKInv, BucketStep, PTL DEF Spec, Bucket!Spec

(***************************************************************************)
(* So the radios are handed at most burst frames at once and one more for  *)
(* every refillSec, over all ports and clients together.                   *)
(***************************************************************************)
THEOREM SendsPacedTheorem == Spec => []SendsPaced
<1>1. KInv => SendsPaced
  BY DEF KInv, BP!IInv, BP!Paced, SendsPaced, Bucket!Paced
<1>. QED
  BY <1>1, AlwaysKInv, PTL
-----------------------------------------------------------------------------
(***************************************************************************)
(* A client's frames and the ports it sees.  By the rotation a client is   *)
(* in a port's ring exactly when its queue there is not empty, so it is    *)
(* the queues that the invariant is about.                                 *)
(***************************************************************************)
SeenPorts == \A p \in Ports, c \in Clients : queues[p][c] # <<>> => p \in view[c]

QueueTypes == queues \in [Ports -> [Clients -> Seq(AP!Queued)]] /\ view \in [Clients -> SUBSET Ports]

\* Only an accepted frame makes a queue that was empty hold something.
LEMMA SeenStep == KInv /\ QueueTypes /\ SeenPorts /\ AP!RotationOK /\ [Next]_vars => SeenPorts'
<1>. SUFFICES ASSUME KInv, QueueTypes, SeenPorts, AP!RotationOK, [Next]_vars,
                     NEW p \in Ports, NEW c \in Clients, queues'[p][c] # <<>>
              PROVE  p \in view'[c]
  BY DEF SeenPorts
<1>1. CASE UNCHANGED <<queues, view>>
  BY <1>1 DEF SeenPorts
<1>2. ASSUME NEW d \in Clients, Connect(d) PROVE p \in view'[c]
  <2>1. queues[p][c] # <<>> /\ p \in view[c]
    BY <1>2 DEF Connect, arbiterVars, SeenPorts
  <2>2. c # d
    BY <1>2, <2>1 DEF Connect
  <2>. QED
    BY <1>2, <2>1, <2>2 DEF Connect, QueueTypes
<1>3. ASSUME NEW d \in Clients, Close(d) PROVE p \in view'[c]
  <2>1. queues'[p] = IF d \in Arbiter!Range(ring[p]) THEN [queues[p] EXCEPT ![d] = <<>>] ELSE queues[p]
    BY <1>3 DEF Close, Arbiter!RemoveClient
  <2>2. d \in Arbiter!Range(ring[p]) \/ queues[p][d] = <<>>
    BY DEF AP!RotationOK, AP!Range, Arbiter!Range
  <2>3. c # d /\ queues[p][c] # <<>>
    BY <2>1, <2>2 DEF QueueTypes
  <2>. QED
    BY <1>3, <2>3 DEF Close, SeenPorts, QueueTypes
<1>4. ASSUME NEW d \in Clients, NEW x \in Ports, NEW b \in Sizes, ReadOffer(d, x, b)
      PROVE  p \in view'[c]
  <2>1. view' = view /\ x \in view[d]
    BY <1>4 DEF ReadOffer
  <2>2. queues'[p][c] = queues[p][c] \/ (p = x /\ c = d)
    BY <1>4 DEF ReadOffer, Arbiter!Offer, Arbiter!RefuseFrames, Arbiter!RefuseBytes,
                Arbiter!Accept, QueueTypes
  <2>. QED
    BY <2>1, <2>2 DEF SeenPorts
<1>5. ASSUME NEW x \in Ports, PumpTurn(x) PROVE p \in view'[c]
  <2>. DEFINE d == ring[x][turn[x] + 1]
  <2>1. view' = view /\ queues' = [queues EXCEPT ![x][d] = Tail(@)] /\ ring[x] # <<>>
    BY <1>5 DEF PumpTurn, Arbiter!Turn, Arbiter!ServeTurn
  <2>2. d \in AP!Range(ring[x])
    <3>1. turn[x] + 1 \in DOMAIN ring[x]
      BY <2>1 DEF AP!RotationOK, KInv, AP!IInv, AP!PortsOK, AP!PortOK
    <3>. QED
      BY <3>1 DEF AP!Range
  <2>3. queues[x][d] # <<>>
    BY <2>2 DEF AP!RotationOK
  <2>. HIDE DEF d
  <2>4. queues[p][c] # <<>>
    BY <2>1, <2>3 DEF QueueTypes
  <2>. QED
    BY <2>1, <2>4 DEF SeenPorts
<1>. QED
  BY <1>1, <1>2, <1>3, <1>4, <1>5
     DEF Next, vars, arbiterVars, Tick, Arbiter!Tick, EndRead, PumpPass, TimerFires, Data, ReadRefuse,
         PumpSleep, PumpNull, Arbiter!NoTurn

LEMMA ViewTypes ==
    view \in [Clients -> SUBSET Ports] /\ [Next]_vars => view' \in [Clients -> SUBSET Ports]
<1>. SUFFICES ASSUME view \in [Clients -> SUBSET Ports], [Next]_vars
              PROVE  view' \in [Clients -> SUBSET Ports]
  OBVIOUS
<1>1. ASSUME NEW c \in Clients, Connect(c) PROVE view' \in [Clients -> SUBSET Ports]
  <2>1. PICK ports \in {Ports} \cup {{p} : p \in Ports} : view' = [view EXCEPT ![c] = ports]
    BY <1>1 DEF Connect
  <2>. QED
    BY <2>1
<1>2. ASSUME NEW c \in Clients, Close(c) PROVE view' \in [Clients -> SUBSET Ports]
  BY <1>2 DEF Close
<1>3. \/ UNCHANGED view
      \/ \E c \in Clients : Connect(c) \/ Close(c)
  BY DEF Next, vars, Tick, EndRead, PumpPass, TimerFires, Data, ReadRefuse, ReadOffer,
         PumpSleep, PumpTurn, PumpNull
<1>. QED
  BY <1>1, <1>2, <1>3

\* What the arbiter's invariant says of queues and rings.
LEMMA FromArbiter == ASSUME KInv PROVE AP!RotationOK /\ queues \in [Ports -> [Clients -> Seq(AP!Queued)]]
BY ArbiterParameters, AP!IInvMeaning DEF KInv, AP!TypeOK

(***************************************************************************)
(* A frame waits, and goes out, only for a connected client and only on a  *)
(* port that client sees, whatever connects and closes in between.         *)
(***************************************************************************)
THEOREM OnlyForClientsTheorem == Spec => []OnlyForClients
<1>. DEFINE I == KInv /\ view \in [Clients -> SUBSET Ports] /\ SeenPorts
<1>1. Init => I
  BY InitKInv DEF Init, Arbiter!Init, SeenPorts
<1>2. I /\ [Next]_vars => I'
  BY NextKInv, ViewTypes, SeenStep, FromArbiter DEF QueueTypes
<1>3. I => OnlyForClients
  BY FromArbiter DEF OnlyForClients, SeenPorts, AP!RotationOK, AP!Range, Range
<1>. HIDE DEF I
<1>. QED
  BY <1>1, <1>2, <1>3, PTL DEF Spec
-----------------------------------------------------------------------------
(***************************************************************************)
(* Where every frame a client sent is.  The counts of the server and of    *)
(* the arbiter move together: an offer counts what the arbiter says it     *)
(* refused or displaced, and a turn moves one frame from the waiting to    *)
(* the sent, the gate's refusals or the arbiter's stale ones.              *)
(***************************************************************************)
RefusalSum(r) == MapThenSumSet(LAMBDA why : r[why], TxRefusal)

LEMMA RefusalsFinite == AP!IsFiniteSet(TxRefusal)
<1>1. AP!IsFiniteSet({})
  BY ArbiterParameters, AP!FS_EmptySet
<1>2. ASSUME NEW S, NEW x, AP!IsFiniteSet(S) PROVE AP!IsFiniteSet(S \cup {x})
  BY <1>2, ArbiterParameters, AP!FS_AddElement
<1>3. AP!IsFiniteSet({} \cup {"policy"} \cup {"gate"} \cup {"frame-budget"} \cup {"byte-budget"}
                     \cup {"queue-full"} \cup {"stale"})
  BY <1>1, <1>2
<1>4. TxRefusal = {} \cup {"policy"} \cup {"gate"} \cup {"frame-budget"} \cup {"byte-budget"}
                  \cup {"queue-full"} \cup {"stale"}
  BY DEF TxRefusal, Arbiter!DropReason
<1>. QED
  BY <1>3, <1>4

LEMMA RefusalCount ==
    ASSUME NEW r \in [TxRefusal -> Nat]
    PROVE  RefusalSum(r) = AP!Cardinality(AP!Units(TxRefusal, r))
<1>. DEFINE E(g) == g = [s \in SUBSET TxRefusal |->
                            IF s = {} THEN 0 ELSE r[CHOOSE x \in s : TRUE] + g[s \ {CHOOSE x \in s : TRUE}]]
            it == CHOOSE g : E(g)
<1>1. \A x \in TxRefusal : r[x] \in Nat
  OBVIOUS
<1>2. RefusalSum(r) = it[TxRefusal]
  BY DEF RefusalSum, MapThenSumSet, MapThenFoldSet
<1>3. ASSUME NEW g PROVE AP!Sums(g, TxRefusal, r) <=> E(g)
  BY DEF AP!Sums, AP!One
<1>4. \E g : AP!Sums(g, TxRefusal, r)
  BY <1>1, RefusalsFinite, ArbiterParameters, AP!SumExists
<1>5. PICK g : AP!Sums(g, TxRefusal, r)
  BY <1>4
<1>6. E(g)
  BY <1>3, <1>5
<1>. HIDE DEF E
<1>7. E(it)
  BY <1>6, Zenon
<1>. HIDE DEF it
<1>8. AP!Sums(it, TxRefusal, r)
  BY <1>3, <1>7
<1>. QED
  BY <1>1, <1>2, <1>8, RefusalsFinite, ArbiterParameters, AP!SumIsCount

\* One more refusal, under whatever reason, is one more in the sum.
LEMMA RefusalAdds ==
    ASSUME NEW r \in [TxRefusal -> Nat], NEW why \in TxRefusal
    PROVE  /\ RefusalSum(r) \in Nat
           /\ [r EXCEPT ![why] = @ + 1] \in [TxRefusal -> Nat]
           /\ RefusalSum([r EXCEPT ![why] = @ + 1]) = RefusalSum(r) + 1
<1>. DEFINE g == [r EXCEPT ![why] = @ + 1]
<1>1. g \in [TxRefusal -> Nat] /\ g[why] = r[why] + 1 /\ \A x \in TxRefusal \ {why} : r[x] = g[x]
  OBVIOUS
<1>. HIDE DEF g
<1>2. AP!AlikeBut(TxRefusal, r, g, why)
  BY <1>1, RefusalsFinite DEF AP!AlikeBut
<1>3. /\ AP!Cardinality(AP!Units(TxRefusal, r)) \in Nat /\ AP!Cardinality(AP!Units(TxRefusal, g)) \in Nat
      /\ AP!Cardinality(AP!Units(TxRefusal, g)) + r[why] = AP!Cardinality(AP!Units(TxRefusal, r)) + g[why]
  BY <1>2, ArbiterParameters, AP!SumMoves
<1>4. /\ RefusalSum(r) \in Nat /\ RefusalSum(g) \in Nat
      /\ RefusalSum(g) + r[why] = RefusalSum(r) + (r[why] + 1)
  BY <1>1, <1>3, RefusalCount
<1>. DEFINE a == RefusalSum(r)
            b == RefusalSum(g)
            n == r[why]
<1>5. a \in Nat /\ b \in Nat /\ n \in Nat /\ b + n = a + (n + 1)
  BY <1>4
<1>. HIDE DEF a, b, n
<1>6. b = a + 1
  BY <1>5
<1>. QED
  BY <1>1, <1>5, <1>6 DEF a, b, g

LEMMA NoRefusalSum == NoRefusals \in [TxRefusal -> Nat] /\ RefusalSum(NoRefusals) = 0
<1>1. NoRefusals \in [TxRefusal -> Nat] /\ \A x \in TxRefusal : NoRefusals[x] = 0
  BY DEF NoRefusals
<1>2. AP!Units(TxRefusal, NoRefusals) = {}
  BY <1>1 DEF AP!Units
<1>3. AP!Cardinality({}) = 0
  BY ArbiterParameters, AP!FS_EmptySet
<1>. QED
  BY <1>1, <1>2, <1>3, RefusalCount

CountTypes ==
    /\ refused \in [Clients -> [TxRefusal -> Nat]]
    /\ got \in [Clients -> Nat] /\ sent \in [Clients -> Nat]

FramesOf(c) == got[c] = sent[c] + AP!WaitingSum(queues, c) + RefusalSum(refused[c]) + drops[c]["stale"]

FramesInv == CountTypes /\ \A c \in Clients : FramesOf(c)

\* What of a client the equation is about.
SameFor(c) ==
    /\ got'[c] = got[c] /\ sent'[c] = sent[c] /\ refused'[c] = refused[c]
    /\ drops'[c]["stale"] = drops[c]["stale"]
    /\ \A p \in Ports : queues'[p][c] = queues[p][c]

LEMMA SameKeeps ==
    ASSUME KInv, NEW c \in Clients, FramesOf(c), SameFor(c) PROVE FramesOf(c)'
<1>1. \A p \in Ports : Len(queues[p][c]) \in Nat
  BY DEF KInv, AP!IInv, AP!PortsOK, AP!PortOK
<1>2. \A p \in Ports : queues'[p][c] = queues[p][c]
  BY DEF SameFor
<1>3. AP!WaitingSum(queues', c) = AP!WaitingSum(queues, c)
  BY <1>1, <1>2, ArbiterParameters, AP!WaitingSame
<1>. QED
  BY <1>3 DEF FramesOf, SameFor

\* An offer: the frame waits, or one frame is counted under one reason.
LEMMA OfferFrames ==
    ASSUME KInv, FramesInv, NEW c \in Clients, NEW p \in Ports, NEW b \in Sizes, ReadOffer(c, p, b)
    PROVE  /\ refused'[c] \in [TxRefusal -> Nat] /\ RefusalSum(refused[c]) \in Nat
           /\ AP!WaitingSum(queues, c) \in Nat /\ drops'[c]["stale"] = drops[c]["stale"]
           /\ AP!WaitingSum(queues', c) + RefusalSum(refused'[c])
              = AP!WaitingSum(queues, c) + RefusalSum(refused[c]) + 1
<1>. DEFINE item == [n |-> offers, at |-> now, bytes |-> b]
<1>1. AP!IInv /\ drops \in [Clients -> [AP!DropReason -> Nat]] /\ offers \in Nat /\ now \in Nat
  BY DEF KInv, AP!IInv, AP!RestOK
<1>2. refused \in [Clients -> [TxRefusal -> Nat]] /\ refused[c] \in [TxRefusal -> Nat]
  BY DEF FramesInv, CountTypes
<1>3. item \in AP!Queued
  BY <1>1, KissAssumption DEF AP!Queued
<1>4. AP!RefuseFrames(c) \/ AP!RefuseBytes(c, b) \/ AP!Accept(c, p, item)
  BY SameOffer DEF ReadOffer, AP!Offer
<1>5. refused'[c] = RefusedAfter(c)
  BY <1>2 DEF ReadOffer
<1>. HIDE DEF item
<1>6. AP!DropReason = Arbiter!DropReason /\ AP!DropReason \subseteq TxRefusal
  BY DEF AP!DropReason, Arbiter!DropReason, TxRefusal
<1>7. ASSUME NEW why \in AP!DropReason \ {"stale"}, AP!Count(c, why)
      PROVE  /\ refused'[c] = [refused[c] EXCEPT ![why] = @ + 1]
             /\ drops'[c]["stale"] = drops[c]["stale"]
  <2>1. \A r \in AP!DropReason : drops'[c][r] = IF r = why THEN drops[c][r] + 1 ELSE drops[c][r]
    BY <1>1, <1>7 DEF AP!Count
  <2>2. \A r \in AP!DropReason : drops[c][r] \in Nat
    BY <1>1
  <2>3. Dropped(c) = {why}
    BY <1>6, <2>1, <2>2 DEF Dropped
  <2>4. RefusedAfter(c) = [refused[c] EXCEPT ![why] = @ + 1]
    <3>1. PICK r \in [TxRefusal -> Nat] : r = refused[c]
      BY <1>2
    <3>2. RefusedAfter(c) = [x \in TxRefusal |-> r[x] + IF x = why THEN 1 ELSE 0]
      BY <2>3, <3>1 DEF RefusedAfter
    <3>3. \A x \in TxRefusal : r[x] + (IF x = why THEN 1 ELSE 0) = IF x = why THEN r[x] + 1 ELSE r[x]
      OBVIOUS
    <3>4. RefusedAfter(c) = [x \in TxRefusal |-> IF x = why THEN r[x] + 1 ELSE r[x]]
      BY <3>2, <3>3
    <3>5. [r EXCEPT ![why] = @ + 1] = [x \in TxRefusal |-> IF x = why THEN r[x] + 1 ELSE r[x]]
      OBVIOUS
    <3>. QED
      BY <3>1, <3>4, <3>5
  <2>5. "stale" \in AP!DropReason /\ why # "stale"
    BY DEF AP!DropReason
  <2>. QED
    BY <1>5, <2>1, <2>4, <2>5
<1>8. ASSUME drops' = drops PROVE refused'[c] = refused[c]
  <2>1. \A r \in AP!DropReason : drops[c][r] \in Nat
    BY <1>1
  <2>2. Dropped(c) = {}
    BY <1>6, <1>8, <2>1 DEF Dropped
  <2>3. RefusedAfter(c) = refused[c]
    BY <1>2, <2>2 DEF RefusedAfter
  <2>. QED
    BY <1>5, <2>3
<1>9. ASSUME NEW why \in AP!DropReason \ {"stale"}, AP!Count(c, why)
      PROVE  /\ refused'[c] \in [TxRefusal -> Nat] /\ RefusalSum(refused[c]) \in Nat
             /\ RefusalSum(refused'[c]) = RefusalSum(refused[c]) + 1
             /\ drops'[c]["stale"] = drops[c]["stale"]
  <2>1. PICK r \in [TxRefusal -> Nat] : r = refused[c]
    BY <1>2
  <2>2. why \in TxRefusal
    BY <1>6
  <2>3. /\ RefusalSum(r) \in Nat /\ [r EXCEPT ![why] = @ + 1] \in [TxRefusal -> Nat]
        /\ RefusalSum([r EXCEPT ![why] = @ + 1]) = RefusalSum(r) + 1
    BY <2>2, RefusalAdds
  <2>4. refused'[c] = [r EXCEPT ![why] = @ + 1] /\ drops'[c]["stale"] = drops[c]["stale"]
    BY <1>7, <1>9, <2>1
  <2>. QED
    BY <2>1, <2>3, <2>4
<1>10. \A x \in Ports : Len(queues[x][c]) \in Nat
  BY DEF KInv, AP!IInv, AP!PortsOK, AP!PortOK
<1>11. CASE AP!RefuseFrames(c) \/ AP!RefuseBytes(c, b)
  <2>1. queues' = queues /\ \E why \in {"frame-budget", "byte-budget"} : AP!Count(c, why)
    BY <1>11 DEF AP!RefuseFrames, AP!RefuseBytes
  <2>2. {"frame-budget", "byte-budget"} \subseteq AP!DropReason \ {"stale"}
    BY DEF AP!DropReason
  <2>3. /\ refused'[c] \in [TxRefusal -> Nat] /\ RefusalSum(refused[c]) \in Nat
        /\ RefusalSum(refused'[c]) = RefusalSum(refused[c]) + 1
        /\ drops'[c]["stale"] = drops[c]["stale"]
    BY <1>9, <2>1, <2>2
  <2>4. AP!WaitingSum(queues, c) \in Nat
    BY <1>10, ArbiterParameters, AP!WaitingNat
  <2>. DEFINE w == AP!WaitingSum(queues, c)
              a == RefusalSum(refused[c])
              b2 == RefusalSum(refused'[c])
  <2>5. w \in Nat /\ a \in Nat /\ b2 = a + 1
    BY <2>3, <2>4
  <2>. HIDE DEF w, a, b2
  <2>6. w + b2 = w + a + 1
    BY <2>5
  <2>. QED
    BY <2>1, <2>3, <2>4, <2>6 DEF w, a, b2
<1>12. CASE AP!Accept(c, p, item)
  <2>1. /\ AP!WaitingSum(queues, c) \in Nat /\ AP!WaitingSum(queues', c) \in Nat
        /\ \/ AP!WaitingSum(queues', c) = AP!WaitingSum(queues, c) + 1 /\ drops' = drops
           \/ AP!WaitingSum(queues', c) = AP!WaitingSum(queues, c) /\ AP!Count(c, "queue-full")
    BY <1>1, <1>3, <1>12, ArbiterParameters, AP!AcceptCounts
  <2>. DEFINE w == AP!WaitingSum(queues, c)
              v == AP!WaitingSum(queues', c)
              a == RefusalSum(refused[c])
              b2 == RefusalSum(refused'[c])
  <2>2. CASE v = w + 1 /\ drops' = drops
    <3>1. refused'[c] = refused[c]
      BY <1>8, <2>2
    <3>2. a \in Nat
      <4>1. PICK r \in [TxRefusal -> Nat] : r = refused[c]
        BY <1>2
      <4>2. "policy" \in TxRefusal
        BY DEF TxRefusal
      <4>. QED
        BY <4>1, <4>2, RefusalAdds
    <3>3. w \in Nat /\ v = w + 1 /\ b2 = a
      BY <2>1, <2>2, <3>1
    <3>. HIDE DEF w, v, a, b2
    <3>4. v + b2 = w + a + 1
      BY <3>2, <3>3
    <3>. QED
      BY <1>2, <2>1, <2>2, <3>1, <3>2, <3>4 DEF w, v, a, b2
  <2>3. CASE v = w /\ AP!Count(c, "queue-full")
    <3>1. "queue-full" \in AP!DropReason \ {"stale"}
      BY DEF AP!DropReason
    <3>2. /\ refused'[c] \in [TxRefusal -> Nat] /\ a \in Nat /\ b2 = a + 1
          /\ drops'[c]["stale"] = drops[c]["stale"]
      BY <1>9, <2>3, <3>1
    <3>3. w \in Nat /\ v = w
      BY <2>1, <2>3
    <3>. HIDE DEF w, v, a, b2
    <3>4. v + b2 = w + a + 1
      BY <3>2, <3>3
    <3>. QED
      BY <2>1, <3>2, <3>4 DEF w, v, a, b2
  <2>. QED
    BY <2>1, <2>2, <2>3
<1>. QED
  BY <1>4, <1>11, <1>12

LEMMA FramesStep == KInv /\ FramesInv /\ [Next]_vars => FramesInv'
<1>. SUFFICES ASSUME KInv, FramesInv, [Next]_vars
              PROVE  CountTypes' /\ \A c \in Clients : FramesOf(c)'
  BY DEF FramesInv
<1>1. CountTypes /\ \A c \in Clients : FramesOf(c)
  BY DEF FramesInv
<1>2. /\ refused \in [Clients -> [TxRefusal -> Nat]]
      /\ got \in [Clients -> Nat] /\ sent \in [Clients -> Nat]
  BY <1>1 DEF CountTypes
<1>3. /\ DOMAIN queues = Ports /\ \A p \in Ports : queues[p] \in [Clients -> Seq(AP!Queued)]
      /\ drops \in [Clients -> [AP!DropReason -> Nat]]
  BY DEF KInv, AP!IInv, AP!RestOK, AP!PortsOK, AP!PortOK
<1>4. \A c \in Clients : drops[c]["stale"] \in Nat
  BY <1>3 DEF AP!DropReason
<1>5. \A c \in Clients : AP!WaitingSum(queues, c) \in Nat /\ RefusalSum(refused[c]) \in Nat
  <2>. SUFFICES ASSUME NEW c \in Clients PROVE AP!WaitingSum(queues, c) \in Nat /\ RefusalSum(refused[c]) \in Nat
    OBVIOUS
  <2>1. PICK r \in [TxRefusal -> Nat] : r = refused[c]
    BY <1>2
  <2>2. "policy" \in TxRefusal
    BY DEF TxRefusal
  <2>3. RefusalSum(r) \in Nat
    BY <2>2, RefusalAdds
  <2>4. \A p \in Ports : Len(queues[p][c]) \in Nat
    BY <1>3
  <2>5. AP!WaitingSum(queues, c) \in Nat
    BY <2>4, ArbiterParameters, AP!WaitingNat
  <2>. QED
    BY <2>1, <2>3, <2>5
<1>6. ASSUME UNCHANGED <<queues, drops, refused, got, sent>>
      PROVE  CountTypes' /\ \A c \in Clients : FramesOf(c)'
  BY <1>1, <1>6 DEF CountTypes, FramesOf
<1>7. ASSUME NEW c \in Clients, ReadRefuse(c)
      PROVE  CountTypes' /\ \A x \in Clients : FramesOf(x)'
  <2>1. /\ refused' = [refused EXCEPT ![c]["policy"] = @ + 1] /\ got' = [got EXCEPT ![c] = @ + 1]
        /\ UNCHANGED <<queues, drops, sent>>
    BY <1>7 DEF ReadRefuse, arbiterVars
  <2>2. PICK r \in [TxRefusal -> Nat] : r = refused[c]
    BY <1>2
  <2>3. PICK g \in [TxRefusal -> Nat] : /\ g = [r EXCEPT !["policy"] = @ + 1]
                                        /\ RefusalSum(g) = RefusalSum(r) + 1
    BY RefusalAdds DEF TxRefusal
  <2>4. refused' = [refused EXCEPT ![c] = g]
    BY <2>1, <2>2, <2>3
  <2>5. CountTypes'
    <3>1. refused' \in [Clients -> [TxRefusal -> Nat]]
      BY <1>2, <2>4
    <3>2. got' \in [Clients -> Nat] /\ sent' \in [Clients -> Nat]
      BY <1>2, <2>1
    <3>. QED
      BY <3>1, <3>2 DEF CountTypes
  <2>6. ASSUME NEW x \in Clients, x # c PROVE FramesOf(x)'
    <3>1. SameFor(x)
      BY <1>2, <2>1, <2>4, <2>6 DEF SameFor
    <3>. QED
      BY <1>1, <3>1, SameKeeps
  <2>7. FramesOf(c)'
    <3>1. /\ got'[c] = got[c] + 1 /\ sent'[c] = sent[c] /\ refused'[c] = g
          /\ queues' = queues /\ drops' = drops
      BY <1>2, <2>1, <2>4
    <3>. DEFINE G == got[c]
                S == sent[c]
                W == AP!WaitingSum(queues, c)
                R == RefusalSum(r)
                D == drops[c]["stale"]
    <3>2. G \in Nat /\ S \in Nat /\ W \in Nat /\ R \in Nat /\ D \in Nat /\ G = S + W + R + D
      BY <1>1, <1>2, <1>4, <1>5, <2>2 DEF FramesOf
    <3>. HIDE DEF G, S, W, R, D
    <3>3. G + 1 = S + W + (R + 1) + D
      BY <3>2
    <3>. QED
      BY <2>3, <3>1, <3>3 DEF FramesOf, G, S, W, R, D
  <2>. QED
    BY <2>5, <2>6, <2>7
<1>8. ASSUME NEW c \in Clients, NEW p \in Ports, NEW b \in Sizes, ReadOffer(c, p, b)
      PROVE  CountTypes' /\ \A x \in Clients : FramesOf(x)'
  <2>1. /\ refused'[c] \in [TxRefusal -> Nat] /\ drops'[c]["stale"] = drops[c]["stale"]
        /\ AP!WaitingSum(queues', c) + RefusalSum(refused'[c])
           = AP!WaitingSum(queues, c) + RefusalSum(refused[c]) + 1
    BY <1>8, OfferFrames
  <2>2. /\ \E r : refused' = [refused EXCEPT ![c] = r]
        /\ got' = [got EXCEPT ![c] = @ + 1] /\ sent' = sent
    BY <1>8 DEF ReadOffer
  <2>3. CountTypes'
    <3>1. PICK r : refused' = [refused EXCEPT ![c] = r]
      BY <2>2
    <3>2. r = refused'[c]
      BY <1>2, <3>1
    <3>3. refused' \in [Clients -> [TxRefusal -> Nat]]
      BY <1>2, <2>1, <3>1, <3>2
    <3>4. got' \in [Clients -> Nat] /\ sent' \in [Clients -> Nat]
      BY <1>2, <2>2
    <3>. QED
      BY <3>3, <3>4 DEF CountTypes
  <2>4. ASSUME NEW x \in Clients, x # c PROVE FramesOf(x)'
    <3>1. \/ UNCHANGED queues
          \/ \E q : queues' = [queues EXCEPT ![p][c] = q]
      BY <1>8 DEF ReadOffer, Arbiter!Offer, Arbiter!RefuseFrames, Arbiter!RefuseBytes, Arbiter!Accept
    <3>2. \A y \in Ports : queues'[y][x] = queues[y][x]
      <4>1. CASE UNCHANGED queues
        BY <4>1
      <4>2. ASSUME NEW q, queues' = [queues EXCEPT ![p][c] = q], NEW y \in Ports
            PROVE  queues'[y][x] = queues[y][x]
        BY <1>3, <2>4, <4>2
      <4>. QED
        BY <3>1, <4>1, <4>2, ZenonT(60)
    <3>3. UNCHANGED drops \/ \E why \in AP!DropReason : drops' = [drops EXCEPT ![c][why] = @ + 1]
      BY <1>8 DEF ReadOffer, Arbiter!Offer, Arbiter!RefuseFrames, Arbiter!RefuseBytes, Arbiter!Accept,
                  Arbiter!Count, AP!DropReason
    <3>4. drops'[x] = drops[x]
      BY <1>3, <2>4, <3>3
    <3>5. SameFor(x)
      BY <1>2, <2>2, <2>4, <3>2, <3>4 DEF SameFor
    <3>. QED
      BY <1>1, <3>5, SameKeeps
  <2>5. FramesOf(c)'
    <3>1. AP!WaitingSum(queues', c) \in Nat /\ RefusalSum(refused'[c]) \in Nat
      <4>1. PICK r \in [TxRefusal -> Nat] : r = refused'[c]
        BY <2>1
      <4>2. RefusalSum(r) \in Nat
        BY RefusalAdds DEF TxRefusal
      <4>3. \A x \in Ports : Len(queues'[x][c]) \in Nat
        <5>1. AP!IInv'
          BY <1>8, NextKInv DEF KInv, Next
        <5>. QED
          BY <5>1 DEF AP!IInv, AP!PortsOK, AP!PortOK
      <4>4. AP!WaitingSum(queues', c) \in Nat
        BY <4>3, ArbiterParameters, AP!WaitingNat
      <4>. QED
        BY <4>1, <4>2, <4>4
    <3>. DEFINE G == got[c]
                S == sent[c]
                W == AP!WaitingSum(queues, c)
                W2 == AP!WaitingSum(queues', c)
                R == RefusalSum(refused[c])
                R2 == RefusalSum(refused'[c])
                D == drops[c]["stale"]
    <3>2. /\ G \in Nat /\ S \in Nat /\ W \in Nat /\ R \in Nat /\ D \in Nat /\ G = S + W + R + D
          /\ W2 \in Nat /\ R2 \in Nat /\ W2 + R2 = W + R + 1
      BY <1>1, <1>2, <1>4, <1>5, <2>1, <3>1 DEF FramesOf
    <3>. HIDE DEF G, S, W, R, D, W2, R2
    <3>3. G + 1 = S + W2 + R2 + D
      BY <3>2
    <3>4. got'[c] = got[c] + 1 /\ sent'[c] = sent[c] /\ drops'[c]["stale"] = drops[c]["stale"]
      BY <1>2, <2>1, <2>2
    <3>. QED
      BY <3>3, <3>4 DEF FramesOf, G, S, D, W2, R2
  <2>. QED
    BY <2>3, <2>4, <2>5
<1>9. ASSUME NEW p \in Ports, PumpTurn(p)
      PROVE  CountTypes' /\ \A x \in Clients : FramesOf(x)'
  <2>1. PICK c : c = ring[p][turn[p] + 1]
    OBVIOUS
  <2>2. c \in Clients /\ AP!Serves(p, c)
    <3>1. AP!Turn(p) /\ AP!IInv
      BY <1>9, SameTurn DEF PumpTurn, KInv
    <3>. QED
      BY <2>1, <3>1, ArbiterParameters, AP!TurnServes
  <2>3. got' = got /\ \/ serving' = NoPort /\ HandOver(c)
                      \/ serving' # NoPort /\ UNCHANGED <<refused, sent>>
    BY <1>9, <2>1 DEF PumpTurn
  <2>4. PICK r \in [TxRefusal -> Nat] : r = refused[c]
    BY <1>2, <2>2
  <2>5. PICK g \in [TxRefusal -> Nat] : /\ g = [r EXCEPT !["gate"] = @ + 1]
                                        /\ RefusalSum(g) = RefusalSum(r) + 1
    BY RefusalAdds DEF TxRefusal
  <2>6. \/ serving' = NoPort /\ sent' = [sent EXCEPT ![c] = @ + 1] /\ refused' = refused
        \/ serving' = NoPort /\ refused' = [refused EXCEPT ![c] = g] /\ sent' = sent
        \/ serving' # NoPort /\ refused' = refused /\ sent' = sent
    BY <2>3, <2>4, <2>5 DEF HandOver
  <2>7. CountTypes'
    BY <1>2, <2>3, <2>6 DEF CountTypes
  <2>8. ASSUME NEW x \in Clients, x # c PROVE FramesOf(x)'
    <3>1. drops'[x] = drops[x] /\ \A y \in Ports : queues'[y][x] = queues[y][x]
      BY <2>2, <2>8 DEF AP!Serves
    <3>2. SameFor(x)
      BY <1>2, <2>3, <2>6, <2>8, <3>1 DEF SameFor
    <3>. QED
      BY <1>1, <3>2, SameKeeps
  <2>9. FramesOf(c)'
    <3>1. AP!WaitingSum(queues', c) \in Nat /\ AP!WaitingSum(queues', c) + 1 = AP!WaitingSum(queues, c)
      <4>1. /\ Len(queues[p][c]) > 0 /\ Len(queues'[p][c]) = Len(queues[p][c]) - 1
            /\ \A x \in Ports \ {p} : queues'[x][c] = queues[x][c]
        BY <2>2 DEF AP!Serves
      <4>2. \A x \in Ports : Len(queues[x][c]) \in Nat
        BY <1>3, <2>2
      <4>3. /\ \A x \in Ports : Len(queues'[x][c]) \in Nat
            /\ \A x \in Ports \ {p} : Len(queues'[x][c]) = Len(queues[x][c])
        BY <4>1, <4>2
      <4>4. /\ AP!WaitingSum(queues', c) \in Nat
            /\ AP!WaitingSum(queues', c) + Len(queues[p][c]) = AP!WaitingSum(queues, c) + Len(queues'[p][c])
        BY <4>2, <4>3, ArbiterParameters, AP!WaitingMoves
      <4>. DEFINE a == AP!WaitingSum(queues, c)
                  b == AP!WaitingSum(queues', c)
                  n == Len(queues[p][c])
      <4>5. a \in Nat /\ b \in Nat /\ n \in Nat /\ b + n = a + (n - 1)
        BY <1>5, <2>2, <4>1, <4>2, <4>4
      <4>. HIDE DEF a, b, n
      <4>6. b + 1 = a
        BY <4>5
      <4>. QED
        BY <4>4, <4>6 DEF a, b
    <3>2. \/ serving' = NoPort /\ drops'[c]["stale"] = drops[c]["stale"]
          \/ serving' # NoPort /\ drops'[c]["stale"] = drops[c]["stale"] + 1
      BY <2>2, KissAssumption DEF AP!Serves
    <3>. DEFINE G == got[c]
                S == sent[c]
                W == AP!WaitingSum(queues, c)
                R == RefusalSum(r)
                D == drops[c]["stale"]
                S2 == sent'[c]
                W2 == AP!WaitingSum(queues', c)
                R2 == RefusalSum(refused'[c])
                D2 == drops'[c]["stale"]
    <3>3. /\ G \in Nat /\ S \in Nat /\ W \in Nat /\ R \in Nat /\ D \in Nat /\ G = S + W + R + D
          /\ W2 \in Nat /\ W2 + 1 = W
      BY <1>1, <1>2, <1>4, <1>5, <2>2, <2>4, <3>1 DEF FramesOf
    <3>4. \/ S2 = S + 1 /\ R2 = R /\ D2 = D
          \/ S2 = S /\ R2 = R + 1 /\ D2 = D
          \/ S2 = S /\ R2 = R /\ D2 = D + 1
      <4>1. CASE serving' = NoPort /\ sent' = [sent EXCEPT ![c] = @ + 1] /\ refused' = refused
        BY <1>2, <2>2, <2>4, <3>2, <4>1
      <4>2. CASE serving' = NoPort /\ refused' = [refused EXCEPT ![c] = g] /\ sent' = sent
        <5>1. refused'[c] = g
          BY <1>2, <2>2, <4>2
        <5>. QED
          BY <2>5, <3>2, <4>2, <5>1
      <4>3. CASE serving' # NoPort /\ refused' = refused /\ sent' = sent
        BY <2>4, <3>2, <4>3
      <4>. QED
        BY <2>6, <4>1, <4>2, <4>3
    <3>. HIDE DEF G, S, W, R, D, S2, W2, R2, D2
    <3>5. G = S2 + W2 + R2 + D2
      BY <3>3, <3>4
    <3>. QED
      BY <2>3, <3>5 DEF FramesOf, G, S2, W2, R2, D2
  <2>. QED
    BY <2>7, <2>8, <2>9
<1>10. ASSUME NEW c \in Clients, Close(c)
       PROVE  CountTypes' /\ \A x \in Clients : FramesOf(x)'
  <2>1. /\ refused' = [refused EXCEPT ![c] = NoRefusals]
        /\ got' = [got EXCEPT ![c] = 0] /\ sent' = [sent EXCEPT ![c] = 0]
    BY <1>10 DEF Close
  <2>2. AP!RemoveClient(c) /\ AP!IInv
    BY <1>10, SameRemove DEF Close, KInv
  <2>3. CountTypes'
    BY <1>2, <2>1, NoRefusalSum DEF CountTypes
  <2>4. ASSUME NEW x \in Clients, x # c PROVE FramesOf(x)'
    <3>1. drops' = [drops EXCEPT ![c] = AP!NoDrops]
      BY <2>2 DEF AP!RemoveClient
    <3>2. \A p \in Ports : queues'[p][x] = queues[p][x]
      BY <1>3, <2>2, <2>4 DEF AP!RemoveClient
    <3>3. SameFor(x)
      BY <1>2, <1>3, <2>1, <2>4, <3>1, <3>2 DEF SameFor
    <3>. QED
      BY <1>1, <3>3, SameKeeps
  <2>5. FramesOf(c)'
    <3>1. \A p \in Ports : queues'[p][c] = <<>>
      BY <2>2, ArbiterParameters, AP!RemoveEmpties
    <3>2. AP!WaitingSum(queues', c) = 0
      BY <3>1, ArbiterParameters, AP!WaitingNone
    <3>3. drops'[c]["stale"] = 0
      BY <1>3, <2>2 DEF AP!RemoveClient, AP!NoDrops, AP!DropReason
    <3>4. got'[c] = 0 /\ sent'[c] = 0 /\ refused'[c] = NoRefusals
      BY <1>2, <2>1
    <3>. QED
      BY <3>2, <3>3, <3>4, NoRefusalSum DEF FramesOf
  <2>. QED
    BY <2>3, <2>4, <2>5
<1>11. CASE Tick \/ EndRead \/ PumpPass \/ TimerFires
  BY <1>6, <1>11 DEF Tick, Arbiter!Tick, EndRead, PumpPass, TimerFires, arbiterVars
<1>12. ASSUME NEW c \in Clients, Connect(c) \/ \E n \in 1..MaxChunk : Data(c, n)
       PROVE  CountTypes' /\ \A x \in Clients : FramesOf(x)'
  BY <1>6, <1>12 DEF Connect, Data, arbiterVars
<1>13. ASSUME NEW p \in Ports, PumpSleep(p) \/ PumpNull(p)
       PROVE  CountTypes' /\ \A x \in Clients : FramesOf(x)'
  BY <1>6, <1>13 DEF PumpSleep, PumpNull, Arbiter!NoTurn, arbiterVars
<1>14. CASE UNCHANGED vars
  BY <1>6, <1>14 DEF vars, arbiterVars
<1>. QED
  BY <1>7, <1>8, <1>9, <1>10, <1>11, <1>12, <1>13, <1>14 DEF Next

(***************************************************************************)
(* Nothing a client sends vanishes, however many clients and ports there   *)
(* are: every data frame read was handed to a radio, still waits, or is    *)
(* counted under one reason, by the server or as stale by the arbiter; and *)
(* nothing waits for a client that has gone.                               *)
(***************************************************************************)
THEOREM FramesTheorem == Spec => []FramesAccounted
<1>1. Init => FramesInv
  <2>. SUFFICES ASSUME Init PROVE FramesInv
    OBVIOUS
  <2>1. CountTypes
    BY NoRefusalSum DEF Init, CountTypes
  <2>2. ASSUME NEW c \in Clients PROVE FramesOf(c)
    <3>1. /\ got[c] = 0 /\ sent[c] = 0 /\ refused[c] = NoRefusals
          /\ drops[c]["stale"] = 0 /\ \A p \in Ports : queues[p][c] = <<>>
      BY DEF Init, Arbiter!Init, Arbiter!NoDrops, Arbiter!DropReason
    <3>2. AP!WaitingSum(queues, c) = 0
      BY <3>1, ArbiterParameters, AP!WaitingNone
    <3>. QED
      BY <3>1, <3>2, NoRefusalSum DEF FramesOf
  <2>. QED
    BY <2>1, <2>2 DEF FramesInv
<1>2. KInv /\ FramesInv /\ [Next]_vars => FramesInv'
  BY FramesStep
<1>3. OnlyForClients /\ FramesInv => FramesAccounted
  <2>. SUFFICES ASSUME OnlyForClients, FramesInv PROVE FramesAccounted
    OBVIOUS
  <2>1. ASSUME NEW c \in Connected
        PROVE  got[c] = sent[c] + MapThenSumSet(LAMBDA p : Len(queues[p][c]), Ports)
                        + MapThenSumSet(LAMBDA why : refused[c][why], TxRefusal) + drops[c]["stale"]
    <3>1. FramesOf(c)
      BY DEF FramesInv, Connected
    <3>2. MapThenSumSet(LAMBDA p : Len(queues[p][c]), Ports) = AP!WaitingSum(queues, c)
      BY DEF AP!WaitingSum, AP!MapThenSumSet, AP!MapThenFoldSet, MapThenSumSet, MapThenFoldSet
    <3>3. MapThenSumSet(LAMBDA why : refused[c][why], TxRefusal) = RefusalSum(refused[c])
      BY DEF RefusalSum, MapThenSumSet, MapThenFoldSet
    <3>. QED
      BY <3>1, <3>2, <3>3 DEF FramesOf, MapThenSumSet, MapThenFoldSet
  <2>. QED
    BY <2>1 DEF FramesAccounted, MapThenSumSet, MapThenFoldSet
<1>. QED
  BY <1>1, <1>2, <1>3, AlwaysKInv, OnlyForClientsTheorem, PTL DEF Spec
=============================================================================

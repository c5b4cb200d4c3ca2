------------------------------ MODULE TxArbiter ------------------------------
(***************************************************************************)
(* Who transmits next on a shared radio port: packages/hub/src/arbiter.ts. *)
(*                                                                         *)
(* Every port has a rotation: a ring of the clients with a frame waiting,  *)
(* the index of the client whose turn is next (from 0, as in the code) and *)
(* a queue per client.  A client the code has no queue for has the empty   *)
(* queue here.  A frame is identified by the number of the offer that      *)
(* brought it; its bytes matter only by their number.                      *)
(*                                                                         *)
(* next() is a loop that passes over stale frames.  One step of it is one  *)
(* turn; while the loop runs (serving is the port) nothing else happens,   *)
(* since the code is one synchronous call.                                 *)
(***************************************************************************)
EXTENDS Naturals, Sequences, FiniteSets, SequencesExt, FiniteSetsExt

CONSTANTS Clients, Ports, Sizes,
          FramesPerMinute, BytesPerMinute, MaxQueue, MaxAge, Minute,
          NoPort,     \* no next() is running
          MaxOffers,  \* bound: offers made in a behaviour
          MaxNow      \* bound: the last instant of the clock

ASSUME ArbiterAssumption ==
    /\ FramesPerMinute \in Nat /\ BytesPerMinute \in Nat /\ MaxAge \in Nat
    /\ Minute \in Nat \ {0} /\ MaxQueue \in Nat \ {0}
    /\ Sizes \subseteq Nat /\ MaxOffers \in Nat /\ MaxNow \in Nat
    /\ IsFiniteSet(Ports) /\ NoPort \notin Ports

VARIABLES
    now,        \* the clock passed in
    ring,       \* ring[p]: the clients with a frame waiting on p, as they joined
    turn,       \* turn[p]: index into ring[p] of the client to serve next
    queues,     \* queues[p][c]: c's frames waiting on p
    spent,      \* spent[c]: what c had accepted and the arbiter still remembers
    drops,      \* drops[c]: frames of c refused or dropped, by reason
    serving,    \* the port a next() is working on, NoPort outside next()
    offers,     \* how many frames were offered so far
    accepted,   \* history: every frame of c accepted since it was last forgotten
    taken,      \* history: the frames of c handed out since it was last forgotten
    passed      \* history: passed[p][c][d], turns d had on p while c waited,
                \* counted from c's last turn and from when c and d joined

vars == <<now, ring, turn, queues, spent, drops, serving, offers,
          accepted, taken, passed>>

DropReason == {"frame-budget", "byte-budget", "queue-full", "stale"}
Queued == [n : Nat, at : Nat, bytes : Nat]
NoDrops == [r \in DropReason |-> 0]
----------------------------------------------------------------------------
Init ==
    /\ now = 0
    /\ ring = [p \in Ports |-> <<>>]
    /\ turn = [p \in Ports |-> 0]
    /\ queues = [p \in Ports |-> [c \in Clients |-> <<>>]]
    /\ spent = [c \in Clients |-> {}]
    /\ drops = [c \in Clients |-> NoDrops]
    /\ serving = NoPort
    /\ offers = 0
    /\ accepted = [c \in Clients |-> {}]
    /\ taken = [c \in Clients |-> {}]
    /\ passed = [p \in Ports |-> [c \in Clients |-> [d \in Clients |-> 0]]]

Tick ==
    /\ serving = NoPort
    /\ now < MaxNow
    /\ now' = now + 1
    /\ UNCHANGED <<ring, turn, queues, spent, drops, serving, offers,
                   accepted, taken, passed>>

\* Mutant: a frame is forgotten one tick before its minute is over.
RecentShort(c) == {s \in spent[c] : now - s.at < Minute - 1}

Recent(c) == {s \in spent[c] : now - s.at < Minute}

BytesOf(items) == MapThenSumSet(LAMBDA s : s.bytes, items)

WithinFrames(c) == Cardinality(Recent(c)) + 1 <= FramesPerMinute

\* Mutant: the frame offered is not counted against the bytes.
WithinBytesBefore(c, bytes) == BytesOf(Recent(c)) <= BytesPerMinute

WithinBytes(c, bytes) == BytesOf(Recent(c)) + bytes <= BytesPerMinute

Count(c, why) == drops' = [drops EXCEPT ![c][why] = @ + 1]

\* The history of a client that joins or leaves a rotation starts afresh.
Forget(hist, c) ==
    [x \in Clients |-> [d \in Clients |-> IF c \in {x, d} THEN 0 ELSE hist[x][d]]]

RefuseFrames(c) ==
    /\ ~WithinFrames(c)
    /\ Count(c, "frame-budget")
    /\ spent' = [spent EXCEPT ![c] = Recent(c)]
    /\ UNCHANGED <<ring, turn, queues, accepted, passed>>

RefuseBytes(c, bytes) ==
    /\ WithinFrames(c) /\ ~WithinBytes(c, bytes)
    /\ Count(c, "byte-budget")
    /\ spent' = [spent EXCEPT ![c] = Recent(c)]
    /\ UNCHANGED <<ring, turn, queues, accepted, passed>>

\* Mutant: the queue grows one past its limit before the oldest is dropped.
PushPastFull(q, item) == IF Len(q) > MaxQueue THEN Tail(Append(q, item)) ELSE Append(q, item)

\* A frame on a full queue drops that queue's oldest.
Push(q, item) == IF Len(q) + 1 > MaxQueue THEN Tail(Append(q, item)) ELSE Append(q, item)

Accept(c, p, item) ==
    /\ WithinFrames(c) /\ WithinBytes(c, item.bytes)
    /\ spent' = [spent EXCEPT ![c] = Recent(c) \cup {item}]
    /\ accepted' = [accepted EXCEPT ![c] = @ \cup {item}]
    /\ queues' = [queues EXCEPT ![p][c] = Push(@, item)]
    /\ IF queues[p][c] = <<>>
       THEN /\ ring' = [ring EXCEPT ![p] = Append(@, c)]
            /\ passed' = [passed EXCEPT ![p] = Forget(@, c)]
       ELSE UNCHANGED <<ring, passed>>
    /\ IF Len(queues[p][c]) + 1 > MaxQueue THEN Count(c, "queue-full") ELSE UNCHANGED drops
    /\ UNCHANGED turn

Offer(c, p, bytes) ==
    /\ serving = NoPort
    /\ offers < MaxOffers
    /\ offers' = offers + 1
    /\ \/ RefuseFrames(c)
       \/ RefuseBytes(c, bytes)
       \/ Accept(c, p, [n |-> offers, at |-> now, bytes |-> bytes])
    /\ UNCHANGED <<now, serving, taken>>
----------------------------------------------------------------------------
\* Past the end of the ring the turn comes round to its start.
Wrap(t, r) == IF t >= Len(r) THEN 0 ELSE t

\* Whoever's turn it is, everyone else in the ring has been passed once more.
Pass(p, c) ==
    [x \in Clients |-> [d \in Clients |->
        IF x = c THEN 0
        ELSE IF d = c /\ x \in Range(ring[p]) THEN passed[p][x][d] + 1
        ELSE passed[p][x][d]]]

\* Mutant: a client keeps the turn until its queue is empty.
ServeUntilEmpty(p, c) ==
    /\ queues' = [queues EXCEPT ![p][c] = Tail(@)]
    /\ IF Len(queues[p][c]) > 1
       THEN /\ passed' = [passed EXCEPT ![p] = Pass(p, c)]
            /\ UNCHANGED <<turn, ring>>
       ELSE /\ ring' = [ring EXCEPT ![p] = RemoveAt(@, turn[p] + 1)]
            /\ turn' = [turn EXCEPT ![p] = Wrap(@, ring'[p])]
            /\ passed' = [passed EXCEPT ![p] = Forget(@, c)]

\* The client whose turn it is gives its oldest frame; it leaves the ring when
\* that was its last, and the one after it moves up into its turn.
ServeTurn(p, c) ==
    /\ queues' = [queues EXCEPT ![p][c] = Tail(@)]
    /\ IF Len(queues[p][c]) > 1
       THEN /\ turn' = [turn EXCEPT ![p] = Wrap(@ + 1, ring[p])]
            /\ passed' = [passed EXCEPT ![p] = Pass(p, c)]
            /\ UNCHANGED ring
       ELSE /\ ring' = [ring EXCEPT ![p] = RemoveAt(@, turn[p] + 1)]
            /\ turn' = [turn EXCEPT ![p] = Wrap(@, ring'[p])]
            /\ passed' = [passed EXCEPT ![p] = Forget(@, c)]

\* A stale frame is dropped and the loop goes on; any other ends it.
Turn(p) ==
    /\ serving \in {NoPort, p}
    /\ ring[p] # <<>>
    /\ LET c == ring[p][turn[p] + 1]
           item == Head(queues[p][c])
       IN  /\ ServeTurn(p, c)
           /\ \/ /\ now - item.at > MaxAge
                 /\ Count(c, "stale")
                 /\ serving' = p
                 /\ UNCHANGED taken
              \/ /\ now - item.at <= MaxAge
                 /\ taken' = [taken EXCEPT ![c] = @ \cup {item}]
                 /\ serving' = NoPort
                 /\ UNCHANGED drops
    /\ UNCHANGED <<now, spent, offers, accepted>>

\* The loop found the ring empty after dropping stale frames: next() is null.
NoTurn(p) ==
    /\ serving = p
    /\ ring[p] = <<>>
    /\ serving' = NoPort
    /\ UNCHANGED <<now, ring, turn, queues, spent, drops, offers, accepted,
                   taken, passed>>

IndexIn(r, c) == CHOOSE i \in 1..Len(r) : r[i] = c

\* Mutant: the turn may point past the end of the shortened ring.
TurnNotWrapped(p, c) == IF IndexIn(ring[p], c) - 1 < turn[p] THEN turn[p] - 1 ELSE turn[p]

\* Splicing a client out of the ring moves the turn down with those behind it.
TurnWithout(p, c) ==
    LET r == RemoveAt(ring[p], IndexIn(ring[p], c))
        t == IF IndexIn(ring[p], c) - 1 < turn[p] THEN turn[p] - 1 ELSE turn[p]
    IN  Wrap(t, r)

RemoveClient(c) ==
    /\ serving = NoPort
    /\ ring' = [p \in Ports |-> IF c \in Range(ring[p])
                                THEN RemoveAt(ring[p], IndexIn(ring[p], c)) ELSE ring[p]]
    /\ turn' = [p \in Ports |-> IF c \in Range(ring[p]) THEN TurnWithout(p, c) ELSE turn[p]]
    /\ queues' = [p \in Ports |-> IF c \in Range(ring[p])
                                  THEN [queues[p] EXCEPT ![c] = <<>>] ELSE queues[p]]
    /\ passed' = [p \in Ports |-> Forget(passed[p], c)]
    /\ spent' = [spent EXCEPT ![c] = {}]
    /\ drops' = [drops EXCEPT ![c] = NoDrops]
    /\ accepted' = [accepted EXCEPT ![c] = {}]
    /\ taken' = [taken EXCEPT ![c] = {}]
    /\ UNCHANGED <<now, serving, offers>>

Next ==
    \/ Tick
    \/ \E c \in Clients, p \in Ports, b \in Sizes : Offer(c, p, b)
    \/ \E p \in Ports : Turn(p) \/ NoTurn(p)
    \/ \E c \in Clients : RemoveClient(c)

Spec == Init /\ [][Next]_vars
----------------------------------------------------------------------------
\* The type invariant: rings, turns, queues, budgets and counts are what arbiter.ts declares.
TypeOK ==
    /\ now \in Nat /\ offers \in Nat /\ serving \in Ports \cup {NoPort}
    /\ ring \in [Ports -> Seq(Clients)]
    /\ turn \in [Ports -> Nat]
    /\ queues \in [Ports -> [Clients -> Seq(Queued)]]
    /\ spent \in [Clients -> SUBSET Queued]
    /\ drops \in [Clients -> [DropReason -> Nat]]
    /\ accepted \in [Clients -> SUBSET Queued]
    /\ taken \in [Clients -> SUBSET Queued]
    /\ passed \in [Ports -> [Clients -> [Clients -> Nat]]]

(***************************************************************************)
(* The rotation of a port is what next() takes for granted when it reads   *)
(* ring[turn] and shifts a frame off that client's queue: nobody is in the *)
(* ring twice, the ring holds exactly the clients with a frame waiting,    *)
(* the turn points into it, and no queue is longer than maxQueue.          *)
(***************************************************************************)
RotationOK ==
    \A p \in Ports :
        /\ IsInjective(ring[p])
        /\ Range(ring[p]) = {c \in Clients : queues[p][c] # <<>>}
        /\ turn[p] < Len(ring[p]) \/ (turn[p] = 0 /\ ring[p] = <<>>)
        /\ \A c \in Clients : Len(queues[p][c]) <= MaxQueue

\* What client c had accepted in the minute that ends at t.
Within(c, t) == {a \in accepted[c] : a.at <= t /\ t < a.at + Minute}

(***************************************************************************)
(* Over any minute of the past, wherever it starts, and over all ports     *)
(* together, a client had at most framesPerMinute frames accepted, although *)
(* the arbiter forgets what is older than a minute each time it is asked.  *)
(***************************************************************************)
BudgetKept == \A c \in Clients : \A t \in 0..now : Cardinality(Within(c, t)) <= FramesPerMinute

(***************************************************************************)
(* The same for bytes: no minute carries more than bytesPerMinute of them. *)
(***************************************************************************)
BytesKept == \A c \in Clients : \A t \in 0..now : BytesOf(Within(c, t)) <= BytesPerMinute

(***************************************************************************)
(* A busy client cannot hold the channel: a client that keeps frames       *)
(* waiting on a port never has two turns there while another client waits, *)
(* whatever joins, leaves and removals happen in between.                  *)
(***************************************************************************)
BusyClientWaits == \A p \in Ports : \A c, d \in Clients : passed[p][c][d] <= 1

(***************************************************************************)
(* Every drop is counted: a frame a client had accepted waits on one port, *)
(* was handed out, or is in the client's counts as displaced from a full   *)
(* queue or as stale; never two of these, and none is lost silently.       *)
(***************************************************************************)
DropsCounted ==
    \A c \in Clients :
        LET waiting == UNION {Range(queues[p][c]) : p \in Ports}
            waitingCount == MapThenSumSet(LAMBDA p : Len(queues[p][c]), Ports)
        IN  /\ waiting \cup taken[c] \subseteq accepted[c]
            /\ waiting \cap taken[c] = {}
            /\ Cardinality(accepted[c]) = waitingCount + Cardinality(taken[c])
                                          + drops[c]["queue-full"] + drops[c]["stale"]
============================================================================

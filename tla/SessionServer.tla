---------------------------- MODULE SessionServer ----------------------------
(***************************************************************************)
(* The connected-mode session server (packages/packet/src/                 *)
(* session-server.ts) with the line driver it binds to every link          *)
(* (packages/packet/src/link-app.ts).  A connect request reserves a slot   *)
(* for its caller while the application is built, possibly for ever; the   *)
(* link is made when the application is there.  Lines of the caller are    *)
(* answered one at a time, some only after a wait.                         *)
(*                                                                         *)
(* The link itself is Ax25Link's matter: here it is up, closing or down,   *)
(* frames arrive at once and in order, and a UA may be lost.  A caller may *)
(* vanish and call again at any time.                                      *)
(***************************************************************************)
EXTENDS Naturals, Sequences, FiniteSets, SequencesExt, FiniteSetsExt

CONSTANTS Caller,
          MaxSessions,   \* opts.maxSessions
          Deadline,      \* warmupDeadlineMs, in ticks
          MaxPending,    \* MAX_PENDING_BUF, in lines
          Kinds,         \* kinds of line the callers type, a subset of Kind
          MaxCalls, MaxLines, MaxRepeats   \* bounds: calls, lines, repeated connect requests

(***************************************************************************)
(* now: answered at once; later: answered after a wait, or the application *)
(* fails; bye: answered, then the session is closed; onward: answered,     *)
(* then the caller is passed on to another node.                           *)
(***************************************************************************)
Kind == {"now", "later", "bye", "onward"}

ASSUME ServerAssumption ==
    /\ Caller # {} /\ MaxSessions \in Nat \ {0} /\ Deadline \in Nat /\ MaxPending \in Nat
    /\ Kinds \subseteq Kind /\ MaxCalls \in Nat /\ MaxLines \in Nat /\ MaxRepeats \in Nat

Slots == 1..(MaxCalls + MaxRepeats)   \* a connect request opens at most one slot
None == 0

VARIABLES sessions,   \* sessions[c]: the slot under c's key, or None
          slot,       \* slot[s]: slot s, its link and its driver
          peer,       \* peer[c]: what the caller c believes
          typed,      \* history: typed[c], lines c typed to the server in its current call, those
                      \* thrown away left out
          got,        \* history: got[c], lines whose answers c received in its current call
          overtaken,  \* history: callers for whom a reaped slot's application settled after a new call
          recalled,   \* history: callers that called again over a link that was not down
          used        \* how often each bounded event has happened

vars == <<sessions, slot, peer, typed, got, overtaken, recalled, used>>
history == <<typed, got, overtaken, recalled>>

Bounds == [call |-> MaxCalls, line |-> MaxLines, repeat |-> MaxRepeats]
Use(e) == used[e] < Bounds[e] /\ used' = [used EXCEPT ![e] = @ + 1]

NoHandle == [line |-> <<>>, gen |-> 0]
NewSlot == [of |-> CHOOSE c \in Caller : TRUE, warming |-> FALSE, age |-> 0, building |-> FALSE, link |-> "none",
            buf |-> <<>>, busy |-> FALSE, gen |-> 1, handle |-> NoHandle, sink |-> FALSE,
            say |-> <<>>, drop |-> {}]   \* answers sent and lines thrown away by the current call

Init ==
    /\ sessions = [c \in Caller |-> None]
    /\ slot = [s \in Slots |-> NewSlot]
    /\ peer = [c \in Caller |-> "idle"]
    /\ typed = [c \in Caller |-> <<>>]
    /\ got = [c \in Caller |-> <<>>]
    /\ overtaken = {} /\ recalled = {}
    /\ used = [e \in DOMAIN Bounds |-> 0]
----------------------------------------------------------------------------
(* The line driver: operators from a slot before a call to the slot after it. *)

\* io.disconnect()
Close(d) == IF d.link = "up" THEN [d EXCEPT !.link = "closing"] ELSE d

\* What a link sends after the caller was told it is closing does not go out.
Say(d, line) == IF d.link = "up" THEN [d EXCEPT !.say = Append(@, line)] ELSE d

\* attach(): what the caller typed ahead is forgotten.
Attach(d) == [d EXCEPT !.sink = TRUE, !.drop = @ \cup ToSet(d.buf), !.buf = <<>>]

Apply(d, line) ==
    LET e == Say(d, line)
    IN  CASE line.kind = "bye" -> Close(e)
          [] line.kind = "onward" -> Attach(e)
          [] OTHER -> e

\* One turn of pump(): the first line is handled, and answered unless the application makes it wait.
Turn(d) ==
    LET line == Head(d.buf)
        e == [d EXCEPT !.buf = Tail(@)]
    IN  IF line.kind = "later" THEN [e EXCEPT !.busy = TRUE, !.handle = [line |-> line, gen |-> d.gen]]
        ELSE Apply(e, line)

\* Mutant: the next line is handled while the application still works on one.
NextTurnThrough(d) == IF d.buf = <<>> THEN d ELSE Turn(d)

\* pump()'s loop goes round once more unless a line waits for its answer or there is none.
NextTurn(d) == IF d.busy \/ d.buf = <<>> THEN d ELSE Turn(d)

\* pump(): at most as many turns as there are lines.
Pump(d) ==
    LET turns[n \in 0..Len(d.buf)] == IF n = 0 THEN d ELSE NextTurn(turns[n - 1])
    IN  turns[Len(d.buf)]

\* Lines that come faster than they are answered end the session.
OnData(d, line) ==
    LET e == Pump([d EXCEPT !.buf = Append(@, line)])
    IN  CASE d.sink -> d
          [] ~d.sink /\ Len(e.buf) > MaxPending ->
                Close([e EXCEPT !.drop = @ \cup ToSet(e.buf), !.buf = <<>>])
          [] OTHER -> e

OnDown(d) == [d EXCEPT !.link = "down", !.buf = <<>>, !.busy = FALSE, !.gen = @ + 1, !.sink = FALSE]

\* Mutant: the lines that came in the meantime stay where they are.
ResolveOnly(d) ==
    LET e == [d EXCEPT !.busy = FALSE, !.handle = NoHandle]
    IN  IF d.handle.gen = d.gen THEN Apply(e, d.handle.line) ELSE e

\* The application's answer to a line that waited, or its failure.
Resolve(d) ==
    LET e == [d EXCEPT !.busy = FALSE, !.handle = NoHandle]
    IN  IF d.handle.gen = d.gen THEN Pump(Apply(e, d.handle.line)) ELSE e

Reject(d) ==
    LET e == [d EXCEPT !.busy = FALSE, !.handle = NoHandle]
    IN  IF d.handle.gen = d.gen THEN Close(e) ELSE e
----------------------------------------------------------------------------
(* The server. *)

\* An object nothing refers to any more is gone.
Collect(d) == IF d.link = "down" /\ d.handle = NoHandle THEN NewSlot ELSE [d EXCEPT !.say = <<>>, !.drop = {}]

\* The lines of seq that are not in gone, in order (a fold of its own, as the prover knows no law of SelectSeq).
Without(seq, gone) ==
    LET kept[n \in 0..Len(seq)] ==
            IF n = 0 THEN <<>> ELSE IF seq[n] \in gone THEN kept[n - 1] ELSE Append(kept[n - 1], seq[n])
    IN  kept[Len(seq)]

\* Slot s becomes d, its caller hearing the answers; ty is what the caller typed so far.
Put(s, d, ty) ==
    /\ slot' = [slot EXCEPT ![s] = Collect(d)]
    /\ got' = [got EXCEPT ![d.of] = IF peer[d.of] = "up" THEN @ \o d.say ELSE @]
    /\ typed' = [ty EXCEPT ![d.of] = Without(@, d.drop)]

\* The call of c is over: its history is of no more interest.
EndCall(c) == typed' = [typed EXCEPT ![c] = <<>>] /\ got' = [got EXCEPT ![c] = <<>>]

\* A UA is sent to c, which is in state p: it is lost, or answers a call.
Ua(c, p) == peer' \in {[peer EXCEPT ![c] = p], [peer EXCEPT ![c] = IF p = "calling" THEN "up" ELSE p]}

\* open(): the slot is reserved before the application is built.
Open(c) ==
    LET s == Min({t \in Slots : slot[t] = NewSlot}) IN
    /\ sessions' = [sessions EXCEPT ![c] = s]
    /\ slot' = [slot EXCEPT ![s] = [NewSlot EXCEPT !.of = c, !.warming = TRUE, !.building = TRUE]]

Live == {c \in Caller : sessions[c] # None}

\* onFrame() of a SABM: the link under the caller's key is set up again, without the driver hearing
\* of it; while the slot is warming nothing happens; without a slot one is opened if there is room.
OnSabm(c) ==
    LET s == sessions[c] IN
    IF s # None /\ slot[s].link # "none"
    THEN /\ slot' = [slot EXCEPT ![s].link = "up"]
         /\ Ua(c, "calling")
         /\ UNCHANGED sessions
    ELSE /\ peer' = [peer EXCEPT ![c] = "calling"]
         /\ IF s # None \/ Cardinality(Live) >= MaxSessions THEN UNCHANGED <<sessions, slot>> ELSE Open(c)

\* A caller calls, after a session, a failure or a restart of its own.
Call(c) ==
    /\ peer[c] # "calling"
    /\ Use("call")
    /\ OnSabm(c)
    /\ EndCall(c)
    /\ recalled' = IF sessions[c] # None /\ slot[sessions[c]].link # "none" THEN recalled \cup {c} ELSE recalled
    /\ UNCHANGED overtaken

\* It repeats the request it has no answer to.
Repeat(c) ==
    /\ peer[c] = "calling"
    /\ Use("repeat")
    /\ OnSabm(c)
    /\ UNCHANGED history

Vanish(c) ==
    /\ peer[c] # "idle"
    /\ peer' = [peer EXCEPT ![c] = "idle"]
    /\ EndCall(c)
    /\ UNCHANGED <<sessions, slot, overtaken, recalled, used>>

\* The promise of slot s's application settles while another slot is under its caller's key.
Overtakes(s) == sessions[slot[s].of] \notin {None, s}

\* Mutant: a slot that was reaped meanwhile is wired all the same.
BuiltUnchecked(s) ==
    LET c == slot[s].of IN
    /\ slot[s].building
    /\ slot' = [slot EXCEPT ![s].building = FALSE, ![s].warming = FALSE, ![s].link = "up"]
    /\ Ua(c, peer[c])
    /\ overtaken' = IF Overtakes(s) THEN overtaken \cup {c} ELSE overtaken
    /\ UNCHANGED <<sessions, typed, got, recalled, used>>

\* wire(): the key, not the slot under it, says whether the call still stands.
Built(s) ==
    LET c == slot[s].of IN
    /\ slot[s].building
    /\ IF sessions[c] = None
       THEN slot' = [slot EXCEPT ![s] = NewSlot] /\ UNCHANGED peer
       ELSE /\ slot' = [slot EXCEPT ![s].building = FALSE, ![s].warming = FALSE, ![s].link = "up"]
            /\ Ua(c, peer[c])
    /\ overtaken' = IF Overtakes(s) THEN overtaken \cup {c} ELSE overtaken
    /\ UNCHANGED <<sessions, typed, got, recalled, used>>

BuildFails(s) ==
    LET c == slot[s].of IN
    /\ slot[s].building
    /\ slot' = [slot EXCEPT ![s] = NewSlot]
    /\ sessions' = [sessions EXCEPT ![c] = None]
    /\ overtaken' = IF Overtakes(s) THEN overtaken \cup {c} ELSE overtaken
    /\ UNCHANGED <<peer, typed, got, recalled, used>>

\* Time passes for the slots that are warming.
Tick ==
    LET warm == {s \in {sessions[c] : c \in Live} : slot[s].warming /\ slot[s].age <= Deadline} IN
    /\ warm # {}
    /\ slot' = [s \in Slots |-> IF s \in warm THEN [slot[s] EXCEPT !.age = @ + 1] ELSE slot[s]]
    /\ UNCHANGED <<sessions, peer, history, used>>

\* Mutant: slots are reaped only when their application has settled.
ReapSettled(c) ==
    LET s == sessions[c] IN
    /\ s # None
    /\ slot[s].warming /\ slot[s].age > Deadline /\ ~slot[s].building
    /\ sessions' = [sessions EXCEPT ![c] = None]
    /\ UNCHANGED <<slot, peer, history, used>>

\* poll(): a slot that has been warming too long loses its key.
Reap(c) ==
    LET s == sessions[c] IN
    /\ s # None
    /\ slot[s].warming /\ slot[s].age > Deadline
    /\ sessions' = [sessions EXCEPT ![c] = None]
    /\ UNCHANGED <<slot, peer, history, used>>

\* The link of c's slot is disconnected: the driver hears of it, then the key goes.
LinkDown(c) ==
    /\ slot' = [slot EXCEPT ![sessions[c]] = Collect(OnDown(@))]
    /\ sessions' = [sessions EXCEPT ![c] = None]
    /\ EndCall(c)
    /\ UNCHANGED <<overtaken, recalled, used>>

Linked(c) == sessions[c] # None /\ slot[sessions[c]].link \in {"up", "closing"}

Hangup(c) ==
    /\ peer[c] = "up" /\ Linked(c)
    /\ peer' = [peer EXCEPT ![c] = "idle"]
    /\ LinkDown(c)

\* The DISC is answered, or the caller is gone and the retries of the link end.
LinkEnds(c) ==
    /\ Linked(c)
    /\ peer[c] # "up" \/ slot[sessions[c]].link = "closing"
    /\ peer' = [peer EXCEPT ![c] = IF @ = "up" THEN "idle" ELSE @]
    /\ LinkDown(c)

\* A line arrives on c's link.
Type(c) ==
    LET s == sessions[c] IN
    /\ peer[c] = "up" /\ s # None
    /\ slot[s].link = "up"
    /\ Use("line")
    /\ \E kind \in Kinds :
          LET line == [n |-> used["line"] + 1, kind |-> kind] IN
          Put(s, OnData(slot[s], line), IF slot[s].sink THEN typed ELSE [typed EXCEPT ![c] = Append(@, line)])
    /\ UNCHANGED <<sessions, peer, overtaken, recalled>>

\* The node the caller was passed on to closes its circuit.
OnwardCloses(s) ==
    /\ slot[s].sink
    /\ Put(s, [slot[s] EXCEPT !.sink = FALSE], typed)
    /\ UNCHANGED <<sessions, peer, overtaken, recalled, used>>

Settle(s) ==
    /\ slot[s].handle # NoHandle
    /\ Put(s, Resolve(slot[s]), typed) \/ Put(s, Reject(slot[s]), typed)
    /\ UNCHANGED <<sessions, peer, overtaken, recalled, used>>

Next ==
    \/ \E c \in Caller : Call(c) \/ Repeat(c) \/ Vanish(c) \/ Reap(c) \/ Hangup(c) \/ LinkEnds(c) \/ Type(c)
    \/ \E s \in Slots : Built(s) \/ BuildFails(s) \/ OnwardCloses(s) \/ Settle(s)
    \/ Tick

Spec == Init /\ [][Next]_vars

\* The server is polled every second, the links' own retries end, and an application answers a line
\* in the end; building one may take for ever.
Fairness ==
    /\ WF_vars(Tick) /\ WF_vars(\E c \in Caller : Reap(c))
    /\ WF_vars(\E s \in Slots : Settle(s))

FairSpec == Spec /\ Fairness
----------------------------------------------------------------------------
\* The type invariant: one slot per key, of that caller; a link only where the application is built.
TypeOK ==
    /\ \A c \in Caller : sessions[c] \in Slots \cup {None} /\ peer[c] \in {"idle", "calling", "up"}
    /\ \A c \in Live : slot[sessions[c]].of = c /\ slot[sessions[c]].link # "down"
    /\ \A s \in Slots :
          /\ slot[s].link \in {"none", "up", "closing", "down"} /\ slot[s].age \in 0..(Deadline + 1)
          /\ slot[s].link # "none" => ~slot[s].building /\ ~slot[s].warming
          /\ Len(slot[s].buf) <= MaxPending

(***************************************************************************)
(* Every link that is not down is the one under its caller's key, so that  *)
(* it receives the caller's frames and is polled (poll(): "a late resolve  *)
(* sees the key gone").  It does, unless the caller has called again since *)
(* its slot was reaped: then the key is there, and not this slot's.        *)
(***************************************************************************)
NoOrphan ==
    \A s \in Slots : slot[s].link \in {"up", "closing"} =>
        sessions[slot[s].of] = s \/ slot[s].of \in overtaken

Disturbed(c) == c \in overtaken \cup recalled

(***************************************************************************)
(* A caller receives the answers to the lines it typed in this call, each  *)
(* once and in the order typed (makeLineDriver: "commands are processed    *)
(* and answered strictly in arrival order", and a reply "must not leak     *)
(* into a later session").  The second half fails for a caller that calls  *)
(* again over a link the server still holds: the driver is not told.       *)
(***************************************************************************)
AnswersInOrder == \A c \in Caller : Disturbed(c) \/ IsPrefix(got[c], typed[c])

\* A slot stops warming, however long its application takes to build.
WarmupEnds ==
    \A c \in Caller : \A s \in Slots :
        sessions[c] = s /\ slot[s].warming ~> ~(sessions[c] = s /\ slot[s].warming)

\* Every line of a session that lasts is answered or was thrown away by an attach.
EveryLineAnswered ==
    \A c \in Caller :
        LET waits == peer[c] = "up" /\ Linked(c) /\ got[c] # typed[c] /\ ~Disturbed(c)
        IN  waits ~> ~waits \/ slot[sessions[c]].link = "closing"
=============================================================================

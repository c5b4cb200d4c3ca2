---------------------------- MODULE SoundcardPort ----------------------------
(***************************************************************************)
(* The transmit side of a soundcard port (apps/ingest/src/soundcard.ts)    *)
(* with its PTT watchdog (ptt/watchdog.ts) and the release on a signal or  *)
(* an uncaught exception (ptt/release.ts).                                 *)
(*                                                                         *)
(* Five asynchronous flows share one PTT driver: the transmission ("tx"),  *)
(* the watchdog's release ("trip"), stop(), the unkey after an uncaught    *)
(* exception ("exc") and the one on SIGTERM ("sig").  pc[f] is the await a *)
(* flow is at, clock[f] what is left of that await's time-out.  The driver *)
(* takes its calls in the order they were made (the lock of gpio and       *)
(* termuxusb, the chain of rigctld, the write queue of cat; cm108 answers  *)
(* at once); a call may fail with or without its effect, or hang, and a    *)
(* call nobody waits for any more may still take effect.  Time passes in   *)
(* ticks, and a timer that is due runs before the next tick.               *)
(*                                                                         *)
(* A frame is a count: what it carries does not matter here.  open stands  *)
(* for the switches outside: the master switch, the confirmed calls,       *)
(* capture.                                                                *)
(***************************************************************************)
EXTENDS Integers, Sequences, FiniteSets

CONSTANTS MaxKey,      \* pttMaxMs
          OpTimeout,   \* opTimeoutMs
          PlayMax,     \* airMs + PLAY_SLACK_MS + 1000, when play() gives up
          StopWait,    \* STOP_WAIT_MS
          Attempts,    \* how often the release tries to unkey (3)
          QueueMax,    \* TX_QUEUE_MAX
          MaxExceptions  \* bound: uncaught exceptions in a behaviour

ASSUME TimesAssumption ==
    /\ {MaxKey, OpTimeout, PlayMax, StopWait, Attempts} \subseteq Nat \ {0}
    /\ QueueMax \in Nat \ {0} /\ MaxExceptions \in Nat

Flows == {"tx", "trip", "stop", "exc", "sig"}
None == -1
HeldCap == MaxKey + PlayMax + (Attempts + 1) * OpTimeout   \* bound: how far held is counted

VARIABLES s,      \* the port, its watchdog and the driver, one record
          open,   \* whether the outside lets the port transmit
          held    \* history: for how many ticks the radio has been keyed without a break

vars == <<s, open, held>>

Start ==
    [calls |-> <<>>,       \* the driver's calls not yet done: what, and for which flow
     on |-> FALSE,         \* whether the radio transmits
     fuse |-> None,        \* what is left of the watchdog's timer in the event loop
     timer |-> FALSE,      \* whether the watchdog still holds that timer
     keyed |-> FALSE, fault |-> FALSE, queue |-> 0, stopped |-> FALSE,
     excs |-> 0,           \* how many exceptions there were
     tries |-> 0,          \* the release's unkeys so far
     gaveUp |-> FALSE,     \* history: every try of the release failed
     overtaken |-> FALSE,  \* history: an unkey made before the key was confirmed after it
     pc |-> [f \in Flows |-> "idle"], clock |-> [f \in Flows |-> 0]]

Init == s = Start /\ open = TRUE /\ held = 0

\* Every step but a tick and a switch.
Keeps == held' = (IF s'.on THEN held ELSE 0) /\ UNCHANGED open
----------------------------------------------------------------------------
(* The watchdog. *)

\* withTimeout around a driver call: flow f waits for it in phase p.
Ask(r, f, op, p) ==
    [r EXCEPT !.calls = Append(@, [op |-> op, by |-> f]), !.pc[f] = p, !.clock[f] = OpTimeout]

Disarm(r) == IF r.timer THEN [r EXCEPT !.timer = FALSE, !.fuse = None] ELSE r
Arm(r) == [Disarm(r) EXCEPT !.timer = TRUE, !.fuse = MaxKey]

Tripping(r) == r.pc["trip"] # "idle"

\* Latch the fault and release by every means; the port's onFault empties the queue.
\* The timer is forgotten, not cleared.  works: the driver has a synchronous release and it succeeds.
Trip(r, works) ==
    IF Tripping(r) THEN r
    ELSE Ask([r EXCEPT !.timer = FALSE, !.fault = TRUE, !.queue = 0, !.on = @ /\ ~works, !.tries = 1],
             "trip", "unkey", "unkeying")

\* What a confirmed unkey does.
Confirmed(r) ==
    [Disarm(r) EXCEPT !.keyed = FALSE,
                      !.overtaken = @ \/ \E i \in DOMAIN r.calls : r.calls[i] = [op |-> "key", by |-> "tx"]]

\* unkey(): a release that is under way is waited for.
Unkey(r, f) ==
    IF Tripping(r) THEN [r EXCEPT !.pc[f] = "joining"] ELSE Ask(r, f, "unkey", "unkeying")

\* Mutant: the timer is armed only once the driver has answered.
KeyUnarmed(r) ==
    IF r.fault THEN Unkey(r, "tx")
    ELSE Ask([r EXCEPT !.keyed = TRUE, !.overtaken = FALSE], "tx", "key", "keying")

\* key(): the timer runs from the request.  A fault refuses it, and transmit() then unkeys.
Key(r) ==
    IF r.fault THEN Unkey(r, "tx")
    ELSE Ask([Arm(r) EXCEPT !.keyed = TRUE, !.overtaken = FALSE], "tx", "key", "keying")

----------------------------------------------------------------------------
(* What each flow does after an await. *)

\* The drain loop takes the next frame, or ends.
Loop(r) ==
    IF r.queue > 0 /\ ~r.stopped
    THEN [r EXCEPT !.queue = @ - 1, !.pc["tx"] = "waiting"]
    ELSE [r EXCEPT !.pc["tx"] = "idle"]

\* unkey() has returned to its caller, or thrown.
AfterUnkey(r, f, threw) ==
    CASE f = "tx" -> Loop(r)
      [] f = "stop" -> Ask(r, f, "close", IF threw THEN "closingFailed" ELSE "closing")
      [] f \in {"exc", "sig"} -> [r EXCEPT !.pc[f] = "idle"]

\* The release is over: the flows that wait for it go on.
Woken(p) ==
    CASE p = "joining" -> "joined" [] p = "failing" -> "failed" [] p = "backjoining" -> "backjoined"
      [] OTHER -> p
EndTrip(r) == [r EXCEPT !.pc = [f \in Flows |-> IF f = "trip" THEN "idle" ELSE Woken(r.pc[f])]]

\* Mutant: an unkey of the release that failed counts as confirmed.
SettleTripBlindly(r, ok) == EndTrip(Confirmed(r))

SettleTrip(r, ok) ==
    CASE ok -> EndTrip(Confirmed(r))
      [] ~ok /\ r.tries < Attempts -> [Ask(r, "trip", "unkey", "unkeying") EXCEPT !.tries = @ + 1]
      [] ~ok /\ r.tries >= Attempts -> EndTrip([r EXCEPT !.gaveUp = TRUE])

\* The driver call of flow f has come back (ok), failed or timed out.
Settle(r, f, ok, works) ==
    LET at == r.pc[f] IN
    CASE f = "trip" -> SettleTrip(r, ok)
      [] at = "keying" -> IF ok THEN [r EXCEPT !.pc[f] = "playing", !.clock[f] = PlayMax]
                          ELSE Ask(r, f, "unkey", "backing")
      [] at = "backing" -> IF ok THEN Unkey(Confirmed(r), f)
                           ELSE [Trip(r, works) EXCEPT !.pc[f] = "backjoining"]
      [] at = "unkeying" /\ f # "trip" -> IF ok THEN AfterUnkey(Confirmed(r), f, FALSE)
                                          ELSE [Trip(r, works) EXCEPT !.pc[f] = "failing"]
      [] at \in {"closing", "closingFailed"} ->
            [r EXCEPT !.pc[f] = "done",
                      !.on = @ /\ ~(works /\ (~ok \/ at = "closingFailed"))]

Awaits(f) == s.pc[f] \in {"keying", "backing", "unkeying", "closing", "closingFailed"}

\* The driver does its next call, or fails at it with or without the effect.
Driver ==
    /\ s.calls # <<>>
    /\ \E ok, effect, works \in BOOLEAN :
          LET c == Head(s.calls)
              r == [s EXCEPT !.calls = Tail(@), !.on = IF ok \/ effect THEN c.op = "key" ELSE @]
          IN  s' = IF c.by = "nobody" THEN r ELSE Settle(r, c.by, ok, works)
    /\ Keeps

\* A call that did not answer in time is given up; the driver may still do it.
Abandon(r, f) ==
    [r EXCEPT !.calls = [i \in DOMAIN @ |-> IF @[i].by = f THEN [@[i] EXCEPT !.by = "nobody"] ELSE @[i]]]

\* Mutant: only keying is bounded by a time-out.
TimeOutKeyOnly(f) ==
    /\ Awaits(f) /\ s.clock[f] = 0 /\ s.pc[f] = "keying"
    /\ \E works \in BOOLEAN : s' = Settle(Abandon(s, f), f, FALSE, works)
    /\ Keeps

TimeOut(f) ==
    /\ Awaits(f) /\ s.clock[f] = 0
    /\ \E works \in BOOLEAN : s' = Settle(Abandon(s, f), f, FALSE, works)
    /\ Keeps

Fuse ==
    /\ s.fuse = 0
    /\ \E works \in BOOLEAN : s' = Trip([s EXCEPT !.fuse = None], works)
    /\ Keeps

Resume(f) ==
    /\ s.pc[f] \in {"joined", "failed", "backjoined"}
    /\ s' = IF s.pc[f] = "backjoined" THEN Unkey(s, f) ELSE AfterUnkey(s, f, s.pc[f] = "failed")
    /\ Keeps
----------------------------------------------------------------------------
(* The port. *)

Refuses == s.stopped \/ s.fault \/ ~open

Enqueue ==
    /\ ~Refuses /\ s.queue < QueueMax
    /\ LET r == [s EXCEPT !.queue = @ + 1] IN s' = IF s.pc["tx"] = "idle" THEN Loop(r) ELSE r
    /\ Keeps

\* The frame is too long, waited too long, or the port stopped: the loop goes on.
GiveUpFrame ==
    /\ s.pc["tx"] = "waiting"
    /\ s' = Loop(s)
    /\ Keeps

\* Mutant: the gate was asked when the frame came in.
TransmitUnasked ==
    /\ s.pc["tx"] = "waiting" /\ ~s.stopped
    /\ s' = Key(s)
    /\ Keeps

\* The channel is clear and the duty cycle allows the frame: the gate is asked once more.
Transmit ==
    /\ s.pc["tx"] = "waiting" /\ ~s.stopped
    /\ s' = IF Refuses THEN [s EXCEPT !.queue = 0, !.pc["tx"] = "idle"] ELSE Key(s)
    /\ Keeps

\* The playback exits, fails to start, or is killed.
PlayEnds ==
    /\ s.pc["tx"] = "playing"
    /\ s' = Unkey(s, "tx")
    /\ Keeps

\* The playback never reports its end.
PlayHangs == s.clock["tx"] = 0 /\ PlayEnds

\* SIGTERM: the shutdown stops the port, and the release unkeys it at once.
Stop ==
    /\ ~s.stopped
    /\ LET r == [s EXCEPT !.stopped = TRUE, !.queue = 0]
           w == IF r.pc["tx"] # "idle"
                THEN [r EXCEPT !.pc["stop"] = "draining", !.clock["stop"] = StopWait]
                ELSE Unkey(r, "stop")
       IN  s' = Unkey(w, "sig")
    /\ Keeps

\* Mutant: stop() does not wait for the PTT to be closed.
DrainedUnclosed ==
    /\ s.pc["stop"] = "draining" /\ (s.pc["tx"] = "idle" \/ s.clock["stop"] = 0)
    /\ s' = [s EXCEPT !.pc["stop"] = "done"]
    /\ Keeps

\* The transmission has ended, or the wait for it is over.
Drained ==
    /\ s.pc["stop"] = "draining" /\ (s.pc["tx"] = "idle" \/ s.clock["stop"] = 0)
    /\ s' = Unkey(s, "stop")
    /\ Keeps

\* An uncaught exception anywhere in the ingest, which goes on.
Exception ==
    /\ s.pc["exc"] = "idle" /\ s.pc["stop"] # "done" /\ s.excs < MaxExceptions
    /\ \E works \in BOOLEAN : s' = Unkey([s EXCEPT !.excs = @ + 1, !.on = @ /\ ~works], "exc")
    /\ Keeps

\* A port that is stopped or faulted asks no more.
Switch == ~s.stopped /\ ~s.fault /\ open' = ~open /\ UNCHANGED <<s, held>>

Timed(f) == Awaits(f) \/ s.pc[f] \in {"playing", "draining"}
Due ==
    \/ s.fuse = 0
    \/ \E f \in Flows : Timed(f) /\ s.clock[f] = 0
    \/ \E f \in Flows : s.pc[f] \in {"joined", "failed", "backjoined"}
    \/ s.pc["stop"] = "draining" /\ s.pc["tx"] = "idle"

\* One tick of the clock.
Tick ==
    /\ ~Due
    /\ s' = [s EXCEPT !.fuse = IF @ = None THEN None ELSE @ - 1,
                      !.clock = [f \in Flows |-> IF Timed(f) THEN @[f] - 1 ELSE 0]]
    /\ held' = IF s.on /\ held < HeldCap THEN held + 1 ELSE held
    /\ UNCHANGED open

Clockwork ==
    \/ Tick \/ Fuse \/ PlayHangs \/ Drained
    \/ \E f \in Flows : TimeOut(f) \/ Resume(f)

Next ==
    \/ Clockwork \/ Driver \/ Enqueue \/ GiveUpFrame \/ Transmit \/ PlayEnds
    \/ Stop \/ Exception \/ Switch

Spec == Init /\ [][Next]_vars

\* The event loop runs its timers; nothing is asked of the driver or the playback.
FairSpec == Spec /\ WF_vars(Clockwork)
----------------------------------------------------------------------------
(* Properties. *)

Phases == {"idle", "waiting", "keying", "backing", "backjoining", "backjoined", "playing", "unkeying",
           "joining", "joined", "failing", "failed", "draining", "closing", "closingFailed", "done"}

\* Types of the port's state; a timer the watchdog holds is alive in the event loop.
TypeOK ==
    /\ {s.on, s.timer, s.keyed, s.fault, s.stopped, s.gaveUp, s.overtaken, open} \subseteq BOOLEAN
    /\ s.fuse \in None..MaxKey /\ s.queue \in 0..QueueMax /\ s.tries \in 0..Attempts
    /\ s.pc \in [Flows -> Phases]
    /\ \A i \in DOMAIN s.calls :
          s.calls[i].op \in {"key", "unkey", "close"} /\ s.calls[i].by \in Flows \cup {"nobody"}
    /\ s.timer => s.fuse # None
    /\ held \in 0..HeldCap

Pending(op) == \E i \in DOMAIN s.calls : s.calls[i].op = op

\* watchdog.ts 9-11: a stuck transmitter holds the channel for at most the key time and a few driver
\* time-outs (one per try of the release), whatever hangs, unless every release failed.  When an unkey that was asked for
\* before the key is confirmed after it, that disarms the new key's timer, and the playback's own
\* limit bounds the key instead.
HeldBounded ==
    ~s.gaveUp => held <= IF s.overtaken THEN PlayMax + (Attempts + 1) * OpTimeout ELSE MaxKey + Attempts * OpTimeout

\* A keyed radio is never forgotten: a timer runs, a release or the transmission is under way, or an
\* unkey is on its way to the driver behind everything that could key.
NeverForgotten ==
    s.on /\ ~s.gaveUp =>
        \/ s.fuse # None
        \/ Tripping(s)
        \/ s.pc["tx"] \notin {"idle", "waiting"}
        \/ Pending("unkey") \/ Pending("close")

\* Once stop() has returned the radio is unkeyed and nothing will key it, whatever it met.
StoppedIsUnkeyed == s.pc["stop"] = "done" /\ ~s.gaveUp => ~s.on /\ ~Pending("key")

\* The driver is asked to key only while the port may transmit, at that moment and not when the
\* frame was queued.
KeysOnlyWithLeave ==
    [][Len(s'.calls) > Len(s.calls) /\ s'.calls[Len(s'.calls)].op = "key" => ~Refuses]_vars

\* Every transmission ends, even with a driver that never answers: a port that stays in transmit()
\* hears nothing any more.
TransmitEnds == s.pc["tx"] \notin {"idle", "waiting"} ~> s.pc["tx"] \in {"idle", "waiting"}

\* stop() returns, even with a driver that never answers.
StopEnds == s.stopped ~> s.pc["stop"] = "done"

\* Every flow ends, whatever the driver and the playback do or leave undone.
FlowsEnd == TransmitEnds /\ StopEnds
=============================================================================

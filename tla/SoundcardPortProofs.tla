------------------------- MODULE SoundcardPortProofs -------------------------
(***************************************************************************)
(* Proofs about the soundcard port: whatever the driver and the playback   *)
(* do, for all time-outs and any number of tries of the release.           *)
(***************************************************************************)
EXTENDS SoundcardPort, SequenceTheorems, TLAPS

Op == {"key", "unkey", "close"}
Call == [op : Op, by : Flows \cup {"nobody"}]

PortType(r) ==
    r \in [calls : Seq(Call), on : BOOLEAN, fuse : Int, timer : BOOLEAN, keyed : BOOLEAN, fault : BOOLEAN,
           queue : Int, stopped : BOOLEAN, excs : Int, tries : Int, gaveUp : BOOLEAN, overtaken : BOOLEAN,
           pc : [Flows -> Phases], clock : [Flows -> Int]]

\* A flow that waits for the release, or is about to go on after it.
Joins == {"joining", "failing", "backjoining", "joined", "failed", "backjoined"}

\* The awaits each flow can be at.
PhasesOf(f) ==
    CASE f = "tx"   -> {"idle", "waiting", "keying", "backing", "playing", "unkeying"} \cup Joins
      [] f = "trip" -> {"idle", "unkeying"}
      [] f = "stop" -> {"idle", "draining", "unkeying", "joining", "joined", "failing", "failed",
                        "closing", "closingFailed", "done"}
      [] OTHER      -> {"idle", "unkeying", "joining", "joined", "failing", "failed"}

\* A call of the driver and the phase its flow waits for it in.
Fits(c, p) ==
    \/ c.op = "key" /\ c.by = "tx" /\ p = "keying"
    \/ c.op = "unkey" /\ p = "unkeying"
    \/ c.op = "unkey" /\ c.by = "tx" /\ p = "backing"
    \/ c.op = "close" /\ c.by = "stop" /\ p \in {"closing", "closingFailed"}

\* A call is waited for by at most one flow, and the flow by one call; x has none.
Owned(r, x) ==
    /\ \A i \in 1..Len(r.calls) : r.calls[i].by # "nobody" =>
          r.calls[i].by # x /\ Fits(r.calls[i], r.pc[r.calls[i].by])
    /\ \A i, j \in 1..Len(r.calls) : r.calls[i].by = r.calls[j].by /\ r.calls[i].by # "nobody" => i = j

\* A key nobody waits for any more has an unkey behind it.
Followed(r) ==
    \A i \in 1..Len(r.calls) : r.calls[i].op = "key" =>
        r.calls[i].by = "tx" \/ \E j \in 1..Len(r.calls) : i < j /\ r.calls[j].op # "key"

\* An unkey that was given up led to a fault, and a close to the end of stop().
Left(r) ==
    \A i \in 1..Len(r.calls) : r.calls[i].by = "nobody" => r.calls[i].op = "key" \/ r.fault \/ r.pc["stop"] = "done"

\* The radio is off and nothing on its way to the driver keys it.
Dead(r) == ~r.on /\ \A i \in 1..Len(r.calls) : r.calls[i].op # "key"

\* The unkey of flow f is behind every key.
Covers(r, f) ==
    \E i \in 1..Len(r.calls) : /\ r.calls[i].by = f /\ r.calls[i].op = "unkey"
                               /\ \A j \in 1..Len(r.calls) : r.calls[j].op = "key" => j < i

\* After the release, and after stop()'s unkey, the radio is dead unless the release gave up.
Past == {"joined", "failed", "closing", "closingFailed", "done"}

\* All of it while flow x is between two awaits ("none" for between two steps).
Sound(r, x) ==
    /\ PortType(r) /\ \A f \in Flows : r.pc[f] \in PhasesOf(f)
    /\ Owned(r, x)
    /\ x # "tx" => Followed(r)
    /\ x = "none" => Left(r)
    /\ Tripping(r) \/ r.gaveUp => r.fault
    /\ \A f \in Flows : r.pc[f] \in Joins => r.fault
    /\ r.fault => r.gaveUp \/ Dead(r) \/ Covers(r, "trip") \/ x = "trip"
    /\ ~r.stopped => r.pc["stop"] = "idle" /\ r.pc["sig"] = "idle"
    /\ r.pc["stop"] = "unkeying" => Covers(r, "stop") \/ x = "stop"
    /\ r.pc["stop"] \in Past => r.gaveUp \/ Dead(r)

\* Before a fault something watches a keyed radio.
Guarded(r) == r.fault \/ ~r.on \/ r.fuse # None \/ \E i \in 1..Len(r.calls) : r.calls[i].op # "key"
Watched(r) == Guarded(r) \/ r.pc["tx"] \notin {"idle", "waiting"}

PortInv == Sound(s, "none") /\ Watched(s)
-----------------------------------------------------------------------------
(* What the model's operators on the record change. *)

\* t differs from r only where Sound does not look.
Alike(r, t) ==
    /\ t.calls = r.calls /\ t.on = r.on /\ t.fault = r.fault /\ t.gaveUp = r.gaveUp
    /\ t.stopped = r.stopped /\ t.pc = r.pc

LEMMA AlikeSound ==
    ASSUME NEW r, NEW t, NEW x, Sound(r, x), Alike(r, t), PortType(t)
    PROVE  Sound(t, x)
BY DEF Sound, Alike, Owned, Followed, Left, Dead, Covers, Tripping

LEMMA CallsAre ==
    ASSUME NEW r, PortType(r)
    PROVE  /\ r.calls \in Seq(Call) /\ Len(r.calls) \in Nat
           /\ \A i \in 1..Len(r.calls) : r.calls[i] \in Call /\ r.calls[i].op \in Op /\ r.calls[i].by \in Flows \cup {"nobody"}
<1>1. r.calls \in Seq(Call)
  BY DEF PortType
<1>2. \A i \in 1..Len(r.calls) : r.calls[i] \in Call
  BY <1>1, ElementOfSeq
<1>. QED
  BY <1>1, <1>2 DEF Call

\* What Ask does.
Asked(r, t, c, p) ==
    /\ PortType(t)
    /\ Len(r.calls) \in Nat /\ Len(t.calls) = Len(r.calls) + 1 /\ t.calls[Len(r.calls) + 1] = c
    /\ \A i \in 1..Len(r.calls) : t.calls[i] = r.calls[i]
    /\ t.pc = [r.pc EXCEPT ![c.by] = p]
    /\ t.on = r.on /\ t.fault = r.fault /\ t.gaveUp = r.gaveUp /\ t.stopped = r.stopped /\ t.fuse = r.fuse

LEMMA AskIs ==
    ASSUME NEW r, PortType(r), NEW f \in Flows, NEW op \in Op, NEW p \in Phases
    PROVE  Asked(r, Ask(r, f, op, p), [op |-> op, by |-> f], p)
<1>. DEFINE c == [op |-> op, by |-> f]
            t == Ask(r, f, op, p)
<1>1. c \in Call /\ r.calls \in Seq(Call) /\ c.by = f
  BY DEF Call, PortType
<1>2. OpTimeout \in Int
  BY TimesAssumption
<1>3. t = [r EXCEPT !.calls = Append(r.calls, c), !.pc[f] = p, !.clock[f] = OpTimeout]
  BY DEF Ask
<1>. DEFINE q == Append(r.calls, c)
<1>4. q \in Seq(Call) /\ Len(q) = Len(r.calls) + 1 /\ q[Len(r.calls) + 1] = c /\ Len(r.calls) \in Nat
      /\ \A i \in 1..Len(r.calls) : q[i] = r.calls[i]
  BY <1>1, AppendProperties
<1>5. t = [r EXCEPT !.calls = q, !.pc = [r.pc EXCEPT ![f] = p], !.clock = [r.clock EXCEPT ![f] = OpTimeout]]
  BY <1>3 DEF PortType
<1>. HIDE DEF c, q, t
<1>6. /\ [r.pc EXCEPT ![f] = p] \in [Flows -> Phases]
      /\ [r.clock EXCEPT ![f] = OpTimeout] \in [Flows -> Int]
  BY <1>2 DEF PortType
<1>7. PortType(t)
  BY <1>4, <1>5, <1>6 DEF PortType
<1>8. t.calls = q /\ t.pc = [r.pc EXCEPT ![f] = p]
      /\ t.on = r.on /\ t.fault = r.fault /\ t.gaveUp = r.gaveUp /\ t.stopped = r.stopped /\ t.fuse = r.fuse
  BY <1>5 DEF PortType
<1>9. Asked(r, t, c, p)
  BY <1>1, <1>4, <1>7, <1>8 DEF Asked
<1>. QED
  BY <1>9 DEF c, t

\* A call that does not key, made by a flow that has none, makes all safe again.
LEMMA AskSound ==
    ASSUME NEW r, NEW t, NEW c \in Call, NEW p \in Phases, c.by \in Flows, Sound(r, c.by), Asked(r, t, c, p),
           c.op # "key", Fits(c, p), p \in PhasesOf(c.by), Left(r) \/ r.fault,
           c.by = "stop" => r.pc["stop"] # "done",
           c.by = "trip" => r.fault, c.by \in {"stop", "sig"} => r.stopped,
           p \in {"closing", "closingFailed"} => r.gaveUp \/ Dead(r)
    PROVE  Sound(t, "none") /\ Watched(t)
<1>. DEFINE f == c.by
            n == Len(r.calls)
            m == n + 1
<1>0. n \in Nat /\ Len(t.calls) = m /\ m \in 1..m /\ 1..m = 1..n \cup {m} /\ m \notin 1..n /\ t.calls[m] = c
      /\ \A i \in 1..n : t.calls[i] = r.calls[i] /\ i < m
  BY DEF Asked
<1>1. PortType(r) /\ PortType(t) /\ r.pc \in [Flows -> Phases] /\ t.pc = [r.pc EXCEPT ![f] = p]
  BY DEF Asked, Sound, PortType
<1>2. /\ t.on = r.on /\ t.fault = r.fault /\ t.gaveUp = r.gaveUp /\ t.stopped = r.stopped
  BY DEF Asked
<1>3. /\ t.pc[f] = p /\ \A g \in Flows : g # f => t.pc[g] = r.pc[g]
  BY <1>1
<1>4. p \in {"unkeying", "backing", "closing", "closingFailed"} /\ f # "nobody"
  BY DEF Fits, Flows
<1>. HIDE DEF f, m, n
<1>5. \A i \in 1..n : r.calls[i].by \in Flows \cup {"nobody"} /\ (r.calls[i].by # "nobody" => r.calls[i].by # f)
  BY <1>1, CallsAre DEF Sound, Owned, f, n
<1>6. Owned(t, "none")
  <2>1. ASSUME NEW i \in 1..m, t.calls[i].by # "nobody"
        PROVE  t.calls[i].by # "none" /\ Fits(t.calls[i], t.pc[t.calls[i].by])
    <3>1. CASE i = m
      BY <1>0, <1>3, <3>1 DEF f, Flows
    <3>2. CASE i \in 1..n
      <4>1. t.calls[i] = r.calls[i] /\ r.calls[i].by \in Flows /\ r.calls[i].by # f
        BY <1>0, <1>5, <2>1, <3>2
      <4>2. Fits(r.calls[i], r.pc[r.calls[i].by])
        BY <2>1, <3>2, <4>1, Zenon DEF Sound, Owned, n
      <4>3. t.pc[r.calls[i].by] = r.pc[r.calls[i].by]
        BY <1>3, <4>1
      <4>. QED
        BY <4>1, <4>2, <4>3 DEF Flows
    <3>. QED
      BY <1>0, <3>1, <3>2
  <2>2. ASSUME NEW i \in 1..m, NEW j \in 1..m, t.calls[i].by = t.calls[j].by, t.calls[i].by # "nobody"
        PROVE  i = j
    <3>1. CASE i \in 1..n /\ j \in 1..n
      BY <1>0, <2>2, <3>1 DEF Sound, Owned, n
    <3>2. CASE i = m \/ j = m
      BY <1>0, <1>5, <2>2, <3>2 DEF f
    <3>. QED
      BY <1>0, <3>1, <3>2
  <2>. QED
    BY <1>0, <2>1, <2>2 DEF Owned
<1>7. Followed(t)
  BY <1>0 DEF Followed
<1>8. Dead(r) => Dead(t)
  BY <1>0, <1>2 DEF Dead, n
<1>9. \A g : Covers(r, g) => Covers(t, g)
  <2>. SUFFICES ASSUME NEW g, Covers(r, g) PROVE Covers(t, g)
    OBVIOUS
  <2>1. PICK i \in 1..n : /\ r.calls[i].by = g /\ r.calls[i].op = "unkey"
                          /\ \A j \in 1..n : r.calls[j].op = "key" => j < i
    BY DEF Covers, n
  <2>. QED
    BY <1>0, <2>1 DEF Covers
<1>10. c.op = "unkey" => Covers(t, f)
  BY <1>0 DEF Covers, f
<1>11. \A g \in Flows : t.pc[g] \in PhasesOf(g)
  BY <1>3 DEF Sound, f
<1>12. (Tripping(t) \/ t.gaveUp => t.fault) /\ \A g \in Flows : t.pc[g] \in Joins => t.fault
  BY <1>2, <1>3, <1>4 DEF Sound, Tripping, Joins, f, Flows
<1>13. t.fault => t.gaveUp \/ Dead(t) \/ Covers(t, "trip")
  <2>1. CASE f = "trip"
    <3>1. c.op = "unkey"
      BY <2>1 DEF Fits, PhasesOf, f
    <3>. QED
      BY <1>10, <2>1, <3>1
  <2>2. CASE f # "trip"
    BY <1>2, <1>8, <1>9, <2>2 DEF Sound, f
  <2>. QED
    BY <2>1, <2>2
<1>14. ~t.stopped => t.pc["stop"] = "idle" /\ t.pc["sig"] = "idle"
  BY <1>2, <1>3 DEF Sound, Flows, f
<1>15. t.pc["stop"] = "unkeying" => Covers(t, "stop")
  <2>1. CASE f = "stop"
    <3>. SUFFICES ASSUME t.pc["stop"] = "unkeying" PROVE Covers(t, "stop")
      OBVIOUS
    <3>1. c.op = "unkey"
      BY <1>3, <2>1 DEF Fits, f
    <3>. QED
      BY <1>10, <2>1, <3>1
  <2>2. CASE f # "stop"
    BY <1>3, <1>9, <2>2 DEF Sound, f, Flows
  <2>. QED
    BY <2>1, <2>2
<1>16. t.pc["stop"] \in Past => t.gaveUp \/ Dead(t)
  <2>1. CASE f = "stop"
    BY <1>2, <1>3, <1>4, <1>8, <2>1 DEF Past
  <2>2. CASE f # "stop"
    BY <1>2, <1>3, <1>8, <2>2 DEF Sound, Flows
  <2>. QED
    BY <2>1, <2>2
<1>17. Watched(t)
  BY <1>0 DEF Watched, Guarded
<1>18. Left(t)
  <2>1. r.pc["stop"] = "done" => t.pc["stop"] = "done"
    BY <1>3 DEF Flows, f
  <2>. QED
    BY <1>0, <1>2, <1>4, <2>1 DEF Left, n, f
<1>. QED
  BY <1>1, <1>6, <1>7, <1>11, <1>12, <1>13, <1>14, <1>15, <1>16, <1>17, <1>18 DEF Sound

\* Flow f goes on without a call.
LEMMA PcSound ==
    ASSUME NEW r, NEW t, NEW f \in Flows, f # "trip", NEW p \in Phases, Sound(r, f), Followed(r),
           PortType(t), t.calls = r.calls, t.fault = r.fault, t.gaveUp = r.gaveUp,
           t.stopped = r.stopped, t.on => r.on, t.pc = [r.pc EXCEPT ![f] = p],
           p \in PhasesOf(f), p \in Joins => r.fault, p # "unkeying",
           f \in {"stop", "sig"} => r.stopped,
           f = "stop" /\ p \in Past => r.gaveUp \/ Dead(r), Left(t)
    PROVE  Sound(t, "none")
<1>1. t.pc[f] = p /\ \A g \in Flows : g # f => t.pc[g] = r.pc[g]
  BY DEF Sound, PortType
<1>2. \A i \in 1..Len(r.calls) : r.calls[i].by \in Flows \cup {"nobody"}
  BY CallsAre DEF Sound
<1>3. Owned(t, "none")
  BY <1>1, <1>2 DEF Sound, Owned, Flows
<1>4. Followed(t) /\ (Dead(r) => Dead(t)) /\ \A g : Covers(r, g) => Covers(t, g)
  BY DEF Followed, Dead, Covers
<1>5. \A g \in Flows : t.pc[g] \in PhasesOf(g)
  BY <1>1 DEF Sound
<1>6. (Tripping(t) \/ t.gaveUp => t.fault) /\ \A g \in Flows : t.pc[g] \in Joins => t.fault
  BY <1>1 DEF Sound, Tripping, Flows
<1>7. t.fault => t.gaveUp \/ Dead(t) \/ Covers(t, "trip")
  BY <1>4 DEF Sound
<1>8. ~t.stopped => t.pc["stop"] = "idle" /\ t.pc["sig"] = "idle"
  BY <1>1 DEF Sound, Flows
<1>9. t.pc["stop"] = "unkeying" => Covers(t, "stop")
  BY <1>1, <1>4 DEF Sound, Flows
<1>10. t.pc["stop"] \in Past => t.gaveUp \/ Dead(t)
  BY <1>1, <1>4 DEF Sound, Flows
<1>. QED
  BY <1>3, <1>4, <1>5, <1>6, <1>7, <1>8, <1>9, <1>10 DEF Sound
-----------------------------------------------------------------------------
(* The watchdog's operations. *)

LEMMA DisarmIs == ASSUME NEW r, PortType(r) PROVE PortType(Disarm(r)) /\ Alike(r, Disarm(r))
<1>1. CASE r.timer
  <2>. DEFINE t == [r EXCEPT !.timer = FALSE, !.fuse = None]
  <2>1. Disarm(r) = t
    BY <1>1 DEF Disarm
  <2>2. None \in Int
    BY DEF None
  <2>3. PortType(t)
    BY <2>2 DEF PortType
  <2>4. Alike(r, t)
    BY DEF PortType, Alike
  <2>. QED
    BY <2>1, <2>3, <2>4
<1>2. CASE ~r.timer
  BY <1>2 DEF Disarm, Alike
<1>. QED
  BY <1>1, <1>2

LEMMA ConfirmedIs == ASSUME NEW r, PortType(r) PROVE PortType(Confirmed(r)) /\ Alike(r, Confirmed(r))
<1>. DEFINE d == Disarm(r)
            o == d.overtaken \/ \E i \in DOMAIN r.calls : r.calls[i] = [op |-> "key", by |-> "tx"]
<1>1. PortType(d) /\ Alike(r, d)
  BY DisarmIs
<1>2. Confirmed(r) = [d EXCEPT !.keyed = FALSE, !.overtaken = o]
  BY DEF Confirmed
<1>3. o \in BOOLEAN
  OBVIOUS
<1>. HIDE DEF d, o
<1>4. PortType([d EXCEPT !.keyed = FALSE, !.overtaken = o]) /\ Alike(d, [d EXCEPT !.keyed = FALSE, !.overtaken = o])
  BY <1>1, <1>3 DEF PortType, Alike
<1>. QED
  BY <1>1, <1>2, <1>4 DEF Alike

LEMMA ConfirmedSound ==
    ASSUME NEW r, NEW x, Sound(r, x) PROVE Sound(Confirmed(r), x) /\ Alike(r, Confirmed(r))
BY ConfirmedIs, AlikeSound DEF Sound

\* Flow f is at phase p, all else is the same.
Moved(r, t, f, p) ==
    /\ PortType(t) /\ t.pc = [r.pc EXCEPT ![f] = p] /\ t.calls = r.calls /\ t.fault = r.fault
    /\ t.gaveUp = r.gaveUp /\ t.stopped = r.stopped /\ t.on = r.on /\ t.fuse = r.fuse

LEMMA PcIs ==
    ASSUME NEW r, PortType(r), NEW f \in Flows, NEW p \in Phases
    PROVE  Moved(r, [r EXCEPT !.pc[f] = p], f, p)
<1>1. [r EXCEPT !.pc[f] = p] = [r EXCEPT !.pc = [r.pc EXCEPT ![f] = p]] /\ [r.pc EXCEPT ![f] = p] \in [Flows -> Phases]
  BY DEF PortType
<1>. QED
  BY <1>1 DEF PortType, Moved

\* unkey() of a flow between two awaits.
LEMMA UnkeySound ==
    ASSUME NEW r, NEW f \in {"tx", "stop", "exc", "sig"}, Sound(r, f), Followed(r),
           f \in {"stop", "sig"} => r.stopped, Left(r), f = "stop" => r.pc["stop"] # "done"
    PROVE  Sound(Unkey(r, f), "none") /\ Watched(Unkey(r, f))
<1>. DEFINE t == Unkey(r, f)
<1>0. f \in Flows /\ PortType(r)
  BY DEF Flows, Sound
<1>1. CASE Tripping(r)
  <2>1. t = [r EXCEPT !.pc[f] = "joining"] /\ r.fault
    BY <1>1 DEF Unkey, Sound
  <2>2. "joining" \in Phases /\ "joining" \in PhasesOf(f) /\ "joining" \notin Past
    BY DEF Phases, PhasesOf, Past, Joins
  <2>3. Moved(r, t, f, "joining")
    BY <1>0, <2>1, <2>2, PcIs
  <2>. HIDE DEF t
  <2>a. Left(t)
    BY <2>1, <2>3 DEF Left, Moved
  <2>4. Sound(t, "none")
    BY <1>0, <2>1, <2>2, <2>3, <2>a, PcSound DEF Moved
  <2>. QED
    BY <2>1, <2>3, <2>4 DEF Watched, Guarded, Moved, t
<1>2. CASE ~Tripping(r)
  <2>. DEFINE c == [op |-> "unkey", by |-> f]
  <2>1. t = Ask(r, f, "unkey", "unkeying")
    BY <1>2 DEF Unkey
  <2>2. c \in Call /\ c.by = f /\ c.op = "unkey" /\ "unkeying" \in Phases /\ Fits(c, "unkeying") /\ "unkeying" \in PhasesOf(f) /\ "unkey" \in Op
    BY <1>0 DEF Call, Phases, Fits, PhasesOf, Op
  <2>3. Asked(r, t, c, "unkeying")
    BY <1>0, <2>1, <2>2, AskIs
  <2>. HIDE DEF c, t
  <2>4. Sound(t, "none") /\ Watched(t)
    BY <1>0, <2>2, <2>3, AskSound
  <2>. QED
    BY <2>4 DEF t
<1>. QED
  BY <1>1, <1>2

\* The release starts: the fault is latched and the first unkey is behind every key.
LEMMA FaultSound ==
    ASSUME NEW r, NEW t, NEW x, Sound(r, x), Followed(r), ~Tripping(r), x # "trip",
           PortType(t), t.calls = r.calls, t.on => r.on, t.fault, t.gaveUp = r.gaveUp, t.stopped = r.stopped,
           \A g \in Flows : t.pc[g] \in PhasesOf(g),
           \A g \in Flows : t.pc[g] = r.pc[g] \/ (g = x /\ t.pc[g] \in {"failing", "backjoining"}),
           x \in Flows => t.pc[x] \in {"failing", "backjoining"},
           x \in {"stop", "sig"} => r.stopped, x = "none" \/ x \in Flows
    PROVE  Sound(t, "trip")
<1>1. \A i \in 1..Len(r.calls) : r.calls[i].by \in Flows \cup {"nobody"}
  BY CallsAre DEF Sound
<1>2. r.pc["trip"] = "idle"
  BY DEF Tripping
<1>3. Owned(t, "trip")
  <2>1. ASSUME NEW i \in 1..Len(t.calls), t.calls[i].by # "nobody"
        PROVE  t.calls[i].by # "trip" /\ Fits(t.calls[i], t.pc[t.calls[i].by])
    <3>1. t.calls[i] = r.calls[i] /\ i \in 1..Len(r.calls) /\ r.calls[i].by # x /\ Fits(r.calls[i], r.pc[r.calls[i].by])
          /\ r.calls[i].by \in Flows
      BY <1>1, <2>1 DEF Sound, Owned
    <3>2. r.calls[i].by # "trip"
      BY <1>2, <3>1 DEF Fits
    <3>3. t.pc[r.calls[i].by] = r.pc[r.calls[i].by]
      BY <3>1
    <3>. QED
      BY <3>1, <3>2, <3>3
  <2>2. \A i, j \in 1..Len(t.calls) : t.calls[i].by = t.calls[j].by /\ t.calls[i].by # "nobody" => i = j
    BY DEF Sound, Owned
  <2>. QED
    BY <2>1, <2>2 DEF Owned
<1>4. Followed(t) /\ (Dead(r) => Dead(t)) /\ \A g : Covers(r, g) => Covers(t, g)
  BY DEF Followed, Dead, Covers
<1>5. ~t.stopped => t.pc["stop"] = "idle" /\ t.pc["sig"] = "idle"
  BY DEF Sound, Flows
<1>6. t.pc["stop"] = "unkeying" => Covers(t, "stop")
  BY <1>4 DEF Sound, Flows
<1>7. t.pc["stop"] \in Past => t.gaveUp \/ Dead(t)
  BY <1>4 DEF Sound, Flows, Past
<1>. QED
  BY <1>3, <1>4, <1>5, <1>6, <1>7 DEF Sound

\* What Trip leaves to its first unkey.
Faulted(r, works) ==
    [r EXCEPT !.timer = FALSE, !.fault = TRUE, !.queue = 0, !.on = @ /\ ~works, !.tries = 1]

LEMMA CountsTyped ==
    ASSUME NEW r, PortType(r), NEW q \in Int, NEW n \in Int
    PROVE  PortType([r EXCEPT !.queue = q, !.tries = n])
BY DEF PortType

LEMMA FaultedIs ==
    ASSUME NEW r, PortType(r), NEW works \in BOOLEAN
    PROVE  LET t == Faulted(r, works) IN
           /\ PortType(t) /\ t.fault /\ t.calls = r.calls /\ (t.on => r.on) /\ t.gaveUp = r.gaveUp
           /\ t.stopped = r.stopped /\ t.pc = r.pc
<1>. DEFINE o == r.on /\ ~works
            t == Faulted(r, works)
<1>1. t = [r EXCEPT !.timer = FALSE, !.fault = TRUE, !.queue = 0, !.on = o, !.tries = 1]
  BY DEF Faulted
<1>2. o \in BOOLEAN /\ (o => r.on)
  OBVIOUS
<1>. HIDE DEF o, t
<1>3. PortType(t)
  <2>1. PortType([r EXCEPT !.timer = FALSE, !.fault = TRUE])
    BY DEF PortType
  <2>. DEFINE u == [r EXCEPT !.timer = FALSE, !.fault = TRUE, !.on = o]
  <2>2. PortType(u)
    BY <1>2, <2>1 DEF PortType
  <2>3. t = [u EXCEPT !.queue = 0, !.tries = 1]
    BY <1>1 DEF PortType
  <2>. HIDE DEF u
  <2>4. 0 \in Int /\ 1 \in Int
    OBVIOUS
  <2>5. PortType([u EXCEPT !.queue = 0, !.tries = 1])
    BY <2>2, <2>4, CountsTyped, Zenon
  <2>. QED
    BY <2>3, <2>5, Zenon
<1>4. t.fault = TRUE /\ t.calls = r.calls /\ t.on = o /\ t.gaveUp = r.gaveUp /\ t.stopped = r.stopped /\ t.pc = r.pc
  BY <1>1 DEF PortType
<1>. QED
  BY <1>2, <1>3, <1>4 DEF t

\* The release starts for flow f, which waits for it.
LEMMA TripSound ==
    ASSUME NEW r, NEW f \in {"tx", "stop", "exc", "sig"}, Sound(r, f), Followed(r), NEW works \in BOOLEAN,
           NEW p \in {"failing", "backjoining"}, p \in PhasesOf(f), f \in {"stop", "sig"} => r.stopped,
           NEW t, t = [Trip(r, works) EXCEPT !.pc[f] = p]
    PROVE  Sound(t, "none") /\ Watched(t)
<1>0. f \in Flows /\ f # "trip" /\ PortType(r) /\ p \in Phases /\ p \in Joins /\ p \notin Past /\ p # "unkeying"
  BY DEF Flows, Sound, Phases, Joins, Past
<1>1. CASE Tripping(r)
  <2>1. t = [r EXCEPT !.pc[f] = p] /\ r.fault
    BY <1>1 DEF Trip, Sound
  <2>2. Moved(r, t, f, p)
    <3>1. Moved(r, [r EXCEPT !.pc[f] = p], f, p)
      BY <1>0, PcIs
    <3>. QED
      BY <2>1, <3>1, Zenon
  <2>a. Left(t)
    BY <2>1, <2>2 DEF Left, Moved
  <2>3. Sound(t, "none")
    BY <1>0, <2>1, <2>2, <2>a, PcSound DEF Moved
  <2>. QED
    BY <2>1, <2>2, <2>3 DEF Watched, Guarded, Moved
<1>2. CASE ~Tripping(r)
  <2>. DEFINE u == Faulted(r, works)
              v == [u EXCEPT !.pc[f] = p]
              a == Ask(u, "trip", "unkey", "unkeying")
              c == [op |-> "unkey", by |-> "trip"]
  <2>1. t = [a EXCEPT !.pc[f] = p]
    BY <1>2 DEF Trip, Faulted
  <2>2. /\ PortType(u) /\ u.fault /\ u.calls = r.calls /\ (u.on => r.on) /\ u.gaveUp = r.gaveUp
        /\ u.stopped = r.stopped /\ u.pc = r.pc
    BY <1>0, FaultedIs
  <2>3. c \in Call /\ c.by = "trip" /\ c.op = "unkey" /\ "unkeying" \in Phases /\ Fits(c, "unkeying")
        /\ "unkeying" \in PhasesOf("trip") /\ "unkey" \in Op /\ "trip" \in Flows
    BY DEF Call, Phases, Fits, PhasesOf, Op, Flows
  <2>. HIDE DEF u
  <2>4. Asked(u, a, c, "unkeying")
    BY <2>2, <2>3, AskIs
  <2>5. Moved(u, v, f, p)
    BY <1>0, <2>2, PcIs
  <2>. HIDE DEF a, v
  <2>6. Moved(a, t, f, p)
    <3>1. PortType(a)
      BY <2>4 DEF Asked
    <3>2. Moved(a, [a EXCEPT !.pc[f] = p], f, p)
      BY <1>0, <3>1, PcIs
    <3>. QED
      BY <2>1, <3>2, Zenon
  <2>. HIDE DEF c
  <2>7. Asked(v, t, c, "unkeying")
    <3>1. t.pc = [v.pc EXCEPT !["trip"] = "unkeying"]
      <4>1. u.pc \in [Flows -> Phases]
        BY <2>2 DEF PortType
      <4>2. a.pc = [u.pc EXCEPT !["trip"] = "unkeying"]
        BY <2>3, <2>4 DEF Asked
      <4>3. v.pc = [u.pc EXCEPT ![f] = p] /\ t.pc = [a.pc EXCEPT ![f] = p]
        BY <2>5, <2>6 DEF Moved
      <4>. QED
        BY <1>0, <2>3, <4>1, <4>2, <4>3
    <3>. QED
      BY <2>3, <2>4, <2>5, <2>6, <3>1 DEF Asked, Moved
  <2>8. r.pc \in [Flows -> Phases] /\ v.pc = [r.pc EXCEPT ![f] = p]
    BY <1>0, <2>2, <2>5 DEF PortType, Moved
  <2>9. v.pc[f] = p /\ \A g \in Flows : g # f => v.pc[g] = r.pc[g]
    BY <1>0, <2>8
  <2>10. Sound(v, "trip")
    <3>1. \A g \in Flows : v.pc[g] \in PhasesOf(g)
      BY <2>9 DEF Sound
    <3>2. PortType(v) /\ v.calls = r.calls /\ (v.on => r.on) /\ v.fault /\ v.gaveUp = r.gaveUp /\ v.stopped = r.stopped
      BY <2>2, <2>5 DEF Moved
    <3>3. \A g \in Flows : v.pc[g] = r.pc[g] \/ (g = f /\ v.pc[g] \in {"failing", "backjoining"})
      BY <2>9
    <3>. QED
      BY <1>0, <1>2, <2>9, <3>1, <3>2, <3>3, FaultSound
  <2>11. v.fault
    BY <2>2, <2>5 DEF Moved
  <2>12. Sound(t, "none") /\ Watched(t)
    BY <2>3, <2>7, <2>10, <2>11, AskSound
  <2>. QED
    BY <2>12
<1>. QED
  BY <1>1, <1>2

\* The watchdog's timer starts the release.
LEMMA FuseSound ==
    ASSUME NEW r, Sound(r, "none"), NEW works \in BOOLEAN
    PROVE  Sound(Trip(r, works), "none") /\ Watched(Trip(r, works))
<1>1. CASE Tripping(r)
  BY <1>1 DEF Trip, Watched, Guarded, Sound
<1>2. CASE ~Tripping(r)
  <2>. DEFINE u == Faulted(r, works)
              a == Ask(u, "trip", "unkey", "unkeying")
              c == [op |-> "unkey", by |-> "trip"]
  <2>1. Trip(r, works) = a /\ PortType(r)
    BY <1>2 DEF Trip, Faulted, Sound
  <2>2. /\ PortType(u) /\ u.fault /\ u.calls = r.calls /\ (u.on => r.on) /\ u.gaveUp = r.gaveUp
        /\ u.stopped = r.stopped /\ u.pc = r.pc
    BY <2>1, FaultedIs
  <2>3. c \in Call /\ c.by = "trip" /\ c.op = "unkey" /\ "unkeying" \in Phases /\ Fits(c, "unkeying")
        /\ "unkeying" \in PhasesOf("trip") /\ "unkey" \in Op /\ "trip" \in Flows
    BY DEF Call, Phases, Fits, PhasesOf, Op, Flows
  <2>. HIDE DEF u
  <2>4. Asked(u, a, c, "unkeying")
    BY <2>2, <2>3, AskIs
  <2>. HIDE DEF a, c
  <2>5. Sound(u, "trip")
    BY <1>2, <2>2, FaultSound DEF Sound, Flows
  <2>6. Sound(a, "none") /\ Watched(a)
    BY <2>2, <2>3, <2>4, <2>5, AskSound
  <2>. QED
    BY <2>1, <2>6
<1>. QED
  BY <1>1, <1>2
-----------------------------------------------------------------------------
(* The flows after an await. *)

LEMMA LoopSound ==
    ASSUME NEW r, Sound(r, "tx"), Followed(r), Left(r), Guarded(r)
    PROVE  Sound(Loop(r), "none") /\ Watched(Loop(r))
<1>0. PortType(r) /\ "tx" \in Flows /\ r.queue \in Int /\ r.pc \in [Flows -> Phases]
  BY DEF Sound, PortType, Flows
<1>. DEFINE t == Loop(r)
            Went(p) == PortType(t) /\ t.pc = [r.pc EXCEPT !["tx"] = p] /\ t.calls = r.calls /\ t.fault = r.fault
                       /\ t.gaveUp = r.gaveUp /\ t.stopped = r.stopped /\ t.on = r.on /\ t.fuse = r.fuse
<1>1. PICK p \in {"waiting", "idle"} : Went(p)
  <2>1. CASE r.queue > 0 /\ ~r.stopped
    <3>. DEFINE q == r.queue - 1
                u == [r EXCEPT !.pc["tx"] = "waiting"]
    <3>a. q \in Int
      BY <1>0
    <3>b. t = [r EXCEPT !.queue = q, !.pc["tx"] = "waiting"]
      BY <2>1 DEF Loop
    <3>. HIDE DEF q
    <3>1. q \in Int /\ t = [u EXCEPT !.queue = q]
      BY <1>0, <3>a, <3>b DEF PortType
    <3>2. Moved(r, u, "tx", "waiting")
      BY <1>0, PcIs DEF Phases
    <3>. HIDE DEF u, t
    <3>3. PortType(t)
      BY <3>1, <3>2 DEF PortType, Moved
    <3>4. Alike(u, t) /\ t.fuse = u.fuse
      BY <3>1, <3>2 DEF PortType, Alike, Moved
    <3>. QED
      BY <3>2, <3>3, <3>4 DEF Moved, Alike
  <2>2. CASE ~(r.queue > 0 /\ ~r.stopped)
    <3>1. t = [r EXCEPT !.pc["tx"] = "idle"]
      BY <2>2 DEF Loop
    <3>2. Moved(r, t, "tx", "idle")
      BY <1>0, <3>1, PcIs DEF Phases
    <3>. QED
      BY <3>2 DEF Moved
  <2>. QED
    BY <2>1, <2>2
<1>. HIDE DEF t
<1>2. p \in PhasesOf("tx") /\ p \notin Joins /\ p # "unkeying" /\ p \in Phases
  BY DEF PhasesOf, Joins, Phases
<1>a. Left(t)
  BY <1>0, <1>1 DEF Left, Flows
<1>3. Sound(t, "none")
  BY <1>0, <1>1, <1>2, <1>a, PcSound
<1>4. Watched(t)
  BY <1>1 DEF Watched, Guarded
<1>. QED
  BY <1>3, <1>4 DEF t

\* unkey() has returned or thrown: the radio is off, or there is a fault.
LEMMA AfterUnkeySound ==
    ASSUME NEW r, NEW f \in {"tx", "stop", "exc", "sig"}, Sound(r, f), Followed(r), Left(r), r.fault \/ ~r.on,
           f = "stop" => r.pc["stop"] # "done",
           f \in {"stop", "sig"} => r.stopped, f = "stop" => r.gaveUp \/ Dead(r), NEW threw \in BOOLEAN
    PROVE  Sound(AfterUnkey(r, f, threw), "none") /\ Watched(AfterUnkey(r, f, threw))
<1>0. PortType(r) /\ f \in Flows /\ Guarded(r)
  BY DEF Sound, Flows, Guarded
<1>1. CASE f = "tx"
  <2>1. AfterUnkey(r, f, threw) = Loop(r)
    BY <1>1 DEF AfterUnkey
  <2>. QED
    BY <1>0, <1>1, <2>1, LoopSound
<1>2. CASE f = "stop"
  <2>. DEFINE p == IF threw THEN "closingFailed" ELSE "closing"
              c == [op |-> "close", by |-> "stop"]
              t == Ask(r, "stop", "close", p)
  <2>1. AfterUnkey(r, f, threw) = t
    BY <1>2 DEF AfterUnkey
  <2>2. c \in Call /\ c.by = "stop" /\ c.op = "close" /\ p \in Phases /\ Fits(c, p)
        /\ p \in PhasesOf("stop") /\ "close" \in Op /\ "stop" \in Flows
    BY DEF Call, Phases, Fits, PhasesOf, Op, Flows
  <2>. HIDE DEF p
  <2>3. Asked(r, t, c, p)
    BY <1>0, <2>2, AskIs
  <2>. HIDE DEF c, t
  <2>4. Sound(t, "none") /\ Watched(t)
    BY <1>0, <1>2, <2>2, <2>3, AskSound
  <2>. QED
    BY <2>1, <2>4
<1>3. CASE f \in {"exc", "sig"}
  <2>. DEFINE t == [r EXCEPT !.pc[f] = "idle"]
  <2>1. AfterUnkey(r, f, threw) = t
    BY <1>3 DEF AfterUnkey
  <2>2. "idle" \in Phases /\ "idle" \in PhasesOf(f) /\ "idle" \notin Joins
    BY <1>3 DEF Phases, PhasesOf, Joins
  <2>3. Moved(r, t, f, "idle")
    BY <1>0, <2>2, PcIs
  <2>. HIDE DEF t
  <2>a. Left(t)
    BY <1>0, <1>3, <2>3, SMTT(40) DEF Left, Moved, PortType, Flows
  <2>4. Sound(t, "none")
    BY <1>0, <1>3, <2>2, <2>3, <2>a, PcSound DEF Moved
  <2>5. Watched(t)
    BY <1>0, <2>3 DEF Moved, Watched, Guarded
  <2>. QED
    BY <2>1, <2>4, <2>5
<1>. QED
  BY <1>1, <1>2, <1>3

\* The release is over.
LEMMA EndTripSound ==
    ASSUME NEW r, Sound(r, "trip"), r.fault, r.gaveUp \/ Dead(r)
    PROVE  Sound(EndTrip(r), "none") /\ Watched(EndTrip(r))
<1>. DEFINE w == [f \in Flows |-> IF f = "trip" THEN "idle" ELSE Woken(r.pc[f])]
            t == EndTrip(r)
<1>0. PortType(r) /\ t = [r EXCEPT !.pc = w]
  BY DEF Sound, EndTrip
<1>1. \A f \in Flows : w[f] \in PhasesOf(f) /\ w[f] \in Phases
  <2>. SUFFICES ASSUME NEW f \in Flows PROVE w[f] \in PhasesOf(f) /\ w[f] \in Phases
    OBVIOUS
  <2>1. r.pc[f] \in PhasesOf(f)
    BY DEF Sound
  <2>2. PhasesOf(f) \subseteq Phases
    BY DEF PhasesOf, Phases, Joins
  <2>3. Woken(r.pc[f]) \in PhasesOf(f)
    BY <2>1 DEF PhasesOf, Woken, Joins
  <2>4. "idle" \in PhasesOf(f)
    BY DEF PhasesOf
  <2>. QED
    BY <2>2, <2>3, <2>4
<1>2. w \in [Flows -> Phases]
  BY <1>1
<1>3. \A f \in Flows : f # "trip" => w[f] = r.pc[f] \/ (r.pc[f] \in Joins /\ w[f] \in Joins)
  BY DEF Woken, Joins
<1>4. w["trip"] = "idle"
  BY DEF Flows
<1>. HIDE DEF w, t
<1>5. PortType(t)
  BY <1>0, <1>2 DEF PortType
<1>6. t.pc = w /\ t.calls = r.calls /\ t.on = r.on /\ t.fault = r.fault /\ t.gaveUp = r.gaveUp /\ t.stopped = r.stopped
  BY <1>0 DEF PortType
<1>7. \A i \in 1..Len(r.calls) : r.calls[i].by \in Flows \cup {"nobody"}
  BY <1>0, CallsAre
<1>8. Owned(t, "none")
  <2>1. ASSUME NEW i \in 1..Len(t.calls), t.calls[i].by # "nobody"
        PROVE  t.calls[i].by # "none" /\ Fits(t.calls[i], t.pc[t.calls[i].by])
    <3>1. t.calls[i] = r.calls[i] /\ i \in 1..Len(r.calls) /\ r.calls[i].by # "trip" /\ r.calls[i].by \in Flows
          /\ Fits(r.calls[i], r.pc[r.calls[i].by])
      BY <1>6, <1>7, <2>1 DEF Sound, Owned
    <3>2. r.pc[r.calls[i].by] \notin Joins
      BY <3>1 DEF Fits, Joins
    <3>3. w[r.calls[i].by] = r.pc[r.calls[i].by]
      BY <1>3, <3>1, <3>2
    <3>. QED
      BY <1>6, <3>1, <3>3 DEF Flows
  <2>2. \A i, j \in 1..Len(t.calls) : t.calls[i].by = t.calls[j].by /\ t.calls[i].by # "nobody" => i = j
    BY <1>6 DEF Sound, Owned
  <2>. QED
    BY <2>1, <2>2 DEF Owned
<1>9. Followed(t) /\ (Dead(r) => Dead(t)) /\ \A g : Covers(r, g) => Covers(t, g)
  BY <1>6 DEF Sound, Followed, Dead, Covers
<1>10. (Tripping(t) \/ t.gaveUp => t.fault) /\ \A g \in Flows : t.pc[g] \in Joins => t.fault
  BY <1>6
<1>11. ~t.stopped => t.pc["stop"] = "idle" /\ t.pc["sig"] = "idle"
  BY <1>3, <1>6 DEF Sound, Joins, Flows
<1>12. t.pc["stop"] = "unkeying" => Covers(t, "stop")
  BY <1>3, <1>6, <1>9 DEF Sound, Joins, Flows
<1>13. t.gaveUp \/ Dead(t)
  BY <1>6, <1>9
<1>a. Left(t)
  BY <1>6 DEF Left
<1>14. Sound(t, "none")
  BY <1>1, <1>5, <1>6, <1>8, <1>a, <1>9, <1>10, <1>11, <1>12, <1>13 DEF Sound
<1>15. Watched(t)
  BY <1>6 DEF Watched, Guarded
<1>. QED
  BY <1>14, <1>15 DEF t

LEMMA SettleTripSound ==
    ASSUME NEW r, Sound(r, "trip"), r.pc["trip"] = "unkeying", NEW ok \in BOOLEAN, ok => r.gaveUp \/ Dead(r)
    PROVE  Sound(SettleTrip(r, ok), "none") /\ Watched(SettleTrip(r, ok))
<1>0. r.fault /\ PortType(r) /\ r.tries \in Int /\ Attempts \in Int /\ "trip" \in Flows
  BY TimesAssumption DEF Sound, Tripping, PortType, Flows
<1>1. CASE ok
  <2>. DEFINE u == Confirmed(r)
  <2>1. SettleTrip(r, ok) = EndTrip(u)
    BY <1>1 DEF SettleTrip
  <2>2. Sound(u, "trip") /\ Alike(r, u)
    BY ConfirmedSound
  <2>. HIDE DEF u
  <2>3. u.fault /\ (u.gaveUp \/ Dead(u))
    BY <1>0, <1>1, <2>2 DEF Alike, Dead
  <2>. QED
    BY <2>1, <2>2, <2>3, EndTripSound
<1>2. CASE ~ok /\ r.tries < Attempts
  <2>. DEFINE c == [op |-> "unkey", by |-> "trip"]
              a == Ask(r, "trip", "unkey", "unkeying")
              n == a.tries + 1
              t == [a EXCEPT !.tries = n]
  <2>0. ~(r.tries >= Attempts)
    BY <1>0, <1>2
  <2>1. SettleTrip(r, ok) = t
    BY <1>2, <2>0 DEF SettleTrip
  <2>2. c \in Call /\ c.by = "trip" /\ c.op = "unkey" /\ "unkeying" \in Phases /\ Fits(c, "unkeying")
        /\ "unkeying" \in PhasesOf("trip") /\ "unkey" \in Op
    BY DEF Call, Phases, Fits, PhasesOf, Op, Flows
  <2>3. Asked(r, a, c, "unkeying")
    BY <1>0, <2>2, AskIs
  <2>. HIDE DEF c, a
  <2>4. Sound(a, "none") /\ Watched(a)
    BY <1>0, <2>2, <2>3, AskSound
  <2>5. PortType(a) /\ n \in Int
    BY <2>4 DEF Sound, PortType
  <2>. HIDE DEF n
  <2>6. PortType(t) /\ Alike(a, t)
    BY <2>5 DEF PortType, Alike
  <2>. HIDE DEF t
  <2>7. Sound(t, "none")
    BY <2>4, <2>6, AlikeSound
  <2>8. t.fault
    BY <1>0, <2>3, <2>6 DEF Asked, Alike
  <2>. QED
    BY <2>1, <2>7, <2>8 DEF Watched, Guarded
<1>3. CASE ~ok /\ r.tries >= Attempts
  <2>. DEFINE u == [r EXCEPT !.gaveUp = TRUE]
  <2>1. ~(r.tries < Attempts)
    BY <1>0, <1>3
  <2>2. SettleTrip(r, ok) = EndTrip(u)
    BY <1>3, <2>1 DEF SettleTrip
  <2>3. PortType(u) /\ u.gaveUp = TRUE
    BY <1>0 DEF PortType
  <2>4. u.calls = r.calls /\ u.on = r.on /\ u.fault = r.fault /\ u.stopped = r.stopped /\ u.pc = r.pc
    BY <1>0 DEF PortType
  <2>. HIDE DEF u
  <2>5. Sound(u, "trip")
    BY <1>0, <2>3, <2>4 DEF Sound, Owned, Followed, Covers, Tripping
  <2>. QED
    BY <1>0, <2>2, <2>3, <2>4, <2>5, EndTripSound
<1>. QED
  BY <1>0, <1>1, <1>2, <1>3

Await == {"keying", "backing", "unkeying", "closing", "closingFailed"}

LEMMA SettleSound ==
    ASSUME NEW r, NEW f \in Flows, Sound(r, f), r.pc[f] \in Await, NEW ok \in BOOLEAN, NEW works \in BOOLEAN,
           Followed(r) \/ (~ok /\ r.pc[f] = "keying"),
           Left(r) \/ (~ok /\ r.pc[f] # "keying"),
           ok /\ r.pc[f] # "keying" => ~r.on,
           ok /\ f \in {"trip", "stop"} => r.gaveUp \/ Dead(r)
    PROVE  Sound(Settle(r, f, ok, works), "none") /\ Watched(Settle(r, f, ok, works))
<1>. DEFINE t == Settle(r, f, ok, works)
<1>0. PortType(r) /\ r.pc[f] \in PhasesOf(f) /\ (f \in {"stop", "sig"} => r.stopped)
  BY DEF Sound, Await
<1>1. CASE f = "trip"
  <2>1. t = SettleTrip(r, ok) /\ r.pc["trip"] = "unkeying"
    BY <1>0, <1>1 DEF Settle, PhasesOf, Await
  <2>. QED
    BY <1>1, <2>1, SettleTripSound
<1>a. CASE f # "trip"
  <2>0. f \in {"tx", "stop", "exc", "sig"}
    BY <1>a DEF Flows
  <2>1. CASE r.pc[f] = "keying"
    <3>1. f = "tx" /\ "tx" \in Flows
      BY <1>0, <2>0, <2>1 DEF PhasesOf, Flows
    <3>2. CASE ok
      <4>. DEFINE u == [r EXCEPT !.pc["tx"] = "playing"]
      <4>1. t = [r EXCEPT !.pc["tx"] = "playing", !.clock["tx"] = PlayMax]
        BY <2>1, <3>1, <3>2 DEF Settle
      <4>2. PlayMax \in Int
        BY TimesAssumption
      <4>3. Moved(r, u, "tx", "playing") /\ "playing" \in Phases /\ "playing" \in PhasesOf("tx") /\ "playing" \notin Joins
        BY <1>0, <3>1, PcIs DEF Phases, PhasesOf, Joins
      <4>4. [r.clock EXCEPT !["tx"] = PlayMax] \in [Flows -> Int]
        BY <1>0, <4>2 DEF PortType
      <4>5. t = [u EXCEPT !.clock = [r.clock EXCEPT !["tx"] = PlayMax]]
        BY <1>0, <4>1 DEF PortType
      <4>. HIDE DEF u, t
      <4>6. PortType(t)
        BY <4>3, <4>4, <4>5 DEF PortType, Moved
      <4>7. Alike(u, t)
        BY <4>3, <4>5 DEF PortType, Alike, Moved
      <4>a. Left(t)
        BY <1>0, <2>1, <3>1, <4>3, <4>7, SMTT(40) DEF Left, Moved, Alike, PortType, Flows
      <4>8. Sound(t, "none")
        BY <3>1, <3>2, <4>3, <4>6, <4>7, <4>a, PcSound DEF Moved, Alike
      <4>9. t.pc["tx"] = "playing"
        BY <1>0, <3>1, <4>3, <4>7 DEF Moved, Alike, PortType
      <4>. QED
        BY <4>8, <4>9 DEF Watched, t
    <3>3. CASE ~ok
      <4>. DEFINE c == [op |-> "unkey", by |-> "tx"]
      <4>1. t = Ask(r, "tx", "unkey", "backing")
        BY <2>1, <3>1, <3>3 DEF Settle
      <4>2. c \in Call /\ c.by = "tx" /\ c.op = "unkey" /\ "backing" \in Phases /\ Fits(c, "backing")
            /\ "backing" \in PhasesOf("tx") /\ "unkey" \in Op
        BY DEF Call, Phases, Fits, PhasesOf, Op, Flows
      <4>3. Asked(r, t, c, "backing")
        BY <1>0, <3>1, <4>1, <4>2, AskIs
      <4>. HIDE DEF c, t
      <4>4. Sound(t, "none") /\ Watched(t)
        BY <1>0, <2>1, <3>1, <4>2, <4>3, AskSound
      <4>. QED
        BY <4>4 DEF t
    <3>. QED
      BY <3>2, <3>3
  <2>2. CASE r.pc[f] = "backing"
    <3>1. f = "tx" /\ Followed(r)
      BY <1>0, <2>0, <2>2 DEF PhasesOf
    <3>2. CASE ok
      <4>. DEFINE u == Confirmed(r)
      <4>1. t = Unkey(u, "tx")
        BY <2>2, <3>1, <3>2 DEF Settle
      <4>2. Sound(u, "tx") /\ Alike(r, u)
        BY <3>1, ConfirmedSound
      <4>. HIDE DEF u
      <4>3. Followed(u) /\ Left(u)
        BY <2>2, <3>1, <3>2, <4>2 DEF Followed, Left, Alike
      <4>. QED
        BY <4>1, <4>2, <4>3, UnkeySound
    <3>3. CASE ~ok
      <4>1. t = [Trip(r, works) EXCEPT !.pc["tx"] = "backjoining"]
        BY <2>2, <3>1, <3>3 DEF Settle
      <4>2. "backjoining" \in PhasesOf("tx")
        BY DEF PhasesOf, Joins
      <4>. HIDE DEF t
      <4>3. Sound(t, "none") /\ Watched(t)
        BY <3>1, <4>1, <4>2, TripSound
      <4>. QED
        BY <4>3 DEF t
    <3>. QED
      BY <3>2, <3>3
  <2>3. CASE r.pc[f] = "unkeying"
    <3>1. CASE ok
      <4>. DEFINE u == Confirmed(r)
      <4>1. t = AfterUnkey(u, f, FALSE)
        BY <1>a, <2>3, <3>1 DEF Settle
      <4>2. Sound(u, f) /\ Alike(r, u)
        BY ConfirmedSound
      <4>. HIDE DEF u
      <4>3. Followed(u) /\ Left(u) /\ u.pc[f] = "unkeying" /\ ~u.on /\ (f \in {"stop", "sig"} => u.stopped) /\ (f = "stop" => u.gaveUp \/ Dead(u))
        BY <1>0, <2>3, <3>1, <4>2 DEF Followed, Left, Alike, Dead
      <4>. QED
        BY <2>0, <4>1, <4>2, <4>3, AfterUnkeySound
    <3>2. CASE ~ok
      <4>1. t = [Trip(r, works) EXCEPT !.pc[f] = "failing"]
        BY <1>a, <2>3, <3>2 DEF Settle
      <4>2. "failing" \in PhasesOf(f) /\ Followed(r)
        BY <2>0, <2>3 DEF PhasesOf, Joins
      <4>. HIDE DEF t
      <4>3. Sound(t, "none") /\ Watched(t)
        BY <1>0, <2>0, <4>1, <4>2, TripSound
      <4>. QED
        BY <4>3 DEF t
    <3>. QED
      BY <3>1, <3>2
  <2>4. CASE r.pc[f] \in {"closing", "closingFailed"}
    <3>1. f = "stop" /\ Followed(r) /\ "stop" \in Flows
      BY <1>0, <2>0, <2>4 DEF PhasesOf, Joins, Flows
    <3>2. r.gaveUp \/ Dead(r)
      BY <2>4, <3>1 DEF Sound, Past
    <3>. DEFINE o == r.on /\ ~(works /\ (~ok \/ r.pc[f] = "closingFailed"))
                u == [r EXCEPT !.pc["stop"] = "done"]
    <3>3. t = [r EXCEPT !.pc["stop"] = "done", !.on = o]
      BY <2>4, <3>1 DEF Settle
    <3>4. o \in BOOLEAN /\ (o => r.on)
      OBVIOUS
    <3>5. Moved(r, u, "stop", "done") /\ "done" \in Phases /\ "done" \in PhasesOf("stop") /\ "done" \notin Joins
      BY <1>0, <3>1, PcIs DEF Phases, PhasesOf, Joins
    <3>. HIDE DEF o
    <3>6. t = [u EXCEPT !.on = o]
      BY <1>0, <3>3 DEF PortType
    <3>. HIDE DEF u, t
    <3>7. PortType(t)
      BY <3>4, <3>5, <3>6 DEF PortType, Moved
    <3>8. t.pc = u.pc /\ t.calls = u.calls /\ t.fault = u.fault /\ t.gaveUp = u.gaveUp /\ t.stopped = u.stopped /\ t.on = o
      BY <3>5, <3>6 DEF PortType, Moved
    <3>a. Left(t)
      BY <1>0, <3>1, <3>5, <3>8 DEF Left, Moved, PortType
    <3>9. Sound(t, "none")
      BY <1>0, <3>1, <3>2, <3>4, <3>5, <3>7, <3>8, <3>a, PcSound DEF Moved
    <3>10. t.fault \/ ~t.on
      BY <3>2, <3>4, <3>5, <3>8 DEF Moved, Sound, Dead
    <3>. QED
      BY <3>9, <3>10 DEF Watched, Guarded, t
  <2>. QED
    BY <2>1, <2>2, <2>3, <2>4 DEF Await
<1>. QED
  BY <1>1, <1>a
-----------------------------------------------------------------------------
(* The driver does its next call c, or fails at it. *)

Popped(r, t, c, ok) ==
    /\ PortType(t) /\ t.fault = r.fault /\ t.gaveUp = r.gaveUp /\ t.stopped = r.stopped /\ t.pc = r.pc /\ t.fuse = r.fuse
    /\ Len(r.calls) \in Nat /\ Len(r.calls) >= 1 /\ c = r.calls[1]
    /\ Len(t.calls) = Len(r.calls) - 1
    /\ \A i \in 1..Len(t.calls) : t.calls[i] = r.calls[i + 1]
    /\ (t.on => r.on \/ c.op = "key") /\ (ok /\ c.op # "key" => ~t.on)

LEMMA PoppedIs ==
    ASSUME NEW r, PortType(r), r.calls # <<>>, NEW ok \in BOOLEAN, NEW effect \in BOOLEAN,
           NEW c, c = Head(r.calls),
           NEW t, t = [r EXCEPT !.calls = Tail(@), !.on = IF ok \/ effect THEN c.op = "key" ELSE @]
    PROVE  Popped(r, t, c, ok)
<1>. DEFINE q == Tail(r.calls)
            o == IF ok \/ effect THEN c.op = "key" ELSE r.on
<1>1. r.calls \in Seq(Call) /\ r.on \in BOOLEAN
  BY DEF PortType
<1>2. q \in Seq(Call) /\ Len(q) = Len(r.calls) - 1 /\ (\A i \in 1..Len(q) : q[i] = r.calls[i + 1])
      /\ Len(r.calls) \in Nat /\ Len(r.calls) >= 1 /\ c = r.calls[1]
  BY <1>1
<1>3. o \in BOOLEAN /\ (o => r.on \/ c.op = "key") /\ (ok /\ c.op # "key" => ~o)
  BY <1>1
<1>4. t = [r EXCEPT !.calls = q, !.on = o]
  BY DEF PortType
<1>. HIDE DEF q, o
<1>5. PortType(t)
  BY <1>2, <1>3, <1>4 DEF PortType
<1>6. t.fault = r.fault /\ t.gaveUp = r.gaveUp /\ t.stopped = r.stopped /\ t.pc = r.pc /\ t.fuse = r.fuse
      /\ t.calls = q /\ t.on = o
  BY <1>4 DEF PortType
<1>. QED
  BY <1>2, <1>3, <1>5, <1>6 DEF Popped

LEMMA PopSound ==
    ASSUME NEW r, Sound(r, "none"), Watched(r), NEW ok \in BOOLEAN, NEW c, NEW t, Popped(r, t, c, ok)
    PROVE  /\ Followed(t) /\ Left(t)
           /\ c.by = "nobody" => Sound(t, "none") /\ Watched(t)
           /\ c.by # "nobody" => /\ c.by \in Flows /\ Sound(t, c.by) /\ Fits(c, t.pc[c.by])
                                 /\ ok /\ c.by \in {"trip", "stop"} => t.gaveUp \/ Dead(t)
<1>. DEFINE n == Len(r.calls)
            m == Len(t.calls)
<1>0. n \in Nat /\ m \in Nat /\ m = n - 1 /\ 1 \in 1..n /\ c = r.calls[1]
      /\ \A i \in 1..m : i + 1 \in 1..n /\ i + 1 # 1 /\ t.calls[i] = r.calls[i + 1]
  BY DEF Popped
<1>1. \A j \in 1..n : j # 1 => j - 1 \in 1..m /\ t.calls[j - 1] = r.calls[j]
  BY <1>0
<1>2. \A i \in 1..n : r.calls[i] \in Call /\ r.calls[i].by \in Flows \cup {"nobody"}
  BY CallsAre DEF Sound
<1>3. t.fault = r.fault /\ t.gaveUp = r.gaveUp /\ t.stopped = r.stopped /\ t.pc = r.pc /\ t.fuse = r.fuse /\ PortType(t)
      /\ (t.on => r.on \/ c.op = "key") /\ (ok /\ c.op # "key" => ~t.on)
  BY DEF Popped
<1>. HIDE DEF n, m
<1>4. Followed(t)
  <2>. SUFFICES ASSUME NEW i \in 1..m, t.calls[i].op = "key", t.calls[i].by # "tx"
                PROVE  \E j \in 1..m : i < j /\ t.calls[j].op # "key"
    BY DEF Followed, m
  <2>1. PICK j \in 1..n : i + 1 < j /\ r.calls[j].op # "key"
    BY <1>0 DEF Sound, Followed, n
  <2>2. j - 1 \in 1..m /\ i < j - 1 /\ t.calls[j - 1] = r.calls[j]
    BY <1>0, <1>1, <2>1
  <2>. QED
    BY <2>1, <2>2
<1>5. Left(t)
  BY <1>0, <1>3 DEF Sound, Left, m, n
<1>6. Dead(r) => Dead(t)
  BY <1>0, <1>3 DEF Dead, m, n
<1>7. ASSUME NEW g, g # c.by, Covers(r, g) PROVE Covers(t, g)
  <2>1. PICK i \in 1..n : /\ r.calls[i].by = g /\ r.calls[i].op = "unkey"
                          /\ \A j \in 1..n : r.calls[j].op = "key" => j < i
    BY <1>7 DEF Covers, n
  <2>2. i # 1 /\ i - 1 \in 1..m /\ t.calls[i - 1] = r.calls[i]
    BY <1>0, <1>1, <1>7, <2>1
  <2>3. \A j \in 1..m : t.calls[j].op = "key" => j < i - 1
    BY <1>0, <2>1
  <2>. QED
    BY <2>1, <2>2, <2>3 DEF Covers, m
<1>8. ASSUME c.by # "nobody", Covers(r, c.by), ok PROVE Dead(t)
  <2>1. PICK i \in 1..n : /\ r.calls[i].by = c.by /\ r.calls[i].op = "unkey"
                          /\ \A j \in 1..n : r.calls[j].op = "key" => j < i
    BY <1>8 DEF Covers, n
  <2>2. i = 1
    BY <1>0, <1>8, <2>1 DEF Sound, Owned, n
  <2>3. ~t.on
    BY <1>0, <1>3, <1>8, <2>1, <2>2
  <2>4. \A j \in 1..m : t.calls[j].op # "key"
    BY <1>0, <2>1, <2>2
  <2>. QED
    BY <2>3, <2>4 DEF Dead, m
<1>9. ASSUME NEW x, x = "none" \/ x = c.by, x # c.by => c.by = "nobody", x # "nobody" PROVE Sound(t, x)
  <2>1. Owned(t, x)
    <3>1. ASSUME NEW i \in 1..m, t.calls[i].by # "nobody"
          PROVE  t.calls[i].by # x /\ Fits(t.calls[i], t.pc[t.calls[i].by])
      <4>1. t.calls[i] = r.calls[i + 1] /\ i + 1 \in 1..n /\ i + 1 # 1
        BY <1>0
      <4>2. r.calls[i + 1].by # c.by
        BY <1>0, <3>1, <4>1 DEF Sound, Owned, n
      <4>3. r.calls[i + 1].by # "none"
        BY <1>2, <4>1 DEF Flows
      <4>. QED
        BY <1>3, <1>9, <3>1, <4>1, <4>2, <4>3 DEF Sound, Owned, n
    <3>2. ASSUME NEW i \in 1..m, NEW j \in 1..m, t.calls[i].by = t.calls[j].by, t.calls[i].by # "nobody" PROVE i = j
      <4>1. i + 1 \in 1..n /\ j + 1 \in 1..n /\ i + 1 = j + 1
        BY <1>0, <3>2 DEF Sound, Owned, n
      <4>. QED
        BY <1>0, <4>1
    <3>. QED
      BY <3>1, <3>2 DEF Owned, m
  <2>2. t.fault => t.gaveUp \/ Dead(t) \/ Covers(t, "trip") \/ x = "trip"
    BY <1>3, <1>6, <1>7, <1>9 DEF Sound
  <2>3. t.pc["stop"] = "unkeying" => Covers(t, "stop") \/ x = "stop"
    BY <1>3, <1>7, <1>9 DEF Sound
  <2>4. t.pc["stop"] \in Past => t.gaveUp \/ Dead(t)
    BY <1>3, <1>6 DEF Sound
  <2>. QED
    BY <1>3, <1>4, <1>5, <2>1, <2>2, <2>3, <2>4 DEF Sound, Tripping
<1>10. ASSUME c.by = "nobody" PROVE Watched(t)
  <2>1. CASE c.op = "key"
    <3>1. PICK j \in 1..n : 1 < j /\ r.calls[j].op # "key"
      BY <1>0, <1>10, <2>1 DEF Sound, Followed, n
    <3>2. j - 1 \in 1..m /\ t.calls[j - 1].op # "key"
      BY <1>0, <1>1, <3>1
    <3>. QED
      BY <3>2 DEF Watched, Guarded, m
  <2>2. CASE c.op # "key"
    <3>1. r.fault \/ r.pc["stop"] = "done"
      BY <1>0, <1>10, <2>2 DEF Sound, Left, n
    <3>2. r.fault \/ ~r.on
      BY <3>1 DEF Sound, Past, Dead
    <3>. QED
      BY <1>3, <2>2, <3>2 DEF Watched, Guarded
  <2>. QED
    BY <2>1, <2>2
<1>11. ASSUME c.by # "nobody" PROVE c.by \in Flows /\ Fits(c, t.pc[c.by])
  BY <1>0, <1>2, <1>3, <1>11 DEF Sound, Owned, n
<1>12. ASSUME c.by \in {"trip", "stop"}, ok PROVE t.gaveUp \/ Dead(t)
  <2>0. c.by \in Flows /\ Fits(c, r.pc[c.by]) /\ r.pc[c.by] \in PhasesOf(c.by)
    BY <1>3, <1>11, <1>12 DEF Sound
  <2>1. CASE c.by = "trip"
    <3>1. r.fault
      BY <2>0, <2>1 DEF Fits, PhasesOf, Sound, Tripping
    <3>. QED
      BY <1>3, <1>6, <1>8, <1>12, <2>1, <3>1 DEF Sound
  <2>2. CASE c.by = "stop"
    <3>1. r.pc["stop"] \in {"unkeying", "closing", "closingFailed"}
      BY <2>0, <2>2 DEF Fits, PhasesOf
    <3>. QED
      BY <1>3, <1>6, <1>8, <1>12, <2>2, <3>1 DEF Sound, Past
  <2>. QED
    BY <1>12, <2>1, <2>2
<1>. QED
  BY <1>4, <1>5, <1>9, <1>10, <1>11, <1>12 DEF Flows
-----------------------------------------------------------------------------
(* A call is given up: nobody waits for it any more. *)

LEMMA AbandonIs ==
    ASSUME NEW r, PortType(r), NEW f \in Flows
    PROVE  LET t == Abandon(r, f) IN
           /\ PortType(t) /\ t.fault = r.fault /\ t.gaveUp = r.gaveUp /\ t.stopped = r.stopped /\ t.pc = r.pc /\ t.on = r.on
           /\ Len(t.calls) = Len(r.calls)
           /\ \A i \in 1..Len(r.calls) : /\ t.calls[i].op = r.calls[i].op
                                         /\ t.calls[i].by = IF r.calls[i].by = f THEN "nobody" ELSE r.calls[i].by
<1>. DEFINE n == Len(r.calls)
            e(i) == IF r.calls[i].by = f THEN [r.calls[i] EXCEPT !.by = "nobody"] ELSE r.calls[i]
            q == [i \in 1..n |-> e(i)]
            t == Abandon(r, f)
<1>1. n \in Nat /\ DOMAIN r.calls = 1..n /\ \A i \in 1..n : r.calls[i] \in Call
  BY CallsAre
<1>2. t = [r EXCEPT !.calls = q]
  BY <1>1 DEF Abandon
<1>3. \A i \in 1..n : e(i) \in Call /\ e(i).op = r.calls[i].op /\ e(i).by = IF r.calls[i].by = f THEN "nobody" ELSE r.calls[i].by
  BY <1>1 DEF Call
<1>. HIDE DEF e, n
<1>4. q \in Seq(Call) /\ Len(q) = n /\ \A i \in 1..n : q[i] = e(i)
  BY <1>1, <1>3
<1>. HIDE DEF q, t
<1>5. PortType(t)
  BY <1>2, <1>4 DEF PortType
<1>6. t.calls = q /\ t.fault = r.fault /\ t.gaveUp = r.gaveUp /\ t.stopped = r.stopped /\ t.pc = r.pc /\ t.on = r.on
  BY <1>2 DEF PortType
<1>. QED
  BY <1>3, <1>4, <1>5, <1>6 DEF t, n

LEMMA AbandonSound ==
    ASSUME NEW r, Sound(r, "none"), NEW f \in Flows
    PROVE  LET t == Abandon(r, f) IN
           /\ Sound(t, f) /\ t.pc = r.pc
           /\ Followed(t) \/ r.pc[f] = "keying"
           /\ Left(t) \/ r.pc[f] # "keying"
<1>. DEFINE t == Abandon(r, f)
            n == Len(r.calls)
<1>0. f # "nobody" /\ f # "none" /\ PortType(r)
  BY DEF Flows, Sound
<1>1. /\ PortType(t) /\ t.fault = r.fault /\ t.gaveUp = r.gaveUp /\ t.stopped = r.stopped /\ t.pc = r.pc /\ t.on = r.on
      /\ Len(t.calls) = n
      /\ \A i \in 1..n : /\ t.calls[i].op = r.calls[i].op
                         /\ t.calls[i].by = IF r.calls[i].by = f THEN "nobody" ELSE r.calls[i].by
  BY <1>0, AbandonIs
<1>. HIDE DEF t, n
<1>2. Owned(t, f)
  <2>1. ASSUME NEW i \in 1..n, t.calls[i].by # "nobody" PROVE t.calls[i].by # f /\ Fits(t.calls[i], t.pc[t.calls[i].by])
    <3>1. t.calls[i].op = r.calls[i].op /\ t.calls[i].by = r.calls[i].by /\ r.calls[i].by # f
      BY <1>1, <2>1
    <3>2. Fits(r.calls[i], r.pc[r.calls[i].by])
      BY <2>1, <3>1 DEF Sound, Owned, n
    <3>. QED
      BY <1>1, <3>1, <3>2 DEF Fits
  <2>2. ASSUME NEW i \in 1..n, NEW j \in 1..n, t.calls[i].by = t.calls[j].by, t.calls[i].by # "nobody" PROVE i = j
    BY <1>1, <2>2 DEF Sound, Owned, n
  <2>. QED
    BY <1>1, <2>1, <2>2 DEF Owned
<1>3. Dead(r) => Dead(t)
  BY <1>1 DEF Dead, n
<1>4. \A g : g # f /\ Covers(r, g) => Covers(t, g)
  BY <1>1 DEF Covers, n
<1>5. ASSUME r.pc[f] # "keying" PROVE Followed(t)
  <2>1. ASSUME NEW i \in 1..n, r.calls[i].op = "key" PROVE r.calls[i].by # f
    BY <1>0, <1>5, <2>1 DEF Sound, Owned, Fits, n
  <2>. QED
    BY <1>1, <2>1 DEF Sound, Followed, n
<1>6. ASSUME f # "tx" PROVE r.pc[f] # "keying"
  BY <1>6 DEF Sound, PhasesOf, Joins
<1>7. ASSUME r.pc[f] = "keying" PROVE Left(t)
  <2>1. ASSUME NEW i \in 1..n, r.calls[i].by = f PROVE r.calls[i].op = "key"
    BY <1>0, <1>7, <2>1 DEF Sound, Owned, Fits, n
  <2>. QED
    BY <1>1, <2>1 DEF Sound, Left, n
<1>8. t.fault => t.gaveUp \/ Dead(t) \/ Covers(t, "trip") \/ f = "trip"
  BY <1>1, <1>3, <1>4 DEF Sound
<1>9. t.pc["stop"] = "unkeying" => Covers(t, "stop") \/ f = "stop"
  BY <1>1, <1>4 DEF Sound
<1>10. t.pc["stop"] \in Past => t.gaveUp \/ Dead(t)
  BY <1>1, <1>3 DEF Sound
<1>11. Sound(t, f)
  BY <1>0, <1>1, <1>2, <1>5, <1>6, <1>8, <1>9, <1>10 DEF Sound, Tripping
<1>. QED
  BY <1>1, <1>5, <1>7, <1>11 DEF t

\* A flow that waits for no call has none.
LEMMA FreeSound ==
    ASSUME NEW r, Sound(r, "none"), NEW f \in Flows, r.pc[f] \notin Await
    PROVE  Sound(r, f) /\ Followed(r) /\ Left(r)
<1>1. Owned(r, f)
  BY DEF Sound, Owned, Fits, Await
<1>. QED
  BY <1>1 DEF Sound, Await, Flows
-----------------------------------------------------------------------------
(* The actions. *)

LEMMA DriverKeeps == ASSUME PortInv, Driver PROVE PortInv'
<1>0. Sound(s, "none") /\ Watched(s) /\ PortType(s)
  BY DEF PortInv, Sound
<1>1. PICK ok \in BOOLEAN, effect \in BOOLEAN, works \in BOOLEAN :
        LET c == Head(s.calls)
            r == [s EXCEPT !.calls = Tail(@), !.on = IF ok \/ effect THEN c.op = "key" ELSE @]
        IN  s' = IF c.by = "nobody" THEN r ELSE Settle(r, c.by, ok, works)
  BY DEF Driver
<1>. DEFINE c == Head(s.calls)
            r == [s EXCEPT !.calls = Tail(@), !.on = IF ok \/ effect THEN c.op = "key" ELSE @]
<1>2. s.calls # <<>> /\ s' = IF c.by = "nobody" THEN r ELSE Settle(r, c.by, ok, works)
  BY <1>1 DEF Driver
<1>3. Popped(s, r, c, ok)
  <2>1. \A cc, t : cc = Head(s.calls) /\ t = [s EXCEPT !.calls = Tail(@), !.on = IF ok \/ effect THEN cc.op = "key" ELSE @]
           => Popped(s, t, cc, ok)
    BY <1>0, <1>2, PoppedIs
  <2>. QED
    BY <2>1
<1>. HIDE DEF c, r
<1>4. /\ Followed(r) /\ Left(r)
      /\ c.by = "nobody" => Sound(r, "none") /\ Watched(r)
      /\ c.by # "nobody" => /\ c.by \in Flows /\ Sound(r, c.by) /\ Fits(c, r.pc[c.by])
                            /\ ok /\ c.by \in {"trip", "stop"} => r.gaveUp \/ Dead(r)
  BY <1>0, <1>3, PopSound
<1>5. CASE c.by = "nobody"
  BY <1>2, <1>4, <1>5 DEF PortInv
<1>6. CASE c.by # "nobody"
  <2>1. r.pc[c.by] \in Await /\ (r.pc[c.by] # "keying" => c.op # "key")
    BY <1>4, <1>6 DEF Fits, Await
  <2>2. ok /\ c.op # "key" => ~r.on
    BY <1>3 DEF Popped
  <2>3. Sound(Settle(r, c.by, ok, works), "none") /\ Watched(Settle(r, c.by, ok, works))
    BY <1>4, <1>6, <2>1, <2>2, SettleSound
  <2>. QED
    BY <1>2, <1>6, <2>3 DEF PortInv
<1>. QED
  BY <1>5, <1>6

LEMMA TimeOutKeeps == ASSUME PortInv, NEW f \in Flows, TimeOut(f) PROVE PortInv'
<1>1. PICK works \in BOOLEAN : s' = Settle(Abandon(s, f), f, FALSE, works)
  BY DEF TimeOut
<1>2. s.pc[f] \in Await /\ Sound(s, "none")
  BY DEF TimeOut, Awaits, Await, PortInv
<1>. DEFINE t == Abandon(s, f)
<1>3. Sound(t, f) /\ t.pc = s.pc /\ (Followed(t) \/ s.pc[f] = "keying") /\ (Left(t) \/ s.pc[f] # "keying")
  BY <1>2, AbandonSound
<1>. HIDE DEF t
<1>4. Sound(Settle(t, f, FALSE, works), "none") /\ Watched(Settle(t, f, FALSE, works))
  BY <1>2, <1>3, SettleSound
<1>. QED
  BY <1>1, <1>4 DEF PortInv, t

LEMMA FuseKeeps == ASSUME PortInv, Fuse PROVE PortInv'
<1>. DEFINE r == [s EXCEPT !.fuse = None]
<1>1. PICK works \in BOOLEAN : s' = Trip(r, works)
  BY DEF Fuse
<1>2. Sound(s, "none") /\ PortType(s) /\ None \in Int
  BY DEF PortInv, Sound, None
<1>3. PortType(r) /\ Alike(s, r)
  BY <1>2 DEF PortType, Alike
<1>. HIDE DEF r
<1>4. Sound(r, "none")
  BY <1>2, <1>3, AlikeSound
<1>. QED
  BY <1>1, <1>4, FuseSound DEF PortInv

LEMMA ResumeKeeps == ASSUME PortInv, NEW f \in Flows, Resume(f) PROVE PortInv'
<1>1. /\ s.pc[f] \in {"joined", "failed", "backjoined"}
      /\ s' = IF s.pc[f] = "backjoined" THEN Unkey(s, f) ELSE AfterUnkey(s, f, s.pc[f] = "failed")
  BY DEF Resume
<1>2. Sound(s, "none") /\ s.pc[f] \in PhasesOf(f)
  BY DEF PortInv, Sound
<1>3. s.fault /\ f \in {"tx", "stop", "exc", "sig"} /\ s.pc[f] \notin Await
  BY <1>1, <1>2 DEF Sound, Joins, PhasesOf, Await, Flows
<1>4. Sound(s, f) /\ Followed(s) /\ Left(s)
  BY <1>2, <1>3, FreeSound
<1>5. (f \in {"stop", "sig"} => s.stopped) /\ (f = "stop" => s.pc["stop"] # "done")
      /\ (f = "stop" => s.gaveUp \/ Dead(s) \/ s.pc[f] = "backjoined")
  BY <1>1, <1>2 DEF Sound, Past
<1>6. CASE s.pc[f] = "backjoined"
  BY <1>1, <1>3, <1>4, <1>5, <1>6, UnkeySound DEF PortInv
<1>7. CASE s.pc[f] # "backjoined"
  <2>. DEFINE threw == s.pc[f] = "failed"
  <2>1. s' = AfterUnkey(s, f, threw) /\ threw \in BOOLEAN
    BY <1>1, <1>7
  <2>. HIDE DEF threw
  <2>. QED
    BY <1>3, <1>4, <1>5, <1>7, <2>1, AfterUnkeySound DEF PortInv
<1>. QED
  BY <1>6, <1>7

\* key(): no fault, so nothing is owed yet, and the transmission watches what it keys.
LEMMA KeySound ==
    ASSUME NEW r, Sound(r, "none"), r.pc["tx"] = "waiting", ~r.fault, ~r.stopped
    PROVE  Sound(Key(r), "none") /\ Watched(Key(r))
<1>. DEFINE d == Disarm(r)
            u == [Arm(r) EXCEPT !.keyed = TRUE, !.overtaken = FALSE]
            c == [op |-> "key", by |-> "tx"]
            t == Ask(u, "tx", "key", "keying")
<1>0. Key(r) = t /\ PortType(r) /\ MaxKey \in Int
  BY TimesAssumption DEF Key, Sound
<1>1. PortType(d) /\ Alike(r, d) /\ u = [[d EXCEPT !.timer = TRUE, !.fuse = MaxKey] EXCEPT !.keyed = TRUE, !.overtaken = FALSE]
  BY <1>0, DisarmIs DEF Arm
<1>. HIDE DEF d, u
<1>2. PortType([d EXCEPT !.timer = TRUE, !.fuse = MaxKey]) /\ Alike(d, [d EXCEPT !.timer = TRUE, !.fuse = MaxKey])
  BY <1>0, <1>1 DEF PortType, Alike
<1>3. PortType(u)
  BY <1>1, <1>2 DEF PortType
<1>4. Alike(r, u)
  BY <1>1, <1>2 DEF PortType, Alike
<1>5. Sound(u, "none")
  BY <1>3, <1>4, AlikeSound
<1>6. c \in Call /\ c.by = "tx" /\ c.op = "key" /\ "keying" \in Phases /\ "tx" \in Flows /\ "key" \in Op /\ Fits(c, "keying")
  BY DEF Call, Phases, Flows, Op, Fits
<1>7. Asked(u, t, c, "keying")
  BY <1>3, <1>6, AskIs
<1>. HIDE DEF c, t
<1>. DEFINE n == Len(u.calls)
            m == n + 1
<1>8. n \in Nat /\ Len(t.calls) = m /\ 1..m = 1..n \cup {m} /\ m \notin 1..n /\ t.calls[m] = c
      /\ \A i \in 1..n : t.calls[i] = u.calls[i] /\ i < m
  BY <1>7 DEF Asked
<1>9. /\ PortType(t) /\ t.fault = u.fault /\ t.gaveUp = u.gaveUp /\ t.stopped = u.stopped
      /\ t.pc["tx"] = "keying" /\ (\A g \in Flows : g # "tx" => t.pc[g] = u.pc[g])
  BY <1>3, <1>6, <1>7 DEF Asked, PortType
<1>10. u.pc["tx"] = "waiting" /\ ~u.fault /\ ~u.stopped
  BY <1>4 DEF Alike
<1>. HIDE DEF n, m
<1>11. \A i \in 1..n : u.calls[i].by \in Flows \cup {"nobody"} /\ u.calls[i].by # "tx"
  BY <1>3, <1>5, <1>10, CallsAre DEF Sound, Owned, Fits, n
<1>12. Owned(t, "none")
  <2>1. ASSUME NEW i \in 1..m, t.calls[i].by # "nobody"
        PROVE  t.calls[i].by # "none" /\ Fits(t.calls[i], t.pc[t.calls[i].by])
    <3>1. CASE i = m
      BY <1>6, <1>8, <1>9, <3>1
    <3>2. CASE i \in 1..n
      BY <1>5, <1>8, <1>9, <1>11, <2>1, <3>2, SMTT(40) DEF Sound, Owned, n
    <3>. QED
      BY <1>8, <3>1, <3>2
  <2>2. ASSUME NEW i \in 1..m, NEW j \in 1..m, t.calls[i].by = t.calls[j].by, t.calls[i].by # "nobody"
        PROVE  i = j
    <3>1. CASE i \in 1..n /\ j \in 1..n
      BY <1>5, <1>8, <2>2, <3>1 DEF Sound, Owned, n
    <3>2. CASE i = m \/ j = m
      BY <1>6, <1>8, <1>11, <2>2, <3>2
    <3>. QED
      BY <1>8, <3>1, <3>2
  <2>. QED
    BY <1>8, <2>1, <2>2 DEF Owned
<1>13. Followed(t)
  BY <1>5, <1>6, <1>8, SMTT(40) DEF Sound, Followed, n
<1>14. Left(t)
  BY <1>5, <1>6, <1>8, <1>9 DEF Sound, Left, n, Flows
<1>15. \A g \in Flows : t.pc[g] \in PhasesOf(g) /\ t.pc[g] \notin Joins
  <2>1. "keying" \in PhasesOf("tx") /\ "keying" \notin Joins
    BY DEF PhasesOf, Joins
  <2>. QED
    BY <1>5, <1>9, <1>10, <2>1 DEF Sound
<1>16. ~Tripping(t) /\ ~t.gaveUp /\ ~t.fault
  BY <1>5, <1>9, <1>10 DEF Sound, Tripping, Flows
<1>17. t.pc["stop"] = "idle" /\ t.pc["sig"] = "idle"
  BY <1>5, <1>9, <1>10 DEF Sound, Flows
<1>18. Sound(t, "none")
  BY <1>9, <1>12, <1>13, <1>14, <1>15, <1>16, <1>17 DEF Sound, Past
<1>19. Watched(t)
  BY <1>9 DEF Watched
<1>. QED
  BY <1>0, <1>18, <1>19

LEMMA EmptiedTyped == ASSUME NEW r, PortType(r) PROVE PortType([r EXCEPT !.queue = 0])
<1>1. ASSUME NEW q \in Int PROVE PortType([r EXCEPT !.queue = q])
  BY DEF PortType
<1>2. 0 \in Int
  OBVIOUS
<1>. QED
  BY <1>1, <1>2, Zenon

LEMMA TxFree ==
    ASSUME NEW r, Sound(r, "none"), Watched(r), r.pc["tx"] \in {"idle", "waiting", "playing"}
    PROVE  /\ Sound(r, "tx") /\ Followed(r) /\ Left(r) /\ PortType(r)
           /\ r.pc["tx"] # "playing" => Guarded(r)
<1>1. "tx" \in Flows /\ r.pc["tx"] \notin Await
  BY DEF Flows, Await
<1>. QED
  BY <1>1, FreeSound DEF Watched, Sound

LEMMA EnqueueKeeps == ASSUME PortInv, Enqueue PROVE PortInv'
<1>. DEFINE n == s.queue + 1
            r == [s EXCEPT !.queue = n]
<1>1. s' = IF s.pc["tx"] = "idle" THEN Loop(r) ELSE r
  BY DEF Enqueue
<1>2. PortType(s) /\ Sound(s, "none") /\ Watched(s) /\ n \in Int
  BY DEF PortInv, Sound, PortType
<1>. HIDE DEF n
<1>3. PortType(r)
  BY <1>2 DEF PortType
<1>4. Alike(s, r) /\ r.fuse = s.fuse
  BY <1>2 DEF PortType, Alike
<1>. HIDE DEF r
<1>5. Sound(r, "none") /\ Watched(r) /\ r.pc = s.pc
  BY <1>2, <1>3, <1>4, AlikeSound DEF Alike, Watched, Guarded
<1>6. CASE s.pc["tx"] = "idle"
  <2>1. Sound(r, "tx") /\ Followed(r) /\ Left(r) /\ Guarded(r)
    BY <1>5, <1>6, TxFree
  <2>. QED
    BY <1>1, <1>6, <2>1, LoopSound DEF PortInv
<1>7. CASE s.pc["tx"] # "idle"
  BY <1>1, <1>5, <1>7 DEF PortInv
<1>. QED
  BY <1>6, <1>7

LEMMA GiveUpFrameKeeps == ASSUME PortInv, GiveUpFrame PROVE PortInv'
<1>1. s' = Loop(s) /\ s.pc["tx"] = "waiting"
  BY DEF GiveUpFrame
<1>2. Sound(s, "tx") /\ Followed(s) /\ Left(s) /\ Guarded(s)
  BY <1>1, TxFree DEF PortInv
<1>. QED
  BY <1>1, <1>2, LoopSound DEF PortInv

LEMMA TransmitKeeps == ASSUME PortInv, Transmit PROVE PortInv'
<1>1. s.pc["tx"] = "waiting" /\ ~s.stopped /\ s' = IF Refuses THEN [s EXCEPT !.queue = 0, !.pc["tx"] = "idle"] ELSE Key(s)
  BY DEF Transmit
<1>2. Sound(s, "tx") /\ Followed(s) /\ Left(s) /\ Guarded(s) /\ PortType(s) /\ Sound(s, "none")
  BY <1>1, TxFree DEF PortInv
<1>3. CASE Refuses
  <2>. DEFINE u == [s EXCEPT !.pc["tx"] = "idle"]
  <2>1. "tx" \in Flows /\ "idle" \in Phases /\ "idle" \in PhasesOf("tx") /\ "idle" \notin Joins
    BY DEF Flows, Phases, PhasesOf, Joins
  <2>2. Moved(s, u, "tx", "idle")
    BY <1>2, <2>1, PcIs
  <2>3. s' = [u EXCEPT !.queue = 0]
    BY <1>1, <1>2, <1>3 DEF PortType
  <2>. HIDE DEF u
  <2>a. PortType(u)
    BY <2>2 DEF Moved
  <2>4. PortType(s')
    BY <2>3, <2>a, EmptiedTyped, Zenon
  <2>5. Alike(u, s') /\ s'.fuse = u.fuse
    BY <2>2, <2>3 DEF PortType, Moved, Alike
  <2>6. Left(s')
    BY <1>2, <2>1, <2>2, <2>5, SMTT(40) DEF Left, Moved, Alike, PortType, Flows
  <2>7. Sound(s', "none")
    BY <1>2, <2>1, <2>2, <2>4, <2>5, <2>6, PcSound DEF Moved, Alike
  <2>8. Watched(s')
    BY <1>2, <2>2, <2>5 DEF Moved, Alike, Watched, Guarded
  <2>. QED
    BY <2>7, <2>8 DEF PortInv
<1>4. CASE ~Refuses
  <2>1. ~s.fault /\ s' = Key(s)
    BY <1>1, <1>4 DEF Refuses
  <2>. QED
    BY <1>1, <1>2, <2>1, KeySound DEF PortInv
<1>. QED
  BY <1>3, <1>4

LEMMA PlayEndsKeeps == ASSUME PortInv, PlayEnds PROVE PortInv'
<1>1. s' = Unkey(s, "tx") /\ s.pc["tx"] = "playing"
  BY DEF PlayEnds
<1>2. Sound(s, "tx") /\ Followed(s) /\ Left(s)
  BY <1>1, TxFree DEF PortInv
<1>. QED
  BY <1>1, <1>2, UnkeySound DEF PortInv

LEMMA DrainedKeeps == ASSUME PortInv, Drained PROVE PortInv'
<1>1. s' = Unkey(s, "stop") /\ s.pc["stop"] = "draining" /\ "stop" \in Flows
  BY DEF Drained, Flows
<1>2. Sound(s, "none") /\ s.stopped /\ s.pc["stop"] \notin Await
  BY <1>1 DEF PortInv, Sound, Await
<1>3. Sound(s, "stop") /\ Followed(s) /\ Left(s)
  BY <1>1, <1>2, FreeSound
<1>. QED
  BY <1>1, <1>2, <1>3, UnkeySound DEF PortInv

LEMMA ExceptionKeeps == ASSUME PortInv, Exception PROVE PortInv'
<1>1. PICK works \in BOOLEAN : s' = Unkey([s EXCEPT !.excs = @ + 1, !.on = @ /\ ~works], "exc")
  BY DEF Exception
<1>. DEFINE n == s.excs + 1
            o == s.on /\ ~works
            r == [s EXCEPT !.excs = n, !.on = o]
<1>2. s' = Unkey(r, "exc") /\ s.pc["exc"] = "idle" /\ "exc" \in Flows
  BY <1>1 DEF Exception, Flows
<1>3. Sound(s, "none") /\ PortType(s) /\ n \in Int
  BY DEF PortInv, Sound, PortType
<1>4. o \in BOOLEAN /\ (o => s.on)
  OBVIOUS
<1>. HIDE DEF n, o
<1>5. PortType(r)
  BY <1>3, <1>4 DEF PortType
<1>6. /\ r.calls = s.calls /\ r.fault = s.fault /\ r.gaveUp = s.gaveUp /\ r.stopped = s.stopped /\ r.pc = s.pc
      /\ r.on = o
  BY <1>3 DEF PortType
<1>. HIDE DEF r
<1>7. Dead(s) => Dead(r)
  BY <1>4, <1>6 DEF Dead
<1>8. Sound(r, "none")
  BY <1>3, <1>5, <1>6, <1>7 DEF Sound, Owned, Followed, Left, Covers, Tripping
<1>9. Sound(r, "exc") /\ Followed(r) /\ Left(r)
  BY <1>2, <1>6, <1>8, FreeSound DEF Await
<1>. QED
  BY <1>2, <1>9, UnkeySound DEF PortInv

LEMMA StopKeeps == ASSUME PortInv, Stop PROVE PortInv'
<1>. DEFINE r == [s EXCEPT !.stopped = TRUE, !.queue = 0]
            w == IF r.pc["tx"] # "idle"
                 THEN [r EXCEPT !.pc["stop"] = "draining", !.clock["stop"] = StopWait]
                 ELSE Unkey(r, "stop")
<1>1. ~s.stopped /\ s' = Unkey(w, "sig")
  BY DEF Stop
<1>2. Sound(s, "none") /\ PortType(s) /\ s.pc["stop"] = "idle" /\ s.pc["sig"] = "idle" /\ Watched(s)
  BY <1>1 DEF PortInv, Sound
<1>3. PortType(r) /\ r.stopped = TRUE
  <2>1. PortType([s EXCEPT !.stopped = TRUE]) /\ [s EXCEPT !.stopped = TRUE].stopped = TRUE
    BY <1>2 DEF PortType
  <2>. DEFINE u == [s EXCEPT !.stopped = TRUE]
  <2>2. r = [u EXCEPT !.queue = 0]
    BY <1>2 DEF PortType
  <2>. HIDE DEF u, r
  <2>a. PortType(u)
    BY <2>1 DEF u
  <2>3. PortType(r)
    BY <2>2, <2>a, EmptiedTyped, Zenon
  <2>4. r.stopped = u.stopped
    BY <2>1, <2>2 DEF PortType, u
  <2>. QED
    BY <2>1, <2>3, <2>4 DEF u
<1>4. r.calls = s.calls /\ r.fault = s.fault /\ r.gaveUp = s.gaveUp /\ r.on = s.on /\ r.pc = s.pc /\ r.fuse = s.fuse
  BY <1>2 DEF PortType
<1>. HIDE DEF r
<1>5. Sound(r, "none")
  BY <1>2, <1>3, <1>4 DEF Sound, Owned, Followed, Left, Covers, Tripping, Dead
<1>6. "stop" \in Flows /\ "sig" \in Flows /\ r.pc["stop"] \notin Await
  BY <1>2, <1>4 DEF Flows, Await
<1>7. Sound(r, "stop") /\ Followed(r) /\ Left(r)
  BY <1>5, <1>6, FreeSound
<1>8. Sound(w, "none") /\ w.stopped /\ w.pc["sig"] = "idle"
  <2>1. CASE r.pc["tx"] # "idle"
    <3>. DEFINE u == [r EXCEPT !.pc["stop"] = "draining"]
    <3>1. w = [r EXCEPT !.pc["stop"] = "draining", !.clock["stop"] = StopWait]
      BY <2>1
    <3>2. Moved(r, u, "stop", "draining") /\ "draining" \in Phases /\ "draining" \in PhasesOf("stop")
          /\ "draining" \notin Joins /\ "draining" \notin Past
      BY <1>3, <1>6, PcIs DEF Phases, PhasesOf, Joins, Past
    <3>3. StopWait \in Int
      BY TimesAssumption
    <3>4. [r.clock EXCEPT !["stop"] = StopWait] \in [Flows -> Int]
      BY <1>3, <3>3 DEF PortType
    <3>5. w = [u EXCEPT !.clock = [r.clock EXCEPT !["stop"] = StopWait]]
      BY <1>3, <3>1 DEF PortType
    <3>. HIDE DEF u, w
    <3>6. PortType(w)
      BY <3>2, <3>4, <3>5 DEF PortType, Moved
    <3>7. Alike(u, w)
      BY <3>2, <3>5 DEF PortType, Moved, Alike
    <3>8. Left(w)
      BY <1>2, <1>4, <1>7, <3>2, <3>7 DEF Left, Moved, Alike
    <3>9. Sound(w, "none")
      BY <1>3, <1>6, <1>7, <3>2, <3>6, <3>7, <3>8, PcSound DEF Moved, Alike
    <3>10. w.stopped /\ w.pc["sig"] = "idle"
      BY <1>2, <1>3, <1>4, <1>6, <3>2, <3>7 DEF Moved, Alike, PortType
    <3>. QED
      BY <3>9, <3>10
  <2>2. CASE r.pc["tx"] = "idle"
    <3>1. w = Unkey(r, "stop")
      BY <2>2
    <3>2. Sound(w, "none")
      BY <1>2, <1>3, <1>4, <1>7, <3>1, UnkeySound
    <3>3. w.stopped /\ w.pc["sig"] = "idle"
      <4>1. CASE Tripping(r)
        <5>1. w = [r EXCEPT !.pc["stop"] = "joining"]
          BY <3>1, <4>1 DEF Unkey
        <5>2. Moved(r, w, "stop", "joining")
          BY <1>3, <1>6, <5>1, PcIs DEF Phases
        <5>. QED
          BY <1>2, <1>3, <1>4, <1>6, <5>2, SMTT(40) DEF PortType, Moved
      <4>2. CASE ~Tripping(r)
        <5>1. w = Ask(r, "stop", "unkey", "unkeying") /\ "unkey" \in Op /\ "unkeying" \in Phases
          BY <3>1, <4>2 DEF Unkey, Op, Phases
        <5>. DEFINE c == [op |-> "unkey", by |-> "stop"]
        <5>2. Asked(r, w, c, "unkeying") /\ c.by = "stop"
          BY <1>3, <1>6, <5>1, AskIs
        <5>. HIDE DEF c, w
        <5>3. w.stopped = r.stopped /\ w.pc = [r.pc EXCEPT !["stop"] = "unkeying"]
          BY <5>2 DEF Asked
        <5>. QED
          BY <1>2, <1>3, <1>4, <1>6, <5>3 DEF PortType
      <4>. QED
        BY <4>1, <4>2
    <3>. QED
      BY <3>2, <3>3
  <2>. QED
    BY <2>1, <2>2
<1>. HIDE DEF w
<1>9. Sound(w, "sig") /\ Followed(w) /\ Left(w)
  BY <1>6, <1>8, FreeSound DEF Await
<1>. QED
  BY <1>1, <1>8, <1>9, UnkeySound DEF PortInv

LEMMA TickKeeps == ASSUME PortInv, Tick PROVE PortInv'
<1>. DEFINE e == IF s.fuse = None THEN None ELSE s.fuse - 1
            k == [f \in Flows |-> IF Timed(f) THEN s.clock[f] - 1 ELSE 0]
<1>1. s' = [s EXCEPT !.fuse = e, !.clock = k] /\ s.fuse # 0
  BY DEF Tick, Due
<1>2. PortType(s) /\ Sound(s, "none") /\ s.fuse \in Int /\ s.clock \in [Flows -> Int]
  BY DEF PortInv, Sound, PortType
<1>3. e \in Int /\ (s.fuse # None => e # None)
  BY <1>1, <1>2 DEF None
<1>4. k \in [Flows -> Int]
  BY <1>2
<1>. HIDE DEF e, k
<1>5. PortType(s')
  BY <1>1, <1>2, <1>3, <1>4 DEF PortType
<1>6. Alike(s, s') /\ s'.fuse = e
  BY <1>1, <1>2 DEF PortType, Alike
<1>7. Sound(s', "none")
  BY <1>2, <1>5, <1>6, AlikeSound
<1>8. Watched(s')
  BY <1>3, <1>6 DEF PortInv, Watched, Guarded, Alike
<1>. QED
  BY <1>7, <1>8 DEF PortInv

LEMMA PortInit == Init => PortInv
<1>. SUFFICES ASSUME Init PROVE PortInv
  OBVIOUS
<1>1. s = Start /\ None \in Int
  BY DEF Init, None
<1>2. /\ s.calls = <<>> /\ s.on = FALSE /\ s.fault = FALSE /\ s.gaveUp = FALSE /\ s.stopped = FALSE
      /\ s.pc = [f \in Flows |-> "idle"]
  BY <1>1 DEF Start
<1>3. PortType(s)
  <2>1. <<>> \in Seq(Call) /\ [f \in Flows |-> "idle"] \in [Flows -> Phases] /\ [f \in Flows |-> 0] \in [Flows -> Int]
    BY DEF Phases
  <2>. QED
    BY <1>1, <2>1 DEF Start, PortType
<1>4. Len(s.calls) = 0 /\ \A f \in Flows : s.pc[f] = "idle"
  BY <1>2
<1>5. Owned(s, "none") /\ Followed(s) /\ Left(s)
  BY <1>4 DEF Owned, Followed, Left
<1>6. \A f \in Flows : s.pc[f] \in PhasesOf(f) /\ s.pc[f] \notin Joins
  BY <1>4 DEF PhasesOf, Joins
<1>7. ~Tripping(s) /\ s.pc["stop"] = "idle" /\ s.pc["sig"] = "idle"
  BY <1>4 DEF Tripping, Flows
<1>8. Sound(s, "none")
  BY <1>2, <1>3, <1>5, <1>6, <1>7 DEF Sound, Past
<1>. QED
  BY <1>2, <1>8 DEF PortInv, Watched, Guarded

LEMMA PortNext == PortInv /\ [Next]_vars => PortInv'
<1>. SUFFICES ASSUME PortInv, [Next]_vars PROVE PortInv'
  OBVIOUS
<1>1. CASE Clockwork
  <2>1. CASE Tick \/ Fuse \/ PlayHangs \/ Drained
    BY <2>1, TickKeeps, FuseKeeps, PlayEndsKeeps, DrainedKeeps DEF PlayHangs
  <2>2. ASSUME NEW f \in Flows, TimeOut(f) \/ Resume(f) PROVE PortInv'
    BY <2>2, TimeOutKeeps, ResumeKeeps
  <2>. QED
    BY <1>1, <2>1, <2>2 DEF Clockwork
<1>2. CASE Driver
  BY <1>2, DriverKeeps
<1>3. CASE Enqueue \/ GiveUpFrame \/ Transmit \/ PlayEnds
  BY <1>3, EnqueueKeeps, GiveUpFrameKeeps, TransmitKeeps, PlayEndsKeeps
<1>4. CASE Stop \/ Exception
  BY <1>4, StopKeeps, ExceptionKeeps
<1>5. CASE Switch \/ UNCHANGED vars
  BY <1>5 DEF Switch, vars, PortInv
<1>. QED
  BY <1>1, <1>2, <1>3, <1>4, <1>5 DEF Next

LEMMA PortAlways == Spec => []PortInv
BY PortInit, PortNext, PTL DEF Spec

(***************************************************************************)
(* A keyed radio is never forgotten (PttWatchdog, SoundcardPort): whatever *)
(* call fails, hangs or takes effect late, a timer, a release, the         *)
(* transmission or an unkey on its way ends it, unless every try of the    *)
(* release has failed.                                                     *)
(***************************************************************************)
THEOREM NeverForgottenTheorem == Spec => []NeverForgotten
<1>1. PortInv => NeverForgotten
  <2>. SUFFICES ASSUME PortInv, s.on, ~s.gaveUp
                PROVE  \/ s.fuse # None \/ Tripping(s) \/ s.pc["tx"] \notin {"idle", "waiting"}
                       \/ Pending("unkey") \/ Pending("close")
    BY DEF NeverForgotten
  <2>0. PortType(s) /\ Sound(s, "none") /\ Watched(s)
    BY DEF PortInv, Sound
  <2>1. s.calls \in Seq(Call) /\ DOMAIN s.calls = 1..Len(s.calls) /\ \A i \in 1..Len(s.calls) : s.calls[i].op \in Op
    BY <2>0, CallsAre
  <2>2. CASE s.fault
    <3>1. Covers(s, "trip")
      BY <2>0, <2>2 DEF Sound, Dead
    <3>. QED
      BY <2>1, <3>1 DEF Covers, Pending
  <2>3. CASE ~s.fault
    <3>1. ASSUME NEW i \in 1..Len(s.calls), s.calls[i].op # "key" PROVE Pending("unkey") \/ Pending("close")
      BY <2>1, <3>1 DEF Pending, Op
    <3>. QED
      BY <2>0, <2>3, <3>1 DEF Watched, Guarded
  <2>. QED
    BY <2>2, <2>3
<1>. QED
  BY <1>1, PortAlways, PTL

(***************************************************************************)
(* Once stop() has returned the radio is off and no call on its way will   *)
(* key it, unless every try of the release has failed.                     *)
(***************************************************************************)
THEOREM StoppedTheorem == Spec => []StoppedIsUnkeyed
<1>1. PortInv => StoppedIsUnkeyed
  <2>. SUFFICES ASSUME PortInv, s.pc["stop"] = "done", ~s.gaveUp PROVE ~s.on /\ ~Pending("key")
    BY DEF StoppedIsUnkeyed
  <2>1. Dead(s) /\ PortType(s)
    BY DEF PortInv, Sound, Past
  <2>2. DOMAIN s.calls = 1..Len(s.calls)
    BY <2>1, CallsAre
  <2>. QED
    BY <2>1, <2>2 DEF Dead, Pending
<1>. QED
  BY <1>1, PortAlways, PTL
-----------------------------------------------------------------------------
(* Which steps ask the driver to key. *)

\* From r to t the driver was not asked to key last.
Quiet(r, t) == t.calls = r.calls \/ t.calls[Len(t.calls)].op # "key"

LEMMA AskQuiet ==
    ASSUME NEW r, PortType(r), NEW f \in Flows, NEW op \in Op, op # "key", NEW p \in Phases
    PROVE  Quiet(r, Ask(r, f, op, p)) /\ PortType(Ask(r, f, op, p))
<1>. DEFINE t == Ask(r, f, op, p)
            c == [op |-> op, by |-> f]
<1>1. Asked(r, t, c, p) /\ c.op # "key"
  BY AskIs
<1>. HIDE DEF t, c
<1>2. Quiet(r, t) /\ PortType(t)
  BY <1>1 DEF Asked, Quiet
<1>. QED
  BY <1>2 DEF t

LEMMA UnkeyQuiet ==
    ASSUME NEW r, PortType(r), NEW f \in Flows PROVE Quiet(r, Unkey(r, f)) /\ PortType(Unkey(r, f))
<1>0. "unkey" \in Op /\ "unkeying" \in Phases /\ "joining" \in Phases /\ "unkey" # "key"
  BY DEF Op, Phases
<1>1. CASE Tripping(r)
  <2>1. Moved(r, [r EXCEPT !.pc[f] = "joining"], f, "joining")
    BY <1>0, PcIs
  <2>2. Unkey(r, f) = [r EXCEPT !.pc[f] = "joining"]
    BY <1>1 DEF Unkey
  <2>3. Moved(r, Unkey(r, f), f, "joining")
    BY <2>1, <2>2, Zenon
  <2>. QED
    BY <2>3 DEF Moved, Quiet
<1>2. CASE ~Tripping(r)
  <2>1. Unkey(r, f) = Ask(r, f, "unkey", "unkeying")
    BY <1>2 DEF Unkey
  <2>. QED
    BY <1>0, <2>1, AskQuiet
<1>. QED
  BY <1>1, <1>2

LEMMA TripQuiet ==
    ASSUME NEW r, PortType(r), NEW works \in BOOLEAN PROVE Quiet(r, Trip(r, works)) /\ PortType(Trip(r, works))
<1>1. CASE Tripping(r)
  BY <1>1 DEF Trip, Quiet
<1>2. CASE ~Tripping(r)
  <2>. DEFINE u == Faulted(r, works)
  <2>1. Trip(r, works) = Ask(u, "trip", "unkey", "unkeying")
    BY <1>2 DEF Trip, Faulted
  <2>2. PortType(u) /\ u.calls = r.calls
    BY FaultedIs
  <2>. HIDE DEF u
  <2>3. "unkey" \in Op /\ "unkeying" \in Phases /\ "trip" \in Flows
    BY DEF Op, Phases, Flows
  <2>4. Quiet(u, Ask(u, "trip", "unkey", "unkeying")) /\ PortType(Ask(u, "trip", "unkey", "unkeying"))
    BY <2>2, <2>3, AskQuiet
  <2>. QED
    BY <2>1, <2>2, <2>4 DEF Quiet
<1>. QED
  BY <1>1, <1>2

LEMMA TripWaitQuiet ==
    ASSUME NEW r, PortType(r), NEW works \in BOOLEAN, NEW f \in Flows, NEW p \in Phases,
           NEW t, t = [Trip(r, works) EXCEPT !.pc[f] = p]
    PROVE  Quiet(r, t)
<1>. DEFINE a == Trip(r, works)
<1>1. Quiet(r, a) /\ PortType(a)
  BY TripQuiet
<1>2. t = [a EXCEPT !.pc[f] = p]
  OBVIOUS
<1>. HIDE DEF a
<1>3. t.calls = a.calls
  BY <1>1, <1>2 DEF PortType
<1>. QED
  BY <1>1, <1>3 DEF Quiet

LEMMA LoopQuiet == ASSUME NEW r, PortType(r) PROVE Quiet(r, Loop(r))
<1>1. CASE r.queue > 0 /\ ~r.stopped
  <2>. DEFINE q == r.queue - 1
              t == [r EXCEPT !.queue = q, !.pc["tx"] = "waiting"]
  <2>1. Loop(r) = t
    BY <1>1 DEF Loop
  <2>. HIDE DEF q
  <2>2. t.calls = r.calls
    BY DEF PortType
  <2>. QED
    BY <2>1, <2>2 DEF Quiet
<1>2. CASE ~(r.queue > 0 /\ ~r.stopped)
  <2>1. Loop(r) = [r EXCEPT !.pc["tx"] = "idle"]
    BY <1>2 DEF Loop
  <2>. QED
    BY <2>1 DEF Quiet, PortType
<1>. QED
  BY <1>1, <1>2

LEMMA AfterUnkeyQuiet ==
    ASSUME NEW r, PortType(r), NEW f \in {"tx", "stop", "exc", "sig"}, NEW threw \in BOOLEAN
    PROVE  Quiet(r, AfterUnkey(r, f, threw))
<1>1. CASE f = "tx"
  BY <1>1, LoopQuiet DEF AfterUnkey
<1>2. CASE f = "stop"
  <2>. DEFINE p == IF threw THEN "closingFailed" ELSE "closing"
  <2>1. AfterUnkey(r, f, threw) = Ask(r, "stop", "close", p)
    BY <1>2 DEF AfterUnkey
  <2>2. "close" \in Op /\ "stop" \in Flows /\ p \in Phases
    BY DEF Op, Flows, Phases
  <2>. HIDE DEF p
  <2>. QED
    BY <2>1, <2>2, AskQuiet
<1>3. CASE f \in {"exc", "sig"}
  <2>1. AfterUnkey(r, f, threw) = [r EXCEPT !.pc[f] = "idle"]
    BY <1>3 DEF AfterUnkey
  <2>. QED
    BY <2>1 DEF Quiet, PortType
<1>. QED
  BY <1>1, <1>2, <1>3

LEMMA SettleTripQuiet ==
    ASSUME NEW r, PortType(r), NEW ok \in BOOLEAN PROVE Quiet(r, SettleTrip(r, ok))
<1>0. r.tries \in Int /\ Attempts \in Int
  BY TimesAssumption DEF PortType
<1>1. CASE ok
  <2>. DEFINE u == Confirmed(r)
  <2>1. SettleTrip(r, ok) = EndTrip(u)
    BY <1>1 DEF SettleTrip
  <2>2. PortType(u) /\ Alike(r, u)
    BY ConfirmedIs
  <2>. HIDE DEF u
  <2>3. EndTrip(u).calls = u.calls
    BY <2>2 DEF EndTrip, PortType
  <2>. QED
    BY <2>1, <2>2, <2>3 DEF Quiet, Alike
<1>2. CASE ~ok /\ r.tries < Attempts
  <2>. DEFINE a == Ask(r, "trip", "unkey", "unkeying")
              n == a.tries + 1
              t == [a EXCEPT !.tries = n]
  <2>0. ~(r.tries >= Attempts)
    BY <1>0, <1>2
  <2>1. SettleTrip(r, ok) = t
    BY <1>2, <2>0 DEF SettleTrip
  <2>2. Quiet(r, a) /\ PortType(a)
    BY AskQuiet DEF Op, Flows, Phases
  <2>. HIDE DEF a, n
  <2>3. t.calls = a.calls
    BY <2>2 DEF PortType
  <2>. QED
    BY <2>1, <2>2, <2>3 DEF Quiet
<1>3. CASE ~ok /\ r.tries >= Attempts
  <2>. DEFINE u == [r EXCEPT !.gaveUp = TRUE]
  <2>1. ~(r.tries < Attempts)
    BY <1>0, <1>3
  <2>2. SettleTrip(r, ok) = EndTrip(u)
    BY <1>3, <2>1 DEF SettleTrip
  <2>3. PortType(u) /\ u.calls = r.calls
    BY DEF PortType
  <2>. HIDE DEF u
  <2>4. EndTrip(u).calls = u.calls
    BY <2>3 DEF EndTrip, PortType
  <2>. QED
    BY <2>2, <2>3, <2>4 DEF Quiet
<1>. QED
  BY <1>0, <1>1, <1>2, <1>3

LEMMA SettleQuiet ==
    ASSUME NEW r, PortType(r), NEW f \in Flows, r.pc[f] \in Await, r.pc[f] \in PhasesOf(f), NEW ok \in BOOLEAN, NEW works \in BOOLEAN
    PROVE  Quiet(r, Settle(r, f, ok, works))
<1>. DEFINE t == Settle(r, f, ok, works)
            u == Confirmed(r)
<1>0. PortType(u) /\ Alike(r, u)
  BY ConfirmedIs
<1>. HIDE DEF u
<1>1. CASE f = "trip"
  <2>1. t = SettleTrip(r, ok)
    BY <1>1 DEF Settle, PhasesOf, Await
  <2>. QED
    BY <2>1, SettleTripQuiet
<1>a. ASSUME f # "trip" PROVE f \in {"tx", "stop", "exc", "sig"}
  BY <1>a DEF Flows
<1>2. CASE f # "trip" /\ r.pc[f] = "keying"
  <2>1. CASE ok
    <3>1. t = [r EXCEPT !.pc[f] = "playing", !.clock[f] = PlayMax]
      BY <1>2, <2>1 DEF Settle
    <3>. QED
      BY <3>1 DEF Quiet, PortType
  <2>2. CASE ~ok
    <3>1. t = Ask(r, f, "unkey", "backing")
      BY <1>2, <2>2 DEF Settle
    <3>. QED
      BY <3>1, AskQuiet DEF Op, Phases
  <2>. QED
    BY <2>1, <2>2
<1>3. CASE f # "trip" /\ r.pc[f] = "backing"
  <2>1. CASE ok
    <3>1. t = Unkey(u, f)
      BY <1>3, <2>1 DEF Settle, u
    <3>2. Quiet(u, Unkey(u, f))
      BY <1>0, UnkeyQuiet
    <3>. QED
      BY <1>0, <3>1, <3>2 DEF Quiet, Alike
  <2>2. CASE ~ok
    <3>1. t = [Trip(r, works) EXCEPT !.pc[f] = "backjoining"] /\ "backjoining" \in Phases
      BY <1>3, <2>2 DEF Settle, Phases
    <3>. HIDE DEF t
    <3>2. Quiet(r, t)
      BY <3>1, TripWaitQuiet
    <3>. QED
      BY <3>2 DEF t
  <2>. QED
    BY <2>1, <2>2
<1>4. CASE f # "trip" /\ r.pc[f] = "unkeying"
  <2>1. CASE ok
    <3>1. t = AfterUnkey(u, f, FALSE)
      BY <1>4, <2>1 DEF Settle, u
    <3>2. Quiet(u, AfterUnkey(u, f, FALSE))
      BY <1>0, <1>4, <1>a, AfterUnkeyQuiet
    <3>. QED
      BY <1>0, <3>1, <3>2 DEF Quiet, Alike
  <2>2. CASE ~ok
    <3>1. t = [Trip(r, works) EXCEPT !.pc[f] = "failing"] /\ "failing" \in Phases
      BY <1>4, <2>2 DEF Settle, Phases
    <3>. HIDE DEF t
    <3>2. Quiet(r, t)
      BY <3>1, TripWaitQuiet
    <3>. QED
      BY <3>2 DEF t
  <2>. QED
    BY <2>1, <2>2
<1>5. CASE f # "trip" /\ r.pc[f] \in {"closing", "closingFailed"}
  <2>. DEFINE o == r.on /\ ~(works /\ (~ok \/ r.pc[f] = "closingFailed"))
  <2>1. t = [r EXCEPT !.pc[f] = "done", !.on = o]
    BY <1>5 DEF Settle
  <2>. HIDE DEF o
  <2>. QED
    BY <2>1 DEF Quiet, PortType
<1>. QED
  BY <1>1, <1>2, <1>3, <1>4, <1>5 DEF Await

\* The step asked the driver to key.
Keyed == Len(s'.calls) > Len(s.calls) /\ s'.calls[Len(s'.calls)].op = "key"

LEMMA QuietStep ==
    ASSUME NEW r, PortType(s), PortType(r), Len(r.calls) <= Len(s.calls), Quiet(r, s')
    PROVE  ~Keyed
<1>1. Len(r.calls) \in Nat /\ Len(s.calls) \in Nat
  BY CallsAre
<1>. QED
  BY <1>1 DEF Quiet, Keyed

LEMMA LeaveStep == ASSUME PortInv, Next, Keyed PROVE ~Refuses
<1>0. PortType(s) /\ Sound(s, "none") /\ Len(s.calls) \in Nat
  BY CallsAre DEF PortInv, Sound
<1>. DEFINE Silent == Quiet(s, s')
<1>1. ASSUME Silent PROVE FALSE
  BY <1>0, <1>1, QuietStep
<1>2. CASE Driver
  <2>1. PICK ok \in BOOLEAN, effect \in BOOLEAN, works \in BOOLEAN :
          LET c == Head(s.calls)
              r == [s EXCEPT !.calls = Tail(@), !.on = IF ok \/ effect THEN c.op = "key" ELSE @]
          IN  s' = IF c.by = "nobody" THEN r ELSE Settle(r, c.by, ok, works)
    BY <1>2 DEF Driver
  <2>. DEFINE c == Head(s.calls)
              r == [s EXCEPT !.calls = Tail(@), !.on = IF ok \/ effect THEN c.op = "key" ELSE @]
  <2>2. s.calls # <<>> /\ s' = IF c.by = "nobody" THEN r ELSE Settle(r, c.by, ok, works)
    BY <1>2, <2>1 DEF Driver
  <2>3. Popped(s, r, c, ok)
    <3>1. \A cc, t : cc = Head(s.calls) /\ t = [s EXCEPT !.calls = Tail(@), !.on = IF ok \/ effect THEN cc.op = "key" ELSE @]
             => Popped(s, t, cc, ok)
      BY <1>0, <2>2, PoppedIs
    <3>. QED
      BY <3>1
  <2>. HIDE DEF c, r
  <2>4. PortType(r) /\ Len(r.calls) <= Len(s.calls)
    BY <1>0, <2>3 DEF Popped
  <2>5. Quiet(r, s')
    <3>1. CASE c.by = "nobody"
      BY <2>2, <3>1 DEF Quiet
    <3>2. CASE c.by # "nobody"
      <4>1. c.by \in Flows /\ Fits(c, r.pc[c.by]) /\ r.pc[c.by] \in PhasesOf(c.by)
        BY <2>3, <3>2, PopSound DEF PortInv, Sound
      <4>2. r.pc[c.by] \in Await
        BY <4>1 DEF Fits, Await
      <4>. QED
        BY <2>2, <2>4, <3>2, <4>1, <4>2, SettleQuiet
    <3>. QED
      BY <3>1, <3>2
  <2>. QED
    BY <1>0, <2>4, <2>5, QuietStep
<1>3. ASSUME NEW f \in Flows, TimeOut(f) PROVE FALSE
  <2>1. PICK works \in BOOLEAN : s' = Settle(Abandon(s, f), f, FALSE, works)
    BY <1>3 DEF TimeOut
  <2>. DEFINE t == Abandon(s, f)
  <2>2. PortType(t) /\ t.pc = s.pc /\ Len(t.calls) = Len(s.calls)
    BY <1>0, AbandonIs
  <2>. HIDE DEF t
  <2>3. t.pc[f] \in Await /\ t.pc[f] \in PhasesOf(f)
    BY <1>0, <1>3, <2>2 DEF TimeOut, Awaits, Await, Sound
  <2>4. Quiet(t, s')
    BY <2>1, <2>2, <2>3, SettleQuiet DEF t
  <2>. QED
    BY <1>0, <2>2, <2>4, QuietStep
<1>4. ASSUME NEW f \in Flows, Resume(f) PROVE FALSE
  <2>1. s.pc[f] \in PhasesOf(f) /\ s.pc[f] \in {"joined", "failed", "backjoined"}
    BY <1>0, <1>4 DEF Sound, Resume
  <2>2. f \in {"tx", "stop", "exc", "sig"}
    BY <2>1 DEF PhasesOf, Flows
  <2>3. s' = Unkey(s, f) \/ \E threw \in BOOLEAN : s' = AfterUnkey(s, f, threw)
    BY <1>4 DEF Resume
  <2>. QED
    BY <1>0, <1>1, <2>2, <2>3, UnkeyQuiet, AfterUnkeyQuiet
<1>5. CASE Fuse
  <2>. DEFINE r == [s EXCEPT !.fuse = None]
  <2>1. PICK works \in BOOLEAN : s' = Trip(r, works)
    BY <1>5 DEF Fuse
  <2>2. None \in Int
    BY DEF None
  <2>3. PortType(r) /\ r.calls = s.calls
    BY <1>0, <2>2 DEF PortType
  <2>. HIDE DEF r
  <2>4. Quiet(r, s')
    BY <2>1, <2>3, TripQuiet
  <2>. QED
    BY <1>1, <2>3, <2>4 DEF Quiet
<1>6. CASE PlayEnds \/ Drained
  <2>1. \E f \in Flows : s' = Unkey(s, f)
    BY <1>6 DEF PlayEnds, Drained, Flows
  <2>. QED
    BY <1>0, <1>1, <2>1, UnkeyQuiet
<1>7. CASE Enqueue
  <2>. DEFINE n == s.queue + 1
              r == [s EXCEPT !.queue = n]
  <2>1. s' = Loop(r) \/ s' = r
    BY <1>7 DEF Enqueue
  <2>2. n \in Int
    BY <1>0 DEF PortType
  <2>. HIDE DEF n
  <2>3. PortType(r) /\ r.calls = s.calls
    BY <1>0, <2>2 DEF PortType
  <2>. HIDE DEF r
  <2>4. Quiet(r, s')
    BY <2>1, <2>3, LoopQuiet DEF Quiet
  <2>. QED
    BY <1>1, <2>3, <2>4 DEF Quiet
<1>8. CASE GiveUpFrame
  BY <1>0, <1>1, <1>8, LoopQuiet DEF GiveUpFrame
<1>9. CASE Transmit
  <2>1. ASSUME Refuses PROVE FALSE
    <3>1. s' = [s EXCEPT !.queue = 0, !.pc["tx"] = "idle"]
      BY <1>9, <2>1 DEF Transmit
    <3>2. s'.calls = s.calls
      BY <1>0, <3>1 DEF PortType
    <3>. QED
      BY <1>1, <3>2 DEF Quiet
  <2>. QED
    BY <2>1
<1>10. CASE Stop
  <2>. DEFINE r == [s EXCEPT !.stopped = TRUE, !.queue = 0]
              w == IF r.pc["tx"] # "idle"
                   THEN [r EXCEPT !.pc["stop"] = "draining", !.clock["stop"] = StopWait]
                   ELSE Unkey(r, "stop")
  <2>1. s' = Unkey(w, "sig")
    BY <1>10 DEF Stop
  <2>2. PortType(r) /\ r.calls = s.calls
    <3>. DEFINE u == [s EXCEPT !.stopped = TRUE]
    <3>1. PortType(u) /\ u.calls = s.calls
      BY <1>0 DEF PortType
    <3>2. r = [u EXCEPT !.queue = 0]
      BY <1>0 DEF PortType
    <3>. HIDE DEF u, r
    <3>3. PortType(r)
      BY <3>1, <3>2, EmptiedTyped, Zenon
    <3>4. r.calls = u.calls
      BY <3>1, <3>2 DEF PortType
    <3>. QED
      BY <3>1, <3>3, <3>4
  <2>3. "stop" \in Flows /\ "sig" \in Flows /\ "draining" \in Phases /\ StopWait \in Int
    BY TimesAssumption DEF Flows, Phases
  <2>. HIDE DEF r
  <2>4. Quiet(r, w) /\ PortType(w)
    <3>1. CASE r.pc["tx"] # "idle"
      <4>1. w = [r EXCEPT !.pc["stop"] = "draining", !.clock["stop"] = StopWait]
        BY <3>1
      <4>2. [r.clock EXCEPT !["stop"] = StopWait] \in [Flows -> Int] /\ [r.pc EXCEPT !["stop"] = "draining"] \in [Flows -> Phases]
        BY <2>2, <2>3 DEF PortType
      <4>3. w = [r EXCEPT !.pc = [r.pc EXCEPT !["stop"] = "draining"], !.clock = [r.clock EXCEPT !["stop"] = StopWait]]
        BY <2>2, <4>1 DEF PortType
      <4>. HIDE DEF w
      <4>. QED
        BY <2>2, <4>2, <4>3 DEF PortType, Quiet
    <3>2. CASE r.pc["tx"] = "idle"
      BY <2>2, <2>3, <3>2, UnkeyQuiet
    <3>. QED
      BY <3>1, <3>2
  <2>. HIDE DEF w
  <2>5. Quiet(w, s')
    BY <2>1, <2>3, <2>4, UnkeyQuiet
  <2>6. Quiet(r, s')
    BY <2>4, <2>5 DEF Quiet
  <2>. QED
    BY <1>1, <2>2, <2>6 DEF Quiet
<1>11. CASE Exception
  <2>1. PICK works \in BOOLEAN : s' = Unkey([s EXCEPT !.excs = @ + 1, !.on = @ /\ ~works], "exc")
    BY <1>11 DEF Exception
  <2>. DEFINE n == s.excs + 1
              o == s.on /\ ~works
              r == [s EXCEPT !.excs = n, !.on = o]
  <2>2. s' = Unkey(r, "exc") /\ "exc" \in Flows
    BY <2>1 DEF Flows
  <2>3. n \in Int /\ o \in BOOLEAN
    BY <1>0 DEF PortType
  <2>. HIDE DEF n, o
  <2>4. PortType(r) /\ r.calls = s.calls
    BY <1>0, <2>3 DEF PortType
  <2>. HIDE DEF r
  <2>5. Quiet(r, s')
    BY <2>2, <2>4, UnkeyQuiet
  <2>. QED
    BY <1>1, <2>4, <2>5 DEF Quiet
<1>12. CASE Tick
  <2>. DEFINE e == IF s.fuse = None THEN None ELSE s.fuse - 1
              k == [f \in Flows |-> IF Timed(f) THEN s.clock[f] - 1 ELSE 0]
  <2>1. s' = [s EXCEPT !.fuse = e, !.clock = k]
    BY <1>12 DEF Tick
  <2>. HIDE DEF e, k
  <2>2. s'.calls = s.calls
    BY <1>0, <2>1 DEF PortType
  <2>. QED
    BY <1>1, <2>2 DEF Quiet
<1>13. CASE Switch
  BY <1>1, <1>13 DEF Switch, Quiet
<1>. QED
  BY <1>2, <1>3, <1>4, <1>5, <1>6, <1>7, <1>8, <1>9, <1>10, <1>11, <1>12, <1>13 DEF Next, Clockwork, PlayHangs

(***************************************************************************)
(* The driver is asked to key only in a step in which the port may         *)
(* transmit: the gate of transmit() is asked then, whatever was the case   *)
(* when the frame was queued, and no retry, release or resumed flow keys.  *)
(***************************************************************************)
THEOREM LeaveTheorem == Spec => KeysOnlyWithLeave
<1>1. PortInv /\ [Next]_vars => [Keyed => ~Refuses]_vars
  <2>. SUFFICES ASSUME PortInv, Next, Keyed PROVE ~Refuses
    BY DEF vars
  <2>. QED
    BY LeaveStep
<1>2. KeysOnlyWithLeave <=> [][Keyed => ~Refuses]_vars
  BY DEF KeysOnlyWithLeave, Keyed
<1>. QED
  BY <1>1, <1>2, PortAlways, PTL DEF Spec
-----------------------------------------------------------------------------
(* How long the radio stays keyed. *)

\* The key the transmission waits for, and one it has given up, on their way to the driver.
AwaitedKey(r) == \E i \in 1..Len(r.calls) : r.calls[i].op = "key" /\ r.calls[i].by = "tx"
StrayKey(r) == \E i \in 1..Len(r.calls) : r.calls[i].op = "key" /\ r.calls[i].by # "tx"

\* One key at most is on its way, in front of any other call of the transmission.
OneKey(r) ==
    \A i, j \in 1..Len(r.calls) : r.calls[i].op = "key" =>
        (r.calls[j].op = "key" => i = j) /\ (r.calls[j].by = "tx" => i <= j)

\* How long the radio may have been keyed when the release starts.
Limit(r) == IF r.overtaken THEN PlayMax + OpTimeout ELSE MaxKey

\* Each try of the release adds one time-out of the driver; h is how long the radio has been keyed.
InRelease(r, h) ==
    Tripping(r) =>
        /\ r.tries \in 1..Attempts /\ r.clock["trip"] <= OpTimeout
        /\ r.on /\ ~r.gaveUp => h + r.clock["trip"] <= Limit(r) + r.tries * OpTimeout

\* Before a fault the watchdog's timer bounds the key, or, once an overtaken unkey has disarmed it,
\* the awaits of the transmission do.
InKey(r, h) ==
    /\ r.timer => r.fuse >= 0 /\ ~r.overtaken /\ h + r.fuse <= MaxKey
    /\ r.on => r.pc["tx"] \in {"backing", "playing", "unkeying"}
    /\ StrayKey(r) => r.pc["tx"] = "backing" /\ (r.overtaken \/ OpTimeout <= MaxKey)
    /\ r.pc["tx"] = "keying" =>
          /\ AwaitedKey(r) /\ r.clock["tx"] <= OpTimeout
          /\ IF r.timer THEN r.fuse - r.clock["tx"] <= MaxKey - OpTimeout ELSE r.overtaken
    /\ r.pc["tx"] = "backing" =>
          /\ r.clock["tx"] <= OpTimeout
          /\ r.on /\ ~r.timer => h + r.clock["tx"] <= OpTimeout /\ (r.overtaken \/ OpTimeout <= MaxKey)
    /\ r.pc["tx"] = "playing" /\ r.on /\ ~r.timer => r.overtaken /\ h + r.clock["tx"] <= PlayMax
    /\ r.pc["tx"] = "unkeying" /\ r.on /\ ~r.timer => r.overtaken /\ h + r.clock["tx"] <= PlayMax + OpTimeout

Settled(r) ==
    /\ \A f \in Flows : r.clock[f] >= 0
    /\ OneKey(r) /\ (r.on => ~AwaitedKey(r) /\ ~StrayKey(r))

OnTime(r, h) ==
    /\ Settled(r)
    /\ r.fault => InRelease(r, h)
    /\ ~r.fault => InKey(r, h)

TimeInv == held \in Nat /\ OnTime(s, held) /\ (~s.on => held = 0)

-----------------------------------------------------------------------------
(* What the operators change of what OnTime looks at. *)

SameKeys(r, t) ==
    (AwaitedKey(t) <=> AwaitedKey(r)) /\ (StrayKey(t) <=> StrayKey(r)) /\ (OneKey(r) => OneKey(t))

LEMMA SameCalls == ASSUME NEW r, NEW t, t.calls = r.calls PROVE SameKeys(r, t)
BY DEF SameKeys, AwaitedKey, StrayKey, OneKey

\* The state of the watchdog is the same.
SameWatch(r, t) ==
    /\ t.on = r.on /\ t.fuse = r.fuse /\ t.timer = r.timer /\ t.fault = r.fault /\ t.gaveUp = r.gaveUp
    /\ t.overtaken = r.overtaken /\ t.tries = r.tries

\* Flow f is at p with k left on its clock, the others are where they were.
At(r, t, f, p, k) ==
    /\ t.pc[f] = p /\ t.clock[f] = k
    /\ \A g \in Flows : g # f => t.pc[g] = r.pc[g] /\ t.clock[g] = r.clock[g]

Went(r, t, f, p, k) == PortType(t) /\ SameKeys(r, t) /\ SameWatch(r, t) /\ At(r, t, f, p, k)

LEMMA Numbers ==
    /\ MaxKey \in Nat /\ OpTimeout \in Nat /\ PlayMax \in Nat /\ StopWait \in Nat /\ Attempts \in Nat
    /\ MaxKey > 0 /\ OpTimeout > 0 /\ PlayMax > 0 /\ Attempts > 0
BY TimesAssumption

LEMMA AskWent ==
    ASSUME NEW r, PortType(r), NEW f \in Flows, NEW op \in {"unkey", "close"}, NEW p \in Phases
    PROVE  Went(r, Ask(r, f, op, p), f, p, OpTimeout)
<1>. DEFINE c == [op |-> op, by |-> f]
            t == Ask(r, f, op, p)
            n == Len(r.calls)
<1>0. op \in Op /\ c.op # "key" /\ c.by = f
  BY DEF Op
<1>1. Asked(r, t, c, p)
  BY <1>0, AskIs
<1>2. t = [r EXCEPT !.calls = Append(r.calls, c), !.pc = [r.pc EXCEPT ![f] = p], !.clock = [r.clock EXCEPT ![f] = OpTimeout]]
  BY DEF Ask, PortType
<1>3. t.timer = r.timer /\ t.overtaken = r.overtaken /\ t.tries = r.tries /\ t.clock = [r.clock EXCEPT ![f] = OpTimeout]
  BY <1>2 DEF PortType
<1>. HIDE DEF c, t
<1>4. /\ n \in Nat /\ Len(t.calls) = n + 1 /\ t.calls[n + 1] = c
      /\ \A i \in 1..n : t.calls[i] = r.calls[i]
      /\ PortType(t) /\ t.pc = [r.pc EXCEPT ![f] = p]
      /\ t.on = r.on /\ t.fault = r.fault /\ t.gaveUp = r.gaveUp /\ t.fuse = r.fuse
  BY <1>0, <1>1 DEF Asked
<1>. HIDE DEF n
<1>5. 1..Len(t.calls) = 1..n \cup {n + 1}
  BY <1>4
<1>6. SameKeys(r, t)
  <2>1. AwaitedKey(t) <=> AwaitedKey(r)
    BY <1>0, <1>4, <1>5 DEF AwaitedKey, n
  <2>2. StrayKey(t) <=> StrayKey(r)
    BY <1>0, <1>4, <1>5 DEF StrayKey, n
  <2>3. ASSUME OneKey(r), NEW i \in 1..Len(t.calls), NEW j \in 1..Len(t.calls), t.calls[i].op = "key"
        PROVE  (t.calls[j].op = "key" => i = j) /\ (t.calls[j].by = "tx" => i <= j)
    <3>1. i \in 1..n /\ r.calls[i].op = "key"
      BY <1>0, <1>4, <1>5, <2>3
    <3>2. CASE j \in 1..n
      BY <1>4, <2>3, <3>1, <3>2 DEF OneKey, n
    <3>3. CASE j = n + 1
      BY <1>0, <1>4, <3>1, <3>3
    <3>. QED
      BY <1>5, <3>2, <3>3
  <2>. QED
    BY <2>1, <2>2, <2>3 DEF SameKeys, OneKey
<1>7. At(r, t, f, p, OpTimeout)
  BY <1>3, <1>4 DEF At, PortType
<1>. QED
  BY <1>3, <1>4, <1>6, <1>7 DEF Went, SameWatch, t

LEMMA PcWent ==
    ASSUME NEW r, PortType(r), NEW f \in Flows, NEW p \in Phases
    PROVE  Went(r, [r EXCEPT !.pc[f] = p], f, p, r.clock[f])
<1>. DEFINE t == [r EXCEPT !.pc[f] = p]
            w == [r.pc EXCEPT ![f] = p]
<1>1. Moved(r, t, f, p)
  BY PcIs
<1>2. t = [r EXCEPT !.pc = w]
  BY DEF PortType
<1>. HIDE DEF w
<1>3. t.timer = r.timer /\ t.overtaken = r.overtaken /\ t.tries = r.tries /\ t.clock = r.clock
  BY <1>2 DEF PortType
<1>. HIDE DEF t
<1>4. SameKeys(r, t)
  BY <1>1, SameCalls DEF Moved
<1>5. At(r, t, f, p, r.clock[f])
  BY <1>1, <1>3 DEF At, Moved, PortType
<1>. QED
  BY <1>1, <1>3, <1>4, <1>5 DEF Went, SameWatch, Moved, t

LEMMA ConfirmedView ==
    ASSUME NEW r, PortType(r)
    PROVE  LET t == Confirmed(r) IN
           /\ PortType(t) /\ SameKeys(r, t) /\ t.pc = r.pc /\ t.clock = r.clock /\ ~t.timer
           /\ t.on = r.on /\ t.fault = r.fault /\ t.gaveUp = r.gaveUp /\ t.tries = r.tries
           /\ t.overtaken <=> r.overtaken \/ AwaitedKey(r)
<1>. DEFINE d == Disarm(r)
            t == Confirmed(r)
            o == d.overtaken \/ \E i \in DOMAIN r.calls : r.calls[i] = [op |-> "key", by |-> "tx"]
<1>1. /\ PortType(d) /\ d.timer = FALSE /\ d.calls = r.calls /\ d.pc = r.pc /\ d.clock = r.clock /\ d.on = r.on
      /\ d.fault = r.fault /\ d.gaveUp = r.gaveUp /\ d.tries = r.tries /\ d.overtaken = r.overtaken
  <2>1. PortType(d) /\ Alike(r, d)
    BY DisarmIs
  <2>2. CASE r.timer
    <3>1. d = [r EXCEPT !.timer = FALSE, !.fuse = None]
      BY <2>2 DEF Disarm
    <3>2. d.timer = FALSE /\ d.clock = r.clock /\ d.tries = r.tries /\ d.overtaken = r.overtaken
      BY <3>1 DEF PortType
    <3>. QED
      BY <2>1, <3>2 DEF Alike
  <2>3. CASE ~r.timer
    <3>1. d = r
      BY <2>3 DEF Disarm
    <3>. QED
      BY <2>1, <2>3, <3>1 DEF PortType
  <2>. QED
    BY <2>2, <2>3
<1>2. t = [d EXCEPT !.keyed = FALSE, !.overtaken = o]
  BY DEF Confirmed
<1>3. o \in BOOLEAN /\ (o <=> r.overtaken \/ AwaitedKey(r))
  <2>1. r.calls \in Seq(Call) /\ DOMAIN r.calls = 1..Len(r.calls) /\ \A i \in 1..Len(r.calls) : r.calls[i] \in Call
    BY CallsAre
  <2>2. \A c \in Call : c = [op |-> "key", by |-> "tx"] <=> c.op = "key" /\ c.by = "tx"
    BY DEF Call
  <2>3. (\E i \in DOMAIN r.calls : r.calls[i] = [op |-> "key", by |-> "tx"]) <=> AwaitedKey(r)
    BY <2>1, <2>2 DEF AwaitedKey
  <2>. QED
    BY <1>1, <2>3
<1>4. PortType(t) /\ Alike(r, t)
  BY ConfirmedIs
<1>. HIDE DEF d, o
<1>5. t.timer = d.timer /\ t.clock = d.clock /\ t.tries = d.tries /\ t.overtaken = o
  BY <1>1, <1>2 DEF PortType
<1>. HIDE DEF t
<1>6. SameKeys(r, t)
  BY <1>4, SameCalls DEF Alike
<1>. QED
  BY <1>1, <1>3, <1>4, <1>5, <1>6 DEF Alike, t

\* The release starts.
LEMMA TripView ==
    ASSUME NEW r, PortType(r), NEW works \in BOOLEAN, ~Tripping(r)
    PROVE  LET t == Trip(r, works) IN
           /\ PortType(t) /\ SameKeys(r, t) /\ At(r, t, "trip", "unkeying", OpTimeout)
           /\ (t.on => r.on) /\ t.fault /\ t.gaveUp = r.gaveUp /\ t.tries = 1 /\ t.overtaken = r.overtaken
<1>. DEFINE u == Faulted(r, works)
            t == Trip(r, works)
            o == r.on /\ ~works
<1>1. t = Ask(u, "trip", "unkey", "unkeying")
  BY DEF Trip, Faulted
<1>2. PortType(u) /\ u.fault /\ u.calls = r.calls /\ (u.on => r.on) /\ u.gaveUp = r.gaveUp /\ u.pc = r.pc
  BY FaultedIs
<1>3. u = [r EXCEPT !.timer = FALSE, !.fault = TRUE, !.queue = 0, !.on = o, !.tries = 1]
  BY DEF Faulted
<1>. HIDE DEF o
<1>4. u.tries = 1 /\ u.overtaken = r.overtaken /\ u.clock = r.clock
  BY <1>3 DEF PortType
<1>. HIDE DEF u
<1>5. "trip" \in Flows /\ "unkey" \in {"unkey", "close"} /\ "unkeying" \in Phases
  BY DEF Flows, Phases
<1>6. Went(u, t, "trip", "unkeying", OpTimeout)
  BY <1>1, <1>2, <1>5, AskWent
<1>7. SameKeys(r, u)
  BY <1>2, SameCalls
<1>. HIDE DEF t
<1>8. SameKeys(r, t)
  BY <1>6, <1>7 DEF SameKeys, Went
<1>. QED
  BY <1>2, <1>4, <1>6, <1>8 DEF Went, SameWatch, At, t

\* Only the phase of the transmission changes in the drain loop.
LEMMA LoopWent ==
    ASSUME NEW r, PortType(r)
    PROVE  \E p \in {"idle", "waiting"} : Went(r, Loop(r), "tx", p, r.clock["tx"])
<1>0. "tx" \in Flows /\ "idle" \in Phases /\ "waiting" \in Phases /\ r.queue \in Int
  BY DEF Flows, Phases, PortType
<1>1. CASE r.queue > 0 /\ ~r.stopped
  <2>. DEFINE q == r.queue - 1
              u == [r EXCEPT !.pc["tx"] = "waiting"]
              t == Loop(r)
  <2>1. t = [r EXCEPT !.queue = q, !.pc["tx"] = "waiting"] /\ q \in Int
    BY <1>0, <1>1 DEF Loop
  <2>. HIDE DEF q
  <2>2. t = [u EXCEPT !.queue = q]
    BY <1>0, <2>1 DEF PortType
  <2>3. Went(r, u, "tx", "waiting", r.clock["tx"])
    BY <1>0, PcWent
  <2>. HIDE DEF u, t
  <2>a. PortType(u)
    BY <2>3 DEF Went
  <2>4. PortType(t)
    BY <2>1, <2>2, <2>a DEF PortType
  <2>5. t.calls = u.calls /\ t.pc = u.pc /\ t.clock = u.clock /\ SameWatch(u, t)
    BY <2>2, <2>a DEF PortType, SameWatch
  <2>6. SameKeys(u, t)
    BY <2>5, SameCalls
  <2>7. Went(r, t, "tx", "waiting", r.clock["tx"])
    BY <2>3, <2>4, <2>5, <2>6 DEF Went, SameKeys, SameWatch, At
  <2>. QED
    BY <2>7 DEF t
<1>2. CASE ~(r.queue > 0 /\ ~r.stopped)
  <2>1. Loop(r) = [r EXCEPT !.pc["tx"] = "idle"]
    BY <1>2 DEF Loop
  <2>2. Went(r, Loop(r), "tx", "idle", r.clock["tx"])
    BY <1>0, <2>1, PcWent
  <2>. QED
    BY <2>2
<1>. QED
  BY <1>1, <1>2
-----------------------------------------------------------------------------
(* What keeps to the times. *)

LEMMA Product ==
    ASSUME NEW n \in Nat
    PROVE  /\ n * OpTimeout \in Nat /\ (n + 1) * OpTimeout = n * OpTimeout + OpTimeout
           /\ 1 * OpTimeout = OpTimeout
           /\ \A m \in Nat : n <= m => n * OpTimeout <= m * OpTimeout
<1>. DEFINE k == OpTimeout
<1>1. k \in Nat
  BY Numbers
<1>. HIDE DEF k
<1>2. n * k \in Nat /\ (n + 1) * k = n * k + k /\ 1 * k = k
  BY <1>1
<1>3. ASSUME NEW m \in Nat, n <= m PROVE n * k <= m * k
  <2>1. PICK d \in Nat : m = n + d
    <3>1. m - n \in Nat /\ m = n + (m - n)
      BY <1>3
    <3>. QED
      BY <3>1
  <2>2. m * k = n * k + d * k /\ d * k \in Nat
    BY <1>1, <2>1
  <2>. QED
    BY <1>2, <2>2
<1>. QED
  BY <1>2, <1>3 DEF k

\* A step of a flow other than the transmission and the release.
LEMMA OtherTime ==
    ASSUME NEW r, NEW t, NEW h \in Nat, NEW f \in {"stop", "exc", "sig"}, NEW p, NEW k \in Nat,
           PortType(r), OnTime(r, h), Went(r, t, f, p, k)
    PROVE  OnTime(t, h)
<1>1. /\ t.pc["tx"] = r.pc["tx"] /\ t.clock["tx"] = r.clock["tx"]
      /\ t.pc["trip"] = r.pc["trip"] /\ t.clock["trip"] = r.clock["trip"] /\ \A g \in Flows : t.clock[g] >= 0
  BY DEF Went, At, Flows, OnTime, Settled
<1>2. SameWatch(r, t) /\ SameKeys(r, t)
  BY DEF Went
<1>3. Settled(t)
  BY <1>1, <1>2 DEF OnTime, Settled, SameWatch, SameKeys
<1>4. InRelease(r, h) => InRelease(t, h)
  BY <1>1, <1>2 DEF InRelease, Tripping, Limit, SameWatch
<1>5. InKey(r, h) => InKey(t, h)
  BY <1>1, <1>2 DEF InKey, SameWatch, SameKeys
<1>. QED
  BY <1>2, <1>3, <1>4, <1>5 DEF OnTime, SameWatch

\* A step of the transmission: the release does not look at it.
LEMMA TxTime ==
    ASSUME NEW r, NEW t, NEW h \in Nat, NEW p, NEW k \in Nat,
           PortType(r), OnTime(r, h), Went(r, t, "tx", p, k), r.fault \/ InKey(t, h)
    PROVE  OnTime(t, h)
<1>1. /\ t.pc["trip"] = r.pc["trip"] /\ t.clock["trip"] = r.clock["trip"] /\ \A g \in Flows : t.clock[g] >= 0
  BY DEF Went, At, Flows, OnTime, Settled
<1>2. SameWatch(r, t) /\ SameKeys(r, t)
  BY DEF Went
<1>3. Settled(t)
  BY <1>1, <1>2 DEF OnTime, Settled, SameWatch, SameKeys
<1>4. InRelease(r, h) => InRelease(t, h)
  BY <1>1, <1>2 DEF InRelease, Tripping, Limit, SameWatch
<1>. QED
  BY <1>2, <1>3, <1>4 DEF OnTime, SameWatch

\* The radio may only have been switched off.
LEMMA OffTime ==
    ASSUME NEW r, NEW t, NEW h \in Nat, PortType(r), PortType(t), OnTime(r, h), SameKeys(r, t), t.on => r.on,
           t.fuse = r.fuse, t.timer = r.timer, t.fault = r.fault, t.gaveUp = r.gaveUp,
           t.overtaken = r.overtaken, t.tries = r.tries, t.pc = r.pc, t.clock = r.clock
    PROVE  OnTime(t, h)
<1>1. Settled(t)
  BY DEF OnTime, Settled, SameKeys
<1>2. InRelease(r, h) => InRelease(t, h)
  BY DEF InRelease, Tripping, Limit
<1>3. InKey(r, h) => InKey(t, h)
  BY DEF InKey, SameKeys
<1>. QED
  BY <1>1, <1>2, <1>3 DEF OnTime

\* A confirmed unkey: the radio is off.
LEMMA ConfirmedTime ==
    ASSUME NEW r, NEW h \in Nat, PortType(r), OnTime(r, h), ~r.on
    PROVE  OnTime(Confirmed(r), h) /\ PortType(Confirmed(r))
<1>. DEFINE t == Confirmed(r)
<1>1. /\ PortType(t) /\ SameKeys(r, t) /\ t.pc = r.pc /\ t.clock = r.clock /\ ~t.timer
      /\ t.on = r.on /\ t.fault = r.fault /\ t.gaveUp = r.gaveUp /\ t.tries = r.tries
      /\ t.overtaken <=> r.overtaken \/ AwaitedKey(r)
  BY ConfirmedView
<1>. HIDE DEF t
<1>2. Settled(t)
  BY <1>1 DEF OnTime, Settled, SameKeys
<1>3. InRelease(r, h) => InRelease(t, h)
  BY <1>1 DEF InRelease, Tripping
<1>4. InKey(r, h) => InKey(t, h)
  BY <1>1 DEF InKey, SameKeys
<1>. QED
  BY <1>1, <1>2, <1>3, <1>4 DEF OnTime, t

\* How long the radio has been keyed when a release starts.
LEMMA LimitKept ==
    ASSUME NEW r, NEW h \in Nat, PortType(r), InKey(r, h), Settled(r), r.on
    PROVE  h <= Limit(r)
<1>1. r.clock["tx"] >= 0 /\ r.clock["tx"] \in Int /\ r.fuse \in Int
  BY DEF Settled, Flows, PortType
<1>2. CASE r.timer
  BY <1>1, <1>2, Numbers DEF InKey, Limit
<1>3. CASE ~r.timer
  <2>1. CASE r.pc["tx"] = "backing"
    BY <1>1, <1>3, <2>1, Numbers DEF InKey, Limit
  <2>2. CASE r.pc["tx"] = "playing"
    BY <1>1, <1>3, <2>2, Numbers DEF InKey, Limit
  <2>3. CASE r.pc["tx"] = "unkeying"
    BY <1>1, <1>3, <2>3, Numbers DEF InKey, Limit
  <2>. QED
    BY <2>1, <2>2, <2>3 DEF InKey
<1>. QED
  BY <1>2, <1>3

\* Once a release is over the radio is off, or every try has failed.
LEMMA Released ==
    ASSUME NEW r, NEW x, Sound(r, x), x # "trip", r.fault, ~Tripping(r)
    PROVE  r.gaveUp \/ ~r.on
<1>1. r.gaveUp \/ Dead(r) \/ Covers(r, "trip")
  BY DEF Sound
<1>2. ASSUME Covers(r, "trip") PROVE FALSE
  <2>1. PICK i \in 1..Len(r.calls) : r.calls[i].by = "trip"
    BY <1>2 DEF Covers
  <2>2. Fits(r.calls[i], r.pc["trip"])
    BY <2>1 DEF Sound, Owned
  <2>. QED
    BY <2>2 DEF Fits, Tripping
<1>. QED
  BY <1>1, <1>2 DEF Dead

\* Before a release starts, or while one is under way.
Ready(r, h) ==
    /\ Settled(r)
    /\ IF Tripping(r) THEN r.fault /\ InRelease(r, h) ELSE r.on /\ ~r.gaveUp => h <= Limit(r)

LEMMA OnTimeReady ==
    ASSUME NEW r, NEW x, NEW h \in Nat, Sound(r, x), x # "trip", OnTime(r, h)
    PROVE  Ready(r, h)
<1>0. PortType(r)
  BY DEF Sound
<1>1. CASE Tripping(r)
  BY <1>1 DEF Ready, OnTime, Sound
<1>2. CASE ~Tripping(r)
  <2>1. r.fault => r.gaveUp \/ ~r.on
    BY <1>2, Released
  <2>2. ~r.fault /\ r.on => h <= Limit(r)
    BY <1>0, LimitKept DEF OnTime
  <2>. QED
    BY <1>2, <2>1, <2>2 DEF Ready, OnTime
<1>. QED
  BY <1>1, <1>2

LEMMA TripTime ==
    ASSUME NEW r, NEW h \in Nat, PortType(r), Ready(r, h), NEW works \in BOOLEAN
    PROVE  OnTime(Trip(r, works), h) /\ PortType(Trip(r, works)) /\ Trip(r, works).fault
<1>. DEFINE t == Trip(r, works)
<1>1. CASE Tripping(r)
  <2>1. t = r
    BY <1>1 DEF Trip
  <2>. QED
    BY <1>1, <2>1 DEF Ready, OnTime
<1>2. CASE ~Tripping(r)
  <2>1. /\ PortType(t) /\ SameKeys(r, t) /\ At(r, t, "trip", "unkeying", OpTimeout)
        /\ (t.on => r.on) /\ t.fault /\ t.gaveUp = r.gaveUp /\ t.tries = 1 /\ t.overtaken = r.overtaken
    BY <1>2, TripView
  <2>. HIDE DEF t
  <2>2. t.pc["trip"] = "unkeying" /\ t.clock["trip"] = OpTimeout /\ \A g \in Flows : t.clock[g] >= 0
    BY <1>2, <2>1, Numbers DEF At, Ready, Settled
  <2>3. Settled(t)
    BY <1>2, <2>1, <2>2 DEF Ready, Settled, SameKeys
  <2>4. t.on /\ ~t.gaveUp => h <= Limit(t)
    BY <1>2, <2>1 DEF Ready, Limit
  <2>5. Limit(t) \in Nat
    BY Numbers DEF Limit
  <2>6. InRelease(t, h)
    BY <2>1, <2>2, <2>4, <2>5, Numbers, Product DEF InRelease
  <2>. QED
    BY <2>1, <2>3, <2>6 DEF OnTime, t
<1>. QED
  BY <1>1, <1>2

\* unkey() of a flow other than the transmission.
LEMMA UnkeyTime ==
    ASSUME NEW r, NEW h \in Nat, PortType(r), OnTime(r, h), NEW f \in {"stop", "exc", "sig"}
    PROVE  OnTime(Unkey(r, f), h) /\ PortType(Unkey(r, f))
<1>0. f \in Flows /\ "joining" \in Phases /\ "unkeying" \in Phases /\ "unkey" \in {"unkey", "close"}
  BY DEF Flows, Phases
<1>1. r.clock[f] \in Nat /\ OpTimeout \in Nat
  BY <1>0, Numbers DEF OnTime, Settled, PortType
<1>2. CASE Tripping(r)
  <2>1. Unkey(r, f) = [r EXCEPT !.pc[f] = "joining"]
    BY <1>2 DEF Unkey
  <2>2. Went(r, Unkey(r, f), f, "joining", r.clock[f])
    BY <1>0, <2>1, PcWent
  <2>. QED
    BY <1>1, <2>2, OtherTime DEF Went
<1>3. CASE ~Tripping(r)
  <2>1. Unkey(r, f) = Ask(r, f, "unkey", "unkeying")
    BY <1>3 DEF Unkey
  <2>2. Went(r, Unkey(r, f), f, "unkeying", OpTimeout)
    BY <1>0, <2>1, AskWent
  <2>. QED
    BY <1>1, <2>2, OtherTime DEF Went
<1>. QED
  BY <1>2, <1>3

\* unkey() of the transmission, after the playback or after a key that failed.
LEMMA UnkeyTxTime ==
    ASSUME NEW r, NEW h \in Nat, PortType(r), OnTime(r, h), Tripping(r) => r.fault,
           ~r.fault => ~StrayKey(r) /\ (r.on /\ ~r.timer => r.overtaken /\ h <= PlayMax)
    PROVE  OnTime(Unkey(r, "tx"), h)
<1>. DEFINE t == Unkey(r, "tx")
<1>0. "tx" \in Flows /\ "joining" \in Phases /\ "unkeying" \in Phases /\ "unkey" \in {"unkey", "close"}
  BY DEF Flows, Phases
<1>1. r.clock["tx"] \in Nat /\ OpTimeout \in Nat
  BY <1>0, Numbers DEF OnTime, Settled, PortType
<1>2. CASE Tripping(r)
  <2>1. t = [r EXCEPT !.pc["tx"] = "joining"]
    BY <1>2 DEF Unkey
  <2>2. Went(r, t, "tx", "joining", r.clock["tx"])
    BY <1>0, <2>1, PcWent
  <2>. HIDE DEF t
  <2>. QED
    BY <1>1, <1>2, <2>2, TxTime DEF t
<1>3. CASE ~Tripping(r)
  <2>1. t = Ask(r, "tx", "unkey", "unkeying")
    BY <1>3 DEF Unkey
  <2>2. Went(r, t, "tx", "unkeying", OpTimeout)
    BY <1>0, <2>1, AskWent
  <2>. HIDE DEF t
  <2>3. ~r.fault => InKey(t, h)
    BY <2>2, Numbers DEF Went, SameWatch, SameKeys, At, InKey, OnTime
  <2>. QED
    BY <1>1, <2>2, <2>3, TxTime DEF t
<1>. QED
  BY <1>2, <1>3

\* unkey() has returned or thrown.
LEMMA AfterUnkeyTime ==
    ASSUME NEW r, NEW h \in Nat, PortType(r), OnTime(r, h), NEW f \in {"tx", "stop", "exc", "sig"}, NEW threw \in BOOLEAN,
           f = "tx" /\ ~r.fault => ~r.on /\ ~StrayKey(r)
    PROVE  OnTime(AfterUnkey(r, f, threw), h)
<1>. DEFINE t == AfterUnkey(r, f, threw)
<1>0. f \in Flows /\ r.clock[f] \in Nat /\ OpTimeout \in Nat
  BY Numbers DEF OnTime, Settled, PortType, Flows
<1>1. CASE f = "tx"
  <2>1. t = Loop(r)
    BY <1>1 DEF AfterUnkey
  <2>2. PICK p \in {"idle", "waiting"} : Went(r, t, "tx", p, r.clock["tx"])
    BY <2>1, LoopWent
  <2>. HIDE DEF t
  <2>3. ~r.fault => InKey(t, h)
    BY <1>1, <2>2 DEF Went, SameWatch, SameKeys, At, InKey, OnTime
  <2>. QED
    BY <1>0, <1>1, <2>2, <2>3, TxTime DEF t
<1>2. CASE f = "stop"
  <2>. DEFINE p == IF threw THEN "closingFailed" ELSE "closing"
  <2>1. t = Ask(r, f, "close", p)
    BY <1>2 DEF AfterUnkey
  <2>2. p \in Phases /\ "close" \in {"unkey", "close"}
    BY DEF Phases
  <2>. HIDE DEF p
  <2>3. Went(r, t, f, p, OpTimeout)
    BY <1>0, <2>1, <2>2, AskWent
  <2>. HIDE DEF t
  <2>. QED
    BY <1>0, <1>2, <2>3, OtherTime DEF t
<1>3. CASE f \in {"exc", "sig"}
  <2>1. t = [r EXCEPT !.pc[f] = "idle"]
    BY <1>3 DEF AfterUnkey
  <2>2. Went(r, t, f, "idle", r.clock[f])
    BY <1>0, <2>1, PcWent DEF Phases
  <2>. HIDE DEF t
  <2>. QED
    BY <1>0, <1>3, <2>2, OtherTime DEF t
<1>. QED
  BY <1>1, <1>2, <1>3

LEMMA EndTripTime ==
    ASSUME NEW r, NEW h \in Nat, PortType(r), Settled(r), r.fault
    PROVE  OnTime(EndTrip(r), h)
<1>. DEFINE w == [f \in Flows |-> IF f = "trip" THEN "idle" ELSE Woken(r.pc[f])]
            t == EndTrip(r)
<1>1. t = [r EXCEPT !.pc = w] /\ w["trip"] = "idle"
  BY DEF EndTrip, Flows
<1>. HIDE DEF w
<1>2. t.calls = r.calls /\ t.clock = r.clock /\ t.on = r.on /\ t.fault = r.fault /\ t.pc = w
  BY <1>1 DEF PortType
<1>. HIDE DEF t
<1>3. SameKeys(r, t)
  BY <1>2, SameCalls
<1>4. Settled(t)
  BY <1>2, <1>3 DEF Settled, SameKeys
<1>5. ~Tripping(t)
  BY <1>1, <1>2 DEF Tripping
<1>. QED
  BY <1>2, <1>4, <1>5 DEF OnTime, InRelease, t

\* The release's unkey has come back, failed or timed out.
LEMMA SettleTripTime ==
    ASSUME NEW r, NEW h \in Nat, PortType(r), OnTime(r, h), r.fault, r.pc["trip"] = "unkeying",
           NEW ok \in BOOLEAN, ok => ~r.on
    PROVE  OnTime(SettleTrip(r, ok), h)
<1>0. /\ "trip" \in Flows /\ "unkeying" \in Phases /\ "unkey" \in {"unkey", "close"} /\ r.clock["trip"] \in Nat
      /\ Tripping(r) /\ r.tries \in 1..Attempts /\ r.tries \in Nat /\ InRelease(r, h)
  BY Numbers DEF Flows, Phases, OnTime, Settled, PortType, InRelease, Tripping
<1>1. CASE ok
  <2>. DEFINE u == Confirmed(r)
  <2>1. SettleTrip(r, ok) = EndTrip(u)
    BY <1>1 DEF SettleTrip
  <2>2. OnTime(u, h) /\ PortType(u)
    BY <1>1, ConfirmedTime
  <2>3. u.fault
    BY ConfirmedView
  <2>. HIDE DEF u
  <2>. QED
    BY <2>1, <2>2, <2>3, EndTripTime DEF OnTime
<1>2. CASE ~ok /\ r.tries < Attempts
  <2>. DEFINE u == Ask(r, "trip", "unkey", "unkeying")
              n == r.tries + 1
              t == SettleTrip(r, ok)
  <2>1. Went(r, u, "trip", "unkeying", OpTimeout)
    BY <1>0, AskWent
  <2>2. u.tries = r.tries /\ PortType(u)
    BY <2>1 DEF Went, SameWatch
  <2>3. t = [u EXCEPT !.tries = n] /\ n \in 1..Attempts
    BY <1>0, <1>2, <2>2, Numbers DEF SettleTrip
  <2>. HIDE DEF u, t
  <2>4. t.calls = u.calls /\ t.clock = u.clock /\ t.pc = u.pc /\ t.on = u.on /\ t.gaveUp = u.gaveUp /\ t.fault = u.fault
        /\ t.overtaken = u.overtaken /\ t.tries = n
    BY <2>2, <2>3 DEF PortType
  <2>5. SameKeys(u, t)
    BY <2>4, SameCalls
  <2>6. /\ t.on = r.on /\ t.gaveUp = r.gaveUp /\ t.fault = r.fault /\ t.overtaken = r.overtaken
        /\ t.clock["trip"] = OpTimeout /\ \A g \in Flows : t.clock[g] >= 0
    BY <2>1, <2>4, Numbers DEF Went, SameWatch, At, OnTime, Settled
  <2>7. Settled(t)
    BY <2>1, <2>5, <2>6 DEF Went, SameKeys, OnTime, Settled
  <2>8. Limit(t) = Limit(r) /\ Limit(r) \in Nat
    BY <2>6, Numbers DEF Limit
  <2>9. n * OpTimeout = r.tries * OpTimeout + OpTimeout /\ r.tries * OpTimeout \in Nat
    BY <1>0, Product
  <2>10. r.on /\ ~r.gaveUp => h + r.clock["trip"] <= Limit(r) + r.tries * OpTimeout
    BY <1>0 DEF InRelease
  <2>. HIDE DEF n
  <2>11. r.on /\ ~r.gaveUp => h + OpTimeout <= Limit(r) + n * OpTimeout
    <3>. DEFINE a == r.tries * OpTimeout
                b == n * OpTimeout
    <3>1. b = a + OpTimeout /\ a \in Nat
      BY <2>9
    <3>. HIDE DEF a, b
    <3>2. r.on /\ ~r.gaveUp => h + r.clock["trip"] <= Limit(r) + a
      BY <2>10 DEF a
    <3>3. r.on /\ ~r.gaveUp => h + OpTimeout <= Limit(r) + b
      BY <1>0, <2>8, <3>1, <3>2, Numbers
    <3>. QED
      BY <3>3 DEF b
  <2>12. InRelease(t, h)
    BY <2>3, <2>4, <2>6, <2>8, <2>11, Numbers DEF InRelease
  <2>. QED
    BY <2>6, <2>7, <2>12 DEF OnTime, t
<1>3. CASE ~ok /\ r.tries >= Attempts
  <2>. DEFINE u == [r EXCEPT !.gaveUp = TRUE]
  <2>1. SettleTrip(r, ok) = EndTrip(u)
    BY <1>0, <1>3, Numbers DEF SettleTrip
  <2>2. PortType(u) /\ u.calls = r.calls /\ u.clock = r.clock /\ u.on = r.on /\ u.fault = r.fault
    BY DEF PortType
  <2>. HIDE DEF u
  <2>3. SameKeys(r, u)
    BY <2>2, SameCalls
  <2>4. Settled(u)
    BY <2>2, <2>3 DEF OnTime, Settled, SameKeys
  <2>. QED
    BY <2>1, <2>2, <2>4, EndTripTime
<1>. QED
  BY <1>0, <1>1, <1>2, <1>3, Numbers

\* A flow goes to p to wait for the release it has started.
LEMMA TripWaitTime ==
    ASSUME NEW r, NEW h \in Nat, NEW f \in {"tx", "stop", "exc", "sig"}, Sound(r, f), OnTime(r, h),
           NEW works \in BOOLEAN, NEW p \in {"failing", "backjoining"},
           NEW t, t = [Trip(r, works) EXCEPT !.pc[f] = p]
    PROVE  OnTime(t, h)
<1>. DEFINE u == Trip(r, works)
<1>0. PortType(r) /\ f \in Flows /\ p \in Phases
  BY DEF Sound, Flows, Phases
<1>1. OnTime(u, h) /\ PortType(u) /\ u.fault
  BY <1>0, OnTimeReady, TripTime
<1>2. t = [u EXCEPT !.pc[f] = p]
  OBVIOUS
<1>. HIDE DEF u
<1>3. Went(u, [u EXCEPT !.pc[f] = p], f, p, u.clock[f])
  BY <1>0, <1>1, PcWent
<1>4. Went(u, t, f, p, u.clock[f])
  BY <1>2, <1>3, Zenon
<1>5. u.clock[f] \in Nat
  BY <1>0, <1>1 DEF OnTime, Settled, PortType
<1>. QED
  BY <1>1, <1>4, <1>5, OtherTime, TxTime

\* A driver call of flow f other than a key has come back, failed or timed out.
LEMMA SettleTime ==
    ASSUME NEW r, NEW h \in Nat, NEW f \in Flows, Sound(r, f), OnTime(r, h), r.pc[f] \in Await \ {"keying"},
           NEW ok \in BOOLEAN, NEW works \in BOOLEAN, ok => ~r.on, ok /\ r.pc[f] = "backing" => ~StrayKey(r)
    PROVE  OnTime(Settle(r, f, ok, works), h)
<1>. DEFINE t == Settle(r, f, ok, works)
<1>0. PortType(r) /\ r.pc[f] \in PhasesOf(f) /\ (Tripping(r) => r.fault)
  BY DEF Sound
<1>1. CASE f = "trip"
  <2>1. t = SettleTrip(r, ok) /\ r.pc["trip"] = "unkeying" /\ r.fault
    BY <1>0, <1>1 DEF Settle, PhasesOf, Await, Tripping
  <2>. QED
    BY <1>0, <1>1, <2>1, SettleTripTime
<1>a. CASE f # "trip"
  <2>0. f \in {"tx", "stop", "exc", "sig"}
    BY <1>a DEF Flows
  <2>. DEFINE u == Confirmed(r)
  <2>1. ok => /\ OnTime(u, h) /\ PortType(u) /\ ~u.on /\ u.fault = r.fault /\ (Tripping(u) => u.fault)
              /\ (StrayKey(u) <=> StrayKey(r))
    BY <1>0, ConfirmedTime, ConfirmedView DEF Tripping, SameKeys
  <2>. HIDE DEF u
  <2>2. CASE r.pc[f] = "backing"
    <3>1. f = "tx"
      BY <1>0, <2>0, <2>2 DEF PhasesOf
    <3>2. CASE ok
      <4>1. t = Unkey(u, "tx")
        BY <2>2, <3>1, <3>2 DEF Settle, u
      <4>. QED
        BY <2>1, <2>2, <3>2, <4>1, UnkeyTxTime
    <3>3. CASE ~ok
      <4>1. t = [Trip(r, works) EXCEPT !.pc[f] = "backjoining"]
        BY <2>2, <3>1, <3>3 DEF Settle
      <4>. HIDE DEF t
      <4>2. OnTime(t, h)
        BY <2>0, <4>1, TripWaitTime
      <4>. QED
        BY <4>2 DEF t
    <3>. QED
      BY <3>2, <3>3
  <2>3. CASE r.pc[f] = "unkeying"
    <3>1. CASE ok
      <4>1. t = AfterUnkey(u, f, FALSE)
        BY <1>a, <2>3, <3>1 DEF Settle, u
      <4>2. f = "tx" /\ ~r.fault => ~StrayKey(r)
        BY <2>3 DEF OnTime, InKey
      <4>. QED
        BY <2>0, <2>1, <3>1, <4>1, <4>2, AfterUnkeyTime
    <3>2. CASE ~ok
      <4>1. t = [Trip(r, works) EXCEPT !.pc[f] = "failing"]
        BY <1>a, <2>3, <3>2 DEF Settle
      <4>. HIDE DEF t
      <4>2. OnTime(t, h)
        BY <2>0, <4>1, TripWaitTime
      <4>. QED
        BY <4>2 DEF t
    <3>. QED
      BY <3>1, <3>2
  <2>4. CASE r.pc[f] \in {"closing", "closingFailed"}
    <3>0. f = "stop" /\ "stop" \in Flows /\ "done" \in Phases
      BY <1>0, <2>0, <2>4 DEF PhasesOf, Joins, Flows, Phases
    <3>. DEFINE o == r.on /\ ~(works /\ (~ok \/ r.pc[f] = "closingFailed"))
                v == [r EXCEPT !.on = o]
    <3>1. t = [r EXCEPT !.pc[f] = "done", !.on = o]
      BY <1>a, <2>4 DEF Settle
    <3>2. o \in BOOLEAN /\ (o => r.on)
      OBVIOUS
    <3>. HIDE DEF o
    <3>3. PortType(v)
      BY <1>0, <3>2 DEF PortType
    <3>4. /\ v.calls = r.calls /\ v.on = o /\ v.fuse = r.fuse /\ v.timer = r.timer /\ v.fault = r.fault
          /\ v.gaveUp = r.gaveUp /\ v.overtaken = r.overtaken /\ v.tries = r.tries /\ v.pc = r.pc /\ v.clock = r.clock
      BY <1>0 DEF PortType
    <3>5. t = [v EXCEPT !.pc[f] = "done"]
      BY <1>0, <3>1 DEF PortType
    <3>. HIDE DEF v
    <3>6. OnTime(v, h)
      BY <1>0, <3>2, <3>3, <3>4, SameCalls, OffTime
    <3>. HIDE DEF t
    <3>7. Went(v, [v EXCEPT !.pc[f] = "done"], f, "done", v.clock[f])
      BY <3>0, <3>3, PcWent
    <3>8. Went(v, t, f, "done", v.clock[f])
      BY <3>5, <3>7, Zenon
    <3>9. v.clock[f] \in Nat
      BY <3>0, <3>3, <3>6 DEF OnTime, Settled, PortType
    <3>. QED
      BY <3>0, <3>3, <3>6, <3>8, <3>9, OtherTime DEF t
  <2>. QED
    BY <2>2, <2>3, <2>4 DEF Await
<1>. QED
  BY <1>1, <1>a
-----------------------------------------------------------------------------
(* The steps of the driver and its time-outs. *)

\* Between a pop and what its flow does then, only the driver's state has changed.
SameRest(r, t) ==
    /\ PortType(t) /\ t.fuse = r.fuse /\ t.timer = r.timer /\ t.fault = r.fault /\ t.gaveUp = r.gaveUp
    /\ t.overtaken = r.overtaken /\ t.tries = r.tries /\ t.pc = r.pc /\ t.clock = r.clock

LEMMA PopView ==
    ASSUME NEW r, PortType(r), r.calls # <<>>, NEW ok \in BOOLEAN, NEW effect \in BOOLEAN,
           NEW c, c = Head(r.calls),
           NEW t, t = [r EXCEPT !.calls = Tail(@), !.on = IF ok \/ effect THEN c.op = "key" ELSE @]
    PROVE  Popped(r, t, c, ok) /\ SameRest(r, t)
<1>. DEFINE q == Tail(r.calls)
            o == IF ok \/ effect THEN c.op = "key" ELSE r.on
<1>1. Popped(r, t, c, ok)
  BY PoppedIs
<1>2. t = [r EXCEPT !.calls = q, !.on = o]
  BY DEF PortType
<1>. HIDE DEF q, o
<1>3. t.timer = r.timer /\ t.overtaken = r.overtaken /\ t.tries = r.tries /\ t.clock = r.clock
  BY <1>2 DEF PortType
<1>. QED
  BY <1>1, <1>3 DEF Popped, SameRest

\* What is left of the keys when the head is taken off.
LEMMA PopKeys ==
    ASSUME NEW r, NEW t, NEW c, NEW ok \in BOOLEAN, PortType(r), Popped(r, t, c, ok), OneKey(r)
    PROVE  /\ OneKey(t)
           /\ c.op = "key" \/ c.by = "tx" => ~AwaitedKey(t) /\ ~StrayKey(t)
           /\ c.op # "key" => SameKeys(r, t)
           /\ c.op = "key" => AwaitedKey(r) \/ StrayKey(r)
           /\ c.op = "key" /\ c.by = "nobody" => StrayKey(r)
<1>. DEFINE n == Len(r.calls)
            m == Len(t.calls)
<1>0. n \in Nat /\ m \in Nat /\ m = n - 1 /\ 1 \in 1..n /\ c = r.calls[1]
      /\ \A i \in 1..m : i + 1 \in 1..n /\ i + 1 # 1 /\ ~(i + 1 <= 1) /\ t.calls[i] = r.calls[i + 1]
  BY DEF Popped
<1>1. \A j \in 1..n : j # 1 => j - 1 \in 1..m /\ t.calls[j - 1] = r.calls[j]
  BY <1>0
<1>. HIDE DEF n, m
<1>2. OneKey(t)
  <2>1. ASSUME NEW i \in 1..m, NEW j \in 1..m, t.calls[i].op = "key"
        PROVE  (t.calls[j].op = "key" => i = j) /\ (t.calls[j].by = "tx" => i <= j)
    <3>1. i + 1 \in 1..n /\ j + 1 \in 1..n /\ t.calls[i] = r.calls[i + 1] /\ t.calls[j] = r.calls[j + 1]
      BY <1>0
    <3>2. (r.calls[j + 1].op = "key" => i + 1 = j + 1) /\ (r.calls[j + 1].by = "tx" => i + 1 <= j + 1)
      BY <2>1, <3>1 DEF OneKey, n
    <3>. QED
      BY <3>1, <3>2
  <2>. QED
    BY <2>1 DEF OneKey, m
<1>3. ASSUME c.op = "key" \/ c.by = "tx", NEW i \in 1..m, t.calls[i].op = "key" PROVE FALSE
  <2>1. i + 1 \in 1..n /\ r.calls[i + 1].op = "key" /\ i + 1 # 1 /\ ~(i + 1 <= 1)
    BY <1>0, <1>3
  <2>2. (r.calls[1].op = "key" => i + 1 = 1) /\ (r.calls[1].by = "tx" => i + 1 <= 1)
    BY <1>0, <2>1 DEF OneKey, n
  <2>. QED
    BY <1>0, <1>3, <2>1, <2>2
<1>4. ASSUME c.op # "key" PROVE SameKeys(r, t)
  <2>1. ASSUME AwaitedKey(t) PROVE AwaitedKey(r)
    <3>1. PICK i \in 1..m : t.calls[i].op = "key" /\ t.calls[i].by = "tx"
      BY <2>1 DEF AwaitedKey, m
    <3>2. i + 1 \in 1..n /\ t.calls[i] = r.calls[i + 1]
      BY <1>0
    <3>. QED
      BY <3>1, <3>2 DEF AwaitedKey, n
  <2>2. ASSUME AwaitedKey(r) PROVE AwaitedKey(t)
    <3>1. PICK i \in 1..n : r.calls[i].op = "key" /\ r.calls[i].by = "tx"
      BY <2>2 DEF AwaitedKey, n
    <3>2. i # 1
      BY <1>0, <1>4, <3>1
    <3>3. i - 1 \in 1..m /\ t.calls[i - 1] = r.calls[i]
      BY <1>1, <3>2
    <3>. QED
      BY <3>1, <3>3 DEF AwaitedKey, m
  <2>3. ASSUME StrayKey(t) PROVE StrayKey(r)
    <3>1. PICK i \in 1..m : t.calls[i].op = "key" /\ t.calls[i].by # "tx"
      BY <2>3 DEF StrayKey, m
    <3>2. i + 1 \in 1..n /\ t.calls[i] = r.calls[i + 1]
      BY <1>0
    <3>. QED
      BY <3>1, <3>2 DEF StrayKey, n
  <2>4. ASSUME StrayKey(r) PROVE StrayKey(t)
    <3>1. PICK i \in 1..n : r.calls[i].op = "key" /\ r.calls[i].by # "tx"
      BY <2>4 DEF StrayKey, n
    <3>2. i # 1
      BY <1>0, <1>4, <3>1
    <3>3. i - 1 \in 1..m /\ t.calls[i - 1] = r.calls[i]
      BY <1>1, <3>2
    <3>. QED
      BY <3>1, <3>3 DEF StrayKey, m
  <2>. QED
    BY <1>2, <2>1, <2>2, <2>3, <2>4 DEF SameKeys
<1>5. c.op = "key" => AwaitedKey(r) \/ StrayKey(r)
  BY <1>0 DEF AwaitedKey, StrayKey, n
<1>6. c.op = "key" /\ c.by = "nobody" => StrayKey(r)
  BY <1>0 DEF StrayKey, n
<1>. QED
  BY <1>2, <1>3, <1>4, <1>5, <1>6 DEF AwaitedKey, StrayKey, m

\* A release counts from a key that is only done during it.
LEMMA KeyInRelease ==
    ASSUME NEW r, NEW t, PortType(r), InRelease(r, 0), t.fault = r.fault, t.overtaken = r.overtaken, t.tries = r.tries,
           t.pc["trip"] = r.pc["trip"], t.clock["trip"] = r.clock["trip"]
    PROVE  InRelease(t, 0)
<1>1. ASSUME Tripping(r) PROVE 0 + r.clock["trip"] <= Limit(t) + r.tries * OpTimeout
  <2>1. r.tries \in 1..Attempts /\ r.clock["trip"] <= OpTimeout /\ r.clock["trip"] \in Int /\ r.tries \in Nat /\ 1 <= r.tries
    BY <1>1, Numbers DEF InRelease, PortType, Flows
  <2>2. OpTimeout <= r.tries * OpTimeout /\ r.tries * OpTimeout \in Nat
    <3>1. 1 * OpTimeout <= r.tries * OpTimeout /\ 1 * OpTimeout = OpTimeout
      BY <2>1, Product
    <3>. QED
      BY <2>1, <3>1, Product
  <2>3. Limit(t) \in Nat
    BY Numbers DEF Limit
  <2>. DEFINE a == r.tries * OpTimeout
  <2>4. OpTimeout <= a /\ a \in Nat
    BY <2>2
  <2>. HIDE DEF a
  <2>5. 0 + r.clock["trip"] <= Limit(t) + a
    BY <2>1, <2>3, <2>4, Numbers
  <2>. QED
    BY <2>5 DEF a
<1>. QED
  BY <1>1 DEF InRelease, Tripping

LEMMA DriverTime == ASSUME PortInv, TimeInv, Driver PROVE OnTime(s', held)
<1>0. Sound(s, "none") /\ Watched(s) /\ PortType(s) /\ OnTime(s, held) /\ held \in Nat /\ (~s.on => held = 0)
  BY DEF PortInv, Sound, TimeInv
<1>1. PICK ok \in BOOLEAN, effect \in BOOLEAN, works \in BOOLEAN :
        LET c == Head(s.calls)
            r == [s EXCEPT !.calls = Tail(@), !.on = IF ok \/ effect THEN c.op = "key" ELSE @]
        IN  s' = IF c.by = "nobody" THEN r ELSE Settle(r, c.by, ok, works)
  BY DEF Driver
<1>. DEFINE c == Head(s.calls)
            r == [s EXCEPT !.calls = Tail(@), !.on = IF ok \/ effect THEN c.op = "key" ELSE @]
<1>2. s.calls # <<>> /\ s' = IF c.by = "nobody" THEN r ELSE Settle(r, c.by, ok, works)
  BY <1>1 DEF Driver
<1>3. Popped(s, r, c, ok) /\ SameRest(s, r)
  <2>1. \A cc, t : cc = Head(s.calls) /\ t = [s EXCEPT !.calls = Tail(@), !.on = IF ok \/ effect THEN cc.op = "key" ELSE @]
           => Popped(s, t, cc, ok) /\ SameRest(s, t)
    BY <1>0, <1>2, PopView
  <2>. QED
    BY <2>1
<1>. HIDE DEF c, r
<1>4. c.by # "nobody" => c.by \in Flows /\ Sound(r, c.by) /\ Fits(c, r.pc[c.by])
  BY <1>0, <1>3, PopSound
<1>5. /\ OneKey(r)
      /\ c.op = "key" \/ c.by = "tx" => ~AwaitedKey(r) /\ ~StrayKey(r)
      /\ c.op # "key" => SameKeys(s, r)
      /\ c.op = "key" => ~s.on /\ held = 0
      /\ c.op = "key" /\ c.by = "nobody" => StrayKey(s)
  BY <1>0, <1>3, PopKeys DEF OnTime, Settled
<1>6. (r.on => s.on \/ c.op = "key") /\ (ok /\ c.op # "key" => ~r.on)
  BY <1>3 DEF Popped
<1>7. CASE c.op # "key"
  <2>1. OnTime(r, held)
    BY <1>0, <1>3, <1>5, <1>6, <1>7, OffTime DEF SameRest
  <2>2. CASE c.by = "nobody"
    BY <1>2, <2>1, <2>2
  <2>3. CASE c.by # "nobody"
    <3>1. r.pc[c.by] \in Await \ {"keying"} /\ (r.pc[c.by] = "backing" => c.by = "tx")
      <4>1. r.pc[c.by] \in PhasesOf(c.by)
        BY <1>4, <2>3 DEF Sound
      <4>. QED
        BY <1>4, <1>7, <2>3, <4>1 DEF Fits, Await
    <3>2. OnTime(Settle(r, c.by, ok, works), held)
      BY <1>0, <1>4, <1>5, <1>6, <1>7, <2>1, <2>3, <3>1, SettleTime
    <3>. QED
      BY <1>2, <2>3, <3>2
  <2>. QED
    BY <2>2, <2>3
<1>8. CASE c.op = "key"
  <2>0. /\ r.fuse = s.fuse /\ r.timer = s.timer /\ r.fault = s.fault /\ r.gaveUp = s.gaveUp
        /\ r.overtaken = s.overtaken /\ r.tries = s.tries /\ r.pc = s.pc /\ r.clock = s.clock /\ PortType(r)
    BY <1>3 DEF SameRest
  <2>1. Settled(r)
    BY <1>0, <1>5, <1>8, <2>0 DEF OnTime, Settled
  <2>2. s.fault => InRelease(s, 0)
    BY <1>0, <1>5, <1>8 DEF OnTime
  <2>3. s.fault => InRelease(r, 0)
    BY <1>0, <2>0, <2>2, KeyInRelease
  <2>4. ~s.fault => InKey(s, 0)
    BY <1>0, <1>5, <1>8 DEF OnTime
  <2>5. s.clock["tx"] \in Nat /\ s.fuse \in Int /\ held = 0 /\ "tx" \in Flows
    BY <1>0, <1>5, <1>8 DEF OnTime, Settled, PortType, Flows
  <2>6. CASE c.by = "nobody"
    <3>1. ~s.fault => InKey(r, 0)
      BY <1>5, <1>8, <2>0, <2>4, <2>5, <2>6, Numbers DEF InKey
    <3>. QED
      BY <1>2, <2>0, <2>1, <2>3, <2>5, <2>6, <3>1 DEF OnTime
  <2>7. CASE c.by # "nobody"
    <3>1. c.by = "tx" /\ s.pc["tx"] = "keying"
      BY <1>4, <1>8, <2>0, <2>7 DEF Fits
    <3>2. CASE ok
      <4>. DEFINE u == [r EXCEPT !.pc["tx"] = "playing"]
                  k == [r.clock EXCEPT !["tx"] = PlayMax]
      <4>1. s' = [r EXCEPT !.pc["tx"] = "playing", !.clock["tx"] = PlayMax]
        BY <1>2, <2>0, <2>7, <3>1, <3>2 DEF Settle
      <4>2. Went(r, u, "tx", "playing", r.clock["tx"])
        BY <2>0, <2>5, PcWent DEF Phases
      <4>3. s' = [u EXCEPT !.clock = k]
        BY <2>0, <2>5, <4>1 DEF PortType
      <4>4. k["tx"] = PlayMax /\ \A g \in Flows : k[g] >= 0 /\ (g # "tx" => k[g] = r.clock[g])
        BY <2>0, <2>1, <2>5, Numbers DEF PortType, Settled
      <4>. HIDE DEF u, k
      <4>5. PortType(u)
        BY <4>2 DEF Went
      <4>6. s'.calls = u.calls /\ s'.pc = u.pc /\ s'.clock = k /\ SameWatch(u, s')
        BY <4>3, <4>5 DEF PortType, SameWatch
      <4>7. SameKeys(u, s')
        BY <4>6, SameCalls
      <4>8. SameKeys(r, s') /\ SameWatch(r, s') /\ s'.pc["tx"] = "playing" /\ s'.pc["trip"] = r.pc["trip"]
            /\ s'.clock["trip"] = r.clock["trip"] /\ s'.clock["tx"] = PlayMax
        BY <4>2, <4>4, <4>6, <4>7 DEF Went, SameKeys, SameWatch, At, Flows
      <4>9. Settled(s')
        BY <2>1, <4>4, <4>6, <4>8 DEF Settled, SameKeys, SameWatch
      <4>10. s.fault => InRelease(s', 0)
        BY <2>0, <2>3, <4>8, KeyInRelease DEF SameWatch
      <4>11. ~s.fault => InKey(s', 0)
        BY <1>5, <1>8, <2>0, <2>4, <2>5, <3>1, <4>8, Numbers DEF InKey, SameKeys, SameWatch
      <4>. QED
        BY <2>0, <2>5, <4>8, <4>9, <4>10, <4>11 DEF OnTime, SameWatch
    <3>3. CASE ~ok
      <4>1. s' = Ask(r, "tx", "unkey", "backing")
        BY <1>2, <2>0, <2>7, <3>1, <3>3 DEF Settle
      <4>2. Went(r, s', "tx", "backing", OpTimeout)
        BY <2>0, <2>5, <4>1, AskWent DEF Phases
      <4>3. SameKeys(r, s') /\ SameWatch(r, s') /\ s'.pc["tx"] = "backing" /\ s'.pc["trip"] = r.pc["trip"]
            /\ s'.clock["trip"] = r.clock["trip"] /\ s'.clock["tx"] = OpTimeout /\ \A g \in Flows : s'.clock[g] >= 0
        BY <2>1, <4>2, Numbers DEF Went, At, Flows, Settled
      <4>4. Settled(s')
        BY <2>1, <4>3 DEF Settled, SameKeys, SameWatch
      <4>5. s.fault => InRelease(s', 0)
        BY <2>0, <2>3, <4>3, KeyInRelease DEF SameWatch
      <4>6. ~s.fault => InKey(s', 0)
        BY <1>5, <1>8, <2>0, <2>4, <2>5, <3>1, <4>3, Numbers DEF InKey, SameKeys, SameWatch
      <4>. QED
        BY <2>0, <2>5, <4>3, <4>4, <4>5, <4>6 DEF OnTime, SameWatch
    <3>. QED
      BY <3>2, <3>3
  <2>. QED
    BY <2>6, <2>7
<1>. QED
  BY <1>7, <1>8

LEMMA AbandonView ==
    ASSUME NEW r, Sound(r, "none"), NEW f \in Flows, OneKey(r)
    PROVE  LET t == Abandon(r, f) IN
           /\ SameRest(r, t) /\ t.on = r.on /\ OneKey(t)
           /\ r.pc[f] # "keying" => SameKeys(r, t)
           /\ AwaitedKey(t) \/ StrayKey(t) => AwaitedKey(r) \/ StrayKey(r)
<1>. DEFINE t == Abandon(r, f)
            n == Len(r.calls)
            q == [i \in DOMAIN r.calls |-> IF r.calls[i].by = f THEN [r.calls[i] EXCEPT !.by = "nobody"] ELSE r.calls[i]]
<1>0. PortType(r) /\ f # "nobody"
  BY DEF Sound, Flows
<1>1. /\ PortType(t) /\ t.fault = r.fault /\ t.gaveUp = r.gaveUp /\ t.pc = r.pc /\ t.on = r.on
      /\ Len(t.calls) = n
      /\ \A i \in 1..n : /\ t.calls[i].op = r.calls[i].op
                         /\ t.calls[i].by = IF r.calls[i].by = f THEN "nobody" ELSE r.calls[i].by
  BY <1>0, AbandonIs
<1>2. t = [r EXCEPT !.calls = q]
  BY DEF Abandon
<1>. HIDE DEF q
<1>3. t.fuse = r.fuse /\ t.timer = r.timer /\ t.overtaken = r.overtaken /\ t.tries = r.tries /\ t.clock = r.clock
  BY <1>0, <1>2 DEF PortType
<1>. HIDE DEF t, n
<1>4. OneKey(t)
  <2>1. ASSUME NEW i \in 1..n, NEW j \in 1..n, t.calls[i].op = "key"
        PROVE  (t.calls[j].op = "key" => i = j) /\ (t.calls[j].by = "tx" => i <= j)
    <3>1. r.calls[i].op = "key" /\ (t.calls[j].op = "key" => r.calls[j].op = "key")
          /\ (t.calls[j].by = "tx" => r.calls[j].by = "tx")
      BY <1>1, <2>1
    <3>. QED
      BY <3>1 DEF OneKey, n
  <2>. QED
    BY <1>1, <2>1 DEF OneKey
<1>5. ASSUME r.pc[f] # "keying" PROVE SameKeys(r, t)
  <2>1. ASSUME NEW i \in 1..n, r.calls[i].op = "key" PROVE r.calls[i].by # f
    BY <1>0, <1>5, <2>1 DEF Sound, Owned, Fits, n
  <2>2. \A i \in 1..n : t.calls[i].op = "key" => t.calls[i].by = r.calls[i].by
    BY <1>1, <2>1
  <2>3. AwaitedKey(t) <=> AwaitedKey(r)
    BY <1>1, <2>2 DEF AwaitedKey, n
  <2>4. StrayKey(t) <=> StrayKey(r)
    BY <1>1, <2>2 DEF StrayKey, n
  <2>. QED
    BY <1>4, <2>3, <2>4 DEF SameKeys
<1>6. AwaitedKey(t) \/ StrayKey(t) => AwaitedKey(r) \/ StrayKey(r)
  BY <1>1 DEF AwaitedKey, StrayKey, n
<1>. QED
  BY <1>1, <1>3, <1>4, <1>5, <1>6 DEF SameRest, t

LEMMA TimeOutTime == ASSUME PortInv, TimeInv, NEW f \in Flows, TimeOut(f) PROVE OnTime(s', held)
<1>0. Sound(s, "none") /\ PortType(s) /\ OnTime(s, held) /\ held \in Nat /\ s.pc[f] \in Await /\ s.clock[f] = 0
      /\ s.pc[f] \in PhasesOf(f)
  BY DEF PortInv, Sound, TimeInv, TimeOut, Awaits, Await
<1>1. PICK works \in BOOLEAN : s' = Settle(Abandon(s, f), f, FALSE, works)
  BY DEF TimeOut
<1>. DEFINE t == Abandon(s, f)
<1>2. /\ SameRest(s, t) /\ t.on = s.on /\ OneKey(t)
      /\ s.pc[f] # "keying" => SameKeys(s, t)
      /\ AwaitedKey(t) \/ StrayKey(t) => AwaitedKey(s) \/ StrayKey(s)
  BY <1>0, AbandonView DEF OnTime, Settled
<1>3. Sound(t, f)
  BY <1>0, AbandonSound
<1>4. s' = Settle(t, f, FALSE, works)
  BY <1>1
<1>. HIDE DEF t
<1>5. /\ t.fuse = s.fuse /\ t.timer = s.timer /\ t.fault = s.fault /\ t.gaveUp = s.gaveUp
      /\ t.overtaken = s.overtaken /\ t.tries = s.tries /\ t.pc = s.pc /\ t.clock = s.clock /\ PortType(t)
  BY <1>2 DEF SameRest
<1>6. CASE s.pc[f] # "keying"
  <2>1. OnTime(t, held)
    BY <1>0, <1>2, <1>5, <1>6, OffTime
  <2>. QED
    BY <1>0, <1>3, <1>4, <1>5, <1>6, <2>1, SettleTime
<1>7. CASE s.pc[f] = "keying"
  <2>1. f = "tx" /\ "tx" \in Flows /\ "backing" \in Phases
    BY <1>0, <1>7 DEF PhasesOf, Joins, Flows, Phases
  <2>2. s' = Ask(t, "tx", "unkey", "backing")
    BY <1>4, <1>5, <1>7, <2>1 DEF Settle
  <2>3. Went(t, s', "tx", "backing", OpTimeout)
    BY <1>5, <2>1, <2>2, AskWent
  <2>4. Settled(t)
    BY <1>0, <1>2, <1>5 DEF OnTime, Settled
  <2>5. SameKeys(t, s') /\ SameWatch(t, s') /\ s'.pc["tx"] = "backing" /\ s'.pc["trip"] = s.pc["trip"]
        /\ s'.clock["trip"] = s.clock["trip"] /\ s'.clock["tx"] = OpTimeout /\ \A g \in Flows : s'.clock[g] >= 0
    BY <1>5, <2>3, <2>4, Numbers DEF Went, At, Flows, Settled
  <2>6. Settled(s')
    BY <2>4, <2>5 DEF Settled, SameKeys, SameWatch
  <2>7. InRelease(s, held) => InRelease(s', held)
    BY <1>2, <1>5, <2>5 DEF InRelease, Tripping, Limit, SameWatch
  <2>8. InKey(s, held) => InKey(s', held)
    <3>. SUFFICES ASSUME InKey(s, held) PROVE InKey(s', held)
      OBVIOUS
    <3>1. ~s.on /\ s.fuse \in Int /\ (IF s.timer THEN OpTimeout <= MaxKey ELSE s.overtaken)
      BY <1>0, <1>7, <2>1, Numbers DEF InKey, PortType
    <3>. QED
      BY <1>2, <1>5, <2>5, <3>1, Numbers DEF InKey, SameWatch
  <2>. QED
    BY <1>0, <1>5, <2>5, <2>6, <2>7, <2>8 DEF OnTime, SameWatch
<1>. QED
  BY <1>6, <1>7

LEMMA FuseTime == ASSUME PortInv, TimeInv, Fuse PROVE OnTime(s', held)
<1>0. Sound(s, "none") /\ PortType(s) /\ OnTime(s, held) /\ held \in Nat
  BY DEF PortInv, Sound, TimeInv
<1>. DEFINE r == [s EXCEPT !.fuse = None]
<1>1. PICK works \in BOOLEAN : s' = Trip(r, works)
  BY DEF Fuse
<1>2. None \in Int
  BY DEF None
<1>3. /\ PortType(r) /\ r.calls = s.calls /\ r.on = s.on /\ r.fault = s.fault /\ r.gaveUp = s.gaveUp
      /\ r.overtaken = s.overtaken /\ r.tries = s.tries /\ r.pc = s.pc /\ r.clock = s.clock
  BY <1>0, <1>2 DEF PortType
<1>. HIDE DEF r
<1>4. Ready(s, held)
  BY <1>0, OnTimeReady
<1>5. SameKeys(s, r)
  BY <1>3, SameCalls
<1>6. Settled(r)
  BY <1>3, <1>4, <1>5 DEF Ready, Settled, SameKeys
<1>7. Ready(r, held)
  BY <1>3, <1>4, <1>6 DEF Ready, InRelease, Tripping, Limit
<1>. QED
  BY <1>0, <1>1, <1>3, <1>7, TripTime

LEMMA ResumeTime == ASSUME PortInv, TimeInv, NEW f \in Flows, Resume(f) PROVE OnTime(s', held)
<1>0. Sound(s, "none") /\ PortType(s) /\ OnTime(s, held) /\ held \in Nat /\ s.pc[f] \in PhasesOf(f)
  BY DEF PortInv, Sound, TimeInv
<1>1. /\ s.pc[f] \in {"joined", "failed", "backjoined"}
      /\ s' = IF s.pc[f] = "backjoined" THEN Unkey(s, f) ELSE AfterUnkey(s, f, s.pc[f] = "failed")
  BY DEF Resume
<1>2. s.fault /\ f \in {"tx", "stop", "exc", "sig"}
  BY <1>0, <1>1 DEF Sound, Joins, PhasesOf, Flows
<1>3. CASE s.pc[f] = "backjoined"
  <2>1. s' = Unkey(s, "tx")
    BY <1>0, <1>1, <1>2, <1>3 DEF PhasesOf
  <2>. QED
    BY <1>0, <1>2, <2>1, UnkeyTxTime
<1>4. CASE s.pc[f] # "backjoined"
  <2>. DEFINE threw == s.pc[f] = "failed"
  <2>1. s' = AfterUnkey(s, f, threw) /\ threw \in BOOLEAN
    BY <1>1, <1>4
  <2>. HIDE DEF threw
  <2>. QED
    BY <1>0, <1>2, <2>1, AfterUnkeyTime
<1>. QED
  BY <1>3, <1>4

-----------------------------------------------------------------------------
(* The steps of the port. *)

\* The record differs from s only in what OnTime does not look at.
LEMMA SameTime ==
    ASSUME NEW r, NEW t, NEW h \in Nat, PortType(r), OnTime(r, h), SameRest(r, t), t.calls = r.calls, t.on => r.on
    PROVE  OnTime(t, h)
BY SameCalls, OffTime DEF SameRest

LEMMA LoopTime ==
    ASSUME NEW r, NEW h \in Nat, PortType(r), OnTime(r, h), r.pc["tx"] \in {"idle", "waiting"}
    PROVE  OnTime(Loop(r), h)
<1>1. ~r.fault => ~r.on /\ ~StrayKey(r)
  BY DEF OnTime, InKey
<1>2. AfterUnkey(r, "tx", FALSE) = Loop(r)
  BY DEF AfterUnkey
<1>. QED
  BY <1>1, <1>2, AfterUnkeyTime

LEMMA EnqueueTime == ASSUME PortInv, TimeInv, Enqueue PROVE OnTime(s', held)
<1>. DEFINE n == s.queue + 1
            r == [s EXCEPT !.queue = n]
<1>0. PortType(s) /\ OnTime(s, held) /\ held \in Nat /\ n \in Int
  BY DEF PortInv, Sound, TimeInv, PortType
<1>1. s' = IF s.pc["tx"] = "idle" THEN Loop(r) ELSE r
  BY DEF Enqueue
<1>. HIDE DEF n
<1>2. PortType(r)
  BY <1>0 DEF PortType
<1>3. SameRest(s, r) /\ r.calls = s.calls /\ r.on = s.on
  BY <1>0, <1>2 DEF PortType, SameRest
<1>. HIDE DEF r
<1>4. OnTime(r, held) /\ r.pc = s.pc
  BY <1>0, <1>3, SameTime DEF SameRest
<1>. QED
  BY <1>0, <1>1, <1>2, <1>4, LoopTime

LEMMA GiveUpFrameTime == ASSUME PortInv, TimeInv, GiveUpFrame PROVE OnTime(s', held)
BY LoopTime DEF PortInv, Sound, TimeInv, GiveUpFrame

\* key(): the radio is off with no key on its way, and the timer starts.
LEMMA KeyTime ==
    ASSUME NEW r, Sound(r, "none"), OnTime(r, 0), r.pc["tx"] = "waiting", ~r.fault
    PROVE  OnTime(Key(r), 0)
<1>. DEFINE d == Disarm(r)
            u == [Arm(r) EXCEPT !.keyed = TRUE, !.overtaken = FALSE]
            c == [op |-> "key", by |-> "tx"]
            t == Ask(u, "tx", "key", "keying")
            n == Len(r.calls)
<1>0. Key(r) = t /\ PortType(r) /\ MaxKey \in Int
  BY Numbers DEF Key, Sound
<1>1. PortType(d) /\ d.calls = r.calls /\ d.on = r.on /\ d.fault = r.fault /\ d.pc = r.pc /\ d.clock = r.clock
  <2>1. PortType(d) /\ Alike(r, d)
    BY <1>0, DisarmIs
  <2>2. d.clock = r.clock
    BY <1>0 DEF Disarm, PortType
  <2>. QED
    BY <2>1, <2>2 DEF Alike
<1>2. u = [[d EXCEPT !.timer = TRUE, !.fuse = MaxKey] EXCEPT !.keyed = TRUE, !.overtaken = FALSE]
  BY DEF Arm
<1>. HIDE DEF d
<1>3. PortType(u)
  <2>1. PortType([d EXCEPT !.timer = TRUE, !.fuse = MaxKey])
    BY <1>0, <1>1 DEF PortType
  <2>. DEFINE v == [d EXCEPT !.timer = TRUE, !.fuse = MaxKey]
  <2>2. PortType(v) /\ u = [v EXCEPT !.keyed = TRUE, !.overtaken = FALSE]
    BY <1>2, <2>1
  <2>. HIDE DEF v, u
  <2>3. PortType([v EXCEPT !.keyed = TRUE, !.overtaken = FALSE])
    BY <2>2 DEF PortType
  <2>. QED
    BY <2>2, <2>3, Zenon
<1>4. u.calls = r.calls /\ u.on = r.on /\ u.fault = r.fault /\ u.pc = r.pc /\ u.clock = r.clock
      /\ u.timer = TRUE /\ u.fuse = MaxKey /\ u.overtaken = FALSE
  BY <1>1, <1>2 DEF PortType
<1>. HIDE DEF u
<1>5. "tx" \in Flows /\ "key" \in Op /\ "keying" \in Phases
  BY DEF Flows, Op, Phases
<1>6. Asked(u, t, c, "keying") /\ c.by = "tx" /\ c.op = "key"
  BY <1>3, <1>5, AskIs
<1>7. t.clock = [u.clock EXCEPT !["tx"] = OpTimeout] /\ t.timer = u.timer /\ t.overtaken = u.overtaken
  <2>1. t = [u EXCEPT !.calls = Append(u.calls, c), !.pc = [u.pc EXCEPT !["tx"] = "keying"],
                      !.clock = [u.clock EXCEPT !["tx"] = OpTimeout]]
    BY <1>3, <1>5 DEF Ask, PortType
  <2>. QED
    BY <1>3, <2>1 DEF PortType
<1>. HIDE DEF t, c
<1>8. /\ n \in Nat /\ Len(t.calls) = n + 1 /\ t.calls[n + 1] = c /\ \A i \in 1..n : t.calls[i] = r.calls[i]
      /\ t.pc = [r.pc EXCEPT !["tx"] = "keying"] /\ t.on = r.on /\ t.fault = r.fault /\ t.fuse = MaxKey
  BY <1>4, <1>6 DEF Asked
<1>. HIDE DEF n
<1>9. ~r.on /\ ~StrayKey(r)
  BY DEF OnTime, InKey
<1>10. \A i \in 1..n : r.calls[i].op # "key" /\ r.calls[i].by # "tx"
  BY <1>9 DEF Sound, Owned, Fits, StrayKey, n
<1>11. 1..Len(t.calls) = 1..n \cup {n + 1} /\ n + 1 \in 1..Len(t.calls)
  BY <1>8
<1>12. \A i \in 1..Len(t.calls) : t.calls[i].op = "key" \/ t.calls[i].by = "tx" => i = n + 1
  BY <1>8, <1>10, <1>11
<1>13. OneKey(t)
  BY <1>8, <1>12 DEF OneKey
<1>14. AwaitedKey(t)
  BY <1>6, <1>8, <1>11 DEF AwaitedKey
<1>15. ~StrayKey(t)
  BY <1>6, <1>8, <1>12 DEF StrayKey
<1>16. t.pc["tx"] = "keying" /\ t.clock["tx"] = OpTimeout /\ \A g \in Flows : t.clock[g] >= 0
  BY <1>0, <1>4, <1>5, <1>7, <1>8, Numbers DEF PortType, OnTime, Settled
<1>17. Settled(t)
  BY <1>8, <1>9, <1>13, <1>16 DEF Settled
<1>18. InKey(t, 0)
  BY <1>4, <1>7, <1>8, <1>9, <1>14, <1>15, <1>16, Numbers DEF InKey
<1>. QED
  BY <1>0, <1>8, <1>17, <1>18 DEF OnTime

LEMMA TransmitTime == ASSUME PortInv, TimeInv, Transmit PROVE OnTime(s', held)
<1>0. Sound(s, "none") /\ PortType(s) /\ OnTime(s, held) /\ held \in Nat /\ (~s.on => held = 0)
  BY DEF PortInv, Sound, TimeInv
<1>1. s.pc["tx"] = "waiting" /\ s' = IF Refuses THEN [s EXCEPT !.queue = 0, !.pc["tx"] = "idle"] ELSE Key(s)
  BY DEF Transmit
<1>2. CASE Refuses
  <2>. DEFINE u == [s EXCEPT !.pc["tx"] = "idle"]
  <2>0. "tx" \in Flows /\ "idle" \in Phases
    BY DEF Flows, Phases
  <2>1. Went(s, u, "tx", "idle", s.clock["tx"])
    BY <1>0, <2>0, PcWent
  <2>b. s.clock["tx"] \in Nat
    BY <1>0, <2>0 DEF OnTime, Settled, PortType
  <2>2. s' = [u EXCEPT !.queue = 0]
    BY <1>0, <1>1, <1>2 DEF PortType
  <2>. HIDE DEF u
  <2>3. ~s.fault => InKey(u, held)
    BY <1>0, <1>1, <2>1 DEF Went, SameWatch, SameKeys, At, InKey, OnTime
  <2>4. OnTime(u, held) /\ PortType(u)
    BY <1>0, <2>1, <2>3, <2>b, TxTime DEF Went
  <2>a. PortType(s')
    BY <2>2, <2>4, EmptiedTyped, Zenon
  <2>5. SameRest(u, s') /\ s'.calls = u.calls /\ s'.on = u.on
    BY <2>2, <2>4, <2>a DEF PortType, SameRest
  <2>. QED
    BY <1>0, <2>4, <2>5, SameTime
<1>3. CASE ~Refuses
  <2>1. ~s.fault /\ s' = Key(s)
    BY <1>1, <1>3 DEF Refuses
  <2>2. held = 0
    BY <1>0, <1>1, <2>1 DEF OnTime, InKey
  <2>. QED
    BY <1>0, <1>1, <2>1, <2>2, KeyTime
<1>. QED
  BY <1>2, <1>3

LEMMA PlayEndsTime == ASSUME PortInv, TimeInv, PlayEnds PROVE OnTime(s', held)
<1>0. Sound(s, "none") /\ PortType(s) /\ OnTime(s, held) /\ held \in Nat /\ (Tripping(s) => s.fault)
  BY DEF PortInv, Sound, TimeInv
<1>1. s' = Unkey(s, "tx") /\ s.pc["tx"] = "playing"
  BY DEF PlayEnds
<1>2. s.clock["tx"] \in Nat
  BY <1>0 DEF OnTime, Settled, PortType, Flows
<1>3. ~s.fault => ~StrayKey(s) /\ (s.on /\ ~s.timer => s.overtaken /\ held <= PlayMax)
  BY <1>0, <1>1, <1>2, Numbers DEF OnTime, InKey
<1>. QED
  BY <1>0, <1>1, <1>3, UnkeyTxTime

LEMMA DrainedTime == ASSUME PortInv, TimeInv, Drained PROVE OnTime(s', held)
BY UnkeyTime DEF PortInv, Sound, TimeInv, Drained

LEMMA ExceptionTime == ASSUME PortInv, TimeInv, Exception PROVE OnTime(s', held)
<1>1. PICK works \in BOOLEAN : s' = Unkey([s EXCEPT !.excs = @ + 1, !.on = @ /\ ~works], "exc")
  BY DEF Exception
<1>. DEFINE n == s.excs + 1
            o == s.on /\ ~works
            r == [s EXCEPT !.excs = n, !.on = o]
<1>2. s' = Unkey(r, "exc")
  BY <1>1
<1>3. PortType(s) /\ n \in Int /\ OnTime(s, held) /\ held \in Nat
  BY DEF PortInv, Sound, PortType, TimeInv
<1>4. o \in BOOLEAN /\ (o => s.on)
  OBVIOUS
<1>. HIDE DEF n, o
<1>5. PortType(r)
  BY <1>3, <1>4 DEF PortType
<1>6. SameRest(s, r) /\ r.calls = s.calls /\ r.on = o
  BY <1>3, <1>5 DEF PortType, SameRest
<1>. HIDE DEF r
<1>7. OnTime(r, held)
  BY <1>3, <1>4, <1>6, SameTime
<1>. QED
  BY <1>2, <1>3, <1>5, <1>7, UnkeyTime

LEMMA StopTime == ASSUME PortInv, TimeInv, Stop PROVE OnTime(s', held)
<1>. DEFINE r == [s EXCEPT !.stopped = TRUE, !.queue = 0]
            w == IF r.pc["tx"] # "idle"
                 THEN [r EXCEPT !.pc["stop"] = "draining", !.clock["stop"] = StopWait]
                 ELSE Unkey(r, "stop")
<1>1. s' = Unkey(w, "sig")
  BY DEF Stop
<1>2. PortType(s) /\ OnTime(s, held) /\ held \in Nat
  BY DEF PortInv, Sound, TimeInv
<1>3. PortType(r)
  <2>. DEFINE u == [s EXCEPT !.stopped = TRUE]
  <2>1. PortType(u)
    BY <1>2 DEF PortType
  <2>2. r = [u EXCEPT !.queue = 0]
    BY <1>2 DEF PortType
  <2>. HIDE DEF u, r
  <2>. QED
    BY <2>1, <2>2, EmptiedTyped, Zenon
<1>4. SameRest(s, r) /\ r.calls = s.calls /\ r.on = s.on
  BY <1>2, <1>3 DEF PortType, SameRest
<1>. HIDE DEF r
<1>5. OnTime(r, held)
  BY <1>2, <1>4, SameTime
<1>6. OnTime(w, held) /\ PortType(w)
  <2>1. CASE r.pc["tx"] # "idle"
    <3>. DEFINE u == [r EXCEPT !.pc["stop"] = "draining"]
                k == [r.clock EXCEPT !["stop"] = StopWait]
    <3>1. w = [r EXCEPT !.pc["stop"] = "draining", !.clock["stop"] = StopWait]
      BY <2>1
    <3>2. Went(r, u, "stop", "draining", r.clock["stop"])
      BY <1>3, PcWent DEF Flows, Phases
    <3>3. w = [u EXCEPT !.clock = k]
      BY <1>3, <3>1 DEF PortType
    <3>4. k \in [Flows -> Int] /\ k["stop"] = StopWait /\ \A g \in Flows : g # "stop" => k[g] = r.clock[g]
      BY <1>3, Numbers DEF PortType, Flows
    <3>. HIDE DEF u, w, k
    <3>5. PortType(u)
      BY <3>2 DEF Went
    <3>6. PortType(w) /\ w.calls = u.calls /\ w.pc = u.pc /\ w.clock = k /\ SameWatch(u, w)
      BY <3>3, <3>4, <3>5 DEF PortType, SameWatch
    <3>7. SameKeys(u, w)
      BY <3>6, SameCalls
    <3>8. Went(r, w, "stop", "draining", StopWait)
      BY <3>2, <3>4, <3>6, <3>7 DEF Went, SameKeys, SameWatch, At
    <3>. QED
      BY <1>2, <1>3, <1>5, <3>6, <3>8, OtherTime, Numbers
  <2>2. CASE r.pc["tx"] = "idle"
    <3>1. w = Unkey(r, "stop")
      BY <2>2
    <3>. QED
      BY <1>2, <1>3, <1>5, <3>1, UnkeyTime
  <2>. QED
    BY <2>1, <2>2
<1>. HIDE DEF w
<1>. QED
  BY <1>1, <1>2, <1>6, UnkeyTime

LEMMA TickTime == ASSUME PortInv, TimeInv, Tick PROVE TimeInv'
<1>. DEFINE e == IF s.fuse = None THEN None ELSE s.fuse - 1
            k == [f \in Flows |-> IF Timed(f) THEN s.clock[f] - 1 ELSE 0]
<1>0. /\ PortType(s) /\ OnTime(s, held) /\ held \in Nat /\ (~s.on => held = 0)
      /\ s.fuse \in Int /\ s.clock \in [Flows -> Int] /\ s.pc["trip"] \in {"idle", "unkeying"}
  BY DEF PortInv, Sound, TimeInv, PortType, PhasesOf, Flows
<1>1. s' = [s EXCEPT !.fuse = e, !.clock = k] /\ s.fuse # 0 /\ \A f \in Flows : Timed(f) => s.clock[f] # 0
  BY DEF Tick, Due
<1>2. held' \in Nat /\ held' <= held + 1 /\ (~s.on => held' = held)
  BY <1>0 DEF Tick
<1>3. \A f \in Flows : k[f] >= 0 /\ (Timed(f) => k[f] = s.clock[f] - 1)
  BY <1>0, <1>1 DEF OnTime, Settled
<1>4. /\ s.pc["tx"] \in {"keying", "backing", "playing", "unkeying"} => Timed("tx")
      /\ s.pc["trip"] # "idle" => Timed("trip")
  BY <1>0 DEF Timed, Awaits
<1>5. "tx" \in Flows /\ "trip" \in Flows /\ s.clock["tx"] \in Int /\ s.clock["trip"] \in Int
  BY <1>0 DEF Flows
<1>6. s.fuse >= 0 => e = s.fuse - 1 /\ e >= 0
  BY <1>0, <1>1 DEF None
<1>. HIDE DEF e, k
<1>7. /\ s'.calls = s.calls /\ s'.on = s.on /\ s'.fuse = e /\ s'.timer = s.timer /\ s'.fault = s.fault
      /\ s'.gaveUp = s.gaveUp /\ s'.overtaken = s.overtaken /\ s'.tries = s.tries /\ s'.pc = s.pc /\ s'.clock = k
  BY <1>0, <1>1 DEF PortType
<1>8. SameKeys(s, s')
  BY <1>7, SameCalls
<1>9. Settled(s')
  BY <1>0, <1>3, <1>7, <1>8 DEF OnTime, Settled, SameKeys
<1>10. InRelease(s, held) => InRelease(s', held')
  <2>. SUFFICES ASSUME InRelease(s, held), Tripping(s)
                PROVE  /\ s.tries \in 1..Attempts /\ k["trip"] <= OpTimeout
                       /\ s.on /\ ~s.gaveUp => held' + k["trip"] <= Limit(s) + s.tries * OpTimeout
    BY <1>7 DEF InRelease, Tripping, Limit
  <2>. DEFINE a == Limit(s) + s.tries * OpTimeout
  <2>1. s.tries \in 1..Attempts /\ s.clock["trip"] <= OpTimeout /\ (s.on /\ ~s.gaveUp => held + s.clock["trip"] <= a)
    BY DEF InRelease
  <2>2. k["trip"] = s.clock["trip"] - 1
    BY <1>3, <1>4, <1>5 DEF Tripping
  <2>3. a \in Int
    BY <2>1, Numbers, Product DEF Limit
  <2>. HIDE DEF a
  <2>4. k["trip"] <= OpTimeout /\ (s.on /\ ~s.gaveUp => held' + k["trip"] <= a)
    BY <1>0, <1>2, <1>5, <2>1, <2>2, <2>3, Numbers
  <2>. QED
    BY <2>1, <2>4 DEF a
<1>11. InKey(s, held) => InKey(s', held')
  <2>. SUFFICES ASSUME InKey(s, held) PROVE InKey(s', held')
    OBVIOUS
  <2>1. s.pc["tx"] \in {"keying", "backing", "playing", "unkeying"} => k["tx"] = s.clock["tx"] - 1
    BY <1>3, <1>4, <1>5
  <2>2. s.timer => e = s.fuse - 1 /\ e >= 0
    BY <1>6 DEF InKey
  <2>. QED
    BY <1>0, <1>2, <1>5, <1>7, <1>8, <2>1, <2>2, Numbers DEF InKey, SameKeys
<1>12. OnTime(s', held')
  BY <1>0, <1>7, <1>9, <1>10, <1>11 DEF OnTime
<1>. QED
  BY <1>0, <1>2, <1>7, <1>12 DEF TimeInv

\* A radio that went off in a step starts from 0 again.
LEMMA KeepsTime == ASSUME held \in Nat, PortType(s'), OnTime(s', held), Keeps PROVE TimeInv'
<1>1. held' = IF s'.on THEN held ELSE 0
  BY DEF Keeps
<1>2. CASE s'.on
  BY <1>1, <1>2 DEF TimeInv
<1>3. CASE ~s'.on
  <2>1. held' = 0 /\ s'.fuse \in Int
    BY <1>1, <1>3 DEF PortType
  <2>2. InRelease(s', held) => InRelease(s', 0)
    BY <1>3 DEF InRelease
  <2>3. InKey(s', held) => InKey(s', 0)
    BY <1>3, <2>1, Numbers DEF InKey
  <2>. QED
    BY <2>1, <2>2, <2>3 DEF OnTime, TimeInv
<1>. QED
  BY <1>2, <1>3

LEMMA TimeInit == Init => TimeInv
<1>. SUFFICES ASSUME Init PROVE TimeInv
  OBVIOUS
<1>1. /\ s.calls = <<>> /\ s.on = FALSE /\ s.fault = FALSE /\ s.timer = FALSE
      /\ s.pc = [f \in Flows |-> "idle"] /\ s.clock = [f \in Flows |-> 0] /\ held = 0
  BY DEF Init, Start
<1>2. Len(s.calls) = 0 /\ s.pc["tx"] = "idle" /\ \A f \in Flows : s.clock[f] >= 0
  BY <1>1 DEF Flows
<1>3. OneKey(s) /\ ~AwaitedKey(s) /\ ~StrayKey(s)
  BY <1>2 DEF OneKey, AwaitedKey, StrayKey
<1>4. Settled(s) /\ InKey(s, 0)
  BY <1>1, <1>2, <1>3 DEF Settled, InKey
<1>. QED
  BY <1>1, <1>4 DEF TimeInv, OnTime

LEMMA TimeNext == PortInv /\ PortInv' /\ TimeInv /\ [Next]_vars => TimeInv'
<1>. SUFFICES ASSUME PortInv, PortInv', TimeInv, [Next]_vars PROVE TimeInv'
  OBVIOUS
<1>0. PortType(s') /\ held \in Nat
  BY DEF PortInv, Sound, TimeInv
<1>1. CASE Clockwork
  <2>1. CASE Tick
    BY <2>1, TickTime
  <2>2. CASE Fuse \/ PlayHangs \/ Drained
    <3>1. OnTime(s', held) /\ Keeps
      BY <2>2, FuseTime, PlayEndsTime, DrainedTime DEF PlayHangs, Fuse, PlayEnds, Drained
    <3>. QED
      BY <1>0, <3>1, KeepsTime
  <2>3. ASSUME NEW f \in Flows, TimeOut(f) \/ Resume(f) PROVE TimeInv'
    <3>1. OnTime(s', held) /\ Keeps
      BY <2>3, TimeOutTime, ResumeTime DEF TimeOut, Resume
    <3>. QED
      BY <1>0, <3>1, KeepsTime
  <2>. QED
    BY <1>1, <2>1, <2>2, <2>3 DEF Clockwork
<1>2. CASE Driver \/ Enqueue \/ GiveUpFrame \/ Transmit
  <2>1. OnTime(s', held) /\ Keeps
    BY <1>2, DriverTime, EnqueueTime, GiveUpFrameTime, TransmitTime DEF Driver, Enqueue, GiveUpFrame, Transmit
  <2>. QED
    BY <1>0, <2>1, KeepsTime
<1>3. CASE PlayEnds \/ Stop \/ Exception
  <2>1. OnTime(s', held) /\ Keeps
    BY <1>3, PlayEndsTime, StopTime, ExceptionTime DEF PlayEnds, Stop, Exception
  <2>. QED
    BY <1>0, <2>1, KeepsTime
<1>4. CASE Switch \/ UNCHANGED vars
  BY <1>4 DEF Switch, vars, TimeInv
<1>. QED
  BY <1>1, <1>2, <1>3, <1>4 DEF Next

(***************************************************************************)
(* A stuck transmitter holds the channel for at most the key time and one  *)
(* driver time-out per try of the release (PttWatchdog, watchdog.ts 9-11), *)
(* whatever the driver and the playback do, for all limits, unless every   *)
(* try of the release has failed; when an unkey asked for before the key   *)
(* has disarmed its timer, for at most the playback's limit, the unkey     *)
(* after it and the release.                                               *)
(***************************************************************************)
THEOREM HeldTheorem == Spec => []HeldBounded
<1>1. PortInv /\ TimeInv => HeldBounded
  <2>. SUFFICES ASSUME PortInv, TimeInv, ~s.gaveUp
                PROVE  held <= IF s.overtaken THEN PlayMax + (Attempts + 1) * OpTimeout ELSE MaxKey + Attempts * OpTimeout
    BY DEF HeldBounded
  <2>0. Sound(s, "none") /\ PortType(s) /\ OnTime(s, held) /\ held \in Nat /\ (~s.on => held = 0)
    BY DEF PortInv, Sound, TimeInv
  <2>. DEFINE a == Attempts * OpTimeout
  <2>1. a \in Nat /\ (Attempts + 1) * OpTimeout = a + OpTimeout
    BY Numbers, Product
  <2>2. Limit(s) \in Nat
    BY Numbers DEF Limit
  <2>3. held <= Limit(s) + a
    <3>1. CASE ~s.on
      BY <2>0, <2>1, <2>2, <3>1
    <3>2. CASE s.on /\ ~s.fault
      <4>1. held <= Limit(s)
        BY <2>0, <3>2, LimitKept DEF OnTime
      <4>. HIDE DEF a
      <4>. QED
        BY <2>0, <2>1, <2>2, <4>1
    <3>3. CASE s.on /\ s.fault
      <4>1. Tripping(s)
        BY <2>0, <3>3, Released
      <4>2. s.tries \in 1..Attempts /\ held + s.clock["trip"] <= Limit(s) + s.tries * OpTimeout /\ s.clock["trip"] \in Nat
        BY <2>0, <3>3, <4>1 DEF OnTime, InRelease, Settled, PortType, Flows
      <4>3. s.tries * OpTimeout <= a /\ s.tries * OpTimeout \in Nat
        <5>1. s.tries \in Nat /\ Attempts \in Nat /\ s.tries <= Attempts
          BY <4>2, Numbers
        <5>2. \A n, m \in Nat : n <= m => n * OpTimeout <= m * OpTimeout /\ n * OpTimeout \in Nat
          BY Product
        <5>. QED
          BY <5>1, <5>2, Zenon
      <4>. DEFINE b == s.tries * OpTimeout
      <4>4. b <= a /\ b \in Nat /\ held + s.clock["trip"] <= Limit(s) + b
        BY <4>2, <4>3
      <4>. HIDE DEF a, b
      <4>. QED
        BY <2>0, <2>1, <2>2, <4>2, <4>4
    <3>. QED
      BY <3>1, <3>2, <3>3
  <2>. HIDE DEF a
  <2>4. held <= IF s.overtaken THEN PlayMax + (a + OpTimeout) ELSE MaxKey + a
    BY <2>0, <2>1, <2>3, Numbers DEF Limit
  <2>. QED
    BY <2>1, <2>4 DEF a
<1>2. Spec => []TimeInv
  BY TimeInit, TimeNext, PortAlways, PTL DEF Spec
<1>. QED
  BY <1>1, <1>2, PortAlways, PTL
=============================================================================

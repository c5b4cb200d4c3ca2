----------------------------- MODULE FedMirror -----------------------------
(***************************************************************************)
(* One cache of one gateway (the origin) and its copy on another (the      *)
(* mirror), workers/gateway/src.  The origin numbers every change of the   *)
(* cache and every tombstone.  The mirror pulls the two feeds, tombstones  *)
(* first (fedpull.ts), and frames may reach it over other carriers too, in *)
(* any order and again; all go through admitFrame (fedapply.ts), one       *)
(* database statement a step, so two admissions interleave.                *)
(*                                                                         *)
(* A tombstone covers the versions up to a bound; Forever stands for a     *)
(* tombstone without one, so the widest of two is the greater.  A pull is  *)
(* one page a feed, from the origin itself.  Left out: signatures, trust,  *)
(* regions, hops, and the frames kept for passing on but for the failure   *)
(* to keep one, which leaves the record unsettled.                         *)
(***************************************************************************)
EXTENDS Naturals, Sequences, FiniteSets, SequencesExt, FiniteSetsExt

CONSTANTS Pusher,         \* the carriers other than the pull
          MaxGaps,        \* MAX_GAPS
          MaxRev, MaxEdits, MaxTombs, MaxPushes, MaxFails, MaxCuts   \* bounds

Forever == MaxRev + 1
Pull == "pull"
Carrier == Pusher \cup {Pull}
Kind == {"tombstone", "cache"}

ASSUME FedAssumption == Pull \notin Pusher /\ MaxGaps \in Nat \ {0} /\ MaxRev \in Nat \ {0}

VARIABLES life,     \* the cache at its origin: "live", "removed" by the sysop, or "local" (no longer federated)
          stamp,    \* stamp[v]: updated_at of version v, a second; its length is the cache sequence
          sent,     \* the versions the feed has served
          tombs,    \* tombs[s]: the bound of the s-th tombstone
          owed,     \* a local-only cache's tombstone is still to be written
          row,      \* remote_caches: the version held, 0 for none
          ver,      \* fed_versions of the cache
          tomb,     \* remote_tombstones of the cache: its bound, 0 for none
          noted,    \* fed_versions of the tombstones
          job,      \* job[c]: the admission under way over carrier c
          pull,     \* the pull under way
          mark, read, replayed,   \* fed_origin_marks and fed_read_positions, by kind
          gaps,     \* fed_origin_gaps, by kind
          asked,    \* cache gaps asked for in vain, often and long enough to be given up
          givenUp,  \* fed_gaps_given_up
          raced,    \* history: two admissions overlapped in a way the statements do not guard against
          cut,      \* history: cut[k], the top of kind k when a repeated read of it was cut short
          overrun,  \* history: overrun[k], a page past the read position moved the mark of kind k, which lay below it
          unsent,   \* history: the origin stopped before it wrote the tombstone it owed
          used

origin == <<life, stamp, sent, tombs, owed, unsent>>
mirror == <<row, ver, tomb, noted, raced>>
position == <<mark, read, replayed, gaps, asked, givenUp, cut, overrun>>
vars == <<origin, mirror, job, pull, position, used>>

Bounds == [edit |-> MaxEdits, cut |-> MaxCuts, push |-> MaxPushes, fail |-> MaxFails]
Use(e) == used[e] < Bounds[e] /\ used' = [used EXCEPT ![e] = @ + 1]

rev == Len(stamp)
Top(k) == IF k = "cache" THEN rev ELSE Len(tombs)

(* What the origin's feed of kind k serves now: the last version of the    *)
(* cache while it federates, and every tombstone.                          *)
Serves(k) ==
    CASE k = "tombstone" -> DOMAIN tombs
      [] k = "cache"     -> {v \in {rev} : life = "live"}

NoJob == [kind |-> "cache", v |-> 0, step |-> "idle"]
NoPull == [kind |-> "tombstone", phase |-> "start", next |-> 0,
           todo |-> {}, bad |-> {}, replay |-> FALSE]

Init ==
    /\ life = "live" /\ stamp = <<1>> /\ sent = {1} /\ tombs = <<>> /\ owed = FALSE /\ unsent = FALSE
    /\ row = 0 /\ ver = 0 /\ tomb = 0 /\ noted = {} /\ raced = FALSE
    /\ job = [c \in Carrier |-> NoJob]
    /\ pull = NoPull
    /\ mark = [k \in Kind |-> 0] /\ read = mark /\ replayed = mark /\ cut = mark
    /\ gaps = [k \in Kind |-> {}] /\ asked = {} /\ givenUp = {} /\ overrun = [k \in Kind |-> FALSE]
    /\ used = [e \in DOMAIN Bounds |-> 0]

---------------------------------------------------------------------------
\* The origin

(* Every update of the row takes the next number.  An edit may fall in the *)
(* second of the change before it; the sysop's and the owner's other       *)
(* changes come later (a bound: the versions they hide are never served).  *)
Update(later) == rev < MaxRev /\ \E d \in later : stamp' = Append(stamp, Last(stamp) + d)

Edit ==
    /\ life = "live" /\ Update({0, 1}) /\ Use("edit")
    /\ sent' = sent \cup {rev + 1}
    /\ UNCHANGED <<life, tombs, owed, unsent, mirror, job, pull, position>>

(* The sysop's removal: the update and the tombstone up to its version, in one batch. *)
RemoveCache ==
    /\ life = "live" /\ Update({1}) /\ Len(tombs) < MaxTombs
    /\ life' = "removed"
    /\ tombs' = Append(tombs, rev + 1)
    /\ UNCHANGED <<sent, owed, unsent, mirror, job, pull, position, used>>

RestoreCache ==
    /\ life = "removed" /\ Update({1})
    /\ life' = "live"
    /\ sent' = sent \cup {rev + 1}
    /\ UNCHANGED <<tombs, owed, unsent, mirror, job, pull, position, used>>

(* The owner keeps the cache to this instance: an update, then the tombstone. *)
Retract ==
    /\ life = "live" /\ Update({1}) /\ Len(tombs) < MaxTombs
    /\ life' = "local" /\ owed' = TRUE
    /\ UNCHANGED <<sent, tombs, unsent, mirror, job, pull, position, used>>

EmitTombstone ==
    /\ owed /\ owed' = FALSE
    /\ tombs' = Append(tombs, Forever)
    /\ UNCHANGED <<life, stamp, sent, unsent, mirror, job, pull, position, used>>

(* The gateway stops in between; the next change finds the cache local-only already. *)
EmitLost ==
    /\ owed /\ Use("cut")
    /\ owed' = FALSE /\ unsent' = TRUE
    /\ UNCHANGED <<life, stamp, sent, tombs, mirror, job, pull, position>>

---------------------------------------------------------------------------
\* admitFrame, a statement a step

(* The frame (k, v) arrives over c.  isTombstoned comes first: a version   *)
(* of the cache a tombstone covers is refused for good.                    *)
Start(c, k, v) ==
    IF k = "cache" /\ v <= tomb
    THEN /\ gaps' = IF c = Pull THEN [gaps EXCEPT ![k] = @ \ {v}] ELSE gaps
         /\ job' = job
    ELSE /\ job' = [job EXCEPT ![c] = [kind |-> k, v |-> v, step |-> "version"]]
         /\ gaps' = gaps

To(c, step) == job' = [job EXCEPT ![c].step = step] /\ UNCHANGED gaps

(* The frame settled; the pull then closes the gap at its sequence (noteSettled). *)
Settle(c) ==
    /\ job' = [job EXCEPT ![c] = NoJob]
    /\ gaps' = IF c = Pull THEN [gaps EXCEPT ![job[c].kind] = @ \ {job[c].v}] ELSE gaps

Admitting == <<origin, pull, mark, read, replayed, asked, givenUp, cut, overrun, used>>

(* versionAdmits *)
\* Mutant: the version is noted before the record is applied
VersionNoted(c) ==
    /\ job[c].step = "version"
    /\ CASE job[c].kind = "cache" /\ job[c].v < ver -> Settle(c)
         [] job[c].kind = "cache" /\ job[c].v = ver -> To(c, "keep")
         [] job[c].kind = "cache" /\ job[c].v > ver -> To(c, "apply")
         [] job[c].kind = "tombstone" -> To(c, IF job[c].v \in noted THEN "keep"
                                               ELSE IF tombs[job[c].v] = Forever THEN "purge" ELSE "held")
    /\ ver' = IF job[c].kind = "cache" THEN Max({ver, job[c].v}) ELSE ver
    /\ UNCHANGED <<row, tomb, noted, raced, Admitting>>

Version(c) ==
    /\ job[c].step = "version"
    /\ CASE job[c].kind = "cache" /\ job[c].v < ver -> Settle(c)
         [] job[c].kind = "cache" /\ job[c].v = ver -> To(c, "keep")
         [] job[c].kind = "cache" /\ job[c].v > ver -> To(c, "apply")
         [] job[c].kind = "tombstone" -> To(c, IF job[c].v \in noted THEN "keep"
                                               ELSE IF tombs[job[c].v] = Forever THEN "purge" ELSE "held")
    /\ UNCHANGED <<mirror, Admitting>>

(* Does another admission of the cache stand at one of these steps, with a version in S? *)
Beside(c, steps, S) ==
    \E d \in Carrier \ {c} : job[d].kind = "cache" /\ job[d].step \in steps /\ job[d].v \in S

SameSecond(v) == {w \in v + 1 .. rev : stamp[w] = stamp[v]}

(* upsertRemoteCache.  Only updated_at is compared, so the version read    *)
(* before may have been overtaken by a later one of the same second.       *)
UpsertRemoteCache(c) ==
    /\ job[c].step = "apply"
    /\ row' = IF row = 0 \/ stamp[job[c].v] >= stamp[row] THEN job[c].v ELSE row
    /\ raced' = (raced \/ ver \in SameSecond(job[c].v) \/ Beside(c, {"note"}, SameSecond(job[c].v)))
    /\ To(c, "note")
    /\ UNCHANGED <<ver, tomb, noted, Admitting>>

(* applyTombstone with a bound: a copy at a later version stays. *)
ReadHeld(c) ==
    /\ job[c].step = "held"
    /\ To(c, IF ver > tombs[job[c].v] THEN "record" ELSE "purge")
    /\ UNCHANGED <<mirror, Admitting>>

Widest(s) == Max({tomb, tombs[s]})

Record(c) ==
    /\ job[c].step = "record"
    /\ tomb' = Widest(job[c].v)
    /\ raced' = (raced \/ Beside(c, {"version", "apply"}, 1 .. tombs[job[c].v]))
    /\ To(c, "note")
    /\ UNCHANGED <<row, ver, noted, Admitting>>

(* The copy goes and the tombstone is recorded, in one batch. *)
\* Mutant: the last tombstone replaces the one recorded before
PurgeNarrow(c) ==
    /\ job[c].step = "purge"
    /\ LET upTo == tombs[job[c].v] IN
       /\ row' = 0
       /\ tomb' = upTo
       /\ raced' = \/ raced \/ ver > upTo
                   \/ Beside(c, {"version", "apply"}, 1 .. upTo) \/ Beside(c, {"note"}, upTo + 1 .. rev)
    /\ To(c, "note")
    /\ UNCHANGED <<ver, noted, Admitting>>

Purge(c) ==
    /\ job[c].step = "purge"
    /\ LET upTo == tombs[job[c].v] IN
       /\ row' = 0
       /\ tomb' = Widest(job[c].v)
       /\ raced' = \/ raced \/ ver > upTo
                   \/ Beside(c, {"version", "apply"}, 1 .. upTo) \/ Beside(c, {"note"}, upTo + 1 .. rev)
    /\ To(c, "note")
    /\ UNCHANGED <<ver, noted, Admitting>>

NoteVersion(c) ==
    /\ job[c].step = "note"
    /\ IF job[c].kind = "cache"
       THEN ver' = Max({ver, job[c].v}) /\ noted' = noted
       ELSE noted' = noted \cup {job[c].v} /\ ver' = ver
    /\ To(c, "keep")
    /\ UNCHANGED <<row, tomb, raced, Admitting>>

(* keepForTransit; then the frame has settled. *)
Keep(c) ==
    /\ job[c].step = "keep"
    /\ Settle(c)
    /\ UNCHANGED <<mirror, Admitting>>

(* A statement fails: the frame has not settled. *)
Fails(c) ==
    /\ job[c].step # "idle" /\ Use("fail")
    /\ job' = [job EXCEPT ![c] = NoJob]
    /\ pull' = IF c = Pull THEN [pull EXCEPT !.bad = @ \cup {job[c].v}] ELSE pull
    /\ UNCHANGED <<origin, mirror, position>>

Admit(c) ==
    \/ Version(c) \/ UpsertRemoteCache(c) \/ ReadHeld(c) \/ Record(c) \/ Purge(c)
    \/ NoteVersion(c) \/ Keep(c)

(* A push, a mail batch, a beacon or a circuit brings any frame ever sent. *)
Deliver(c) ==
    /\ job[c] = NoJob /\ Use("push")
    /\ \E k \in Kind : \E v \in IF k = "cache" THEN sent ELSE DOMAIN tombs : Start(c, k, v)
    /\ UNCHANGED <<origin, mirror, pull, mark, read, replayed, asked, givenUp, cut, overrun>>

---------------------------------------------------------------------------
\* pullOrigin

(* The gaps of kind k are asked for next. *)
Asking(k, due) == [NoPull EXCEPT !.kind = k, !.phase = "gaps", !.todo = due]

Placed == <<mark, read, asked, givenUp, cut, overrun>>

(* The origin is asked for what lies past the mark and the read position,  *)
(* or again past the mark, once for each top of its sequence.              *)
Ask ==
    /\ pull.phase = "start"
    /\ LET k == pull.kind
           top == Top(k)
           replay == top > mark[k] /\ top > replayed[k] /\ mark[k] < read[k] /\ Cardinality(gaps[k]) < MaxGaps
           cursor == IF replay THEN mark[k] ELSE Max({mark[k], read[k]})
       IN /\ replayed' = IF replay THEN [replayed EXCEPT ![k] = top] ELSE replayed
          /\ pull' = IF replay \/ top > cursor
                     THEN [pull EXCEPT !.phase = "admit", !.next = top, !.replay = replay,
                                       !.todo = {v \in Serves(k) : v > cursor}]
                     ELSE Asking(k, gaps[k])
    /\ UNCHANGED <<origin, mirror, job, Placed, gaps, used>>

(* The frames of the page are admitted one by one, lowest first. *)
AdmitNext ==
    /\ pull.phase = "admit" /\ job[Pull] = NoJob /\ pull.todo # {}
    /\ Start(Pull, pull.kind, Min(pull.todo))
    /\ pull' = [pull EXCEPT !.todo = @ \ {Min(@)}]
    /\ UNCHANGED <<origin, mirror, Placed, replayed, used>>

(* What did not settle becomes a gap, as long as there is room, and the    *)
(* mark moves on; past that it waits below the first record without one,   *)
(* but only for this page: the next one starts past the read position, and *)
(* its mark passes over what the page before it had no room for.           *)
\* Mutant: records that did not settle are forgotten
SetMarkOnly ==
    /\ pull.phase = "admit" /\ job[Pull] = NoJob /\ pull.todo = {}
    /\ LET k == pull.kind IN
       /\ mark' = [mark EXCEPT ![k] = Max({@, pull.next})]
       /\ read' = [read EXCEPT ![k] = Max({@, pull.next})]
       /\ pull' = Asking(k, gaps[k])
    /\ UNCHANGED <<origin, mirror, job, gaps, replayed, asked, givenUp, cut, overrun, used>>

SetMark ==
    /\ pull.phase = "admit" /\ job[Pull] = NoJob /\ pull.todo = {}
    /\ LET k == pull.kind
           noRoom == {v \in pull.bad : Cardinality(gaps[k] \cup {w \in pull.bad : w <= v}) > MaxGaps}
           upTo == IF noRoom = {} THEN pull.next ELSE Min(noRoom) - 1
       IN /\ gaps' = [gaps EXCEPT ![k] = @ \cup {v \in pull.bad : v <= upTo}]
          /\ mark' = [mark EXCEPT ![k] = Max({@, upTo})]
          /\ read' = [read EXCEPT ![k] = Max({@, pull.next})]
          /\ overrun' = [overrun EXCEPT ![k] = @ \/ (~pull.replay /\ mark[k] < read[k] /\ mark[k] < upTo)]
          /\ pull' = Asking(k, gaps'[k])
    /\ UNCHANGED <<origin, mirror, job, replayed, asked, givenUp, cut, used>>

(* retryGaps: each gap is asked for on its own.  One the origin no longer  *)
(* serves was superseded or deleted, which closes it.                      *)
\* Mutant: a gap is closed once it has been asked for
AskGapOnce ==
    /\ pull.phase = "gaps" /\ job[Pull] = NoJob /\ pull.todo # {}
    /\ LET k == pull.kind
           v == Min(pull.todo)
       IN /\ IF v \in Serves(k)
             THEN job' = [job EXCEPT ![Pull] = [kind |-> k, v |-> v, step |-> "version"]]
             ELSE job' = job
          /\ gaps' = [gaps EXCEPT ![k] = @ \ {v}]
          /\ pull' = [pull EXCEPT !.todo = @ \ {v}]
    /\ UNCHANGED <<origin, mirror, mark, read, replayed, asked, givenUp, cut, overrun, used>>

AskGap ==
    /\ pull.phase = "gaps" /\ job[Pull] = NoJob /\ pull.todo # {}
    /\ LET k == pull.kind
           v == Min(pull.todo)
       IN /\ IF v \in Serves(k)
             THEN Start(Pull, k, v)
             ELSE gaps' = [gaps EXCEPT ![k] = @ \ {v}] /\ job' = job
          /\ pull' = [pull EXCEPT !.todo = @ \ {v}]
    /\ UNCHANGED <<origin, mirror, Placed, replayed, used>>

(* The gaps that stay back off.  Tombstones are pulled before caches, and  *)
(* the next pull follows.                                                  *)
NextKind ==
    /\ pull.phase = "gaps" /\ job[Pull] = NoJob /\ pull.todo = {}
    /\ asked' = IF pull.kind = "cache" THEN asked \cup pull.bad ELSE asked
    /\ pull' = [NoPull EXCEPT !.kind = IF pull.kind = "cache" THEN "tombstone" ELSE "cache"]
    /\ UNCHANGED <<origin, mirror, job, mark, read, replayed, gaps, givenUp, cut, overrun, used>>

(* The peer does not answer, or the mirror restarts: what was written stays. *)
Cut ==
    /\ Use("cut")
    /\ pull.phase = "admit" \/ pull.todo # {} \/ job[Pull] # NoJob
    /\ pull' = NoPull
    /\ job' = [job EXCEPT ![Pull] = NoJob]
    /\ cut' = IF pull.replay THEN [cut EXCEPT ![pull.kind] = Top(pull.kind)] ELSE cut
    /\ UNCHANGED <<origin, mirror, mark, read, replayed, gaps, asked, givenUp, overrun>>

(* giveUpGaps, nightly: never a tombstone. *)
GiveUp ==
    /\ \E v \in gaps["cache"] \cap asked :
          /\ gaps' = [gaps EXCEPT !["cache"] = @ \ {v}]
          /\ givenUp' = givenUp \cup {v}
    /\ UNCHANGED <<origin, mirror, job, pull, mark, read, replayed, asked, cut, overrun, used>>

---------------------------------------------------------------------------
Pulling == Ask \/ AdmitNext \/ SetMark \/ AskGap \/ NextKind \/ Admit(Pull)

Next ==
    \/ Edit \/ RemoveCache \/ RestoreCache \/ Retract \/ EmitTombstone \/ EmitLost
    \/ Pulling \/ Cut \/ GiveUp
    \/ \E c \in Pusher : Deliver(c) \/ Admit(c)
    \/ \E c \in Carrier : Fails(c)

(* The pull runs again and again, an admission runs to its end, and a      *)
(* change of scope goes on to its tombstone.                               *)
Fairness ==
    /\ WF_vars(Pulling) /\ WF_vars(EmitTombstone)
    /\ \A c \in Pusher : WF_vars(Admit(c))

Spec == Init /\ [][Next]_vars
FairSpec == Spec /\ Fairness

---------------------------------------------------------------------------
\* The state has its type, and the pull opens at most MAX_GAPS gaps a kind.
TypeOK ==
    /\ life \in {"live", "removed", "local"} /\ stamp \in Seq(Nat) /\ rev \in 1 .. MaxRev
    /\ sent \subseteq 1 .. rev /\ tombs \in Seq(1 .. Forever)
    /\ row \in 0 .. rev /\ ver \in 0 .. rev /\ tomb \in 0 .. Forever /\ noted \subseteq DOMAIN tombs
    /\ \A c \in Carrier :
          /\ job[c].kind \in Kind /\ job[c].v \in 0 .. Top(job[c].kind)
          /\ job[c].step \in {"idle", "version", "apply", "held", "record", "purge", "note", "keep"}
    /\ pull.kind \in Kind /\ pull.phase \in {"start", "admit", "gaps"}
    /\ \A k \in Kind :
          /\ mark[k] \in 0 .. read[k] /\ read[k] \in 0 .. Top(k) /\ replayed[k] \in 0 .. Top(k)
          /\ gaps[k] \subseteq 1 .. mark[k] /\ Cardinality(gaps[k]) <= MaxGaps
    /\ givenUp \subseteq asked /\ asked \subseteq 1 .. rev

(* The mark tells the truth about the two feeds (setMark, addGap), until a *)
(* page read past it moves it: every tombstone up to it has been recorded  *)
(* here with its whole bound or is a gap, and the version the origin       *)
(* serves, when it lies up to the mark, was applied, is covered by a       *)
(* tombstone, is a gap or has been given up.                               *)
MarkIsTrue ==
    /\ ~overrun["tombstone"] =>
          \A s \in 1 .. mark["tombstone"] : (s \in noted /\ tombs[s] <= tomb) \/ s \in gaps["tombstone"]
    /\ ~overrun["cache"] =>
          \A v \in Serves("cache") \cap 1 .. mark["cache"] :
              v <= ver \/ v <= tomb \/ v \in gaps["cache"] \cup givenUp

(* Nothing at or below the bound of a tombstone applied here returns,      *)
(* whatever old frame arrives over which carrier (isTombstoned), unless an *)
(* admission had passed that check when the tombstone was recorded.        *)
DeletedStaysDeleted == \A s \in noted : row = 0 \/ row > tombs[s] \/ raced

(* A repeated read was cut short, and the origin has written nothing since. *)
CutShort(k) == cut[k] # 0 /\ cut[k] = Top(k)

(* A cache removed or made local-only at its origin disappears from the    *)
(* mirror, whatever failed on the way, so long as its tombstone was        *)
(* written, admissions did not race and no repeated read was cut short.    *)
DeletesReach ==
    <>[](life # "live" => row = 0 \/ raced \/ unsent \/ CutShort("tombstone"))

(* The mirror ends with the origin's last version of a live cache, also    *)
(* one restored after a removal, unless it gave up on that version or      *)
(* admissions raced.                                                       *)
VersionsReach ==
    <>[](life = "live" => row = rev \/ raced \/ rev \in givenUp)
=============================================================================

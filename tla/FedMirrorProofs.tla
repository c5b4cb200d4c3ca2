--------------------------- MODULE FedMirrorProofs ---------------------------
(***************************************************************************)
(* Proofs about the mirror of a federated cache: for every set of          *)
(* carriers, every limit on the gaps and every interleaving of admissions. *)
(***************************************************************************)
EXTENDS FedMirror, SequenceTheorems, WellFoundedInduction, TLAPS

LEMMA MinIn ==
    ASSUME NEW S \in SUBSET Nat, S # {}
    PROVE  Min(S) \in S /\ \A x \in S : Min(S) <= x
<1>. DEFINE R == OpToRel(<, Nat)
<1>1. \A x, y \in Nat : <<x, y>> \in R <=> x < y
  BY DEF OpToRel
<1>2. IsWellFoundedOn(R, Nat)
  BY NatLessThanWellFounded
<1>. HIDE DEF R
<1>3. PICK x \in S : \A y \in S : ~ (<<y, x>> \in R)
  BY <1>2, WFMin
<1>4. ASSUME NEW y \in S PROVE x <= y
  <2>1. x \in Nat /\ y \in Nat /\ ~ (<<y, x>> \in R)
    BY <1>3
  <2>2. ~ (y < x)
    BY <1>1, <2>1
  <2>. QED
    BY <2>1, <2>2
<1>. QED
  BY <1>4 DEF Min

LEMMA MaxTwo == ASSUME NEW a \in Int, NEW b \in Int PROVE Max({a, b}) = IF a >= b THEN a ELSE b
BY DEF Max
-----------------------------------------------------------------------------
(* Types. *)

Step == {"idle", "version", "apply", "held", "record", "purge", "note", "keep"}

OriginType ==
    /\ stamp \in Seq(Nat) /\ Len(stamp) >= 1
    /\ \A i, j \in 1..Len(stamp) : i <= j => stamp[i] <= stamp[j]
    /\ sent \subseteq 1..Len(stamp)
    /\ tombs \in Seq(Nat)

MirrorType ==
    /\ row \in 0..Len(stamp) /\ ver \in 0..Len(stamp) /\ tomb \in Nat
    /\ noted \subseteq 1..Len(tombs) /\ raced \in BOOLEAN

\* An admission under way is of a frame the origin has sent.
JobAt(j) ==
    j.step # "idle" => /\ j.v \in 1..Top(j.kind)
                       /\ j.step = "apply" => j.kind = "cache"
                       /\ j.step \in {"held", "record", "purge"} => j.kind = "tombstone"

JobType ==
    /\ job \in [Carrier -> [kind : Kind, v : Nat, step : Step]]
    /\ \A c \in Carrier : JobAt(job[c])

PullType ==
    /\ pull \in [kind : Kind, phase : {"start", "admit", "gaps"}, next : Nat,
                 todo : SUBSET Nat, bad : SUBSET Nat, replay : BOOLEAN]
    /\ pull.phase = "start" => job[Pull].step = "idle" /\ pull.bad = {}
    /\ pull.phase = "admit" =>
          /\ pull.next <= Top(pull.kind)
          /\ pull.todo \subseteq 1..pull.next /\ pull.bad \subseteq 1..pull.next
          /\ job[Pull].step # "idle" => job[Pull].v <= pull.next /\ job[Pull].kind = pull.kind

PlaceType ==
    /\ mark \in [Kind -> Nat] /\ read \in [Kind -> Nat]
    /\ gaps \in [Kind -> SUBSET Nat] /\ overrun \in [Kind -> BOOLEAN]
    /\ \A k \in Kind : mark[k] <= Top(k)

FType == OriginType /\ MirrorType /\ JobType /\ PullType /\ PlaceType
-----------------------------------------------------------------------------
(***************************************************************************)
(* What an admission has settled by the step it stands at, and how the     *)
(* copy, its version and the tombstone relate; only admissions that raced  *)
(* can break it.                                                           *)
(***************************************************************************)
RowOK == raced \/ IF row = 0 THEN ver <= tomb ELSE row > tomb /\ row >= ver

NotedOK == \A s \in noted : tombs[s] <= tomb

JobOK(j) ==
    /\ j.kind = "tombstone" =>
          /\ j.step = "note" => tombs[j.v] <= tomb
          /\ j.step = "record" => ver > tombs[j.v]
          /\ j.step = "keep" => j.v \in noted
    /\ j.kind = "cache" =>
          /\ j.step \in {"version", "apply"} => j.v > tomb \/ raced
          /\ j.step = "note" => raced \/ IF row = 0 THEN j.v <= tomb ELSE row >= j.v
          /\ j.step = "keep" => j.v <= ver

DInv == RowOK /\ NotedOK /\ \A c \in Carrier : JobOK(job[c])

\* Nothing more is needed here of version v of kind k.
Handled(k, v) == IF k = "tombstone" THEN v \in noted ELSE v <= ver \/ v <= tomb

\* Where the page the pull works through began.
Cursor == IF pull.replay \/ mark[pull.kind] >= read[pull.kind] THEN mark[pull.kind] ELSE read[pull.kind]

MarkOK ==
    \A k \in Kind : ~overrun[k] =>
        \A v \in Serves(k) : v <= mark[k] =>
            Handled(k, v) \/ v \in gaps[k] \/ (k = "cache" /\ v \in givenUp)

\* What the page served is handled, still to come, under way, or has failed.
PageOK ==
    pull.phase = "admit" =>
        \A v \in Serves(pull.kind) : Cursor < v /\ v <= pull.next =>
            \/ Handled(pull.kind, v) \/ v \in pull.todo \/ v \in pull.bad
            \/ job[Pull].step # "idle" /\ job[Pull].v = v

FInv == FType /\ DInv /\ MarkOK /\ PageOK

FeedIs ==
    /\ Serves("tombstone") = 1..Len(tombs)
    /\ \A v : v \in Serves("cache") <=> v = Len(stamp) /\ life = "live"
    /\ \A k \in Kind : Serves(k) \subseteq 1..Top(k)
    /\ Top("tombstone") = Len(tombs) /\ Top("cache") = Len(stamp) /\ \A k \in Kind : Top(k) \in Nat

LEMMA ServesIs == OriginType => FeedIs
<1>. SUFFICES ASSUME OriginType PROVE FeedIs
  OBVIOUS
<1>1. Len(stamp) \in Nat /\ Len(tombs) \in Nat /\ DOMAIN tombs = 1..Len(tombs)
  BY DEF OriginType
<1>2. Serves("tombstone") = 1..Len(tombs)
  BY <1>1 DEF Serves
<1>3. \A v : v \in Serves("cache") <=> v = Len(stamp) /\ life = "live"
  BY DEF Serves, rev
<1>4. Top("tombstone") = Len(tombs) /\ Top("cache") = Len(stamp) /\ \A k \in Kind : Top(k) \in Nat
  BY <1>1 DEF Top, rev, Kind
<1>. QED
  BY <1>1, <1>2, <1>3, <1>4 DEF Kind, OriginType, FeedIs

LEMMA PullIn == Pull \in Carrier /\ \A c \in Pusher : c \in Carrier /\ c # Pull
BY FedAssumption DEF Carrier
-----------------------------------------------------------------------------
(* The origin's changes. *)

OriginAction == Edit \/ RemoveCache \/ RestoreCache \/ Retract \/ EmitTombstone \/ EmitLost

\* The sequences only grow, and a version served later is a new one.
Grows ==
    /\ Len(stamp') \in Nat /\ Len(stamp') >= Len(stamp)
    /\ Len(tombs') \in Nat /\ Len(tombs') >= Len(tombs)
    /\ \A s \in 1..Len(tombs) : tombs'[s] = tombs[s]
    /\ life' = "live" => (life = "live" /\ Len(stamp') = Len(stamp)) \/ Len(stamp') > Len(stamp)

LEMMA StampGrows ==
    ASSUME OriginType, NEW D \in SUBSET Nat, Update(D)
    PROVE  /\ stamp' \in Seq(Nat) /\ Len(stamp') = Len(stamp) + 1
           /\ \A i, j \in 1..Len(stamp') : i <= j => stamp'[i] <= stamp'[j]
<1>1. PICK d \in D : stamp' = Append(stamp, Last(stamp) + d)
  BY DEF Update
<1>2. Len(stamp) \in Nat /\ stamp \in Seq(Nat) /\ Len(stamp) \in 1..Len(stamp)
  BY DEF OriginType
<1>3. Last(stamp) = stamp[Len(stamp)] /\ stamp[Len(stamp)] \in Nat
  BY <1>2, ElementOfSeq DEF Last
<1>. DEFINE x == Last(stamp) + d
<1>4. x \in Nat /\ stamp[Len(stamp)] <= x
  BY <1>3
<1>. HIDE DEF x
<1>5. /\ stamp' \in Seq(Nat) /\ Len(stamp') = Len(stamp) + 1 /\ stamp'[Len(stamp) + 1] = x
      /\ \A i \in 1..Len(stamp) : stamp'[i] = stamp[i]
  BY <1>1, <1>2, <1>4, AppendProperties DEF x
<1>6. \A i \in 1..Len(stamp) : stamp[i] \in Nat /\ stamp[i] <= stamp[Len(stamp)]
  BY <1>2, ElementOfSeq DEF OriginType
<1>7. \A i \in 1..Len(stamp) : stamp[i] <= x
  BY <1>3, <1>4, <1>6
<1>8. ASSUME NEW i \in 1..Len(stamp'), NEW j \in 1..Len(stamp'), i <= j
      PROVE  stamp'[i] <= stamp'[j]
  <2>1. CASE j \in 1..Len(stamp)
    <3>1. i \in 1..Len(stamp)
      BY <1>2, <1>8, <2>1
    <3>. QED
      BY <1>5, <1>8, <2>1, <3>1 DEF OriginType
  <2>2. CASE j = Len(stamp) + 1 /\ i \in 1..Len(stamp)
    BY <1>5, <1>7, <2>2
  <2>3. CASE i = Len(stamp) + 1 /\ j = Len(stamp) + 1
    BY <1>4, <1>5, <2>3
  <2>. QED
    BY <1>2, <1>5, <1>8, <2>1, <2>2, <2>3
<1>. QED
  BY <1>5, <1>8

LEMMA TombsGrow ==
    ASSUME OriginType, NEW b \in Nat, tombs' = Append(tombs, b)
    PROVE  /\ tombs' \in Seq(Nat) /\ Len(tombs') = Len(tombs) + 1 /\ Len(tombs) \in Nat
           /\ \A s \in 1..Len(tombs) : tombs'[s] = tombs[s]
<1>1. tombs \in Seq(Nat) /\ Len(tombs) \in Nat
  BY DEF OriginType
<1>. QED
  BY <1>1, AppendProperties

LEMMA OriginGrows ==
    ASSUME OriginType, OriginAction
    PROVE  OriginType' /\ Grows /\ UNCHANGED <<mirror, job, pull, position>>
<1>0. Len(stamp) \in Nat /\ Len(tombs) \in Nat /\ Forever \in Nat /\ Len(stamp) >= 1
  BY FedAssumption DEF OriginType, Forever
<1>1. CASE Edit
  <2>1. Update({0, 1}) /\ {0, 1} \in SUBSET Nat /\ sent' = sent \cup {Len(stamp) + 1} /\ tombs' = tombs /\ UNCHANGED <<mirror, job, pull, position>>
    BY <1>1 DEF Edit, rev
  <2>2. /\ stamp' \in Seq(Nat) /\ Len(stamp') = Len(stamp) + 1
        /\ \A i, j \in 1..Len(stamp') : i <= j => stamp'[i] <= stamp'[j]
    BY <2>1, StampGrows
  <2>3. /\ tombs' \in Seq(Nat) /\ Len(tombs') \in Nat /\ Len(tombs') >= Len(tombs)
        /\ \A s \in 1..Len(tombs) : tombs'[s] = tombs[s]
    BY <1>0, <2>1 DEF OriginType
  <2>4. sent' \subseteq 1..Len(stamp')
    <3>1. Len(stamp) + 1 \in 1..Len(stamp') /\ \A i \in 1..Len(stamp) : i \in 1..Len(stamp')
      BY <1>0, <2>2
    <3>. QED
      BY <2>1, <3>1 DEF OriginType
  <2>. QED
    BY <1>0, <2>1, <2>2, <2>3, <2>4 DEF OriginType, Grows
<1>2. CASE RemoveCache
  <2>1. Update({1}) /\ {1} \in SUBSET Nat /\ sent' = sent /\ tombs' = Append(tombs, Len(stamp) + 1) /\ UNCHANGED <<mirror, job, pull, position>>
    BY <1>2 DEF RemoveCache, rev
  <2>2. /\ stamp' \in Seq(Nat) /\ Len(stamp') = Len(stamp) + 1
        /\ \A i, j \in 1..Len(stamp') : i <= j => stamp'[i] <= stamp'[j]
    BY <2>1, StampGrows
  <2>3. /\ tombs' \in Seq(Nat) /\ Len(tombs') \in Nat /\ Len(tombs') >= Len(tombs)
        /\ \A s \in 1..Len(tombs) : tombs'[s] = tombs[s]
    BY <1>0, <2>1, TombsGrow DEF OriginType
  <2>4. sent' \subseteq 1..Len(stamp')
    <3>1. Len(stamp) + 1 \in 1..Len(stamp') /\ \A i \in 1..Len(stamp) : i \in 1..Len(stamp')
      BY <1>0, <2>2
    <3>. QED
      BY <2>1, <3>1 DEF OriginType
  <2>. QED
    BY <1>0, <2>1, <2>2, <2>3, <2>4 DEF OriginType, Grows
<1>3. CASE RestoreCache
  <2>1. Update({1}) /\ {1} \in SUBSET Nat /\ sent' = sent \cup {Len(stamp) + 1} /\ tombs' = tombs /\ UNCHANGED <<mirror, job, pull, position>>
    BY <1>3 DEF RestoreCache, rev
  <2>2. /\ stamp' \in Seq(Nat) /\ Len(stamp') = Len(stamp) + 1
        /\ \A i, j \in 1..Len(stamp') : i <= j => stamp'[i] <= stamp'[j]
    BY <2>1, StampGrows
  <2>3. /\ tombs' \in Seq(Nat) /\ Len(tombs') \in Nat /\ Len(tombs') >= Len(tombs)
        /\ \A s \in 1..Len(tombs) : tombs'[s] = tombs[s]
    BY <1>0, <2>1 DEF OriginType
  <2>4. sent' \subseteq 1..Len(stamp')
    <3>1. Len(stamp) + 1 \in 1..Len(stamp') /\ \A i \in 1..Len(stamp) : i \in 1..Len(stamp')
      BY <1>0, <2>2
    <3>. QED
      BY <2>1, <3>1 DEF OriginType
  <2>. QED
    BY <1>0, <2>1, <2>2, <2>3, <2>4 DEF OriginType, Grows
<1>4. CASE Retract
  <2>1. Update({1}) /\ {1} \in SUBSET Nat /\ sent' = sent /\ tombs' = tombs /\ UNCHANGED <<mirror, job, pull, position>>
    BY <1>4 DEF Retract, rev
  <2>2. /\ stamp' \in Seq(Nat) /\ Len(stamp') = Len(stamp) + 1
        /\ \A i, j \in 1..Len(stamp') : i <= j => stamp'[i] <= stamp'[j]
    BY <2>1, StampGrows
  <2>3. /\ tombs' \in Seq(Nat) /\ Len(tombs') \in Nat /\ Len(tombs') >= Len(tombs)
        /\ \A s \in 1..Len(tombs) : tombs'[s] = tombs[s]
    BY <1>0, <2>1 DEF OriginType
  <2>4. sent' \subseteq 1..Len(stamp')
    <3>1. Len(stamp) + 1 \in 1..Len(stamp') /\ \A i \in 1..Len(stamp) : i \in 1..Len(stamp')
      BY <1>0, <2>2
    <3>. QED
      BY <2>1, <3>1 DEF OriginType
  <2>. QED
    BY <1>0, <2>1, <2>2, <2>3, <2>4 DEF OriginType, Grows
<1>5. CASE EmitTombstone
  BY <1>0, <1>5, TombsGrow DEF EmitTombstone, OriginType, Grows
<1>6. CASE EmitLost
  BY <1>0, <1>6 DEF EmitLost, OriginType, Grows
<1>. QED
  BY <1>1, <1>2, <1>3, <1>4, <1>5, <1>6 DEF OriginAction

LEMMA OriginKeeps == ASSUME FInv, OriginAction PROVE FInv'
<1>1. OriginType' /\ Grows /\ UNCHANGED <<mirror, job, pull, position>>
  BY OriginGrows DEF FInv, FType
<1>2. /\ Len(stamp) \in Nat /\ Len(tombs) \in Nat /\ Len(stamp') \in Nat /\ Len(tombs') \in Nat
      /\ Len(stamp) <= Len(stamp') /\ Len(tombs) <= Len(tombs')
      /\ UNCHANGED <<row, ver, tomb, noted, raced, job, pull, mark, read, gaps, givenUp, overrun>>
  BY <1>1 DEF Grows, FInv, FType, OriginType, mirror, position
<1>3. \A k \in Kind : Top(k) \in Nat /\ Top(k)' \in Nat /\ Top(k) <= Top(k)'
  BY <1>2 DEF Top, rev, Kind
<1>4. MirrorType'
  BY <1>2 DEF FInv, FType, MirrorType
<1>5. JobType'
  <2>1. ASSUME NEW c \in Carrier PROVE JobAt(job[c])'
    <3>1. job[c].kind \in Kind /\ job[c].v \in Nat /\ JobAt(job[c]) /\ job'[c] = job[c]
      BY <1>2 DEF FInv, FType, JobType
    <3>. QED
      BY <1>3, <3>1 DEF JobAt
  <2>. QED
    BY <1>2, <2>1 DEF FInv, FType, JobType
<1>6. PullType'
  <2>1. pull.kind \in Kind /\ pull.next \in Nat /\ PullType
    BY DEF FInv, FType, PullType
  <2>. QED
    BY <1>2, <1>3, <2>1 DEF PullType
<1>7. PlaceType'
  BY <1>2, <1>3 DEF FInv, FType, PlaceType
<1>8. DInv'
  <2>1. RowOK'
    BY <1>2 DEF FInv, DInv, RowOK
  <2>2. NotedOK'
    BY <1>1, <1>2 DEF FInv, FType, MirrorType, DInv, NotedOK, Grows
  <2>3. ASSUME NEW c \in Carrier PROVE JobOK(job[c])'
    <3>1. job[c].kind \in Kind /\ JobAt(job[c]) /\ job'[c] = job[c] /\ JobOK(job[c])
      BY <1>2 DEF FInv, FType, JobType, DInv
    <3>2. job[c].kind = "tombstone" /\ job[c].step # "idle" => tombs'[job[c].v] = tombs[job[c].v]
      BY <1>1, <3>1 DEF JobAt, Top, Grows
    <3>. QED
      BY <1>2, <3>1, <3>2 DEF JobOK
  <2>. QED
    BY <2>1, <2>2, <2>3 DEF DInv
<1>a. FeedIs /\ FeedIs'
  <2>1. (OriginType => FeedIs)'
    BY ServesIs, PTL
  <2>. QED
    BY <1>1, <2>1, ServesIs DEF FInv, FType
<1>9. ASSUME NEW k \in Kind, NEW v \in Serves(k)', v <= Top(k)
      PROVE  v \in Serves(k)
  <2>1. CASE k = "tombstone"
    BY <1>2, <1>9, <1>a, <2>1 DEF FeedIs
  <2>2. CASE k = "cache"
    <3>1. v = Len(stamp') /\ life' = "live"
      BY <1>9, <1>a, <2>2 DEF FeedIs
    <3>2. Len(stamp') = Len(stamp) /\ life = "live"
      BY <1>1, <1>2, <1>9, <2>2, <3>1 DEF Top, rev, Grows
    <3>. QED
      BY <1>a, <2>2, <3>1, <3>2 DEF FeedIs
  <2>. QED
    BY <2>1, <2>2 DEF Kind
<1>10. \A k, v : Handled(k, v)' = Handled(k, v)
  BY <1>2 DEF Handled
<1>11. MarkOK'
  <2>. SUFFICES ASSUME NEW k \in Kind, ~overrun'[k], NEW v \in Serves(k)', v <= mark'[k]
                PROVE  Handled(k, v)' \/ v \in gaps'[k] \/ (k = "cache" /\ v \in givenUp')
    BY DEF MarkOK
  <2>1. v \in Nat
    <3>1. v \in 1..Top(k)'
      BY <1>a DEF FeedIs
    <3>. QED
      BY <1>3, <3>1
  <2>2. mark[k] \in Nat /\ mark[k] <= Top(k)
    BY DEF FInv, FType, PlaceType
  <2>3. v \in Serves(k)
    BY <1>2, <1>3, <1>9, <2>1, <2>2
  <2>. QED
    BY <1>2, <1>10, <2>3 DEF FInv, MarkOK
<1>12. PageOK'
  <2>. SUFFICES ASSUME pull'.phase = "admit", NEW v \in Serves(pull.kind)', Cursor' < v, v <= pull'.next
                PROVE  \/ Handled(pull.kind, v)' \/ v \in pull'.todo \/ v \in pull'.bad
                       \/ job'[Pull].step # "idle" /\ job'[Pull].v = v
    BY DEF PageOK
  <2>. DEFINE k == pull.kind
  <2>1. k \in Kind /\ pull.next \in Nat /\ pull.next <= Top(k) /\ pull' = pull
    BY <1>2 DEF FInv, FType, PullType
  <2>2. v \in Nat
    <3>1. v \in 1..Top(k)'
      BY <1>a, <2>1 DEF FeedIs
    <3>. QED
      BY <1>3, <2>1, <3>1
  <2>3. v \in Serves(k)
    BY <1>3, <1>9, <2>1, <2>2
  <2>4. Cursor' = Cursor
    BY <1>2 DEF Cursor
  <2>. QED
    BY <1>2, <1>10, <2>1, <2>3, <2>4 DEF FInv, PageOK
<1>. QED
  BY <1>1, <1>4, <1>5, <1>6, <1>7, <1>8, <1>11, <1>12 DEF FInv, FType
-----------------------------------------------------------------------------
(* Admissions. *)

\* The admission of c moves on, or its frame has settled.
AdmitStep(c) ==
    /\ UNCHANGED Admitting /\ job[c].step # "idle"
    /\ job' \in [Carrier -> [kind : Kind, v : Nat, step : Step]]
    /\ \A d \in Carrier \ {c} : job'[d] = job[d]
    /\ noted \subseteq noted' /\ ver <= ver' /\ tomb <= tomb'
    /\ \/ /\ job'[c].kind = job[c].kind /\ job'[c].v = job[c].v /\ job'[c].step # "idle"
          /\ JobAt(job'[c]) /\ gaps' = gaps
       \/ /\ job'[c] = NoJob /\ Handled(job[c].kind, job[c].v)
          /\ gaps' = IF c = Pull THEN [gaps EXCEPT ![job[c].kind] = @ \ {job[c].v}] ELSE gaps

LEMMA ToIs ==
    ASSUME JobType, NEW c \in Carrier, NEW x \in Step, To(c, x)
    PROVE  /\ job' \in [Carrier -> [kind : Kind, v : Nat, step : Step]]
           /\ \A d \in Carrier \ {c} : job'[d] = job[d]
           /\ job'[c].kind = job[c].kind /\ job'[c].v = job[c].v /\ job'[c].step = x /\ gaps' = gaps
<1>1. job' = [job EXCEPT ![c] = [job[c] EXCEPT !.step = x]] /\ gaps' = gaps
  BY DEF To
<1>2. job \in [Carrier -> [kind : Kind, v : Nat, step : Step]]
  BY DEF JobType
<1>3. job[c] \in [kind : Kind, v : Nat, step : Step]
  BY <1>2
<1>. DEFINE j == [job[c] EXCEPT !.step = x]
<1>4. j \in [kind : Kind, v : Nat, step : Step] /\ j.kind = job[c].kind /\ j.v = job[c].v /\ j.step = x
  BY <1>3
<1>. HIDE DEF j
<1>5. job' = [job EXCEPT ![c] = j]
  BY <1>1 DEF j
<1>. QED
  BY <1>1, <1>2, <1>4, <1>5

LEMMA SettleIs ==
    ASSUME JobType, NEW c \in Carrier, Settle(c)
    PROVE  /\ job' \in [Carrier -> [kind : Kind, v : Nat, step : Step]]
           /\ \A d \in Carrier \ {c} : job'[d] = job[d]
           /\ job'[c] = NoJob /\ NoJob.step = "idle"
           /\ gaps' = IF c = Pull THEN [gaps EXCEPT ![job[c].kind] = @ \ {job[c].v}] ELSE gaps
<1>1. NoJob \in [kind : Kind, v : Nat, step : Step] /\ NoJob.step = "idle"
  BY DEF NoJob, Kind, Step
<1>. QED
  BY <1>1 DEF Settle, JobType

\* What the type invariant says of the admission under way.
LEMMA JobIs ==
    ASSUME FType, NEW c \in Carrier, job[c].step # "idle"
    PROVE  /\ job[c].kind \in Kind /\ job[c].v \in Nat /\ job[c].v >= 1 /\ JobAt(job[c])
           /\ Len(stamp) \in Nat /\ Len(tombs) \in Nat /\ ver \in Nat /\ tomb \in Nat /\ row \in Nat
           /\ job[c].kind = "tombstone" => job[c].v \in 1..Len(tombs) /\ tombs[job[c].v] \in Nat
           /\ job[c].kind = "cache" => job[c].v \in 1..Len(stamp) /\ stamp[job[c].v] \in Nat
<1>1. job[c] \in [kind : Kind, v : Nat, step : Step] /\ JobAt(job[c])
  BY DEF FType, JobType
<1>2. Len(stamp) \in Nat /\ Len(tombs) \in Nat /\ stamp \in Seq(Nat) /\ tombs \in Seq(Nat)
  BY DEF FType, OriginType
<1>3. ver \in Nat /\ tomb \in Nat /\ row \in Nat
  BY <1>2 DEF FType, MirrorType
<1>4. job[c].v \in 1..Top(job[c].kind) /\ Top(job[c].kind) \in Nat
  BY <1>1, <1>2 DEF JobAt, Top, rev, Kind
<1>5. job[c].v \in Nat /\ job[c].v >= 1 /\ job[c].kind \in Kind
  BY <1>1, <1>4
<1>6. job[c].kind = "tombstone" => job[c].v \in 1..Len(tombs) /\ tombs[job[c].v] \in Nat
  BY <1>2, <1>4, ElementOfSeq DEF Top
<1>7. job[c].kind = "cache" => job[c].v \in 1..Len(stamp) /\ stamp[job[c].v] \in Nat
  BY <1>2, <1>4, ElementOfSeq DEF Top, rev
<1>. QED
  BY <1>1, <1>2, <1>3, <1>5, <1>6, <1>7

\* The admissions of the other carriers, when the mirror has not changed.
LEMMA OthersKeep ==
    ASSUME DInv, NEW c \in Carrier, UNCHANGED mirror, UNCHANGED Admitting,
           \A d \in Carrier \ {c} : job'[d] = job[d], JobOK(job[c])'
    PROVE  DInv'
<1>1. UNCHANGED <<row, ver, tomb, noted, raced, tombs>>
  BY DEF mirror, Admitting, origin
<1>2. RowOK' /\ NotedOK'
  BY <1>1 DEF DInv, RowOK, NotedOK
<1>3. ASSUME NEW d \in Carrier PROVE JobOK(job[d])'
  <2>1. CASE d # c
    <3>1. job'[d] = job[d] /\ JobOK(job[d])
      BY <2>1 DEF DInv
    <3>. QED
      BY <1>1, <3>1 DEF JobOK
  <2>. QED
    BY <2>1
<1>. QED
  BY <1>2, <1>3 DEF DInv

LEMMA VersionKeeps ==
    ASSUME FInv, NEW c \in Carrier, Version(c)
    PROVE  AdmitStep(c) /\ MirrorType' /\ DInv'
<1>. DEFINE k == job[c].kind
            v == job[c].v
<1>0. FType /\ DInv /\ JobType /\ JobOK(job[c]) /\ job[c].step = "version"
  BY DEF FInv, FType, DInv, Version
<1>1. /\ k \in Kind /\ v \in Nat /\ ver \in Nat /\ tomb \in Nat /\ JobAt(job[c])
      /\ k = "tombstone" => tombs[v] \in Nat
  BY <1>0, JobIs
<1>2. UNCHANGED mirror /\ UNCHANGED Admitting /\ UNCHANGED <<row, ver, tomb, noted, raced, tombs, stamp>>
  BY DEF Version, mirror, Admitting, origin
<1>3. MirrorType'
  BY <1>0, <1>2 DEF FType, MirrorType
<1>4. CASE k = "cache" /\ v < ver /\ Settle(c)
  <2>1. AdmitStep(c)
    BY <1>0, <1>1, <1>2, <1>4, SettleIs DEF AdmitStep, Handled
  <2>2. JobOK(job[c])'
    <3>1. job'[c].step = "idle" /\ \A d \in Carrier \ {c} : job'[d] = job[d]
      BY <1>0, <1>4, SettleIs
    <3>. QED
      BY <3>1 DEF JobOK
  <2>. QED
    BY <1>0, <1>2, <1>3, <2>1, <2>2, OthersKeep DEF AdmitStep
<1>5. ASSUME NEW x \in Step, To(c, x), x \in {"keep", "apply", "purge", "held"},
             x = "keep" => IF k = "cache" THEN v = ver ELSE v \in noted,
             x = "apply" => k = "cache", x \in {"purge", "held"} => k = "tombstone"
      PROVE  AdmitStep(c) /\ DInv'
  <2>1. /\ job' \in [Carrier -> [kind : Kind, v : Nat, step : Step]]
        /\ \A d \in Carrier \ {c} : job'[d] = job[d]
        /\ job'[c].kind = k /\ job'[c].v = v /\ job'[c].step = x /\ gaps' = gaps
    BY <1>0, <1>5, ToIs
  <2>2. JobAt(job'[c])
    BY <1>0, <1>1, <1>5, <2>1 DEF JobAt
  <2>3. AdmitStep(c)
    BY <1>0, <1>1, <1>2, <1>5, <2>1, <2>2 DEF AdmitStep
  <2>4. JobOK(job[c])'
    BY <1>0, <1>1, <1>2, <1>5, <2>1 DEF JobOK, Kind
  <2>. QED
    BY <1>0, <1>2, <2>1, <2>3, <2>4, OthersKeep
<1>6. CASE k = "cache"
  <2>0. k # "tombstone"
    BY <1>6
  <2>1. CASE v < ver
    <3>1. ~(v = ver) /\ ~(v > ver)
      BY <1>1, <2>1
    <3>2. Settle(c)
      BY <1>6, <2>0, <2>1, <3>1, Zenon DEF Version
    <3>. QED
      BY <1>3, <1>4, <1>6, <2>1, <3>2
  <2>2. CASE v = ver
    <3>0. ~(v < ver) /\ ~(v > ver)
      BY <1>1, <2>2
    <3>1. To(c, "keep")
      BY <1>6, <2>0, <2>2, <3>0, Zenon DEF Version
    <3>. QED
      BY <1>3, <1>5, <1>6, <2>2, <3>1 DEF Step
  <2>3. CASE v > ver
    <3>0. ~(v < ver) /\ ~(v = ver)
      BY <1>1, <2>3
    <3>1. To(c, "apply")
      BY <1>6, <2>0, <2>3, <3>0, Zenon DEF Version
    <3>. QED
      BY <1>3, <1>5, <1>6, <3>1 DEF Step
  <2>. QED
    BY <1>1, <2>1, <2>2, <2>3
<1>7. CASE k = "tombstone"
  <2>. DEFINE x == IF v \in noted THEN "keep" ELSE IF tombs[v] = Forever THEN "purge" ELSE "held"
  <2>1. To(c, x)
    BY <1>7 DEF Version
  <2>2. x \in Step /\ x \in {"keep", "purge", "held"} /\ (x = "keep" => v \in noted)
    BY DEF Step
  <2>. HIDE DEF x
  <2>. QED
    BY <1>3, <1>5, <1>7, <2>1, <2>2
<1>. QED
  BY <1>1, <1>6, <1>7 DEF Kind

LEMMA UpsertKeeps ==
    ASSUME FInv, NEW c \in Carrier, UpsertRemoteCache(c)
    PROVE  AdmitStep(c) /\ MirrorType' /\ DInv'
<1>. DEFINE v == job[c].v
<1>0. FType /\ DInv /\ JobType /\ JobOK(job[c]) /\ job[c].step = "apply"
  BY DEF FInv, FType, DInv, UpsertRemoteCache
<1>1. /\ v \in 1..Len(stamp) /\ v \in Nat /\ v >= 1 /\ ver \in Nat /\ tomb \in Nat /\ row \in Nat /\ Len(stamp) \in Nat
      /\ job[c].kind = "cache" /\ JobAt(job[c])
  BY <1>0, JobIs DEF JobAt
<1>2. UNCHANGED Admitting /\ UNCHANGED <<ver, tomb, noted, tombs, stamp>> /\ To(c, "note")
  BY DEF UpsertRemoteCache, Admitting, origin
<1>3. /\ job' \in [Carrier -> [kind : Kind, v : Nat, step : Step]]
      /\ \A d \in Carrier \ {c} : job'[d] = job[d]
      /\ job'[c].kind = "cache" /\ job'[c].v = v /\ job'[c].step = "note" /\ gaps' = gaps
  BY <1>0, <1>1, <1>2, ToIs DEF Step
<1>4. AdmitStep(c)
  BY <1>0, <1>1, <1>2, <1>3 DEF AdmitStep, JobAt
<1>5. /\ row' = IF row = 0 \/ stamp[v] >= stamp[row] THEN v ELSE row
      /\ raced' = (raced \/ ver \in SameSecond(v) \/ Beside(c, {"note"}, SameSecond(v)))
  BY DEF UpsertRemoteCache
<1>6. row \in 0..Len(stamp) /\ ver \in 0..Len(stamp) /\ row' \in 0..Len(stamp) /\ raced \in BOOLEAN
  BY <1>0, <1>1, <1>5 DEF FType, MirrorType
<1>7. MirrorType'
  BY <1>0, <1>2, <1>5, <1>6 DEF FType, MirrorType
<1>8. DInv'
  <2>1. CASE raced'
    <3>1. RowOK' /\ NotedOK'
      BY <1>0, <1>2, <2>1 DEF DInv, RowOK, NotedOK
    <3>2. ASSUME NEW d \in Carrier PROVE JobOK(job[d])'
      <4>1. CASE d = c
        BY <1>3, <2>1, <4>1 DEF JobOK
      <4>2. CASE d # c
        <5>1. job'[d] = job[d] /\ JobOK(job[d])
          BY <1>0, <1>3, <4>2 DEF DInv
        <5>. QED
          BY <1>2, <2>1, <5>1 DEF JobOK
      <4>. QED
        BY <4>1, <4>2
    <3>. QED
      BY <3>1, <3>2 DEF DInv
  <2>2. CASE ~raced'
    <3>1. ~raced /\ ver \notin SameSecond(v) /\ ~Beside(c, {"note"}, SameSecond(v))
      BY <1>5, <2>2
    <3>2. v > tomb
      BY <1>0, <1>1, <3>1 DEF JobOK
    <3>3. \A i, j \in 1..Len(stamp) : stamp[i] \in Nat /\ (i <= j => stamp[i] <= stamp[j])
      BY <1>0, ElementOfSeq DEF FType, OriginType
    \* A version between v and the copy that gives way to it is of the same second.
    <3>4. ASSUME NEW w \in 1..Len(stamp), v < w, w <= row, row' = v PROVE w \in SameSecond(v)
      <4>1. row \in 1..Len(stamp) /\ row # 0
        BY <1>1, <1>6, <3>4
      <4>2. stamp[v] >= stamp[row] \/ row = v
        BY <1>5, <3>4, <4>1
      <4>3. row # v
        BY <1>1, <3>4
      <4>4. stamp[v] <= stamp[w] /\ stamp[w] <= stamp[row]
        BY <1>1, <3>3, <3>4, <4>1
      <4>5. stamp[v] \in Nat /\ stamp[w] \in Nat /\ stamp[row] \in Nat
        BY <1>1, <3>3, <4>1
      <4>6. stamp[w] = stamp[v]
        BY <4>2, <4>3, <4>4, <4>5
      <4>7. w \in v + 1 .. Len(stamp)
        BY <1>1, <3>4
      <4>. QED
        BY <4>6, <4>7 DEF SameSecond, rev
    <3>5. row' >= v /\ row' # 0 /\ row' \in Nat /\ (row' = v \/ (row' = row /\ row # 0))
      <4>1. CASE row' = v
        BY <1>1, <4>1
      <4>2. CASE row' # v
        <5>1. row' = row /\ row # 0 /\ ~(stamp[v] >= stamp[row])
          BY <1>5, <4>2
        <5>2. row \in 1..Len(stamp)
          BY <1>1, <1>6, <5>1
        <5>3. ~(row <= v)
          BY <1>1, <3>3, <5>1, <5>2
        <5>. QED
          BY <1>1, <5>1, <5>3
      <4>. QED
        BY <4>1, <4>2
    <3>6. row' >= ver
      <4>1. CASE row = 0
        BY <1>0, <1>1, <3>1, <3>2, <3>5, <4>1 DEF DInv, RowOK
      <4>2. CASE row # 0 /\ row' = v
        <5>1. row >= ver
          BY <1>0, <3>1, <4>2 DEF DInv, RowOK
        <5>2. v < ver => ver \in 1..Len(stamp)
          BY <1>1, <1>6
        <5>. QED
          BY <1>1, <3>1, <3>4, <4>2, <5>1, <5>2
      <4>3. CASE row # 0 /\ row' = row
        BY <1>0, <3>1, <4>3 DEF DInv, RowOK
      <4>. QED
        BY <3>5, <4>1, <4>2, <4>3
    <3>7. RowOK' /\ NotedOK'
      <4>1. row' > tomb
        BY <1>1, <3>2, <3>5
      <4>. QED
        BY <1>0, <1>2, <3>5, <3>6, <4>1 DEF DInv, RowOK, NotedOK
    <3>8. ASSUME NEW d \in Carrier PROVE JobOK(job[d])'
      <4>1. CASE d = c
        BY <1>3, <3>5, <4>1 DEF JobOK
      <4>2. CASE d # c
        <5>1. job'[d] = job[d] /\ JobOK(job[d])
          BY <1>0, <1>3, <4>2 DEF DInv
        <5>2. ASSUME job[d].kind = "cache", job[d].step = "note" PROVE row' >= job[d].v
          <6>. DEFINE w == job[d].v
          <6>1. w \in 1..Len(stamp) /\ w \in Nat
            BY <1>0, <5>2, JobIs
          <6>2. CASE row = 0
            <7>1. w <= tomb
              BY <3>1, <5>1, <5>2, <6>2 DEF JobOK
            <7>. QED
              BY <1>1, <3>2, <3>5, <6>1, <7>1
          <6>3. CASE row # 0
            <7>1. row >= w
              BY <3>1, <5>1, <5>2, <6>3 DEF JobOK
            <7>2. w \notin SameSecond(v)
              BY <3>1, <4>2, <5>2 DEF Beside
            <7>. HIDE DEF w
            <7>3. ~(row' = v /\ v < w)
              BY <1>1, <3>4, <6>1, <7>1, <7>2
            <7>4. row' >= w
              BY <1>1, <3>5, <6>1, <7>1, <7>3
            <7>. QED
              BY <7>4 DEF w
          <6>. QED
            BY <6>2, <6>3
        <5>. QED
          BY <1>2, <3>1, <3>5, <5>1, <5>2 DEF JobOK
      <4>. QED
        BY <4>1, <4>2
    <3>. QED
      BY <3>7, <3>8 DEF DInv
  <2>. QED
    BY <2>1, <2>2
<1>. QED
  BY <1>4, <1>7, <1>8

LEMMA ReadHeldKeeps ==
    ASSUME FInv, NEW c \in Carrier, ReadHeld(c)
    PROVE  AdmitStep(c) /\ MirrorType' /\ DInv'
<1>. DEFINE v == job[c].v
            x == IF ver > tombs[v] THEN "record" ELSE "purge"
<1>0. FType /\ DInv /\ JobType /\ JobOK(job[c]) /\ job[c].step = "held"
  BY DEF FInv, FType, DInv, ReadHeld
<1>1. ver \in Nat /\ tomb \in Nat /\ tombs[v] \in Nat /\ JobAt(job[c]) /\ job[c].kind = "tombstone"
  BY <1>0, JobIs DEF JobAt
<1>2. /\ UNCHANGED mirror /\ UNCHANGED Admitting /\ UNCHANGED <<row, ver, tomb, noted, raced, tombs, stamp>>
      /\ To(c, x) /\ x \in Step
  BY DEF ReadHeld, mirror, Admitting, origin, Step
<1>3. MirrorType'
  BY <1>0, <1>2 DEF FType, MirrorType
<1>4. /\ job' \in [Carrier -> [kind : Kind, v : Nat, step : Step]]
      /\ \A d \in Carrier \ {c} : job'[d] = job[d]
      /\ job'[c].kind = job[c].kind /\ job'[c].v = v /\ job'[c].step = x /\ gaps' = gaps
  <2>. HIDE DEF x
  <2>. QED
    BY <1>0, <1>2, ToIs
<1>5. AdmitStep(c)
  BY <1>0, <1>1, <1>2, <1>4 DEF AdmitStep, JobAt
<1>6. JobOK(job[c])'
  BY <1>1, <1>2, <1>4 DEF JobOK
<1>. QED
  BY <1>0, <1>2, <1>3, <1>4, <1>5, <1>6, OthersKeep

LEMMA KeepKeeps ==
    ASSUME FInv, NEW c \in Carrier, Keep(c)
    PROVE  AdmitStep(c) /\ MirrorType' /\ DInv'
<1>0. FType /\ DInv /\ JobType /\ JobOK(job[c]) /\ job[c].step = "keep"
  BY DEF FInv, FType, DInv, Keep
<1>1. ver \in Nat /\ tomb \in Nat /\ job[c].kind \in Kind
  BY <1>0, JobIs
<1>2. UNCHANGED mirror /\ UNCHANGED Admitting /\ UNCHANGED <<row, ver, tomb, noted, raced, tombs, stamp>> /\ Settle(c)
  BY DEF Keep, mirror, Admitting, origin
<1>3. MirrorType'
  BY <1>0, <1>2 DEF FType, MirrorType
<1>4. Handled(job[c].kind, job[c].v)
  BY <1>0, <1>1 DEF Handled, JobOK, Kind
<1>5. AdmitStep(c)
  BY <1>0, <1>1, <1>2, <1>4, SettleIs DEF AdmitStep
<1>6. JobOK(job[c])' /\ \A d \in Carrier \ {c} : job'[d] = job[d]
  <2>1. job'[c].step = "idle" /\ \A d \in Carrier \ {c} : job'[d] = job[d]
    BY <1>0, <1>2, SettleIs
  <2>. QED
    BY <2>1 DEF JobOK
<1>. QED
  BY <1>0, <1>2, <1>3, <1>5, <1>6, OthersKeep

LEMMA WidestIs ==
    ASSUME NEW s, tomb \in Nat, tombs[s] \in Nat
    PROVE  Widest(s) \in Nat /\ Widest(s) >= tomb /\ Widest(s) >= tombs[s] /\ Widest(s) \in {tomb, tombs[s]}
BY MaxTwo DEF Widest

LEMMA RecordKeeps ==
    ASSUME FInv, NEW c \in Carrier, Record(c)
    PROVE  AdmitStep(c) /\ MirrorType' /\ DInv'
<1>. DEFINE v == job[c].v
            b == tombs[v]
<1>0. FType /\ DInv /\ JobType /\ JobOK(job[c]) /\ job[c].step = "record"
  BY DEF FInv, FType, DInv, Record
<1>1. ver \in Nat /\ tomb \in Nat /\ row \in Nat /\ b \in Nat /\ JobAt(job[c]) /\ job[c].kind = "tombstone"
  BY <1>0, JobIs DEF JobAt
<1>2. UNCHANGED Admitting /\ UNCHANGED <<row, ver, noted, tombs, stamp>> /\ To(c, "note") /\ tomb' = Widest(v)
  BY DEF Record, Admitting, origin
<1>3. tomb' \in Nat /\ tomb' >= tomb /\ tomb' >= b /\ tomb' \in {tomb, b}
  BY <1>1, <1>2, WidestIs
<1>4. /\ job' \in [Carrier -> [kind : Kind, v : Nat, step : Step]]
      /\ \A d \in Carrier \ {c} : job'[d] = job[d]
      /\ job'[c].kind = "tombstone" /\ job'[c].v = v /\ job'[c].step = "note" /\ gaps' = gaps
  BY <1>0, <1>1, <1>2, ToIs DEF Step
<1>5. AdmitStep(c)
  BY <1>0, <1>1, <1>2, <1>3, <1>4 DEF AdmitStep, JobAt
<1>6. raced \in BOOLEAN /\ raced' = (raced \/ Beside(c, {"version", "apply"}, 1 .. b))
  BY <1>0 DEF FType, MirrorType, Record
<1>7. MirrorType'
  BY <1>0, <1>2, <1>3, <1>6 DEF FType, MirrorType
<1>8. ver > b
  BY <1>0, <1>1 DEF JobOK
<1>9. RowOK'
  BY <1>0, <1>1, <1>2, <1>3, <1>6, <1>8 DEF DInv, RowOK
<1>10. NotedOK'
  <2>. SUFFICES ASSUME NEW s \in noted PROVE tombs[s] <= tomb'
    BY <1>2 DEF NotedOK
  <2>1. tombs[s] \in Nat /\ tombs[s] <= tomb
    BY <1>0, ElementOfSeq DEF FType, OriginType, MirrorType, DInv, NotedOK
  <2>. QED
    BY <1>1, <1>3, <2>1
<1>11. ASSUME NEW d \in Carrier PROVE JobOK(job[d])'
  <2>1. CASE d = c
    BY <1>2, <1>3, <1>4, <2>1 DEF JobOK
  <2>2. CASE d # c
    <3>. DEFINE w == job[d].v
    <3>1. job'[d] = job[d] /\ JobOK(job[d])
      BY <1>0, <1>4, <2>2 DEF DInv
    <3>2. job[d].step # "idle" =>
             w \in Nat /\ w >= 1 /\ (job[d].kind = "tombstone" => tombs[w] \in Nat)
      BY <1>0, JobIs
    <3>3. job[d].kind = "cache" /\ job[d].step \in {"version", "apply"} /\ ~raced' => ~(w \in 1..b)
      BY <1>6, <2>2 DEF Beside
    <3>4. job[d].kind = "cache" /\ job[d].step \in {"version", "apply"} => raced' \/ w > tomb'
      BY <1>1, <1>3, <1>6, <3>1, <3>2, <3>3 DEF JobOK
    <3>5. job[d].kind = "cache" /\ job[d].step = "note" => raced' \/ IF row = 0 THEN w <= tomb' ELSE row >= w
      BY <1>1, <1>3, <1>6, <3>1, <3>2 DEF JobOK
    <3>6. job[d].kind = "tombstone" /\ job[d].step = "note" => tombs[w] <= tomb'
      BY <1>1, <1>3, <3>1, <3>2 DEF JobOK
    <3>. QED
      BY <1>2, <3>1, <3>4, <3>5, <3>6 DEF JobOK
  <2>. QED
    BY <2>1, <2>2
<1>. QED
  BY <1>5, <1>7, <1>9, <1>10, <1>11 DEF DInv

LEMMA PurgeKeeps ==
    ASSUME FInv, NEW c \in Carrier, Purge(c)
    PROVE  AdmitStep(c) /\ MirrorType' /\ DInv'
<1>. DEFINE v == job[c].v
            b == tombs[v]
<1>0. FType /\ DInv /\ JobType /\ JobOK(job[c]) /\ job[c].step = "purge"
  BY DEF FInv, FType, DInv, Purge
<1>1. /\ ver \in Nat /\ tomb \in Nat /\ row \in Nat /\ b \in Nat /\ Len(stamp) \in Nat
      /\ JobAt(job[c]) /\ job[c].kind = "tombstone"
  BY <1>0, JobIs DEF JobAt
<1>2. /\ UNCHANGED Admitting /\ UNCHANGED <<ver, noted, tombs, stamp>> /\ To(c, "note")
      /\ tomb' = Widest(v) /\ row' = 0
  BY DEF Purge, Admitting, origin
<1>3. tomb' \in Nat /\ tomb' >= tomb /\ tomb' >= b /\ tomb' \in {tomb, b}
  BY <1>1, <1>2, WidestIs
<1>4. /\ job' \in [Carrier -> [kind : Kind, v : Nat, step : Step]]
      /\ \A d \in Carrier \ {c} : job'[d] = job[d]
      /\ job'[c].kind = "tombstone" /\ job'[c].v = v /\ job'[c].step = "note" /\ gaps' = gaps
  BY <1>0, <1>1, <1>2, ToIs DEF Step
<1>5. AdmitStep(c)
  BY <1>0, <1>1, <1>2, <1>3, <1>4 DEF AdmitStep, JobAt
<1>6. /\ raced \in BOOLEAN
      /\ raced' = (raced \/ ver > b \/ Beside(c, {"version", "apply"}, 1 .. b)
                         \/ Beside(c, {"note"}, b + 1 .. Len(stamp)))
  BY <1>0 DEF FType, MirrorType, Purge, rev
<1>7. MirrorType'
  BY <1>0, <1>1, <1>2, <1>3, <1>6 DEF FType, MirrorType
<1>8. RowOK'
  <2>1. CASE ver > b
    BY <1>6, <2>1 DEF RowOK
  <2>2. CASE ~(ver > b)
    <3>1. ver' <= tomb'
      BY <1>1, <1>2, <1>3, <2>2
    <3>. QED
      BY <1>2, <3>1 DEF RowOK
  <2>. QED
    BY <2>1, <2>2
<1>9. NotedOK'
  <2>. SUFFICES ASSUME NEW s \in noted PROVE tombs[s] <= tomb'
    BY <1>2 DEF NotedOK
  <2>1. tombs[s] \in Nat /\ tombs[s] <= tomb
    BY <1>0, ElementOfSeq DEF FType, OriginType, MirrorType, DInv, NotedOK
  <2>. QED
    BY <1>1, <1>3, <2>1
<1>10. ASSUME NEW d \in Carrier PROVE JobOK(job[d])'
  <2>1. CASE d = c
    BY <1>2, <1>3, <1>4, <2>1 DEF JobOK
  <2>2. CASE d # c
    <3>. DEFINE w == job[d].v
    <3>1. job'[d] = job[d] /\ JobOK(job[d])
      BY <1>0, <1>4, <2>2 DEF DInv
    <3>2. job[d].step # "idle" =>
             /\ w \in Nat /\ w >= 1 /\ (job[d].kind = "tombstone" => tombs[w] \in Nat)
             /\ (job[d].kind = "cache" => w \in 1..Len(stamp))
      BY <1>0, JobIs
    <3>3. job[d].kind = "cache" /\ job[d].step \in {"version", "apply"} /\ ~raced' => ~(w \in 1..b)
      BY <1>6, <2>2 DEF Beside
    <3>4. job[d].kind = "cache" /\ job[d].step \in {"version", "apply"} => raced' \/ w > tomb'
      BY <1>1, <1>3, <1>6, <3>1, <3>2, <3>3 DEF JobOK
    <3>a. job[d].kind = "cache" /\ job[d].step = "note" /\ ~raced' => ~(w \in b + 1 .. Len(stamp))
      BY <1>6, <2>2 DEF Beside
    <3>5. job[d].kind = "cache" /\ job[d].step = "note" => raced' \/ w <= tomb'
      BY <1>1, <1>3, <3>2, <3>a
    <3>6. job[d].kind = "tombstone" /\ job[d].step = "note" => tombs[w] <= tomb'
      BY <1>1, <1>3, <3>1, <3>2 DEF JobOK
    <3>. QED
      BY <1>2, <3>1, <3>4, <3>5, <3>6 DEF JobOK
  <2>. QED
    BY <2>1, <2>2
<1>. QED
  BY <1>5, <1>7, <1>8, <1>9, <1>10 DEF DInv

LEMMA NoteKeeps ==
    ASSUME FInv, NEW c \in Carrier, NoteVersion(c)
    PROVE  AdmitStep(c) /\ MirrorType' /\ DInv'
<1>. DEFINE v == job[c].v
<1>0. FType /\ DInv /\ JobType /\ JobOK(job[c]) /\ job[c].step = "note" /\ MirrorType
  BY DEF FInv, FType, DInv, NoteVersion
<1>1. /\ ver \in Nat /\ tomb \in Nat /\ row \in Nat /\ v \in Nat /\ JobAt(job[c]) /\ job[c].kind \in Kind
      /\ job[c].kind = "tombstone" => v \in 1..Len(tombs) /\ tombs[v] \in Nat
      /\ job[c].kind = "cache" => v \in 1..Len(stamp)
  BY <1>0, JobIs
<1>2. UNCHANGED Admitting /\ UNCHANGED <<row, tomb, raced, tombs, stamp>> /\ To(c, "keep")
  BY DEF NoteVersion, Admitting, origin
<1>3. /\ job[c].kind = "cache" => ver' = Max({ver, v}) /\ noted' = noted
      /\ job[c].kind = "tombstone" => noted' = noted \cup {v} /\ ver' = ver
  BY DEF NoteVersion
<1>4. /\ job[c].kind = "cache" => ver' \in {ver, v} /\ ver' >= ver /\ ver' >= v
      /\ ver' \in Nat /\ ver' >= ver /\ noted \subseteq noted'
  <2>1. CASE job[c].kind = "cache"
    <3>1. ver' = IF ver >= v THEN ver ELSE v
      BY <1>1, <1>3, <2>1, MaxTwo
    <3>. QED
      BY <1>1, <1>3, <2>1, <3>1
  <2>2. CASE job[c].kind = "tombstone"
    BY <1>1, <1>3, <2>2
  <2>. QED
    BY <1>1, <2>1, <2>2 DEF Kind
<1>5. /\ job' \in [Carrier -> [kind : Kind, v : Nat, step : Step]]
      /\ \A d \in Carrier \ {c} : job'[d] = job[d]
      /\ job'[c].kind = job[c].kind /\ job'[c].v = v /\ job'[c].step = "keep" /\ gaps' = gaps
  BY <1>0, <1>2, ToIs DEF Step
<1>6. AdmitStep(c)
  BY <1>0, <1>1, <1>2, <1>4, <1>5 DEF AdmitStep, JobAt
<1>7. MirrorType'
  <2>1. ver' \in 0..Len(stamp)
    BY <1>0, <1>1, <1>3, <1>4 DEF MirrorType, Kind
  <2>2. noted' \subseteq 1..Len(tombs)
    BY <1>0, <1>1, <1>3 DEF MirrorType, Kind
  <2>. QED
    BY <1>0, <1>2, <2>1, <2>2 DEF MirrorType
<1>8. RowOK'
  <2>1. CASE job[c].kind = "tombstone"
    BY <1>0, <1>2, <1>3, <2>1 DEF DInv, RowOK
  <2>2. CASE job[c].kind = "cache"
    BY <1>0, <1>1, <1>2, <1>4, <2>2 DEF DInv, RowOK, JobOK
  <2>. QED
    BY <1>1, <2>1, <2>2 DEF Kind
<1>9. NotedOK'
  BY <1>0, <1>1, <1>2, <1>3 DEF DInv, NotedOK, JobOK, Kind
<1>10. ASSUME NEW d \in Carrier PROVE JobOK(job[d])'
  <2>1. CASE d = c
    BY <1>1, <1>3, <1>4, <1>5, <2>1 DEF JobOK
  <2>2. CASE d # c
    <3>. DEFINE w == job[d].v
    <3>1. job'[d] = job[d] /\ JobOK(job[d])
      BY <1>0, <1>5, <2>2 DEF DInv
    <3>2. job[d].step # "idle" => w \in Nat /\ (job[d].kind = "tombstone" => tombs[w] \in Nat)
      BY <1>0, JobIs
    <3>3. job[d].kind = "tombstone" /\ job[d].step = "record" => ver' > tombs[w]
      BY <1>1, <1>4, <3>1, <3>2 DEF JobOK
    <3>4. job[d].kind = "tombstone" /\ job[d].step = "keep" => w \in noted'
      BY <1>4, <3>1 DEF JobOK
    <3>5. job[d].kind = "cache" /\ job[d].step = "keep" => w <= ver'
      BY <1>1, <1>4, <3>1, <3>2 DEF JobOK
    <3>. QED
      BY <1>2, <3>1, <3>3, <3>4, <3>5 DEF JobOK
  <2>. QED
    BY <2>1, <2>2
<1>. QED
  BY <1>6, <1>7, <1>8, <1>9, <1>10 DEF DInv

\* A step of an admission keeps the rest: types, the mark's word and the page's.
LEMMA StepKeeps ==
    ASSUME FInv, NEW c \in Carrier, AdmitStep(c), MirrorType', DInv'
    PROVE  FInv'
<1>0. FType /\ JobType /\ PullType /\ PlaceType /\ OriginType
  BY DEF FInv, FType
<1>1. UNCHANGED <<life, stamp, sent, tombs, pull, mark, read, givenUp, overrun>>
  BY DEF AdmitStep, Admitting, origin
<1>2. job[c].kind \in Kind /\ job[c].v \in Nat /\ ver \in Nat /\ tomb \in Nat /\ JobAt(job[c]) /\ job[c].step # "idle"
  BY <1>0, JobIs DEF AdmitStep
<1>3. OriginType'
  BY <1>0, <1>1 DEF OriginType
<1>4. \A k : Top(k)' = Top(k) /\ Serves(k)' = Serves(k)
  BY <1>1 DEF Top, Serves, rev
<1>5. JobType'
  <2>1. ASSUME NEW d \in Carrier PROVE JobAt(job[d])'
    <3>1. CASE d = c
      <4>1. JobAt(job'[c])
        BY DEF AdmitStep, JobAt, NoJob
      <4>. QED
        BY <1>4, <3>1, <4>1 DEF JobAt
    <3>2. CASE d # c
      <4>1. job'[d] = job[d] /\ JobAt(job[d])
        BY <1>0, <3>2 DEF AdmitStep, JobType
      <4>. QED
        BY <1>4, <4>1 DEF JobAt
    <3>. QED
      BY <3>1, <3>2
  <2>. QED
    BY <2>1 DEF JobType, AdmitStep
<1>6. /\ job'[Pull].step # "idle" => /\ job[Pull].step # "idle" /\ job'[Pull].v = job[Pull].v
                                     /\ job'[Pull].kind = job[Pull].kind
  <2>1. CASE c = Pull
    BY <2>1 DEF AdmitStep, NoJob
  <2>2. CASE c # Pull
    BY <2>2, PullIn DEF AdmitStep
  <2>. QED
    BY <2>1, <2>2
<1>7. PullType'
  BY <1>0, <1>1, <1>4, <1>6 DEF PullType
<1>8. gaps' \in [Kind -> SUBSET Nat]
  BY <1>0 DEF PlaceType, AdmitStep
<1>9. PlaceType'
  BY <1>0, <1>1, <1>4, <1>8 DEF PlaceType
<1>10. ASSUME NEW k \in Kind, NEW v \in Nat, Handled(k, v) PROVE Handled(k, v)'
  <2>1. ver' \in Nat /\ tomb' \in Nat
    <3>1. Len(stamp') \in Nat
      BY <1>3 DEF OriginType
    <3>. QED
      BY <3>1 DEF MirrorType
  <2>2. noted \subseteq noted' /\ ver <= ver' /\ tomb <= tomb'
    BY DEF AdmitStep
  <2>3. CASE k = "tombstone"
    BY <1>10, <2>2, <2>3 DEF Handled
  <2>4. CASE k # "tombstone"
    <3>1. v <= ver \/ v <= tomb
      BY <1>10, <2>4 DEF Handled
    <3>2. v <= ver' \/ v <= tomb'
      BY <1>2, <2>1, <2>2, <3>1
    <3>. QED
      BY <2>4, <3>2 DEF Handled
  <2>. QED
    BY <2>3, <2>4
<1>11. \A k \in Kind : Serves(k) \subseteq Nat
  BY <1>0, ServesIs DEF FeedIs
<1>12. MarkOK'
  <2>. SUFFICES ASSUME NEW k \in Kind, ~overrun[k], NEW v \in Serves(k), v <= mark[k]
                PROVE  Handled(k, v)' \/ v \in gaps'[k] \/ (k = "cache" /\ v \in givenUp)
    BY <1>1, <1>4 DEF MarkOK
  <2>1. Handled(k, v) \/ v \in gaps[k] \/ (k = "cache" /\ v \in givenUp)
    BY DEF FInv, MarkOK
  <2>2. v \in gaps[k] /\ v \notin gaps'[k] => k = job[c].kind /\ v = job[c].v /\ Handled(k, v)
    <3>1. gaps \in [Kind -> SUBSET Nat]
      BY <1>0 DEF PlaceType
    <3>. QED
      BY <1>2, <3>1 DEF AdmitStep
  <2>. QED
    BY <1>10, <1>11, <2>1, <2>2
<1>13. PageOK'
  <2>. DEFINE k == pull.kind
  <2>. SUFFICES ASSUME pull.phase = "admit", NEW v \in Serves(k), Cursor' < v, v <= pull.next
                PROVE  \/ Handled(k, v)' \/ v \in pull.todo \/ v \in pull.bad
                       \/ job'[Pull].step # "idle" /\ job'[Pull].v = v
    BY <1>1, <1>4 DEF PageOK
  <2>1. Cursor' = Cursor /\ k \in Kind
    BY <1>0, <1>1 DEF Cursor, PullType
  <2>2. \/ Handled(k, v) \/ v \in pull.todo \/ v \in pull.bad
        \/ job[Pull].step # "idle" /\ job[Pull].v = v
    BY <2>1 DEF FInv, PageOK
  <2>a. ASSUME Handled(k, v) PROVE Handled(k, v)'
    <3>1. PICK kk \in Kind : kk = pull.kind
      BY <2>1
    <3>2. Handled(kk, v)'
      BY <1>10, <1>11, <2>a, <3>1
    <3>. QED
      BY <1>1, <3>1, <3>2 DEF Handled
  <2>3. CASE job[Pull].step # "idle" /\ job[Pull].v = v
    <3>1. job[Pull].kind = k
      BY <1>0, <2>3 DEF PullType
    <3>2. CASE c = Pull
      <4>1. (job'[Pull].step # "idle" /\ job'[Pull].v = v) \/ Handled(k, v)
        BY <2>3, <3>1, <3>2 DEF AdmitStep
      <4>. QED
        BY <2>a, <4>1
    <3>3. CASE c # Pull
      BY <2>3, <3>3, PullIn DEF AdmitStep
    <3>. QED
      BY <3>2, <3>3
  <2>. QED
    BY <2>2, <2>3, <2>a
<1>. QED
  BY <1>3, <1>5, <1>7, <1>9, <1>12, <1>13 DEF FInv, FType

LEMMA AdmitKeeps == ASSUME FInv, NEW c \in Carrier, Admit(c) PROVE FInv'
<1>1. AdmitStep(c) /\ MirrorType' /\ DInv'
  BY VersionKeeps, UpsertKeeps, ReadHeldKeeps, RecordKeeps, PurgeKeeps, NoteKeeps, KeepKeeps DEF Admit
<1>. QED
  BY <1>1, StepKeeps
-----------------------------------------------------------------------------
(* What the carriers and the pull do around the admissions. *)

LEMMA Still ==
    ASSUME FInv, UNCHANGED <<origin, mirror>>
    PROVE  /\ OriginType' /\ MirrorType'
           /\ \A k : Top(k)' = Top(k) /\ Serves(k)' = Serves(k)
           /\ \A k, v : Handled(k, v)' = Handled(k, v)
           /\ \A j : JobAt(j)' = JobAt(j)
           /\ UNCHANGED <<row, ver, tomb, noted, raced, tombs, stamp, life>>
<1>1. UNCHANGED <<row, ver, tomb, noted, raced, tombs, stamp, life, sent>>
  BY DEF origin, mirror
<1>2. OriginType' /\ MirrorType'
  BY <1>1 DEF FInv, FType, OriginType, MirrorType
<1>3. \A k : Top(k)' = Top(k) /\ Serves(k)' = Serves(k)
  BY <1>1 DEF Top, Serves, rev
<1>4. \A k, v : Handled(k, v)' = Handled(k, v)
  BY <1>1 DEF Handled
<1>5. \A j : JobAt(j)' = JobAt(j)
  BY <1>3 DEF JobAt
<1>. QED
  BY <1>1, <1>2, <1>3, <1>4, <1>5

\* Admissions that begin or end leave the others as they were.
LEMMA JobsKeep ==
    ASSUME FInv, UNCHANGED <<origin, mirror>>,
           \A d \in Carrier : \/ job'[d] = job[d] \/ job'[d].step = "idle"
                              \/ job'[d].step = "version" /\ (job'[d].kind = "cache" => job'[d].v > tomb)
    PROVE  DInv'
<1>1. DInv /\ UNCHANGED <<row, ver, tomb, noted, raced, tombs>>
  BY Still DEF FInv
<1>2. RowOK' /\ NotedOK'
  BY <1>1 DEF DInv, RowOK, NotedOK
<1>3. ASSUME NEW d \in Carrier PROVE JobOK(job[d])'
  <2>1. CASE job'[d] = job[d]
    BY <1>1, <2>1 DEF DInv, JobOK
  <2>2. CASE job'[d].step = "idle"
    BY <2>2 DEF JobOK
  <2>3. CASE job'[d].step = "version" /\ (job'[d].kind = "cache" => job'[d].v > tomb)
    BY <1>1, <2>3 DEF JobOK
  <2>. QED
    BY <2>1, <2>2, <2>3
<1>. QED
  BY <1>2, <1>3 DEF DInv

LEMMA StartIs ==
    ASSUME FInv, NEW c \in Carrier, NEW k \in Kind, NEW v \in 1..Top(k), Start(c, k, v)
    PROVE  /\ job' \in [Carrier -> [kind : Kind, v : Nat, step : Step]]
           /\ \A d \in Carrier \ {c} : job'[d] = job[d]
           /\ \/ /\ job' = job /\ k = "cache" /\ v <= tomb
                 /\ gaps' = IF c = Pull THEN [gaps EXCEPT ![k] = @ \ {v}] ELSE gaps
              \/ /\ job'[c].kind = k /\ job'[c].v = v /\ job'[c].step = "version" /\ gaps' = gaps
                 /\ JobAt(job'[c]) /\ (k = "cache" => v > tomb)
<1>1. job \in [Carrier -> [kind : Kind, v : Nat, step : Step]] /\ OriginType /\ MirrorType
  BY DEF FInv, FType, JobType
<1>2. Top(k) \in Nat /\ v \in Nat /\ tomb \in Nat
  BY <1>1, ServesIs DEF FeedIs, MirrorType
<1>3. CASE k = "cache" /\ v <= tomb
  BY <1>1, <1>3 DEF Start
<1>4. CASE ~(k = "cache" /\ v <= tomb)
  <2>. DEFINE j == [kind |-> k, v |-> v, step |-> "version"]
  <2>1. j \in [kind : Kind, v : Nat, step : Step] /\ j.kind = k /\ j.v = v /\ j.step = "version"
    BY <1>2 DEF Step
  <2>2. job' = [job EXCEPT ![c] = j] /\ gaps' = gaps
    BY <1>4 DEF Start
  <2>3. JobAt(j)
    BY <2>1 DEF JobAt
  <2>. HIDE DEF j
  <2>4. k = "cache" => v > tomb
    BY <1>2, <1>4
  <2>. QED
    BY <1>1, <2>1, <2>2, <2>3, <2>4
<1>. QED
  BY <1>3, <1>4

\* An admission that begins over the carrier c; the pull's own frames are dealt with below.
LEMMA StartTypes ==
    ASSUME FInv, NEW c \in Carrier, NEW k \in Kind, NEW v \in 1..Top(k), Start(c, k, v),
           job[c] = NoJob, UNCHANGED <<origin, mirror>>
    PROVE  JobType' /\ DInv' /\ gaps' \in [Kind -> SUBSET Nat]
<1>1. /\ \A d \in Carrier \ {c} : job'[d] = job[d]
      /\ job' = job \/ (job'[c].step = "version" /\ JobAt(job'[c]) /\ (job'[c].kind = "cache" => job'[c].v > tomb))
  BY StartIs
<1>2. DInv'
  BY <1>1, JobsKeep
<1>3. JobType'
  <2>1. job' \in [Carrier -> [kind : Kind, v : Nat, step : Step]] /\ (\A d \in Carrier : JobAt(job[d]))
    BY StartIs DEF FInv, FType, JobType
  <2>2. \A d \in Carrier : JobAt(job'[d])
    BY <1>1, <2>1
  <2>3. \A j : JobAt(j)' = JobAt(j)
    BY Still
  <2>4. ASSUME NEW d \in Carrier PROVE JobAt(job[d])'
    <3>1. UNCHANGED <<tombs, stamp>>
      BY Still
    <3>. QED
      BY <2>2, <3>1 DEF JobAt, Top, rev
  <2>. QED
    BY <2>1, <2>4 DEF JobType
<1>4. gaps' \in [Kind -> SUBSET Nat]
  <2>1. gaps \in [Kind -> SUBSET Nat]
    BY DEF FInv, FType, PlaceType
  <2>. QED
    BY <2>1, StartIs
<1>. QED
  BY <1>2, <1>3, <1>4

LEMMA DeliverKeeps == ASSUME FInv, NEW c \in Pusher, Deliver(c) PROVE FInv'
<1>0. c \in Carrier /\ c # Pull /\ Pull \in Carrier /\ OriginType
  BY PullIn DEF FInv, FType
<1>1. PICK k \in Kind : \E v \in IF k = "cache" THEN sent ELSE DOMAIN tombs : Start(c, k, v)
  BY DEF Deliver
<1>2. PICK v \in IF k = "cache" THEN sent ELSE DOMAIN tombs : Start(c, k, v)
  BY <1>1
<1>3. v \in 1..Top(k)
  BY <1>0 DEF OriginType, Top, rev, Kind
<1>4. /\ UNCHANGED <<origin, mirror>> /\ job[c] = NoJob
      /\ UNCHANGED <<pull, mark, read, givenUp, overrun>>
  BY DEF Deliver
<1>5. JobType' /\ DInv' /\ job'[Pull] = job[Pull] /\ gaps' = gaps
  BY <1>0, <1>2, <1>3, <1>4, StartTypes, StartIs
<1>6. OriginType' /\ MirrorType' /\ \A x : Top(x)' = Top(x) /\ Serves(x)' = Serves(x)
  BY <1>4, Still
<1>7. PullType' /\ PlaceType'
  BY <1>4, <1>5, <1>6 DEF FInv, FType, PullType, PlaceType
<1>8. UNCHANGED <<noted, ver, tomb>>
  BY <1>4, Still
<1>9. MarkOK' /\ PageOK'
  BY <1>4, <1>5, <1>6, <1>8 DEF FInv, MarkOK, PageOK, Handled, Cursor
<1>. QED
  BY <1>5, <1>6, <1>7, <1>9 DEF FInv, FType

LEMMA MarkFrom ==
    ASSUME FInv, UNCHANGED <<origin, mirror>>,
           \A k \in Kind : ~overrun'[k] =>
               \A v \in Serves(k) : v <= mark'[k] =>
                   Handled(k, v) \/ v \in gaps'[k] \/ (k = "cache" /\ v \in givenUp')
    PROVE  MarkOK'
BY Still DEF MarkOK

LEMMA PageFrom ==
    ASSUME FInv, UNCHANGED <<origin, mirror>>, NEW k \in Kind, pull'.kind = k,
           pull'.phase = "admit" =>
               \A v \in Serves(k) : Cursor' < v /\ v <= pull'.next =>
                   \/ Handled(k, v) \/ v \in pull'.todo \/ v \in pull'.bad
                   \/ job'[Pull].step # "idle" /\ job'[Pull].v = v
    PROVE  PageOK'
<1>1. Serves(pull.kind)' = Serves(k)
  <2>1. UNCHANGED <<tombs, stamp, life>>
    BY Still
  <2>. QED
    BY <2>1 DEF Serves, rev
<1>2. ASSUME NEW v PROVE Handled(pull.kind, v)' = Handled(k, v)
  <2>1. UNCHANGED <<noted, ver, tomb>>
    BY Still
  <2>. QED
    BY <2>1 DEF Handled
<1>. QED
  BY <1>1, <1>2 DEF PageOK

\* Where the page began does not change while it is worked through.
LEMMA SameCursor ==
    ASSUME UNCHANGED <<mark, read>>, pull'.kind = pull.kind, pull'.replay = pull.replay
    PROVE  Cursor' = Cursor
BY DEF Cursor

LEMMA PullIs ==
    ASSUME FInv
    PROVE  /\ pull.kind \in Kind /\ pull.next \in Nat /\ pull.todo \in SUBSET Nat /\ pull.bad \in SUBSET Nat
           /\ pull.replay \in BOOLEAN /\ Top(pull.kind) \in Nat /\ OriginType /\ PullType /\ PlaceType /\ JobType
           /\ job[Pull] \in [kind : Kind, v : Nat, step : Step] /\ NoJob.step = "idle"
           /\ NoJob \in [kind : Kind, v : Nat, step : Step]
<1>1. OriginType /\ PullType /\ PlaceType /\ JobType
  BY DEF FInv, FType
<1>2. /\ pull.kind \in Kind /\ pull.next \in Nat /\ pull.todo \in SUBSET Nat /\ pull.bad \in SUBSET Nat
      /\ pull.replay \in BOOLEAN
  BY <1>1 DEF PullType
<1>3. Top(pull.kind) \in Nat
  BY <1>1, <1>2, ServesIs DEF FeedIs
<1>4. job[Pull] \in [kind : Kind, v : Nat, step : Step]
  BY <1>1, PullIn DEF JobType
<1>5. NoJob.step = "idle" /\ NoJob \in [kind : Kind, v : Nat, step : Step]
  BY DEF NoJob, Kind, Step
<1>. QED
  BY <1>1, <1>2, <1>3, <1>4, <1>5

\* An admission that ends, for whatever reason.
LEMMA DropTypes ==
    ASSUME FInv, NEW c \in Carrier, job' = [job EXCEPT ![c] = NoJob], UNCHANGED <<origin, mirror>>
    PROVE  JobType' /\ DInv' /\ (c # Pull => job'[Pull] = job[Pull]) /\ (c = Pull => job'[Pull].step = "idle")
<1>1. job \in [Carrier -> [kind : Kind, v : Nat, step : Step]] /\ (\A d \in Carrier : JobAt(job[d]))
  BY DEF FInv, FType, JobType
<1>2. NoJob.step = "idle" /\ NoJob \in [kind : Kind, v : Nat, step : Step] /\ Pull \in Carrier
  BY PullIs, PullIn
<1>3. /\ job' \in [Carrier -> [kind : Kind, v : Nat, step : Step]]
      /\ job'[c] = NoJob /\ \A d \in Carrier \ {c} : job'[d] = job[d]
  BY <1>1, <1>2
<1>4. DInv'
  BY <1>2, <1>3, JobsKeep
<1>5. ASSUME NEW d \in Carrier PROVE JobAt(job[d])'
  <2>1. UNCHANGED <<tombs, stamp>>
    BY Still
  <2>2. JobAt(job'[d])
    BY <1>1, <1>2, <1>3 DEF JobAt
  <2>. QED
    BY <2>1, <2>2 DEF JobAt, Top, rev
<1>. QED
  BY <1>2, <1>3, <1>4, <1>5 DEF JobType

LEMMA FailsKeeps == ASSUME FInv, NEW c \in Carrier, Fails(c) PROVE FInv'
<1>. DEFINE k == pull.kind
<1>0. /\ job[c].step # "idle" /\ UNCHANGED <<origin, mirror>> /\ job' = [job EXCEPT ![c] = NoJob]
      /\ UNCHANGED <<mark, read, gaps, givenUp, overrun>>
      /\ pull' = IF c = Pull THEN [pull EXCEPT !.bad = @ \cup {job[c].v}] ELSE pull
  BY DEF Fails, position
<1>1. JobType' /\ DInv' /\ (c # Pull => job'[Pull] = job[Pull]) /\ (c = Pull => job'[Pull].step = "idle")
  BY <1>0, DropTypes
<1>2. OriginType' /\ MirrorType' /\ \A x : Top(x)' = Top(x)
  BY <1>0, Still
<1>3. PlaceType'
  BY <1>0, <1>2 DEF FInv, FType, PlaceType
<1>4. /\ pull'.kind = k /\ pull'.phase = pull.phase /\ pull'.next = pull.next /\ pull'.todo = pull.todo
      /\ pull'.replay = pull.replay /\ pull'.bad = IF c = Pull THEN pull.bad \cup {job[c].v} ELSE pull.bad
      /\ pull' \in [kind : Kind, phase : {"start", "admit", "gaps"}, next : Nat,
                    todo : SUBSET Nat, bad : SUBSET Nat, replay : BOOLEAN]
  BY <1>0, PullIs DEF PullType
<1>5. Top(k)' = Top(k) /\ Top(pull.kind)' = Top(k)
  <2>1. UNCHANGED <<tombs, stamp>>
    BY <1>0, Still
  <2>. QED
    BY <1>4, <2>1 DEF Top, rev
<1>6. c = Pull /\ pull.phase = "admit" => job[c].v \in 1..pull.next
  <2>1. FType
    BY DEF FInv
  <2>2. job[c].v \in Nat /\ job[c].v >= 1
    BY <1>0, <2>1, JobIs
  <2>. QED
    BY <1>0, <2>2, PullIs DEF PullType
<1>a. c = Pull => pull.phase # "start"
  BY <1>0, PullIs DEF PullType
<1>7. PullType'
  BY <1>1, <1>4, <1>5, <1>6, <1>a, PullIs DEF PullType
<1>8. MarkOK'
  BY <1>0, MarkFrom DEF FInv, MarkOK
<1>9. PageOK'
  <2>1. Cursor' = Cursor
    BY <1>0, <1>4, SameCursor
  <2>. QED
    BY <1>0, <1>1, <1>4, <2>1, PageFrom, PullIs DEF FInv, PageOK
<1>. QED
  BY <1>1, <1>2, <1>3, <1>7, <1>8, <1>9 DEF FInv, FType

LEMMA CutKeeps == ASSUME FInv, Cut PROVE FInv'
<1>0. /\ UNCHANGED <<origin, mirror>> /\ job' = [job EXCEPT ![Pull] = NoJob] /\ pull' = NoPull
      /\ UNCHANGED <<mark, read, gaps, givenUp, overrun>>
  BY DEF Cut
<1>1. JobType' /\ DInv' /\ job'[Pull].step = "idle"
  BY <1>0, DropTypes, PullIn
<1>2. OriginType' /\ MirrorType' /\ \A x : Top(x)' = Top(x)
  BY <1>0, Still
<1>3. PlaceType'
  BY <1>0, <1>2 DEF FInv, FType, PlaceType
<1>4. pull'.phase = "start" /\ pull'.kind \in Kind /\ PullType'
  BY <1>0, <1>1 DEF PullType, NoPull, Kind
<1>5. MarkOK'
  BY <1>0, MarkFrom DEF FInv, MarkOK
<1>6. PageOK'
  BY <1>4 DEF PageOK
<1>. QED
  BY <1>1, <1>2, <1>3, <1>4, <1>5, <1>6 DEF FInv, FType

LEMMA GiveUpKeeps == ASSUME FInv, GiveUp PROVE FInv'
<1>1. PICK v \in gaps["cache"] \cap asked :
          gaps' = [gaps EXCEPT !["cache"] = @ \ {v}] /\ givenUp' = givenUp \cup {v}
  BY DEF GiveUp
<1>2. UNCHANGED <<origin, mirror>> /\ UNCHANGED <<job, pull, mark, read, overrun>>
  BY DEF GiveUp
<1>3. OriginType' /\ MirrorType' /\ (\A x : Top(x)' = Top(x)) /\ UNCHANGED <<tombs, stamp>>
  BY <1>2, Still
<1>4. gaps \in [Kind -> SUBSET Nat] /\ "cache" \in Kind
  BY DEF FInv, FType, PlaceType, Kind
<1>5. gaps' \in [Kind -> SUBSET Nat] /\ \A k \in Kind : gaps'[k] = IF k = "cache" THEN gaps[k] \ {v} ELSE gaps[k]
  BY <1>1, <1>4
<1>6. PlaceType' /\ PullType' /\ JobType'
  BY <1>2, <1>3, <1>5 DEF FInv, FType, PlaceType, PullType, JobType, JobAt, Top, rev
<1>7. DInv'
  BY <1>2, JobsKeep
<1>8. MarkOK'
  BY <1>1, <1>2, <1>5, MarkFrom DEF FInv, MarkOK
<1>9. PageOK'
  <2>1. Cursor' = Cursor
    BY <1>2, SameCursor
  <2>. QED
    BY <1>2, <2>1, PageFrom, PullIs DEF FInv, PageOK
<1>. QED
  BY <1>3, <1>6, <1>7, <1>8, <1>9 DEF FInv, FType

LEMMA AskingIs ==
    ASSUME NEW k \in Kind, NEW due \in SUBSET Nat
    PROVE  /\ Asking(k, due) \in [kind : Kind, phase : {"start", "admit", "gaps"}, next : Nat,
                                  todo : SUBSET Nat, bad : SUBSET Nat, replay : BOOLEAN]
           /\ Asking(k, due).kind = k /\ Asking(k, due).phase = "gaps"
BY DEF Asking, NoPull, Kind

\* The feed is asked: what it serves past the cursor is to come.
LEMMA AskKeeps == ASSUME FInv, Ask PROVE FInv'
<1>. DEFINE k == pull.kind
            m == mark[k]
            r == read[k]
            replay == Top(k) > m /\ Top(k) > replayed[k] /\ m < r /\ Cardinality(gaps[k]) < MaxGaps
            cursor == IF replay THEN m ELSE Max({m, r})
            todo == {v \in Serves(k) : v > cursor}
<1>0. UNCHANGED <<origin, mirror>> /\ UNCHANGED <<job, mark, read, gaps, givenUp, overrun>> /\ pull.phase = "start"
  BY DEF Ask, Placed
<1>1. pull' = IF replay \/ Top(k) > cursor
              THEN [pull EXCEPT !.phase = "admit", !.next = Top(k), !.replay = replay, !.todo = todo]
              ELSE Asking(k, gaps[k])
  BY DEF Ask
<1>2. /\ k \in Kind /\ m \in Nat /\ r \in Nat /\ gaps[k] \in SUBSET Nat /\ Top(k) \in Nat
      /\ Serves(k) \subseteq 1..Top(k) /\ job[Pull].step = "idle" /\ pull.bad \in SUBSET Nat /\ replay \in BOOLEAN
  <2>1. OriginType /\ PullType /\ PlaceType /\ k \in Kind /\ Top(k) \in Nat /\ pull.bad \in SUBSET Nat
    BY PullIs
  <2>. QED
    BY <1>0, <2>1, ServesIs DEF PlaceType, PullType, FeedIs
<1>3. cursor = (IF replay \/ m >= r THEN m ELSE r) /\ cursor \in Nat
  BY <1>2, MaxTwo
<1>4. todo \in SUBSET Nat /\ todo \subseteq 1..Top(k)
  BY <1>2
<1>5. OriginType' /\ MirrorType' /\ (\A x : Top(x)' = Top(x)) /\ UNCHANGED <<tombs, stamp>>
  BY <1>0, Still
<1>6. PlaceType' /\ JobType'
  BY <1>0, <1>5 DEF FInv, FType, PlaceType, JobType, JobAt, Top, rev
<1>7. DInv'
  BY <1>0, JobsKeep
<1>8. MarkOK'
  BY <1>0, MarkFrom DEF FInv, MarkOK
<1>. HIDE DEF replay, cursor, todo
<1>9. CASE pull' = Asking(k, gaps[k])
  <2>1. pull'.phase = "gaps" /\ PullType'
    BY <1>2, <1>9, AskingIs DEF PullType
  <2>2. PageOK'
    BY <2>1 DEF PageOK
  <2>. QED
    BY <1>5, <1>6, <1>7, <1>8, <2>1, <2>2 DEF FInv, FType
<1>10. CASE pull' = [pull EXCEPT !.phase = "admit", !.next = Top(k), !.replay = replay, !.todo = todo]
  \* Nothing failed before the page was asked for.
  <2>1. pull \in [kind : Kind, phase : {"start", "admit", "gaps"}, next : Nat,
                  todo : SUBSET Nat, bad : SUBSET Nat, replay : BOOLEAN]
    BY PullIs DEF PullType
  <2>2. /\ pull'.kind = k /\ pull'.phase = "admit" /\ pull'.next = Top(k) /\ pull'.replay = replay
        /\ pull'.todo = todo /\ pull'.bad = pull.bad
        /\ pull' \in [kind : Kind, phase : {"start", "admit", "gaps"}, next : Nat,
                      todo : SUBSET Nat, bad : SUBSET Nat, replay : BOOLEAN]
    BY <1>2, <1>4, <1>10, <2>1
  <2>3. Top(pull.kind)' = Top(k)
    BY <1>5, <2>2 DEF Top, rev
  <2>4. pull.bad \subseteq 1..Top(k)
    BY <1>0, PullIs DEF PullType
  <2>5. PullType'
    BY <1>0, <1>2, <1>4, <2>2, <2>3, <2>4 DEF PullType
  <2>6. Cursor' = cursor
    BY <1>0, <1>3, <2>2 DEF Cursor
  <2>7. PageOK'
    <3>1. \A v \in Serves(k) : cursor < v => v \in todo
      BY DEF todo
    <3>. QED
      BY <1>0, <1>2, <2>2, <2>6, <3>1, PageFrom
  <2>. QED
    BY <1>5, <1>6, <1>7, <1>8, <2>5, <2>7 DEF FInv, FType
<1>. QED
  BY <1>1, <1>9, <1>10

LEMMA AdmitNextKeeps == ASSUME FInv, AdmitNext PROVE FInv'
<1>. DEFINE k == pull.kind
            v == Min(pull.todo)
<1>0. /\ UNCHANGED <<origin, mirror>> /\ UNCHANGED <<mark, read, givenUp, overrun>>
      /\ pull.phase = "admit" /\ job[Pull] = NoJob /\ pull.todo # {} /\ Start(Pull, k, v)
      /\ pull' = [pull EXCEPT !.todo = @ \ {v}]
  BY DEF AdmitNext, Placed
<1>1. /\ k \in Kind /\ Pull \in Carrier /\ PullType /\ PlaceType /\ Top(k) \in Nat /\ pull.next \in Nat
      /\ pull.todo \in SUBSET Nat /\ pull.todo \subseteq 1..pull.next /\ pull.next <= Top(k)
  BY <1>0, PullIs, PullIn DEF PullType
<1>2. v \in pull.todo /\ v \in 1..Top(k) /\ v <= pull.next
  BY <1>0, <1>1, MinIn
<1>3. JobType' /\ DInv' /\ gaps' \in [Kind -> SUBSET Nat]
  BY <1>0, <1>1, <1>2, StartTypes
<1>4. \/ /\ job' = job /\ k = "cache" /\ v <= tomb /\ gaps' = [gaps EXCEPT ![k] = @ \ {v}]
      \/ job'[Pull].kind = k /\ job'[Pull].v = v /\ job'[Pull].step = "version" /\ gaps' = gaps
  BY <1>0, <1>1, <1>2, StartIs
<1>5. OriginType' /\ MirrorType' /\ (\A x : Top(x)' = Top(x)) /\ UNCHANGED <<tombs, stamp>>
  BY <1>0, Still
<1>6. PlaceType'
  BY <1>0, <1>1, <1>3, <1>5 DEF PlaceType
<1>7. /\ pull'.kind = k /\ pull'.phase = "admit" /\ pull'.next = pull.next /\ pull'.replay = pull.replay
      /\ pull'.todo = pull.todo \ {v} /\ pull'.bad = pull.bad
      /\ pull' \in [kind : Kind, phase : {"start", "admit", "gaps"}, next : Nat,
                    todo : SUBSET Nat, bad : SUBSET Nat, replay : BOOLEAN]
  BY <1>0, PullIs DEF PullType
<1>8. Top(pull.kind)' = Top(k)
  BY <1>5, <1>7 DEF Top, rev
<1>9. job'[Pull].step # "idle" => job'[Pull].v <= pull.next /\ job'[Pull].kind = k
  <2>1. NoJob.step = "idle"
    BY PullIs
  <2>. QED
    BY <1>0, <1>2, <1>4, <2>1
<1>10. PullType'
  BY <1>0, <1>1, <1>7, <1>8, <1>9 DEF PullType
<1>11. k = "cache" /\ v <= tomb => Handled(k, v)
  BY DEF Handled
<1>12. MarkOK'
  <2>1. \A x \in Kind : \A w : w \in gaps[x] /\ w \notin gaps'[x] => Handled(x, w)
    <3>1. gaps \in [Kind -> SUBSET Nat]
      BY <1>1 DEF PlaceType
    <3>. QED
      BY <1>1, <1>4, <1>11, <3>1
  <2>. QED
    BY <1>0, <2>1, MarkFrom DEF FInv, MarkOK
<1>13. PageOK'
  <2>1. Cursor' = Cursor
    BY <1>0, <1>7, SameCursor
  <2>2. ASSUME NEW w \in Serves(k), Cursor < w, w <= pull.next
        PROVE  \/ Handled(k, w) \/ w \in pull'.todo \/ w \in pull'.bad
               \/ job'[Pull].step # "idle" /\ job'[Pull].v = w
    <3>1. Handled(k, w) \/ w \in pull.todo \/ w \in pull.bad
      <4>1. NoJob.step = "idle"
        BY PullIs
      <4>. QED
        BY <1>0, <2>2, <4>1 DEF FInv, PageOK
    <3>2. CASE w = v
      BY <1>4, <1>11, <3>2
    <3>. QED
      BY <1>7, <3>1, <3>2
  <2>. QED
    BY <1>0, <1>1, <1>7, <2>1, <2>2, PageFrom
<1>. QED
  BY <1>3, <1>5, <1>6, <1>10, <1>12, <1>13 DEF FInv, FType

LEMMA AskGapKeeps == ASSUME FInv, AskGap PROVE FInv'
<1>. DEFINE k == pull.kind
            v == Min(pull.todo)
<1>0. /\ UNCHANGED <<origin, mirror>> /\ UNCHANGED <<mark, read, givenUp, overrun>>
      /\ pull.phase = "gaps" /\ job[Pull] = NoJob
      /\ pull' = [pull EXCEPT !.todo = @ \ {v}]
      /\ IF v \in Serves(k) THEN Start(Pull, k, v) ELSE gaps' = [gaps EXCEPT ![k] = @ \ {v}] /\ job' = job
  BY DEF AskGap, Placed
<1>1. /\ k \in Kind /\ Pull \in Carrier /\ PullType /\ PlaceType /\ Serves(k) \subseteq 1..Top(k)
      /\ gaps \in [Kind -> SUBSET Nat]
  BY PullIs, PullIn, ServesIs DEF FeedIs, PlaceType
<1>2. OriginType' /\ MirrorType' /\ (\A x : Top(x)' = Top(x)) /\ UNCHANGED <<tombs, stamp>>
  BY <1>0, Still
<1>3. /\ pull'.kind = k /\ pull'.phase = "gaps"
      /\ pull' \in [kind : Kind, phase : {"start", "admit", "gaps"}, next : Nat,
                    todo : SUBSET Nat, bad : SUBSET Nat, replay : BOOLEAN]
  BY <1>0, PullIs DEF PullType
<1>4. PullType' /\ PageOK'
  BY <1>3 DEF PullType, PageOK
<1>5. /\ JobType' /\ DInv' /\ gaps' \in [Kind -> SUBSET Nat]
      /\ \A x \in Kind : \A w \in Serves(x) : w \in gaps[x] /\ w \notin gaps'[x] => Handled(x, w)
  <2>1. CASE v \in Serves(k)
    <3>1. Start(Pull, k, v) /\ v \in 1..Top(k)
      BY <1>0, <1>1, <2>1
    <3>2. JobType' /\ DInv' /\ gaps' \in [Kind -> SUBSET Nat]
      BY <1>0, <1>1, <3>1, StartTypes
    <3>3. gaps' = gaps \/ (k = "cache" /\ v <= tomb /\ gaps' = [gaps EXCEPT ![k] = @ \ {v}])
      BY <1>1, <3>1, StartIs
    <3>4. \A x \in Kind : \A w : w \in gaps[x] /\ w \notin gaps'[x] => Handled(x, w)
      BY <1>1, <3>3 DEF Handled
    <3>. QED
      BY <3>2, <3>4
  <2>2. CASE v \notin Serves(k)
    <3>1. gaps' = [gaps EXCEPT ![k] = @ \ {v}] /\ job' = job
      BY <1>0, <2>2
    <3>2. DInv'
      BY <1>0, <3>1, JobsKeep
    <3>3. JobType'
      BY <1>2, <3>1 DEF FInv, FType, JobType, JobAt, Top, rev
    <3>. QED
      BY <1>1, <2>2, <3>1, <3>2, <3>3
  <2>. QED
    BY <2>1, <2>2
<1>6. PlaceType'
  BY <1>0, <1>1, <1>2, <1>5 DEF PlaceType
<1>7. MarkOK'
  BY <1>0, <1>5, MarkFrom DEF FInv, MarkOK
<1>. QED
  BY <1>2, <1>4, <1>5, <1>6, <1>7 DEF FInv, FType

LEMMA NextKindKeeps == ASSUME FInv, NextKind PROVE FInv'
<1>0. /\ UNCHANGED <<origin, mirror>> /\ UNCHANGED <<job, mark, read, gaps, givenUp, overrun>> /\ job[Pull] = NoJob
      /\ pull' = [NoPull EXCEPT !.kind = IF pull.kind = "cache" THEN "tombstone" ELSE "cache"]
  BY DEF NextKind
<1>1. OriginType' /\ MirrorType' /\ (\A x : Top(x)' = Top(x)) /\ UNCHANGED <<tombs, stamp>>
  BY <1>0, Still
<1>2. PlaceType' /\ JobType'
  BY <1>0, <1>1 DEF FInv, FType, PlaceType, JobType, JobAt, Top, rev
<1>3. DInv'
  BY <1>0, JobsKeep
<1>4. MarkOK'
  BY <1>0, MarkFrom DEF FInv, MarkOK
<1>5. pull'.phase = "start" /\ PullType'
  <2>1. /\ pull' \in [kind : Kind, phase : {"start", "admit", "gaps"}, next : Nat,
                      todo : SUBSET Nat, bad : SUBSET Nat, replay : BOOLEAN]
        /\ pull'.phase = "start" /\ pull'.bad = {}
    BY <1>0 DEF NoPull, Kind
  <2>2. job'[Pull].step = "idle"
    BY <1>0 DEF NoJob
  <2>. QED
    BY <2>1, <2>2 DEF PullType
<1>6. PageOK'
  BY <1>5 DEF PageOK
<1>. QED
  BY <1>1, <1>2, <1>3, <1>4, <1>5, <1>6 DEF FInv, FType

\* The page is done: the mark moves over what was handled or became a gap.
LEMMA SetMarkKeeps == ASSUME FInv, SetMark PROVE FInv'
<1>. DEFINE k == pull.kind
            m == mark[k]
            r == read[k]
            noRoom == {v \in pull.bad : Cardinality(gaps[k] \cup {w \in pull.bad : w <= v}) > MaxGaps}
            upTo == IF noRoom = {} THEN pull.next ELSE Min(noRoom) - 1
            new == {v \in pull.bad : v <= upTo}
<1>0. /\ UNCHANGED <<origin, mirror>> /\ UNCHANGED <<job, givenUp>>
      /\ pull.phase = "admit" /\ job[Pull] = NoJob /\ pull.todo = {}
  BY DEF SetMark
<1>1. /\ gaps' = [gaps EXCEPT ![k] = @ \cup new]
      /\ mark' = [mark EXCEPT ![k] = Max({@, upTo})]
      /\ read' = [read EXCEPT ![k] = Max({@, pull.next})]
      /\ overrun' = [overrun EXCEPT ![k] = @ \/ (~pull.replay /\ m < r /\ m < upTo)]
      /\ pull' = Asking(k, gaps'[k])
  BY DEF SetMark
<1>2. /\ k \in Kind /\ PlaceType /\ m \in Nat /\ r \in Nat /\ Top(k) \in Nat /\ pull.next \in Nat /\ m <= Top(k)
      /\ pull.bad \in SUBSET Nat /\ pull.bad \subseteq 1..pull.next /\ pull.next <= Top(k) /\ pull.replay \in BOOLEAN
      /\ Serves(k) \subseteq 1..Top(k)
  BY <1>0, PullIs, ServesIs DEF PlaceType, PullType, FeedIs
<1>3. upTo \in Nat /\ upTo <= pull.next
  <2>1. CASE noRoom = {}
    BY <1>2, <2>1
  <2>2. CASE noRoom # {}
    <3>1. noRoom \in SUBSET Nat /\ noRoom \subseteq 1..pull.next
      BY <1>2
    <3>. HIDE DEF noRoom
    <3>2. Min(noRoom) \in 1..pull.next
      BY <2>2, <3>1, MinIn
    <3>. QED
      BY <1>2, <2>2, <3>2
  <2>. QED
    BY <2>1, <2>2
<1>a. new \in SUBSET Nat /\ \A v : v \in pull.bad /\ v <= upTo => v \in new
  BY <1>2
<1>. HIDE DEF noRoom, upTo, new
<1>4. /\ mark' \in [Kind -> Nat] /\ read' \in [Kind -> Nat] /\ gaps' \in [Kind -> SUBSET Nat]
      /\ mark'[k] = (IF m >= upTo THEN m ELSE upTo) /\ gaps'[k] = gaps[k] \cup new
      /\ \A x \in Kind \ {k} : mark'[x] = mark[x] /\ gaps'[x] = gaps[x] /\ overrun'[x] = overrun[x]
      /\ overrun'[k] = (overrun[k] \/ (~pull.replay /\ m < r /\ m < upTo))
      /\ overrun' \in [Kind -> BOOLEAN]
  <2>1. Max({m, upTo}) = (IF m >= upTo THEN m ELSE upTo) /\ Max({r, pull.next}) \in Nat
    BY <1>2, <1>3, MaxTwo
  <2>2. mark \in [Kind -> Nat] /\ read \in [Kind -> Nat] /\ gaps \in [Kind -> SUBSET Nat] /\ overrun \in [Kind -> BOOLEAN]
    BY <1>2 DEF PlaceType
  <2>3. mark' \in [Kind -> Nat] /\ mark'[k] = (IF m >= upTo THEN m ELSE upTo) /\ \A x \in Kind \ {k} : mark'[x] = mark[x]
    BY <1>1, <1>2, <1>3, <2>1, <2>2
  <2>4. read' \in [Kind -> Nat]
    BY <1>1, <1>2, <2>1, <2>2
  <2>5. /\ gaps' \in [Kind -> SUBSET Nat] /\ gaps'[k] = gaps[k] \cup new
        /\ \A x \in Kind \ {k} : gaps'[x] = gaps[x]
    BY <1>1, <1>2, <1>a, <2>2
  <2>6. /\ overrun'[k] = (overrun[k] \/ (~pull.replay /\ m < r /\ m < upTo)) /\ overrun' \in [Kind -> BOOLEAN]
        /\ \A x \in Kind \ {k} : overrun'[x] = overrun[x]
    BY <1>1, <1>2, <2>2
  <2>. QED
    BY <2>3, <2>4, <2>5, <2>6
<1>5. OriginType' /\ MirrorType' /\ (\A x : Top(x)' = Top(x)) /\ UNCHANGED <<tombs, stamp>>
  BY <1>0, Still
<1>6. JobType'
  BY <1>0, <1>5 DEF FInv, FType, JobType, JobAt, Top, rev
<1>7. PlaceType'
  <2>1. ASSUME NEW x \in Kind PROVE mark'[x] <= Top(x)
    BY <1>2, <1>3, <1>4 DEF PlaceType
  <2>. QED
    BY <1>4, <1>5, <2>1 DEF PlaceType
<1>8. pull'.phase = "gaps" /\ PullType' /\ PageOK'
  <2>1. gaps'[k] \in SUBSET Nat
    BY <1>2, <1>4
  <2>2. pull'.phase = "gaps" /\ pull' \in [kind : Kind, phase : {"start", "admit", "gaps"}, next : Nat,
                                           todo : SUBSET Nat, bad : SUBSET Nat, replay : BOOLEAN]
    BY <1>1, <1>2, <2>1, AskingIs
  <2>. QED
    BY <2>2 DEF PullType, PageOK
<1>9. DInv'
  BY <1>0, JobsKeep
<1>10. ASSUME NEW x \in Kind, ~overrun'[x], NEW v \in Serves(x), v <= mark'[x]
       PROVE  Handled(x, v) \/ v \in gaps'[x] \/ (x = "cache" /\ v \in givenUp)
  <2>1. CASE x # k
    BY <1>4, <1>10, <2>1 DEF FInv, MarkOK
  <2>2. CASE x = k /\ v <= m
    BY <1>2, <1>4, <1>10, <2>2 DEF FInv, MarkOK
  <2>3. CASE x = k /\ ~(v <= m)
    <3>1. v \in Nat /\ m < v /\ v <= upTo /\ m < upTo /\ v <= pull.next
      BY <1>2, <1>3, <1>4, <1>10, <2>3
    <3>2. pull.replay \/ m >= r
      BY <1>2, <1>4, <1>10, <2>3, <3>1
    <3>3. Cursor = m
      BY <3>2 DEF Cursor
    <3>4. Handled(k, v) \/ v \in pull.bad
      <4>1. NoJob.step = "idle"
        BY PullIs
      <4>. QED
        BY <1>0, <1>10, <2>3, <3>1, <3>3, <4>1 DEF FInv, PageOK
    <3>. QED
      BY <1>4, <1>a, <2>3, <3>1, <3>4
  <2>. QED
    BY <2>1, <2>2, <2>3
<1>11. MarkOK'
  BY <1>0, <1>10, MarkFrom
<1>. QED
  BY <1>5, <1>6, <1>7, <1>8, <1>9, <1>11 DEF FInv, FType
-----------------------------------------------------------------------------
LEMMA FInit == Init => FInv
<1>. SUFFICES ASSUME Init PROVE FInv
  OBVIOUS
<1>1. /\ stamp = <<1>> /\ sent = {1} /\ tombs = <<>> /\ row = 0 /\ ver = 0 /\ tomb = 0 /\ noted = {} /\ raced = FALSE
      /\ job = [c \in Carrier |-> NoJob] /\ pull = NoPull
      /\ mark = [k \in Kind |-> 0] /\ read = mark /\ gaps = [k \in Kind |-> {}] /\ overrun = [k \in Kind |-> FALSE]
  BY DEF Init
<1>2. OriginType
  <2>1. stamp \in Seq(Nat) /\ Len(stamp) = 1 /\ stamp[1] = 1 /\ tombs \in Seq(Nat) /\ Len(tombs) = 0
    BY <1>1
  <2>. QED
    BY <1>1, <2>1 DEF OriginType
<1>3. Len(stamp) = 1 /\ Len(tombs) = 0 /\ FeedIs
  BY <1>1, <1>2, ServesIs
<1>4. MirrorType
  <2>1. row \in 0..Len(stamp) /\ ver \in 0..Len(stamp) /\ tomb \in Nat /\ noted \subseteq 1..Len(tombs)
    BY <1>1, <1>3
  <2>2. raced \in BOOLEAN
    BY <1>1
  <2>. QED
    BY <2>1, <2>2 DEF MirrorType
<1>5. \A c \in Carrier : job[c] = NoJob
  BY <1>1
<1>6. JobType
  BY <1>1, <1>5 DEF JobType, JobAt, NoJob, Kind, Step
<1>7. PullType
  BY <1>1, <1>5, PullIn DEF PullType, NoPull, NoJob, Kind
<1>8. PlaceType
  BY <1>1, <1>3 DEF PlaceType, FeedIs
<1>9. DInv
  BY <1>1, <1>5 DEF DInv, RowOK, NotedOK, JobOK, NoJob
<1>10. MarkOK
  <2>1. \A k \in Kind : mark[k] = 0 /\ \A v \in Serves(k) : v \in 1..Top(k) /\ Top(k) \in Nat
    BY <1>1, <1>3 DEF FeedIs
  <2>. QED
    BY <2>1 DEF MarkOK
<1>11. PageOK
  BY <1>1 DEF PageOK, NoPull
<1>. QED
  BY <1>2, <1>4, <1>6, <1>7, <1>8, <1>9, <1>10, <1>11 DEF FInv, FType

LEMMA Stutters == ASSUME FInv, UNCHANGED vars PROVE FInv'
<1>1. UNCHANGED <<origin, mirror, job, pull, mark, read, gaps, givenUp, overrun>>
  BY DEF vars, position
<1>2. OriginType' /\ MirrorType' /\ (\A x : Top(x)' = Top(x)) /\ (\A x : Serves(x)' = Serves(x))
  BY <1>1 DEF FInv, FType, OriginType, MirrorType, Top, rev, Serves, origin, mirror
<1>3. JobType' /\ PlaceType' /\ PullType'
  BY <1>1, <1>2 DEF FInv, FType, JobType, JobAt, PlaceType, PullType, Top, rev
<1>4. DInv'
  BY <1>1 DEF FInv, DInv, RowOK, NotedOK, JobOK, origin, mirror
<1>5. MarkOK' /\ PageOK'
  BY <1>1, <1>2 DEF FInv, MarkOK, PageOK, Handled, Cursor, mirror
<1>. QED
  BY <1>2, <1>3, <1>4, <1>5 DEF FInv, FType

LEMMA FNext == FInv /\ [Next]_vars => FInv'
<1>. SUFFICES ASSUME FInv, [Next]_vars PROVE FInv'
  OBVIOUS
<1>1. CASE Edit \/ RemoveCache \/ RestoreCache \/ Retract \/ EmitTombstone \/ EmitLost
  BY <1>1, OriginKeeps DEF OriginAction
<1>2. CASE Pulling
  BY <1>2, PullIn, AskKeeps, AdmitNextKeeps, SetMarkKeeps, AskGapKeeps, NextKindKeeps, AdmitKeeps DEF Pulling
<1>3. CASE Cut \/ GiveUp
  BY <1>3, CutKeeps, GiveUpKeeps
<1>4. ASSUME NEW c \in Pusher, Deliver(c) \/ Admit(c) PROVE FInv'
  BY <1>4, PullIn, DeliverKeeps, AdmitKeeps
<1>5. ASSUME NEW c \in Carrier, Fails(c) PROVE FInv'
  BY <1>5, FailsKeeps
<1>6. CASE UNCHANGED vars
  BY <1>6, Stutters
<1>. QED
  BY <1>1, <1>2, <1>3, <1>4, <1>5, <1>6 DEF Next

LEMMA FAlways == Spec => []FInv
BY FInit, FNext, PTL DEF Spec

(***************************************************************************)
(* The mark of a feed (setMark) never claims what is not held: until a     *)
(* page read past it moves it, each tombstone up to it has been applied    *)
(* with its whole bound or is a gap, and so for the version the origin     *)
(* serves; for any MAX_GAPS, any number of carriers, failures and          *)
(* restarts.                                                               *)
(***************************************************************************)
THEOREM MarkTheorem == Spec => []MarkIsTrue
<1>1. FInv => MarkIsTrue
  <2>. SUFFICES ASSUME FInv PROVE MarkIsTrue
    OBVIOUS
  <2>1. FeedIs /\ "tombstone" \in Kind /\ "cache" \in Kind
    BY ServesIs DEF FInv, FType, Kind
  <2>2. /\ mark["tombstone"] \in Nat /\ mark["tombstone"] <= Len(tombs) /\ Len(tombs) \in Nat
        /\ Serves("tombstone") = 1..Len(tombs) /\ mark["cache"] \in Nat
    BY <2>1 DEF FInv, FType, PlaceType, FeedIs
  <2>3. ASSUME ~overrun["tombstone"], NEW s \in 1..mark["tombstone"]
        PROVE  (s \in noted /\ tombs[s] <= tomb) \/ s \in gaps["tombstone"]
    <3>1. s \in Serves("tombstone") /\ s <= mark["tombstone"]
      BY <2>2
    <3>2. s \in noted \/ s \in gaps["tombstone"]
      BY <2>1, <2>3, <3>1 DEF FInv, MarkOK, Handled
    <3>. QED
      BY <3>2 DEF FInv, DInv, NotedOK
  <2>4. ASSUME ~overrun["cache"], NEW v \in Serves("cache") \cap 1..mark["cache"]
        PROVE  v <= ver \/ v <= tomb \/ v \in gaps["cache"] \cup givenUp
    BY <2>1, <2>2, <2>4 DEF FInv, MarkOK, Handled
  <2>. QED
    BY <2>3, <2>4 DEF MarkIsTrue
<1>. QED
  BY <1>1, FAlways, PTL

(***************************************************************************)
(* A deletion is final (isTombstoned, applyTombstone): no interleaving of  *)
(* admissions, and no old frame that comes late or again, brings back a    *)
(* version that a tombstone applied here covers, but where an admission    *)
(* that had passed the check overlapped the tombstone.                     *)
(***************************************************************************)
THEOREM DeletedTheorem == Spec => []DeletedStaysDeleted
<1>1. FInv => DeletedStaysDeleted
  <2>. SUFFICES ASSUME FInv, NEW s \in noted PROVE row = 0 \/ row > tombs[s] \/ raced
    BY DEF DeletedStaysDeleted
  <2>1. tombs[s] <= tomb /\ (raced \/ row = 0 \/ row > tomb)
    BY DEF FInv, DInv, NotedOK, RowOK
  <2>2. s \in 1..Len(tombs) /\ tombs \in Seq(Nat) /\ tomb \in Nat /\ row \in 0..Len(stamp) /\ Len(stamp) \in Nat
    BY DEF FInv, FType, OriginType, MirrorType
  <2>3. tombs[s] \in Nat
    BY <2>2, ElementOfSeq
  <2>. QED
    BY <2>1, <2>2, <2>3
<1>. QED
  BY <1>1, FAlways, PTL
=============================================================================

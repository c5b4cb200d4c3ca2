------------------------- MODULE SessionServerProofs -------------------------
(***************************************************************************)
(* Proofs about the session server and its line driver: for every set of   *)
(* callers, every limit and every interleaving of calls, lines, answers    *)
(* and applications that settle late.                                      *)
(***************************************************************************)
EXTENDS SessionServer, SequenceTheorems, WellFoundedInduction, TLAPS

-----------------------------------------------------------------------------
(* Induction on the natural numbers, and functions defined by it. *)

LEMMA MinIn ==
    ASSUME NEW S \in SUBSET Nat, S # {}
    PROVE  Min(S) \in S /\ \A x \in S : Min(S) <= x
<1>. DEFINE R == OpToRel(<, Nat)
<1>1. \A x, y \in Nat : <<x, y>> \in R <=> x < y
  BY DEF OpToRel
<1>2. IsWellFoundedOn(R, Nat)
  BY NatLessThanWellFounded
<1>. HIDE DEF R
<1>3. PICK x \in S : \A y \in S : ~ (<<y, x>> \in R)
  BY <1>2, WFMin
<1>4. ASSUME NEW y \in S PROVE x <= y
  <2>1. x \in Nat /\ y \in Nat /\ ~ (<<y, x>> \in R)
    BY <1>3
  <2>2. ~ (y < x)
    BY <1>1, <2>1
  <2>. QED
    BY <2>1, <2>2
<1>. QED
  BY <1>4 DEF Min

\* Induction: a set that holds 0, and n + 1 with every n, holds every natural number.
LEMMA Reaches ==
    ASSUME NEW G, 0 \in G, \A n \in Nat : n \in G => n + 1 \in G
    PROVE  \A n \in Nat : n \in G
<1>. SUFFICES ASSUME Nat \ G # {} PROVE FALSE
  OBVIOUS
<1>1. PICK m \in Nat \ G : \A x \in Nat \ G : m <= x
  BY MinIn
<1>2. m # 0 /\ m - 1 \in Nat
  BY <1>1
<1>3. m - 1 \in G
  BY <1>1, <1>2
<1>. QED
  BY <1>1, <1>2, <1>3

\* Primitive recursion: a start and a step give a function on 0..N.
Iteration(T, g, d, N, h) == h \in [0..N -> T] /\ h[0] = d /\ \A i \in 1..N : h[i] = g[i][h[i - 1]]

LEMMA Iterates ==
    ASSUME NEW T, NEW g \in [Nat -> [T -> T]], NEW d \in T, NEW N \in Nat
    PROVE  \E h : Iteration(T, g, d, N, h)
<1>. DEFINE Upto(n) == \E h \in [0..n -> T] : h[0] = d /\ \A i \in 1..n : h[i] = g[i][h[i - 1]]
            G == {n \in Nat : Upto(n)}
<1>1. 0 \in G
  <2>. DEFINE h == [i \in 0..0 |-> d]
  <2>1. h \in [0..0 -> T] /\ h[0] = d /\ \A i \in 1..0 : h[i] = g[i][h[i - 1]]
    OBVIOUS
  <2>. HIDE DEF h
  <2>2. Upto(0)
    BY <2>1
  <2>. QED
    BY <2>2
<1>2. ASSUME NEW n \in Nat, n \in G PROVE n + 1 \in G
  <2>1. PICK h \in [0..n -> T] : h[0] = d /\ \A i \in 1..n : h[i] = g[i][h[i - 1]]
    BY <1>2
  <2>. DEFINE k == [i \in 0..(n + 1) |-> IF i = n + 1 THEN g[i][h[n]] ELSE h[i]]
  <2>2. k \in [0..(n + 1) -> T]
    BY <2>1
  <2>3. k[0] = d
    BY <2>1
  <2>4. ASSUME NEW i \in 1..(n + 1) PROVE k[i] = g[i][k[i - 1]]
    BY <2>1
  <2>. HIDE DEF k
  <2>5. Upto(n + 1)
    BY <2>2, <2>3, <2>4
  <2>. QED
    BY <2>5
<1>3. \A n \in Nat : n \in G
  <2>. HIDE DEF G
  <2>. QED
    BY <1>1, <1>2, Reaches
<1>. QED
  BY <1>3 DEF Iteration
-----------------------------------------------------------------------------
Lines == [n : Nat, kind : Kind]
Handle == [line : Lines \cup {<<>>}, gen : Nat]
Slot == [of : Caller, warming : BOOLEAN, age : Nat, building : BOOLEAN, link : {"none", "up", "closing", "down"},
         buf : Seq(Lines), busy : BOOLEAN, gen : Nat \ {0}, handle : Handle, sink : BOOLEAN,
         say : Seq(Lines), drop : SUBSET Lines]

\* The types of the variables.
Types ==
    /\ sessions \in [Caller -> Slots \cup {None}]
    /\ slot \in [Slots -> Slot]
    /\ peer \in [Caller -> {"idle", "calling", "up"}]
    /\ typed \in [Caller -> Seq(Lines)] /\ got \in [Caller -> Seq(Lines)]
    /\ overtaken \subseteq Caller /\ recalled \subseteq Caller
    /\ used \in [{"call", "line", "repeat"} -> Nat]
    /\ used["call"] <= MaxCalls /\ used["repeat"] <= MaxRepeats

\* A slot between two calls of its driver.  Nothing waits to be said or to be forgotten; without a link the
\* driver has not begun, with one that is down only an answer to an earlier session is outstanding, and
\* otherwise the driver is busy exactly while the answer to a line of this session is.
Quiet(d) == d.buf = <<>> /\ ~d.busy /\ ~d.sink
Rested(d) ==
    /\ d.say = <<>> /\ d.drop = {}
    /\ d.link # "none" => ~d.building /\ ~d.warming
    /\ d.link = "none" => Quiet(d) /\ d.handle = NoHandle
    /\ d.link = "down" => Quiet(d) /\ d.handle.gen < d.gen
    /\ d.busy => d.handle.gen = d.gen /\ d.handle.line \in Lines
    /\ ~d.busy /\ d.link # "down" => d.handle = NoHandle

\* The slot under a key is that caller's, and is being built or has a link.
Keyed ==
    \A c \in Caller : sessions[c] # None =>
        LET d == slot[sessions[c]] IN d.of = c /\ d.link # "down" /\ (d.link # "none" \/ d.building)

\* There is a slot for every connect request.
Roomy == \A s \in Slots : slot[s] # NewSlot => s <= used["call"] + used["repeat"]

Resting == \A s \in Slots : Rested(slot[s])

ServerInv ==
    /\ Types
    /\ Resting
    /\ Keyed
    /\ Roomy
    /\ NoOrphan

\* What the driver in slot d still has to answer, in order.
Due(d) == (IF d.busy THEN <<d.handle.line>> ELSE <<>>) \o d.buf
Distinct(s) == \A i, j \in DOMAIN s : s[i] = s[j] => i = j

\* How far an undisturbed caller has come, and the driver with it.
InStep(c) ==
    LET d == slot[sessions[c]] IN
    CASE peer[c] = "idle" -> typed[c] = <<>> /\ got[c] = <<>>
      [] peer[c] = "calling" -> /\ typed[c] = <<>> /\ got[c] = <<>>
                                /\ sessions[c] # None => Quiet(d) /\ d.link # "closing"
      [] OTHER -> /\ sessions[c] # None
                  /\ d.link = "up" => typed[c] = got[c] \o Due(d) /\ Distinct(typed[c])
                  /\ d.link # "up" => d.link = "closing" /\ IsPrefix(got[c], typed[c]) /\ ToSet(got[c]) \cap ToSet(d.buf) = {}

Numbered == \A c \in Caller : \A x \in ToSet(typed[c]) : x.n <= used["line"]
AllInStep == \A c \in Caller : Disturbed(c) \/ InStep(c)

AnswerInv == ServerInv /\ Numbered /\ AllInStep
-----------------------------------------------------------------------------
(* The line driver, one call at a time. *)

LEMMA NewSlotIs ==
    /\ NewSlot \in Slot /\ Rested(NewSlot) /\ NewSlot.link = "none" /\ ~NewSlot.building
    /\ NewSlot.gen = 1
<1>1. (CHOOSE c \in Caller : TRUE) \in Caller
  BY ServerAssumption
<1>2. NoHandle \in Handle
  BY DEF NoHandle, Handle
<1>3. <<>> \in Seq(Lines)
  OBVIOUS
<1>. QED
  BY <1>1, <1>2, <1>3 DEF NewSlot, Slot, Rested, Quiet

\* What every call of the driver leaves alone, and how it moves the link.
Kept(d, e) ==
    /\ e \in Slot
    /\ e.of = d.of /\ e.warming = d.warming /\ e.age = d.age /\ e.building = d.building /\ e.gen = d.gen
    /\ e.link = d.link \/ (d.link = "up" /\ e.link = "closing")
    /\ d.link # "up" => e.say = d.say

LEMMA CloseKeeps ==
    ASSUME NEW d \in Slot
    PROVE  /\ Kept(d, Close(d))
           /\ LET e == Close(d) IN /\ e.busy = d.busy /\ e.handle = d.handle /\ e.say = d.say /\ e.buf = d.buf
                                  /\ e.drop = d.drop /\ e.sink = d.sink
                                  /\ e.link = IF d.link = "up" THEN "closing" ELSE d.link
<1>1. CASE d.link = "up"
  <2>. DEFINE e == [d EXCEPT !.link = "closing"]
  <2>1. e \in Slot
    BY DEF Slot
  <2>2. /\ e.of = d.of /\ e.warming = d.warming /\ e.age = d.age /\ e.building = d.building /\ e.gen = d.gen
        /\ e.busy = d.busy /\ e.handle = d.handle /\ e.say = d.say /\ e.buf = d.buf
        /\ e.drop = d.drop /\ e.sink = d.sink /\ e.link = "closing"
    BY DEF Slot
  <2>3. Close(d) = e
    BY <1>1 DEF Close
  <2>. HIDE DEF e
  <2>. QED
    BY <1>1, <2>1, <2>2, <2>3 DEF Kept
<1>. QED
  BY <1>1 DEF Close, Kept

LEMMA SayKeeps ==
    ASSUME NEW d \in Slot, NEW line \in Lines
    PROVE  /\ Kept(d, Say(d, line))
           /\ LET e == Say(d, line) IN
                  /\ e.busy = d.busy /\ e.handle = d.handle /\ e.buf = d.buf
                  /\ e.drop = d.drop /\ e.sink = d.sink /\ e.link = d.link
                  /\ e.say = IF d.link = "up" THEN Append(d.say, line) ELSE d.say
<1>1. CASE d.link = "up"
  <2>. DEFINE e == [d EXCEPT !.say = Append(@, line)]
  <2>0. Append(d.say, line) \in Seq(Lines)
    BY DEF Slot
  <2>1. e \in Slot
    BY <2>0 DEF Slot
  <2>2. /\ e.of = d.of /\ e.warming = d.warming /\ e.age = d.age /\ e.building = d.building /\ e.gen = d.gen
        /\ e.busy = d.busy /\ e.handle = d.handle /\ e.say = Append(d.say, line) /\ e.buf = d.buf
        /\ e.drop = d.drop /\ e.sink = d.sink /\ e.link = d.link
    BY DEF Slot
  <2>3. Say(d, line) = e
    BY <1>1 DEF Say
  <2>. HIDE DEF e
  <2>. QED
    BY <1>1, <2>1, <2>2, <2>3 DEF Kept
<1>. QED
  BY <1>1 DEF Say, Kept

LEMMA AttachKeeps ==
    ASSUME NEW d \in Slot
    PROVE  /\ Kept(d, Attach(d))
           /\ LET e == Attach(d) IN
                  /\ e.busy = d.busy /\ e.handle = d.handle /\ e.buf = <<>> /\ e.say = d.say
                  /\ e.drop = d.drop \cup ToSet(d.buf) /\ e.sink = TRUE /\ e.link = d.link
<1>1. d.drop \cup ToSet(d.buf) \subseteq Lines
  BY DEF Slot, ToSet
<1>2. Attach(d) \in Slot
  <2>. DEFINE D == d.drop \cup ToSet(d.buf)
  <2>1. Attach(d) = [d EXCEPT !.sink = TRUE, !.drop = D, !.buf = <<>>]
    BY DEF Attach, Slot
  <2>2. D \in SUBSET Lines /\ <<>> \in Seq(Lines)
    BY <1>1
  <2>. HIDE DEF D
  <2>. QED
    BY <2>1, <2>2 DEF Slot
<1>3. LET e == Attach(d) IN
        /\ e.of = d.of /\ e.warming = d.warming /\ e.age = d.age /\ e.building = d.building /\ e.gen = d.gen
        /\ e.busy = d.busy /\ e.handle = d.handle /\ e.buf = <<>> /\ e.say = d.say
        /\ e.drop = d.drop \cup ToSet(d.buf) /\ e.sink = TRUE /\ e.link = d.link
  BY DEF Attach, Slot
<1>. QED
  BY <1>2, <1>3 DEF Kept

LEMMA ApplyKeeps ==
    ASSUME NEW d \in Slot, NEW line \in Lines
    PROVE  Kept(d, Apply(d, line)) /\ Apply(d, line).busy = d.busy /\ Apply(d, line).handle = d.handle
<1>. DEFINE e == Say(d, line)
<1>1. e \in Slot /\ Kept(d, e) /\ e.busy = d.busy /\ e.handle = d.handle
  BY SayKeeps DEF Kept
<1>2. Kept(e, Close(e)) /\ Close(e).busy = e.busy /\ Close(e).handle = e.handle /\ Close(e).say = e.say
  BY <1>1, CloseKeeps
<1>3. Kept(e, Attach(e)) /\ Attach(e).busy = e.busy /\ Attach(e).handle = e.handle /\ Attach(e).say = e.say
  BY <1>1, AttachKeeps
<1>4. Apply(d, line) \in {e, Close(e), Attach(e)}
  BY DEF Apply
<1>. HIDE DEF e
<1>. QED
  BY <1>1, <1>2, <1>3, <1>4 DEF Kept

LEMMA TurnKeeps ==
    ASSUME NEW d \in Slot
    PROVE  Kept(d, NextTurn(d))
<1>1. CASE d.busy \/ d.buf = <<>>
  BY <1>1 DEF NextTurn, Kept
<1>2. CASE ~d.busy /\ d.buf # <<>>
  <2>. DEFINE line == Head(d.buf)
              e == [d EXCEPT !.buf = Tail(@)]
              f == [e EXCEPT !.busy = TRUE, !.handle = [line |-> line, gen |-> d.gen]]
  <2>1. d.buf \in Seq(Lines) /\ d.gen \in Nat
    BY DEF Slot
  <2>2. line \in Lines /\ Tail(d.buf) \in Seq(Lines)
    BY <1>2, <2>1
  <2>3. e \in Slot /\ Kept(d, e)
    BY <2>2 DEF Slot, Kept
  <2>4. Kept(d, f)
    <3>1. [line |-> line, gen |-> d.gen] \in Handle
      BY <2>1, <2>2 DEF Handle
    <3>. QED
      BY <2>3, <3>1 DEF Slot, Kept
  <2>5. NextTurn(d) \in {f, Apply(e, line)}
    BY <1>2 DEF NextTurn, Turn
  <2>6. Kept(d, Apply(e, line))
    BY <2>2, <2>3, ApplyKeeps DEF Kept
  <2>. QED
    BY <2>4, <2>5, <2>6
<1>. QED
  BY <1>1, <1>2

(***************************************************************************)
(* What the driver makes of the lines due.  While the link is up, X is     *)
(* what was said, then what is still due, then what was thrown away; once  *)
(* it is closing, nothing that was said is among the lines left over.      *)
(***************************************************************************)
Accounts(e, X) ==
    \E q \in Seq(Lines) :
        IF e.link = "up" THEN X = (e.say \o Due(e)) \o q /\ e.drop = ToSet(q)
        ELSE X = e.say \o q /\ e.drop \cup ToSet(e.buf) \subseteq ToSet(q)

LEMMA ToSetConcat ==
    ASSUME NEW S, NEW s \in Seq(S), NEW t \in Seq(S)
    PROVE  ToSet(s \o t) = ToSet(s) \cup ToSet(t)
<1>1. ToSet(s \o t) \subseteq ToSet(s) \cup ToSet(t)
  BY DEF ToSet
<1>2. ToSet(s) \subseteq ToSet(s \o t)
  BY DEF ToSet
<1>3. ASSUME NEW i \in DOMAIN t PROVE t[i] \in ToSet(s \o t)
  <2>1. Len(s) + i \in DOMAIN (s \o t) /\ (s \o t)[Len(s) + i] = t[i]
    OBVIOUS
  <2>. QED
    BY <2>1 DEF ToSet
<1>. QED
  BY <1>1, <1>2, <1>3 DEF ToSet

LEMMA AppendConcat ==
    ASSUME NEW S, NEW s \in Seq(S), NEW x \in S, NEW t \in Seq(S)
    PROVE  s \o (<<x>> \o t) = Append(s, x) \o t
<1>1. <<x>> \in Seq(S)
  OBVIOUS
<1>2. s \o (<<x>> \o t) = (s \o <<x>>) \o t
  BY <1>1, ConcatAssociative
<1>3. s \o <<x>> = Append(s, x)
  BY AppendIsConcat
<1>. QED
  BY <1>2, <1>3

LEMMA LineConcat == \A s, t, u \in Seq(Lines) : (s \o t) \o u = s \o (t \o u)
  BY ConcatAssociative

LEMMA LineAppend == \A s, t \in Seq(Lines) : \A x \in Lines : s \o (<<x>> \o t) = Append(s, x) \o t
  BY AppendConcat

LEMMA LineCons ==
    \A t \in Seq(Lines) : \A x \in Lines :
        <<x>> \o t \in Seq(Lines) /\ ToSet(t) \subseteq ToSet(<<x>> \o t) /\ <<x>> \in Seq(Lines)
<1>. SUFFICES ASSUME NEW t \in Seq(Lines), NEW x \in Lines
              PROVE  <<x>> \o t \in Seq(Lines) /\ ToSet(t) \subseteq ToSet(<<x>> \o t) /\ <<x>> \in Seq(Lines)
  OBVIOUS
<1>1. <<x>> \in Seq(Lines)
  OBVIOUS
<1>2. <<x>> \o t \in Seq(Lines)
  BY <1>1
<1>3. ToSet(<<x>> \o t) = ToSet(<<x>>) \cup ToSet(t)
  <2>. DEFINE u == <<x>>
  <2>1. u \in Seq(Lines)
    BY <1>1
  <2>. HIDE DEF u
  <2>2. ToSet(u \o t) = ToSet(u) \cup ToSet(t)
    BY <2>1, ToSetConcat
  <2>. QED
    BY <2>2 DEF u
<1>. QED
  BY <1>1, <1>2, <1>3

LEMMA DueIs ==
    ASSUME NEW d, d.buf \in Seq(Lines)
    PROVE  /\ ~d.busy => Due(d) = d.buf
           /\ d.busy => Due(d) = <<d.handle.line>> \o d.buf
           /\ (d.busy => d.handle.line \in Lines) => Due(d) \in Seq(Lines) /\ ToSet(d.buf) \subseteq ToSet(Due(d))
<1>1. ~d.busy => Due(d) = d.buf
  BY DEF Due
<1>2. d.busy => Due(d) = <<d.handle.line>> \o d.buf
  BY DEF Due
<1>. QED
  BY <1>1, <1>2, LineCons

\* A line taken off the front of what is due is answered or closes the session.
LEMMA ApplyAccounts ==
    ASSUME NEW d \in Slot, NEW line \in Lines, NEW X \in Seq(Lines), NEW q \in Seq(Lines), ~d.busy,
           IF d.link = "up" THEN X = (d.say \o (<<line>> \o d.buf)) \o q /\ d.drop = ToSet(q)
           ELSE X = d.say \o q /\ d.drop \cup ToSet(d.buf) \subseteq ToSet(q)
    PROVE  Accounts(Apply(d, line), X)
<1>. DEFINE e == Say(d, line)
<1>0. /\ e \in Slot /\ ~e.busy /\ e.buf = d.buf /\ e.drop = d.drop /\ e.link = d.link
      /\ e.say = IF d.link = "up" THEN Append(d.say, line) ELSE d.say
  BY SayKeeps DEF Kept
<1>1. d.say \in Seq(Lines) /\ d.buf \in Seq(Lines) /\ e.say \in Seq(Lines) /\ e.buf \in Seq(Lines)
  BY <1>0 DEF Slot
<1>2. CASE d.link = "up"
  <2>1. X = (e.say \o e.buf) \o q
    <3>1. d.say \o (<<line>> \o d.buf) = Append(d.say, line) \o d.buf
      BY <1>1, LineAppend
    <3>. QED
      BY <1>0, <1>2, <3>1
  <2>2. Accounts(e, X)
    <3>1. Due(e) = e.buf
      BY <1>0, <1>1 DEF Due
    <3>. QED
      BY <1>0, <1>2, <2>1, <3>1 DEF Accounts
  <2>. DEFINE p == e.buf \o q
  <2>3. p \in Seq(Lines) /\ X = e.say \o p /\ ToSet(p) = ToSet(e.buf) \cup ToSet(q)
    <3>. HIDE DEF e
    <3>1. p \in Seq(Lines) /\ ToSet(p) = ToSet(e.buf) \cup ToSet(q)
      BY <1>1, ToSetConcat
    <3>2. (e.say \o e.buf) \o q = e.say \o (e.buf \o q)
      BY <1>1, LineConcat, ZenonT(60)
    <3>. QED
      BY <2>1, <3>1, <3>2
  <2>. HIDE DEF p
  <2>4. Accounts(Close(e), X)
    <3>1. Close(e).link = "closing" /\ Close(e).say = e.say /\ Close(e).drop = e.drop /\ Close(e).buf = e.buf
      BY <1>0, <1>2, CloseKeeps
    <3>. QED
      BY <1>0, <1>2, <2>3, <3>1 DEF Accounts
  <2>5. Accounts(Attach(e), X)
    <3>1. /\ Attach(e).link = "up" /\ Attach(e).say = e.say /\ Attach(e).drop = e.drop \cup ToSet(e.buf)
          /\ Attach(e).buf = <<>> /\ ~Attach(e).busy
      BY <1>0, <1>2, AttachKeeps
    <3>2. Due(Attach(e)) = <<>>
      BY <3>1 DEF Due
    <3>3. X = (Attach(e).say \o Due(Attach(e))) \o p
      BY <1>1, <2>3, <3>1, <3>2
    <3>. QED
      BY <1>0, <1>2, <2>3, <3>1, <3>3 DEF Accounts
  <2>. HIDE DEF e
  <2>. QED
    BY <2>2, <2>4, <2>5 DEF Apply, e
<1>3. CASE d.link # "up"
  <2>1. Accounts(e, X)
    BY <1>0, <1>3 DEF Accounts
  <2>2. Close(e) = e
    BY <1>0, <1>3 DEF Close
  <2>3. Accounts(Attach(e), X)
    <3>1. /\ Attach(e).link # "up" /\ Attach(e).say = e.say /\ Attach(e).drop = e.drop \cup ToSet(e.buf)
          /\ Attach(e).buf = <<>>
      BY <1>0, <1>3, AttachKeeps
    <3>2. ToSet(<<>>) = {}
      BY DEF ToSet
    <3>. QED
      BY <1>0, <1>3, <3>1, <3>2 DEF Accounts
  <2>. HIDE DEF e
  <2>. QED
    BY <2>1, <2>2, <2>3 DEF Apply, e
<1>. QED
  BY <1>2, <1>3

LEMMA TurnAccounts ==
    ASSUME NEW d \in Slot, NEW X \in Seq(Lines), Accounts(d, X)
    PROVE  Accounts(NextTurn(d), X)
<1>1. CASE d.busy \/ d.buf = <<>>
  BY <1>1 DEF NextTurn
<1>2. CASE ~d.busy /\ d.buf # <<>>
  <2>. DEFINE line == Head(d.buf)
              e == [d EXCEPT !.buf = Tail(@)]
              f == [e EXCEPT !.busy = TRUE, !.handle = [line |-> line, gen |-> d.gen]]
  <2>1. d.buf \in Seq(Lines) /\ d.say \in Seq(Lines) /\ d.gen \in Nat
    BY DEF Slot
  <2>2. /\ line \in Lines /\ Tail(d.buf) \in Seq(Lines) /\ d.buf = <<line>> \o Tail(d.buf)
        /\ ToSet(Tail(d.buf)) \subseteq ToSet(d.buf)
    BY <1>2, <2>1 DEF ToSet
  <2>3. /\ e \in Slot /\ e.buf = Tail(d.buf) /\ e.busy = d.busy /\ e.say = d.say /\ e.drop = d.drop
        /\ e.link = d.link
    BY <2>2 DEF Slot
  <2>4. /\ f.buf = Tail(d.buf) /\ f.busy /\ f.say = d.say /\ f.drop = d.drop /\ f.link = d.link
        /\ f.handle.line = line
    BY DEF Slot
  <2>5. PICK q \in Seq(Lines) :
            IF d.link = "up" THEN X = (d.say \o Due(d)) \o q /\ d.drop = ToSet(q)
            ELSE X = d.say \o q /\ d.drop \cup ToSet(d.buf) \subseteq ToSet(q)
    BY DEF Accounts
  <2>6. Due(d) = <<line>> \o Tail(d.buf) /\ Due(f) = <<line>> \o Tail(d.buf)
    <3>1. Due(d) = d.buf
      BY <1>2, <2>1 DEF Due
    <3>2. Due(f) = <<f.handle.line>> \o f.buf
      BY <2>4 DEF Due
    <3>. QED
      BY <2>2, <2>4, <3>1, <3>2
  <2>7. Accounts(f, X)
    BY <2>2, <2>4, <2>5, <2>6 DEF Accounts
  <2>8. Accounts(Apply(e, line), X)
    <3>1. IF e.link = "up" THEN X = (e.say \o (<<line>> \o e.buf)) \o q /\ e.drop = ToSet(q)
          ELSE X = e.say \o q /\ e.drop \cup ToSet(e.buf) \subseteq ToSet(q)
      BY <2>2, <2>3, <2>5, <2>6
    <3>. QED
      BY <1>2, <2>2, <2>3, <3>1, ApplyAccounts
  <2>9. NextTurn(d) \in {f, Apply(e, line)}
    BY <1>2 DEF NextTurn, Turn
  <2>. QED
    BY <2>7, <2>8, <2>9
<1>. QED
  BY <1>1, <1>2

\* A driver that is busy knows the line; one that is not has none outstanding.
Works(d) ==
    /\ d.busy => d.handle.gen = d.gen /\ d.handle.line \in Lines
    /\ ~d.busy => d.handle = NoHandle

LEMMA TurnWorks ==
    ASSUME NEW d \in Slot, Works(d)
    PROVE  Works(NextTurn(d))
<1>1. CASE d.busy \/ d.buf = <<>>
  BY <1>1 DEF NextTurn
<1>2. CASE ~d.busy /\ d.buf # <<>>
  <2>. DEFINE line == Head(d.buf)
              e == [d EXCEPT !.buf = Tail(@)]
              f == [e EXCEPT !.busy = TRUE, !.handle = [line |-> line, gen |-> d.gen]]
  <2>1. d.buf \in Seq(Lines)
    BY DEF Slot
  <2>2. line \in Lines /\ Tail(d.buf) \in Seq(Lines)
    BY <1>2, <2>1
  <2>3. e \in Slot /\ e.busy = d.busy /\ e.handle = d.handle
    BY <2>2 DEF Slot
  <2>4. f.busy /\ f.handle.line = line /\ f.handle.gen = d.gen /\ f.gen = d.gen
    BY DEF Slot
  <2>5. Apply(e, line).busy = e.busy /\ Apply(e, line).handle = e.handle
    BY <2>2, <2>3, ApplyKeeps
  <2>6. NextTurn(d) \in {f, Apply(e, line)}
    BY <1>2 DEF NextTurn, Turn
  <2>. HIDE DEF f, e
  <2>. QED
    BY <1>2, <2>2, <2>3, <2>4, <2>5, <2>6 DEF Works
<1>. QED
  BY <1>1, <1>2

(***************************************************************************)
(* The whole pump: its recursive function exists, and so what every turn   *)
(* preserves the pump preserves.                                           *)
(***************************************************************************)
LEMMA PumpRuns ==
    ASSUME NEW d \in Slot
    PROVE  \E h \in [0..Len(d.buf) -> Slot] :
               /\ h[0] = d /\ \A i \in 1..Len(d.buf) : h[i] = NextTurn(h[i - 1])
               /\ Pump(d) = h[Len(d.buf)]
<1>. DEFINE N == Len(d.buf)
            g == [i \in Nat |-> [e \in Slot |-> NextTurn(e)]]
<1>1. N \in Nat
  BY DEF Slot
<1>2. g \in [Nat -> [Slot -> Slot]] /\ \A i \in Nat : \A e \in Slot : g[i][e] = NextTurn(e)
  BY TurnKeeps DEF Kept
<1>. HIDE DEF N, g
<1>3. PICK h : h \in [0..N -> Slot] /\ h[0] = d /\ \A i \in 1..N : h[i] = g[i][h[i - 1]]
  <2>1. \E h : Iteration(Slot, g, d, N, h)
    BY <1>1, <1>2, Iterates
  <2>. QED
    BY <2>1 DEF Iteration
<1>4. \A i \in 1..N : h[i] = NextTurn(h[i - 1])
  <2>1. \A i \in 1..N : i \in Nat /\ h[i - 1] \in Slot
    BY <1>1, <1>3
  <2>. QED
    BY <1>2, <1>3, <2>1
<1>5. h = [n \in 0..N |-> IF n = 0 THEN d ELSE NextTurn(h[n - 1])]
  <2>1. \A n \in 0..N : h[n] = IF n = 0 THEN d ELSE NextTurn(h[n - 1])
    BY <1>1, <1>3, <1>4
  <2>. QED
    BY <1>3, <2>1
<1>. DEFINE f == CHOOSE f : f = [n \in 0..N |-> IF n = 0 THEN d ELSE NextTurn(f[n - 1])]
<1>6. f = [n \in 0..N |-> IF n = 0 THEN d ELSE NextTurn(f[n - 1])]
  BY <1>5, Zenon
<1>7. Pump(d) = f[N]
  BY Zenon DEF Pump, N
<1>. HIDE DEF f
<1>8. /\ f[0] = d /\ \A i \in 1..N : f[i] = NextTurn(f[i - 1])
  BY <1>1, <1>6
<1>9. f \in [0..N -> Slot]
  <2>. DEFINE G == {n \in Nat : n <= N => f[n] \in Slot}
  <2>1. 0 \in G
    BY <1>8
  <2>2. ASSUME NEW n \in Nat, n \in G PROVE n + 1 \in G
    <3>. SUFFICES ASSUME n + 1 <= N PROVE f[n + 1] \in Slot
      OBVIOUS
    <3>1. f[n] \in Slot /\ f[n + 1] = NextTurn(f[n])
      BY <1>1, <1>8, <2>2
    <3>. QED
      BY <3>1, TurnKeeps DEF Kept
  <2>. HIDE DEF G
  <2>3. \A n \in Nat : n \in G
    BY <2>1, <2>2, Reaches
  <2>4. \A n \in 0..N : f[n] \in Slot
    BY <1>1, <2>3 DEF G
  <2>. QED
    BY <1>6, <2>4
<1>. QED
  BY <1>7, <1>8, <1>9 DEF N

LEMMA PumpKeeps ==
    ASSUME NEW d \in Slot, Works(d), NEW X \in Seq(Lines), Accounts(d, X)
    PROVE  Kept(d, Pump(d)) /\ Works(Pump(d)) /\ Accounts(Pump(d), X)
<1>. DEFINE N == Len(d.buf)
<1>1. N \in Nat
  BY DEF Slot
<1>2. PICK h \in [0..N -> Slot] :
          /\ h[0] = d /\ \A i \in 1..N : h[i] = NextTurn(h[i - 1])
          /\ Pump(d) = h[N]
  BY PumpRuns
<1>. DEFINE Good(e) == Kept(d, e) /\ Works(e) /\ Accounts(e, X)
            G == {n \in Nat : n <= N => Good(h[n])}
<1>3. 0 \in G
  BY <1>2 DEF Kept
<1>4. ASSUME NEW n \in Nat, n \in G PROVE n + 1 \in G
  <2>. SUFFICES ASSUME n + 1 <= N PROVE Good(h[n + 1])
    OBVIOUS
  <2>1. n \in 0..N /\ n + 1 \in 1..N /\ n <= N
    BY <1>1
  <2>2. h[n] \in Slot /\ h[n + 1] = NextTurn(h[n]) /\ Good(h[n])
    BY <1>2, <1>4, <2>1
  <2>3. Kept(h[n], h[n + 1])
    BY <2>2, TurnKeeps
  <2>4. Works(h[n + 1])
    BY <2>2, TurnWorks
  <2>5. Accounts(h[n + 1], X)
    BY <2>2, TurnAccounts
  <2>6. Kept(d, h[n + 1])
    BY <2>2, <2>3 DEF Kept
  <2>. QED
    BY <2>4, <2>5, <2>6
<1>. HIDE DEF G
<1>5. \A n \in Nat : n \in G
  BY <1>3, <1>4, Reaches
<1>6. Good(h[N])
  BY <1>1, <1>5 DEF G
<1>. QED
  BY <1>2, <1>6
-----------------------------------------------------------------------------
(* Lines thrown away. *)

LEMMA WithoutRuns ==
    ASSUME NEW s \in Seq(Lines), NEW D
    PROVE  \E h \in [0..Len(s) -> Seq(Lines)] :
               /\ h[0] = <<>>
               /\ \A i \in 1..Len(s) : h[i] = IF s[i] \in D THEN h[i - 1] ELSE Append(h[i - 1], s[i])
               /\ Without(s, D) = h[Len(s)]
<1>. DEFINE N == Len(s)
            More(i, t) == IF s[i] \in D THEN t ELSE Append(t, s[i])
            g == [i \in Nat |-> [t \in Seq(Lines) |-> IF i \in 1..N THEN More(i, t) ELSE t]]
<1>1. N \in Nat
  OBVIOUS
<1>2. \A i \in 1..N : \A t \in Seq(Lines) : More(i, t) \in Seq(Lines)
  OBVIOUS
<1>. HIDE DEF More
<1>3. /\ g \in [Nat -> [Seq(Lines) -> Seq(Lines)]]
      /\ \A i \in 1..N : \A t \in Seq(Lines) : g[i][t] = More(i, t)
  BY <1>1, <1>2
<1>. HIDE DEF N, g
<1>4. PICK h : h \in [0..N -> Seq(Lines)] /\ h[0] = <<>> /\ \A i \in 1..N : h[i] = g[i][h[i - 1]]
  <2>1. <<>> \in Seq(Lines)
    OBVIOUS
  <2>2. \E h : Iteration(Seq(Lines), g, <<>>, N, h)
    BY <1>1, <1>3, <2>1, Iterates
  <2>. QED
    BY <2>2 DEF Iteration
<1>5. \A i \in 1..N : h[i] = More(i, h[i - 1])
  <2>1. \A i \in 1..N : h[i - 1] \in Seq(Lines)
    BY <1>1, <1>4
  <2>. QED
    BY <1>3, <1>4, <2>1
<1>6. h = [n \in 0..N |-> IF n = 0 THEN <<>> ELSE More(n, h[n - 1])]
  <2>1. \A n \in 0..N : h[n] = IF n = 0 THEN <<>> ELSE More(n, h[n - 1])
    BY <1>1, <1>4, <1>5
  <2>. QED
    BY <1>4, <2>1
<1>. DEFINE f == CHOOSE f : f = [n \in 0..N |-> IF n = 0 THEN <<>> ELSE More(n, f[n - 1])]
<1>7. f = [n \in 0..N |-> IF n = 0 THEN <<>> ELSE More(n, f[n - 1])]
  BY <1>6, Zenon
<1>8. Without(s, D) = f[N]
  BY Zenon DEF Without, N, More
<1>. HIDE DEF f
<1>9. f[0] = <<>> /\ \A i \in 1..N : f[i] = More(i, f[i - 1])
  BY <1>1, <1>7
<1>10. f \in [0..N -> Seq(Lines)]
  <2>. DEFINE G == {n \in Nat : n <= N => f[n] \in Seq(Lines)}
  <2>0. <<>> \in Seq(Lines)
    OBVIOUS
  <2>1. 0 \in G
    BY <1>9, <2>0
  <2>2. ASSUME NEW n \in Nat, n \in G PROVE n + 1 \in G
    <3>. SUFFICES ASSUME n + 1 <= N PROVE f[n + 1] \in Seq(Lines)
      OBVIOUS
    <3>1. f[n] \in Seq(Lines) /\ f[n + 1] = More(n + 1, f[n]) /\ n + 1 \in 1..N
      BY <1>1, <1>9, <2>2
    <3>. QED
      BY <1>2, <3>1
  <2>. HIDE DEF G
  <2>3. \A n \in Nat : n \in G
    BY <2>1, <2>2, Reaches
  <2>4. \A n \in 0..N : f[n] \in Seq(Lines)
    BY <1>1, <2>3 DEF G
  <2>. QED
    BY <1>7, <2>4
<1>. QED
  BY <1>8, <1>9, <1>10 DEF N, More

\* What is in front of the first line thrown away stays, and of the rest nothing else appears.
LEMMA WithoutIs ==
    ASSUME NEW p \in Seq(Lines), NEW q \in Seq(Lines), NEW D, ToSet(p) \cap D = {}
    PROVE  \E t \in Seq(Lines) : /\ Without(p \o q, D) = p \o t
                                 /\ ToSet(t) \subseteq ToSet(q)
                                 /\ ToSet(q) \subseteq D => t = <<>>
<1>. DEFINE s == p \o q
            L == Len(p)
            M == Len(q)
<1>1. /\ s \in Seq(Lines) /\ L \in Nat /\ M \in Nat /\ Len(s) = L + M
      /\ \A i \in 1..L : s[i] = p[i] /\ s[i] \notin D
      /\ \A i \in 1..M : s[L + i] = q[i]
  BY DEF ToSet
<1>. HIDE DEF s
<1>2. PICK h \in [0..Len(s) -> Seq(Lines)] :
               /\ h[0] = <<>>
               /\ \A i \in 1..Len(s) : h[i] = IF s[i] \in D THEN h[i - 1] ELSE Append(h[i - 1], s[i])
               /\ Without(s, D) = h[Len(s)]
  BY <1>1, WithoutRuns
<1>3. \A n \in Nat : n <= L => h[n] = SubSeq(p, 1, n)
  <2>. DEFINE G == {n \in Nat : n <= L => h[n] = SubSeq(p, 1, n)}
  <2>1. 0 \in G
    BY <1>2, SMTT(40)
  <2>2. ASSUME NEW n \in Nat, n \in G PROVE n + 1 \in G
    <3>. SUFFICES ASSUME n + 1 <= L PROVE h[n + 1] = SubSeq(p, 1, n + 1)
      OBVIOUS
    <3>1. n + 1 \in 1..L /\ n + 1 \in 1..Len(s) /\ (n + 1) - 1 = n
      BY <1>1
    <3>a. s[n + 1] = p[n + 1] /\ s[n + 1] \notin D
      BY <1>1, <3>1
    <3>b. n <= L
      BY <1>1
    <3>c. h[n] = SubSeq(p, 1, n)
      BY <2>2, <3>b
    <3>2. h[n] = SubSeq(p, 1, n) /\ h[n + 1] = Append(h[n], p[n + 1])
      BY <1>2, <3>1, <3>a, <3>c
    <3>3. Append(SubSeq(p, 1, n), p[n + 1]) = SubSeq(p, 1, n + 1)
      BY <3>1
    <3>. QED
      BY <3>2, <3>3
  <2>. HIDE DEF G
  <2>3. \A n \in Nat : n \in G
    BY <2>1, <2>2, Reaches
  <2>. QED
    BY <2>3 DEF G
<1>4. h[L] = p
  <2>1. SubSeq(p, 1, L) = p
    OBVIOUS
  <2>. QED
    BY <1>1, <1>3, <2>1
<1>. DEFINE Rest(n) == \E t \in Seq(Lines) : /\ h[L + n] = p \o t /\ ToSet(t) \subseteq ToSet(q)
                                             /\ ToSet(q) \subseteq D => t = <<>>
            G == {n \in Nat : n <= M => Rest(n)}
<1>. HIDE DEF Rest
<1>5. 0 \in G
  <2>1. <<>> \in Seq(Lines) /\ p \o <<>> = p /\ ToSet(<<>>) = {} /\ L + 0 = L
    BY <1>1 DEF ToSet
  <2>2. Rest(0)
    BY <1>4, <2>1 DEF Rest
  <2>. QED
    BY <2>2
<1>6. ASSUME NEW n \in Nat, n \in G PROVE n + 1 \in G
  <2>. SUFFICES ASSUME n + 1 <= M PROVE Rest(n + 1)
    OBVIOUS
  <2>1. n <= M /\ L + (n + 1) \in 1..Len(s) /\ (L + (n + 1)) - 1 = L + n /\ n + 1 \in 1..M
    BY <1>1
  <2>2. PICK t \in Seq(Lines) : /\ h[L + n] = p \o t /\ ToSet(t) \subseteq ToSet(q)
                                /\ ToSet(q) \subseteq D => t = <<>>
    <3>1. Rest(n)
      BY <1>6, <2>1
    <3>. QED
      BY <3>1 DEF Rest
  <2>. DEFINE x == q[n + 1]
  <2>3. x \in Lines /\ x \in ToSet(q) /\ s[L + (n + 1)] = x
    BY <1>1, <2>1 DEF ToSet
  <2>. HIDE DEF x
  <2>4. h[L + (n + 1)] = IF x \in D THEN p \o t ELSE Append(p \o t, x)
    BY <1>2, <2>1, <2>2, <2>3
  <2>5. Append(p \o t, x) = p \o Append(t, x) /\ Append(t, x) \in Seq(Lines)
    <3>1. <<x>> \in Seq(Lines) /\ p \o t \in Seq(Lines)
      BY <2>3
    <3>2. Append(p \o t, x) = (p \o t) \o <<x>> /\ Append(t, x) = t \o <<x>>
      BY <2>3, <3>1, AppendIsConcat
    <3>3. (p \o t) \o <<x>> = p \o (t \o <<x>>)
      BY <3>1, LineConcat, SMTT(40)
    <3>. QED
      BY <2>3, <3>2, <3>3
  <2>6. ToSet(Append(t, x)) \subseteq ToSet(q)
    <3>1. \A i \in DOMAIN Append(t, x) : Append(t, x)[i] = x \/ Append(t, x)[i] \in ToSet(t)
      BY <2>3 DEF ToSet
    <3>. QED
      BY <2>2, <2>3, <3>1 DEF ToSet
  <2>7. CASE x \in D
    BY <2>2, <2>4, <2>7 DEF Rest
  <2>8. CASE x \notin D
    <3>1. ~ (ToSet(q) \subseteq D)
      BY <2>3, <2>8
    <3>2. h[L + (n + 1)] = p \o Append(t, x)
      BY <2>4, <2>5, <2>8
    <3>. QED
      BY <2>5, <2>6, <3>1, <3>2 DEF Rest
  <2>. QED
    BY <2>7, <2>8
<1>. HIDE DEF G
<1>7. \A n \in Nat : n \in G
  BY <1>5, <1>6, Reaches
<1>8. Rest(M)
  <2>1. M \in G /\ M <= M
    BY <1>1, <1>7
  <2>. QED
    BY <2>1 DEF G
<1>. QED
  BY <1>1, <1>2, <1>8 DEF s, Rest

LEMMA WithoutNone == ASSUME NEW s \in Seq(Lines) PROVE Without(s, {}) = s
<1>1. <<>> \in Seq(Lines) /\ s \o <<>> = s /\ ToSet(<<>>) = {}
  BY DEF ToSet
<1>2. \E t \in Seq(Lines) : Without(s \o <<>>, {}) = s \o t /\ (ToSet(<<>>) \subseteq {} => t = <<>>)
  <2>1. ToSet(s) \cap {} = {}
    OBVIOUS
  <2>. QED
    BY <1>1, <2>1, WithoutIs
<1>. QED
  BY <1>1, <1>2

LEMMA WithoutIn ==
    ASSUME NEW s \in Seq(Lines), NEW D
    PROVE  Without(s, D) \in Seq(Lines) /\ ToSet(Without(s, D)) \subseteq ToSet(s)
<1>1. <<>> \in Seq(Lines) /\ <<>> \o s = s /\ ToSet(<<>>) = {}
  BY DEF ToSet
<1>2. \E t \in Seq(Lines) : Without(<<>> \o s, D) = <<>> \o t /\ ToSet(t) \subseteq ToSet(s)
  <2>1. ToSet(<<>>) \cap D = {}
    BY <1>1
  <2>. QED
    BY <1>1, <2>1, WithoutIs
<1>. QED
  BY <1>1, <1>2
-----------------------------------------------------------------------------
(* The calls the server makes of the driver. *)

LEMMA OnDataServes ==
    ASSUME NEW d \in Slot, Rested(d), d.link = "up", ~d.sink, NEW line \in Lines
    PROVE  LET e == OnData(d, line) IN Kept(d, e) /\ Works(e) /\ Accounts(e, Due(d) \o <<line>>)
<1>. DEFINE b == [d EXCEPT !.buf = Append(@, line)]
            e == Pump(b)
            X == Due(d) \o <<line>>
            o == [e EXCEPT !.drop = @ \cup ToSet(e.buf), !.buf = <<>>]
<1>1. d.buf \in Seq(Lines) /\ Append(d.buf, line) \in Seq(Lines) /\ <<line>> \in Seq(Lines)
  BY DEF Slot
<1>2. b \in Slot
  BY <1>1 DEF Slot
<1>3. /\ b.of = d.of /\ b.warming = d.warming /\ b.age = d.age /\ b.building = d.building /\ b.gen = d.gen
      /\ b.busy = d.busy /\ b.handle = d.handle /\ b.say = d.say /\ b.buf = Append(d.buf, line)
      /\ b.drop = d.drop /\ b.link = d.link
  BY DEF Slot
<1>. HIDE DEF b
<1>a. b.buf \in Seq(Lines) /\ Append(d.buf, line) = d.buf \o <<line>>
  BY <1>1, <1>3, AppendIsConcat
<1>4. X \in Seq(Lines) /\ Due(b) = X
  <2>1. CASE d.busy
    <3>. DEFINE x == d.handle.line
    <3>1. x \in Lines
      BY <2>1 DEF Rested
    <3>2. Due(d) = <<x>> \o d.buf /\ Due(b) = <<x>> \o (d.buf \o <<line>>)
      BY <1>1, <1>3, <1>a, <2>1, DueIs
    <3>. HIDE DEF x
    <3>3. <<x>> \in Seq(Lines) /\ <<x>> \o d.buf \in Seq(Lines)
      BY <1>1, <3>1, LineCons
    <3>4. (<<x>> \o d.buf) \o <<line>> = <<x>> \o (d.buf \o <<line>>)
      BY <1>1, <3>3, LineConcat, ZenonT(60)
    <3>5. (<<x>> \o d.buf) \o <<line>> \in Seq(Lines)
      BY <1>1, <3>3
    <3>. QED
      BY <3>2, <3>4, <3>5
  <2>2. CASE ~d.busy
    <3>1. Due(d) = d.buf /\ Due(b) = d.buf \o <<line>>
      BY <1>1, <1>3, <1>a, <2>2, DueIs
    <3>. QED
      BY <1>1, <3>1
  <2>. QED
    BY <2>1, <2>2
<1>. HIDE DEF X
<1>5. Works(b)
  BY <1>3 DEF Works, Rested
<1>6. Accounts(b, X)
  <2>1. <<>> \in Seq(Lines) /\ ToSet(<<>>) = {} /\ (<<>> \o X) \o <<>> = X
    BY <1>4 DEF ToSet
  <2>2. b.link = "up" /\ b.say = <<>> /\ b.drop = {}
    BY <1>3 DEF Rested
  <2>. QED
    BY <1>4, <2>1, <2>2 DEF Accounts
<1>7. Kept(b, e) /\ Works(e) /\ Accounts(e, X)
  BY <1>2, <1>4, <1>5, <1>6, PumpKeeps
<1>8. Kept(d, e) /\ e \in Slot
  BY <1>3, <1>7 DEF Kept
<1>. HIDE DEF e
<1>9. /\ Kept(e, o) /\ o.busy = e.busy /\ o.handle = e.handle /\ o.buf = <<>> /\ o.say = e.say
      /\ o.drop = e.drop \cup ToSet(e.buf) /\ o.link = e.link
  <2>. DEFINE D == e.drop \cup ToSet(e.buf)
  <2>1. o = [e EXCEPT !.drop = D, !.buf = <<>>]
    BY <1>8 DEF Slot
  <2>2. D \in SUBSET Lines /\ <<>> \in Seq(Lines)
    BY <1>8 DEF Slot, ToSet
  <2>3. o.busy = e.busy /\ o.handle = e.handle /\ o.buf = <<>> /\ o.say = e.say
        /\ o.drop = D /\ o.link = e.link /\ o.gen = e.gen
        /\ o.of = e.of /\ o.warming = e.warming /\ o.age = e.age /\ o.building = e.building
    BY <1>8 DEF Slot
  <2>. HIDE DEF D
  <2>4. o \in Slot
    BY <1>8, <2>1, <2>2 DEF Slot
  <2>. QED
    BY <2>3, <2>4 DEF Kept, D
<1>. HIDE DEF o
<1>10. /\ Kept(o, Close(o)) /\ Close(o).busy = o.busy /\ Close(o).handle = o.handle /\ Close(o).buf = <<>>
       /\ Close(o).say = o.say /\ Close(o).drop = o.drop /\ Close(o).link # "up"
  BY <1>9, CloseKeeps DEF Kept
<1>11. Kept(d, Close(o)) /\ Works(Close(o))
  BY <1>7, <1>8, <1>9, <1>10 DEF Kept, Works
<1>12. Accounts(Close(o), X)
  <2>1. PICK q \in Seq(Lines) :
            IF e.link = "up" THEN X = (e.say \o Due(e)) \o q /\ e.drop = ToSet(q)
            ELSE X = e.say \o q /\ e.drop \cup ToSet(e.buf) \subseteq ToSet(q)
    BY <1>7 DEF Accounts
  <2>2. \E r \in Seq(Lines) : X = e.say \o r /\ e.drop \cup ToSet(e.buf) \subseteq ToSet(r)
    <3>1. CASE e.link = "up"
      <4>1. e.say \in Seq(Lines) /\ e.buf \in Seq(Lines)
        BY <1>8 DEF Slot
      <4>2. Due(e) \in Seq(Lines) /\ ToSet(e.buf) \subseteq ToSet(Due(e))
        BY <1>7, <4>1, DueIs DEF Works
      <4>3. Due(e) \o q \in Seq(Lines) /\ ToSet(Due(e) \o q) = ToSet(Due(e)) \cup ToSet(q)
        BY <4>2, ToSetConcat
      <4>4. (e.say \o Due(e)) \o q = e.say \o (Due(e) \o q)
        BY <4>1, <4>2, LineConcat
      <4>. QED
        BY <2>1, <3>1, <4>2, <4>3, <4>4
    <3>2. CASE e.link # "up"
      BY <2>1, <3>2
    <3>. QED
      BY <3>1, <3>2
  <2>3. ToSet(<<>>) = {}
    BY DEF ToSet
  <2>. QED
    BY <1>9, <1>10, <2>2, <2>3 DEF Accounts
<1>13. OnData(d, line) \in {e, Close(o)}
  BY DEF OnData, e, o, b
<1>. QED
  BY <1>7, <1>8, <1>11, <1>12, <1>13 DEF X

LEMMA SettledIs ==
    ASSUME NEW d \in Slot
    PROVE  LET e == [d EXCEPT !.busy = FALSE, !.handle = NoHandle]
           IN  /\ Kept(d, e) /\ ~e.busy /\ e.handle = NoHandle /\ e.link = d.link
               /\ e.say = d.say /\ e.drop = d.drop /\ e.buf = d.buf
<1>. DEFINE e == [d EXCEPT !.busy = FALSE, !.handle = NoHandle]
<1>1. NoHandle \in Handle
  BY DEF NoHandle, Handle
<1>2. e \in Slot
  BY <1>1 DEF Slot
<1>3. /\ e.of = d.of /\ e.warming = d.warming /\ e.age = d.age /\ e.building = d.building /\ e.gen = d.gen
      /\ ~e.busy /\ e.handle = NoHandle /\ e.say = d.say /\ e.buf = d.buf
      /\ e.drop = d.drop /\ e.link = d.link
  BY DEF Slot
<1>. HIDE DEF e
<1>4. Kept(d, e)
  BY <1>2, <1>3 DEF Kept
<1>. QED
  BY <1>3, <1>4 DEF e

\* The lines a session whose line is answered has left.
Left(d) == IF d.link = "up" THEN Due(d) ELSE d.buf

LEMMA SettleServes ==
    ASSUME NEW d \in Slot, Rested(d), d.link \in {"up", "closing"}, d.busy, NEW e \in {Resolve(d), Reject(d)}
    PROVE  Kept(d, e) /\ Works(e) /\ Left(d) \in Seq(Lines) /\ Accounts(e, Left(d))
<1>. DEFINE f == [d EXCEPT !.busy = FALSE, !.handle = NoHandle]
            line == d.handle.line
<1>1. d.handle.gen = d.gen /\ line \in Lines /\ d.say = <<>> /\ d.drop = {} /\ <<line>> \in Seq(Lines)
  BY DEF Rested
<1>2. Kept(d, f) /\ ~f.busy /\ f.handle = NoHandle /\ f.link = d.link /\ f.say = <<>> /\ f.drop = {} /\ f.buf = d.buf
  BY <1>1, SettledIs
<1>3. f \in Slot /\ d.buf \in Seq(Lines)
  BY <1>2 DEF Slot, Kept
<1>4. Left(d) \in Seq(Lines) /\ ToSet(d.buf) \subseteq ToSet(Left(d)) /\ Left(d) = IF d.link = "up" THEN <<line>> \o d.buf ELSE d.buf
  <2>1. Left(d) = IF d.link = "up" THEN <<line>> \o d.buf ELSE d.buf
    BY DEF Left, Due
  <2>. HIDE DEF line
  <2>2. <<line>> \o d.buf \in Seq(Lines) /\ ToSet(d.buf) \subseteq ToSet(<<line>> \o d.buf)
    BY <1>1, <1>3, LineCons
  <2>. QED
    BY <1>3, <2>1, <2>2
<1>5. Resolve(d) = Pump(Apply(f, line)) /\ Reject(d) = Close(f)
  BY <1>1 DEF Resolve, Reject
<1>. HIDE DEF f, line
<1>6. CASE e = Resolve(d)
  <2>1. Kept(f, Apply(f, line)) /\ ~Apply(f, line).busy /\ Apply(f, line).handle = NoHandle
    BY <1>1, <1>2, <1>3, ApplyKeeps
  <2>2. \E q \in Seq(Lines) :
           IF f.link = "up" THEN Left(d) = (f.say \o (<<line>> \o f.buf)) \o q /\ f.drop = ToSet(q)
           ELSE Left(d) = f.say \o q /\ f.drop \cup ToSet(f.buf) \subseteq ToSet(q)
    <3>0. <<>> \in Seq(Lines) /\ ToSet(<<>>) = {}
      BY DEF ToSet
    <3>1. CASE d.link = "up"
      <4>1. (<<>> \o Left(d)) \o <<>> = Left(d)
        BY <1>4
      <4>. QED
        BY <1>2, <1>4, <3>0, <3>1, <4>1
    <3>2. CASE d.link # "up"
      <4>1. <<>> \o Left(d) = Left(d)
        BY <1>4
      <4>. QED
        BY <1>2, <1>4, <3>0, <3>2, <4>1
    <3>. QED
      BY <3>1, <3>2
  <2>3. Accounts(Apply(f, line), Left(d))
    BY <1>1, <1>2, <1>3, <1>4, <2>2, ApplyAccounts
  <2>4. Apply(f, line) \in Slot /\ Works(Apply(f, line))
    BY <2>1 DEF Kept, Works
  <2>5. Kept(Apply(f, line), e) /\ Works(e) /\ Accounts(e, Left(d))
    BY <1>4, <1>5, <1>6, <2>3, <2>4, PumpKeeps
  <2>. QED
    BY <1>2, <1>4, <2>1, <2>5 DEF Kept
<1>7. CASE e = Reject(d)
  <2>1. /\ Kept(f, e) /\ e.busy = f.busy /\ e.handle = f.handle /\ e.say = f.say /\ e.buf = f.buf
        /\ e.drop = f.drop /\ e.link # "up"
    BY <1>3, <1>5, <1>7, CloseKeeps
  <2>2. <<>> \o Left(d) = Left(d)
    BY <1>4
  <2>3. Accounts(e, Left(d))
    BY <1>2, <1>4, <2>1, <2>2 DEF Accounts
  <2>. QED
    BY <1>2, <1>4, <2>1, <2>3 DEF Kept, Works
<1>. QED
  BY <1>6, <1>7

\* An answer that comes after its session is not heard: the slot is forgotten.
LEMMA LateSettles ==
    ASSUME NEW d \in Slot, Rested(d), d.link = "down", NEW e \in {Resolve(d), Reject(d)}
    PROVE  Collect(e) = NewSlot /\ e.of = d.of /\ e.say = <<>> /\ e.drop = {}
<1>. DEFINE f == [d EXCEPT !.busy = FALSE, !.handle = NoHandle]
<1>1. d.handle.gen # d.gen
  BY DEF Rested, Slot, Handle
<1>2. Kept(d, f) /\ f.handle = NoHandle /\ f.link = d.link /\ f.say = d.say /\ f.drop = d.drop
  BY SettledIs
<1>3. e = f
  BY <1>1 DEF Resolve, Reject
<1>. HIDE DEF f
<1>. QED
  BY <1>2, <1>3 DEF Collect, Kept, Rested
-----------------------------------------------------------------------------
(* Every link that is not down is under its caller's key: the server's steps. *)

LEMMA SlotsIs == Slots \in SUBSET Nat /\ 0 \notin Slots /\ \A n \in Nat : n \in Slots <=> 1 <= n /\ n <= MaxCalls + MaxRepeats
  BY ServerAssumption DEF Slots

LEMMA UseIs ==
    ASSUME Types, NEW e \in {"call", "line", "repeat"}, Use(e)
    PROVE  /\ used' \in [{"call", "line", "repeat"} -> Nat] /\ used'["call"] <= MaxCalls /\ used'["repeat"] <= MaxRepeats
           /\ used'[e] = used[e] + 1 /\ \A x \in {"call", "line", "repeat"} \ {e} : used'[x] = used[x]
<1>1. used[e] < Bounds[e] /\ used' = [used EXCEPT ![e] = used[e] + 1]
  BY DEF Use
<1>2. Bounds["call"] = MaxCalls /\ Bounds["repeat"] = MaxRepeats
  BY DEF Bounds
<1>3. used \in [{"call", "line", "repeat"} -> Nat] /\ used["call"] <= MaxCalls /\ used["repeat"] <= MaxRepeats
  BY DEF Types
<1>4. e = "call" => used["call"] + 1 <= MaxCalls
  BY <1>1, <1>2, <1>3, ServerAssumption
<1>5. e = "repeat" => used["repeat"] + 1 <= MaxRepeats
  BY <1>1, <1>2, <1>3, ServerAssumption
<1>. QED
  BY <1>1, <1>3, <1>4, <1>5

\* One slot changes.
LEMMA OneSlot ==
    ASSUME ServerInv, NEW s \in Slots, NEW d \in Slot, Rested(d), slot' = [slot EXCEPT ![s] = d]
    PROVE  /\ slot' \in [Slots -> Slot] /\ Resting'
           /\ slot'[s] = d /\ \A t \in Slots \ {s} : slot'[t] = slot[t]
<1>1. slot \in [Slots -> Slot] /\ \A t \in Slots : Rested(slot[t])
  BY DEF ServerInv, Types, Resting
<1>2. slot' \in [Slots -> Slot] /\ slot'[s] = d /\ \A t \in Slots \ {s} : slot'[t] = slot[t]
  BY <1>1
<1>3. \A t \in Slots : Rested(slot'[t])
  BY <1>1, <1>2
<1>. QED
  BY <1>2, <1>3 DEF Resting

\* A slot that is in use is not a new one.
LEMMA InUse ==
    ASSUME NEW d, d.building \/ d.link # "none"
    PROVE  d # NewSlot
  BY NewSlotIs

\* The slot under a key, and the links that are up, as a step leaves them: slot s becomes d.
LEMMA SlotStays ==
    ASSUME ServerInv, NEW s \in Slots, NEW d \in Slot, Rested(d), slot' = [slot EXCEPT ![s] = d],
           slot[s] # NewSlot, d.of = slot[s].of, d.building = slot[s].building,
           d.link = slot[s].link \/ (slot[s].link \in {"up", "closing"} /\ d.link \in {"up", "closing"}),
           sessions' = sessions, overtaken' = overtaken,
           used' \in [{"call", "line", "repeat"} -> Nat],
           used'["call"] >= used["call"], used'["repeat"] >= used["repeat"]
    PROVE  /\ sessions' \in [Caller -> Slots \cup {None}] /\ slot' \in [Slots -> Slot]
           /\ Resting' /\ Keyed' /\ Roomy' /\ NoOrphan'
<1>1. /\ slot' \in [Slots -> Slot] /\ Resting'
      /\ slot'[s] = d /\ \A t \in Slots \ {s} : slot'[t] = slot[t]
  BY OneSlot
<1>2. /\ sessions \in [Caller -> Slots \cup {None}] /\ used \in [{"call", "line", "repeat"} -> Nat]
      /\ Keyed /\ Roomy /\ NoOrphan
  BY DEF ServerInv, Types
<1>3. Keyed'
  BY <1>1, <1>2 DEF Keyed, None
<1>4. Roomy'
  <2>1. \A t \in Slots : slot'[t] # NewSlot => slot[t] # NewSlot
    BY <1>1
  <2>2. used["call"] + used["repeat"] <= used'["call"] + used'["repeat"]
    BY <1>2
  <2>3. used["call"] + used["repeat"] \in Nat /\ used'["call"] + used'["repeat"] \in Nat
    BY <1>2
  <2>4. \A t \in Slots : t \in Nat
    BY SlotsIs
  <2>5. \A t \in Slots : slot[t] # NewSlot => t <= used["call"] + used["repeat"]
    BY <1>2 DEF Roomy
  <2>6. ASSUME NEW t \in Slots, slot'[t] # NewSlot PROVE t <= used'["call"] + used'["repeat"]
    BY <2>1, <2>2, <2>3, <2>4, <2>5, <2>6
  <2>. QED
    BY <2>6 DEF Roomy
<1>5. NoOrphan'
  BY <1>1, <1>2 DEF NoOrphan
<1>. QED
  BY <1>1, <1>2, <1>3, <1>4, <1>5

\* The key of a slot is its caller's.
LEMMA KeyOf ==
    ASSUME ServerInv, NEW c \in Caller, sessions[c] # None
    PROVE  /\ sessions[c] \in Slots /\ slot[sessions[c]] \in Slot /\ Rested(slot[sessions[c]])
           /\ slot[sessions[c]].of = c /\ slot[sessions[c]].link # "down"
           /\ slot[sessions[c]].link # "none" \/ slot[sessions[c]].building
           /\ slot[sessions[c]] # NewSlot
<1>1. sessions[c] \in Slots /\ slot[sessions[c]] \in Slot
  BY DEF ServerInv, Types
<1>2. /\ slot[sessions[c]].of = c /\ slot[sessions[c]].link # "down"
      /\ slot[sessions[c]].link # "none" \/ slot[sessions[c]].building
  BY DEF ServerInv, Keyed
<1>. QED
  BY <1>1, <1>2, InUse DEF ServerInv, Resting

\* Slot s has no link any more, and no key.
LEMMA SlotEnds ==
    ASSUME ServerInv, NEW s \in Slots, NEW d \in Slot, Rested(d), slot' = [slot EXCEPT ![s] = d],
           d = NewSlot \/ slot[s] # NewSlot, d.link \in {"none", "down"},
           sessions' \in [Caller -> Slots \cup {None}],
           \A x \in Caller : /\ sessions'[x] # s /\ sessions'[x] \in {None, sessions[x]}
                             /\ sessions'[x] = sessions[x] \/ sessions[x] = s \/ x \in overtaken',
           overtaken \subseteq overtaken', used' = used
    PROVE  slot' \in [Slots -> Slot] /\ Resting' /\ Keyed' /\ Roomy' /\ NoOrphan'
<1>1. /\ slot' \in [Slots -> Slot] /\ Resting'
      /\ slot'[s] = d /\ \A t \in Slots \ {s} : slot'[t] = slot[t]
  BY OneSlot
<1>2. /\ sessions \in [Caller -> Slots \cup {None}] /\ slot \in [Slots -> Slot]
      /\ Keyed /\ Roomy /\ NoOrphan
  BY DEF ServerInv, Types
<1>3. Keyed'
  <2>. SUFFICES ASSUME NEW x \in Caller, sessions'[x] # None
                PROVE  LET y == slot'[sessions'[x]] IN
                           y.of = x /\ y.link # "down" /\ (y.link # "none" \/ y.building)
    BY DEF Keyed
  <2>0. sessions'[x] = sessions[x] /\ sessions'[x] # s
    OBVIOUS
  <2>1. sessions[x] \in Slots \ {s} /\ sessions'[x] = sessions[x]
    BY <1>2, <2>0
  <2>2. LET y == slot[sessions[x]] IN y.of = x /\ y.link # "down" /\ (y.link # "none" \/ y.building)
    BY <1>2, <2>1 DEF Keyed
  <2>. QED
    BY <1>1, <2>1, <2>2
<1>4. Roomy'
  <2>1. \A t \in Slots : slot'[t] # NewSlot => slot[t] # NewSlot
    BY <1>1
  <2>. QED
    BY <1>2, <2>1 DEF Roomy
<1>5. NoOrphan'
  <2>. SUFFICES ASSUME NEW t \in Slots, slot'[t].link \in {"up", "closing"}
                PROVE  sessions'[slot'[t].of] = t \/ slot'[t].of \in overtaken'
    BY DEF NoOrphan
  <2>1. t # s /\ slot'[t] = slot[t]
    BY <1>1
  <2>2. sessions[slot[t].of] = t \/ slot[t].of \in overtaken
    BY <1>2, <2>1 DEF NoOrphan
  <2>3. slot[t].of \in Caller
    BY <1>2 DEF Slot
  <2>. QED
    BY <2>1, <2>2, <2>3
<1>. QED
  BY <1>1, <1>3, <1>4, <1>5

\* Slot s comes to have a link, under its caller's key unless another is there.
LEMMA SlotLinks ==
    ASSUME ServerInv, NEW s \in Slots, NEW d \in Slot, Rested(d), slot' = [slot EXCEPT ![s] = d],
           slot[s].building, d.link = "up", d.of = slot[s].of,
           sessions[d.of] = s \/ d.of \in overtaken', overtaken \subseteq overtaken',
           sessions' = sessions, used' = used
    PROVE  slot' \in [Slots -> Slot] /\ Resting' /\ Keyed' /\ Roomy' /\ NoOrphan'
<1>1. /\ slot' \in [Slots -> Slot] /\ Resting'
      /\ slot'[s] = d /\ \A t \in Slots \ {s} : slot'[t] = slot[t]
  BY OneSlot
<1>2. /\ sessions \in [Caller -> Slots \cup {None}] /\ slot \in [Slots -> Slot]
      /\ Keyed /\ Roomy /\ NoOrphan
  BY DEF ServerInv, Types
<1>3. Keyed'
  <2>. SUFFICES ASSUME NEW x \in Caller, sessions[x] # None
                PROVE  LET y == slot'[sessions[x]] IN
                           y.of = x /\ y.link # "down" /\ (y.link # "none" \/ y.building)
    BY DEF Keyed
  <2>1. sessions[x] \in Slots
    BY <1>2
  <2>2. LET y == slot[sessions[x]] IN y.of = x /\ y.link # "down" /\ (y.link # "none" \/ y.building)
    BY <1>2 DEF Keyed
  <2>3. CASE sessions[x] = s
    BY <1>1, <2>2, <2>3
  <2>4. CASE sessions[x] # s
    BY <1>1, <2>1, <2>2, <2>4
  <2>. QED
    BY <2>3, <2>4
<1>4. Roomy'
  <2>1. \A t \in Slots : slot'[t] # NewSlot => slot[t] # NewSlot
    BY <1>1, InUse
  <2>. QED
    BY <1>2, <2>1 DEF Roomy
<1>5. NoOrphan'
  BY <1>1, <1>2 DEF NoOrphan
<1>. QED
  BY <1>1, <1>3, <1>4, <1>5

\* open(): there is a free slot, and the first one is taken.
LEMMA OpenKeeps ==
    ASSUME ServerInv, NEW c \in Caller, Open(c), sessions[c] = None, overtaken' = overtaken,
           used' \in [{"call", "line", "repeat"} -> Nat],
           used'["call"] + used'["repeat"] = used["call"] + used["repeat"] + 1,
           used'["call"] + used'["repeat"] <= MaxCalls + MaxRepeats
    PROVE  /\ sessions' \in [Caller -> Slots \cup {None}] /\ slot' \in [Slots -> Slot]
           /\ Resting' /\ Keyed' /\ Roomy' /\ NoOrphan'
           /\ sessions'[c] \in Slots /\ Quiet(slot'[sessions'[c]]) /\ slot'[sessions'[c]].link = "none"
           /\ \A x \in Caller \ {c} : sessions'[x] = sessions[x]
           /\ \A t \in Slots : slot[t] # NewSlot => slot'[t] = slot[t]
<1>. DEFINE F == {t \in Slots : slot[t] = NewSlot}
            s == Min(F)
            d == [NewSlot EXCEPT !.of = c, !.warming = TRUE, !.building = TRUE]
            n == used["call"] + used["repeat"]
<1>0. /\ sessions \in [Caller -> Slots \cup {None}] /\ slot \in [Slots -> Slot]
      /\ used \in [{"call", "line", "repeat"} -> Nat] /\ n \in Nat
      /\ Keyed /\ Roomy /\ NoOrphan
  BY DEF ServerInv, Types
<1>1. n + 1 \in F
  <2>1. n + 1 <= MaxCalls + MaxRepeats
    BY <1>0
  <2>2. n + 1 \in Slots
    BY <1>0, <2>1, SlotsIs
  <2>3. ~ (n + 1 <= n)
    BY <1>0
  <2>. QED
    BY <1>0, <2>2, <2>3 DEF Roomy
<1>2. s \in F /\ s <= n + 1
  <2>1. F \in SUBSET Nat /\ F # {}
    BY <1>1, SlotsIs
  <2>. HIDE DEF F
  <2>. QED
    BY <1>1, <2>1, MinIn
<1>3. s \in Slots /\ s # None /\ slot[s] = NewSlot
  BY <1>2, SlotsIs DEF None
<1>4. d \in Slot /\ d.of = c /\ d.building /\ d.link = "none" /\ Quiet(d) /\ Rested(d)
  <2>1. NewSlot \in Slot /\ Rested(NewSlot) /\ NewSlot.link = "none"
    BY NewSlotIs
  <2>2. d \in Slot
    BY <2>1 DEF Slot
  <2>3. /\ d.of = c /\ d.building /\ d.link = NewSlot.link /\ d.buf = NewSlot.buf /\ d.busy = NewSlot.busy
        /\ d.sink = NewSlot.sink /\ d.say = NewSlot.say /\ d.drop = NewSlot.drop /\ d.handle = NewSlot.handle
        /\ d.gen = NewSlot.gen
    BY <2>1 DEF Slot
  <2>. HIDE DEF d
  <2>. QED
    BY <2>1, <2>2, <2>3 DEF Rested, Quiet
<1>5. sessions' = [sessions EXCEPT ![c] = s] /\ slot' = [slot EXCEPT ![s] = d]
  BY DEF Open
<1>. HIDE DEF s, d, F
<1>6. /\ slot' \in [Slots -> Slot] /\ Resting'
      /\ slot'[s] = d /\ \A t \in Slots \ {s} : slot'[t] = slot[t]
  BY <1>3, <1>4, <1>5, OneSlot
<1>7. /\ sessions' \in [Caller -> Slots \cup {None}] /\ sessions'[c] = s
      /\ \A x \in Caller \ {c} : sessions'[x] = sessions[x]
  BY <1>0, <1>3, <1>5
<1>8. \A x \in Caller : sessions[x] # s
  BY <1>3, KeyOf
<1>9. Keyed'
  BY <1>0, <1>3, <1>4, <1>6, <1>7, <1>8 DEF Keyed, None
<1>10. Roomy'
  <2>. SUFFICES ASSUME NEW t \in Slots, slot'[t] # NewSlot PROVE t <= n + 1
    BY DEF Roomy
  <2>1. CASE t = s
    BY <1>2, <2>1
  <2>2. CASE t # s
    <3>1. t <= n /\ t \in Nat
      BY <1>0, <1>6, <2>2, SlotsIs DEF Roomy
    <3>. QED
      BY <1>0, <3>1
  <2>. QED
    BY <2>1, <2>2
<1>11. NoOrphan'
  <2>. SUFFICES ASSUME NEW t \in Slots, slot'[t].link \in {"up", "closing"}
                PROVE  sessions'[slot'[t].of] = t \/ slot'[t].of \in overtaken'
    BY DEF NoOrphan
  <2>1. t # s /\ slot'[t] = slot[t] /\ slot[t].of \in Caller
    BY <1>0, <1>4, <1>6 DEF Slot
  <2>2. sessions[slot[t].of] = t \/ slot[t].of \in overtaken
    BY <1>0, <2>1 DEF NoOrphan
  <2>3. t # None
    BY SlotsIs DEF None
  <2>4. sessions[slot[t].of] = t => slot[t].of # c
    BY <2>3
  <2>. QED
    BY <1>7, <2>1, <2>2, <2>4
<1>. QED
  BY <1>3, <1>4, <1>6, <1>7, <1>9, <1>10, <1>11

LEMMA UaTypes ==
    ASSUME peer \in [Caller -> {"idle", "calling", "up"}], NEW c \in Caller, NEW p \in {"idle", "calling", "up"}, Ua(c, p)
    PROVE  /\ peer' \in [Caller -> {"idle", "calling", "up"}]
           /\ peer'[c] = p \/ (p = "calling" /\ peer'[c] = "up")
           /\ \A x \in Caller \ {c} : peer'[x] = peer[x]
<1>. DEFINE u == IF p = "calling" THEN "up" ELSE p
<1>1. u \in {"idle", "calling", "up"}
  OBVIOUS
<1>2. peer' = [peer EXCEPT ![c] = p] \/ peer' = [peer EXCEPT ![c] = u]
  BY DEF Ua
<1>3. CASE peer' = [peer EXCEPT ![c] = p]
  BY <1>3
<1>4. CASE peer' = [peer EXCEPT ![c] = u]
  BY <1>1, <1>4
<1>. QED
  BY <1>2, <1>3, <1>4

\* A link that is set up again, from up or from closing.
LEMMA RelinkIs ==
    ASSUME NEW d \in Slot, Rested(d), d.link \in {"up", "closing"}
    PROVE  LET e == [d EXCEPT !.link = "up"] IN
               /\ e \in Slot /\ Rested(e) /\ e.link = "up" /\ e.of = d.of /\ e.building = d.building
               /\ e.buf = d.buf /\ e.busy = d.busy /\ e.sink = d.sink /\ e.handle = d.handle
<1>. DEFINE e == [d EXCEPT !.link = "up"]
<1>1. e \in Slot
  BY DEF Slot
<1>2. /\ e.of = d.of /\ e.warming = d.warming /\ e.building = d.building /\ e.gen = d.gen
      /\ e.busy = d.busy /\ e.handle = d.handle /\ e.say = d.say /\ e.buf = d.buf
      /\ e.drop = d.drop /\ e.sink = d.sink /\ e.link = "up"
  BY DEF Slot
<1>. HIDE DEF e
<1>3. Rested(e)
  BY <1>2 DEF Rested
<1>. QED
  BY <1>1, <1>2, <1>3 DEF e

LEMMA SabmKeeps ==
    ASSUME ServerInv, NEW c \in Caller, OnSabm(c), overtaken' = overtaken, NEW e \in {"call", "repeat"}, Use(e)
    PROVE  /\ sessions' \in [Caller -> Slots \cup {None}] /\ slot' \in [Slots -> Slot]
           /\ Resting' /\ Keyed' /\ Roomy' /\ NoOrphan'
           /\ peer' \in [Caller -> {"idle", "calling", "up"}]
           /\ used' \in [{"call", "line", "repeat"} -> Nat] /\ used'["call"] <= MaxCalls /\ used'["repeat"] <= MaxRepeats
           /\ used'["line"] = used["line"]
<1>0. Types
  BY DEF ServerInv
<1>1. /\ used' \in [{"call", "line", "repeat"} -> Nat] /\ used'["call"] <= MaxCalls /\ used'["repeat"] <= MaxRepeats
      /\ used'[e] = used[e] + 1 /\ \A x \in {"call", "line", "repeat"} \ {e} : used'[x] = used[x]
  BY <1>0, UseIs
<1>2. used \in [{"call", "line", "repeat"} -> Nat]
  BY <1>0 DEF Types
<1>3. /\ used'["call"] + used'["repeat"] = used["call"] + used["repeat"] + 1 /\ used'["line"] = used["line"]
      /\ used'["call"] >= used["call"] /\ used'["repeat"] >= used["repeat"]
      /\ used'["call"] + used'["repeat"] <= MaxCalls + MaxRepeats
  BY <1>1, <1>2, ServerAssumption
<1>4. CASE sessions[c] # None /\ slot[sessions[c]].link # "none"
  <2>. DEFINE s == sessions[c]
              d == [slot[s] EXCEPT !.link = "up"]
  <2>1. slot' = [slot EXCEPT ![s] = d] /\ Ua(c, "calling") /\ sessions' = sessions
    BY <1>4 DEF OnSabm
  <2>2. s \in Slots /\ slot[s] \in Slot /\ Rested(slot[s]) /\ slot[s].link # "down" /\ slot[s] # NewSlot
    BY <1>4, KeyOf
  <2>3. slot[s].link \in {"up", "closing"}
    BY <1>4, <2>2 DEF Slot
  <2>4. d \in Slot /\ Rested(d) /\ d.link = "up" /\ d.of = slot[s].of /\ d.building = slot[s].building
    BY <2>2, <2>3, RelinkIs
  <2>. HIDE DEF d, s
  <2>5. /\ sessions' \in [Caller -> Slots \cup {None}] /\ slot' \in [Slots -> Slot]
        /\ Resting' /\ Keyed' /\ Roomy' /\ NoOrphan'
    BY <1>1, <1>3, <2>1, <2>2, <2>3, <2>4, SlotStays
  <2>6. peer' \in [Caller -> {"idle", "calling", "up"}]
    BY <1>0, <2>1, UaTypes DEF Types
  <2>. QED
    BY <1>1, <1>3, <2>5, <2>6
<1>5. CASE ~ (sessions[c] # None /\ slot[sessions[c]].link # "none")
  <2>1. /\ peer' = [peer EXCEPT ![c] = "calling"]
        /\ IF sessions[c] # None \/ Cardinality(Live) >= MaxSessions THEN UNCHANGED <<sessions, slot>> ELSE Open(c)
    BY <1>5 DEF OnSabm
  <2>2. peer' \in [Caller -> {"idle", "calling", "up"}]
    BY <1>0, <2>1 DEF Types
  <2>3. CASE UNCHANGED <<sessions, slot>>
    <3>1. Roomy'
      <4>1. \A t \in Slots : slot[t] # NewSlot => t <= used["call"] + used["repeat"]
        BY DEF ServerInv, Roomy
      <4>2. \A t \in Slots : t \in Nat
        BY SlotsIs
      <4>3. ASSUME NEW t \in Slots, slot'[t] # NewSlot PROVE t <= used'["call"] + used'["repeat"]
        BY <1>1, <1>2, <1>3, <2>3, <4>1, <4>2, <4>3
      <4>. QED
        BY <4>3 DEF Roomy
    <3>. QED
      BY <1>0, <1>1, <1>3, <2>2, <2>3, <3>1 DEF ServerInv, Types, Resting, Keyed, NoOrphan
  <2>4. CASE sessions[c] = None /\ Open(c)
    BY <1>1, <1>3, <2>2, <2>4, OpenKeeps
  <2>. QED
    BY <2>1, <2>3, <2>4
<1>. QED
  BY <1>4, <1>5

\* The histories of a caller whose call ends are empty.
LEMMA EndCallIs ==
    ASSUME Types, NEW c \in Caller, EndCall(c)
    PROVE  /\ typed' \in [Caller -> Seq(Lines)] /\ got' \in [Caller -> Seq(Lines)]
           /\ typed'[c] = <<>> /\ got'[c] = <<>>
           /\ \A x \in Caller \ {c} : typed'[x] = typed[x] /\ got'[x] = got[x]
<1>1. <<>> \in Seq(Lines)
  OBVIOUS
<1>. QED
  BY <1>1 DEF EndCall, Types

LEMMA CallsKeep ==
    ASSUME ServerInv, NEW c \in Caller, Call(c) \/ Repeat(c)
    PROVE  ServerInv'
<1>0. Types
  BY DEF ServerInv
<1>1. CASE Call(c)
  <2>1. Use("call") /\ OnSabm(c) /\ EndCall(c) /\ overtaken' = overtaken
    BY <1>1 DEF Call
  <2>2. recalled' \subseteq Caller
    BY <1>0, <1>1 DEF Call, Types
  <2>3. typed' \in [Caller -> Seq(Lines)] /\ got' \in [Caller -> Seq(Lines)]
    BY <1>0, <2>1, EndCallIs
  <2>. QED
    BY <1>0, <2>1, <2>2, <2>3, SabmKeeps DEF ServerInv, Types
<1>2. CASE Repeat(c)
  <2>1. Use("repeat") /\ OnSabm(c) /\ UNCHANGED <<typed, got, overtaken, recalled>>
    BY <1>2 DEF Repeat, history
  <2>. QED
    BY <1>0, <2>1, SabmKeeps DEF ServerInv, Types
<1>. QED
  BY <1>1, <1>2

LEMMA VanishKeeps ==
    ASSUME ServerInv, NEW c \in Caller, Vanish(c)
    PROVE  ServerInv'
<1>0. Types
  BY DEF ServerInv
<1>1. EndCall(c) /\ UNCHANGED <<sessions, slot, overtaken, recalled, used>> /\ peer' = [peer EXCEPT ![c] = "idle"]
  BY DEF Vanish
<1>2. typed' \in [Caller -> Seq(Lines)] /\ got' \in [Caller -> Seq(Lines)]
  BY <1>0, <1>1, EndCallIs
<1>3. Types'
  BY <1>0, <1>1, <1>2 DEF Types
<1>. QED
  BY <1>1, <1>3 DEF ServerInv, Resting, Keyed, Roomy, NoOrphan

LEMMA ReapKeeps ==
    ASSUME ServerInv, NEW c \in Caller, Reap(c)
    PROVE  ServerInv'
<1>0. Types
  BY DEF ServerInv
<1>1. /\ sessions[c] # None /\ slot[sessions[c]].warming /\ sessions' = [sessions EXCEPT ![c] = None]
      /\ UNCHANGED <<slot, peer, typed, got, overtaken, recalled, used>>
  BY DEF Reap, history
<1>2. Types'
  BY <1>0, <1>1 DEF Types
<1>3. slot[sessions[c]].link = "none"
  BY <1>1, KeyOf DEF Rested
<1>4. Keyed'
  BY <1>0, <1>1 DEF ServerInv, Keyed, Types
<1>5. NoOrphan'
  <2>. SUFFICES ASSUME NEW t \in Slots, slot[t].link \in {"up", "closing"}
                PROVE  sessions'[slot[t].of] = t \/ slot[t].of \in overtaken
    BY <1>1 DEF NoOrphan
  <2>1. sessions[slot[t].of] = t \/ slot[t].of \in overtaken
    BY DEF ServerInv, NoOrphan
  <2>2. slot[t].of \in Caller
    BY <1>0 DEF Types, Slot
  <2>3. sessions[slot[t].of] = t => slot[t].of # c
    BY <1>3
  <2>. QED
    BY <1>0, <1>1, <2>1, <2>2, <2>3 DEF Types
<1>. QED
  BY <1>1, <1>2, <1>4, <1>5 DEF ServerInv, Resting, Roomy

LEMMA BuiltKeeps ==
    ASSUME ServerInv, NEW s \in Slots, Built(s) \/ BuildFails(s)
    PROVE  ServerInv'
<1>. DEFINE c == slot[s].of
<1>0. Types /\ slot[s] \in Slot /\ Rested(slot[s]) /\ c \in Caller /\ s # None /\ NewSlot \in Slot /\ Rested(NewSlot)
  BY SlotsIs, NewSlotIs DEF ServerInv, Types, Resting, Slot, None
<1>1. slot[s].building /\ slot[s].link = "none"
  BY <1>0 DEF Built, BuildFails, Rested
<1>2. overtaken' = (IF sessions[c] \notin {None, s} THEN overtaken \cup {c} ELSE overtaken)
  BY DEF Built, BuildFails, Overtakes
<1>3. overtaken \subseteq overtaken' /\ overtaken' \subseteq Caller /\ (sessions[c] \notin {None, s} => c \in overtaken')
  BY <1>0, <1>2 DEF Types
<1>4. \A x \in Caller : sessions[x] = s => x = c
  BY <1>0, KeyOf
<1>5. UNCHANGED <<typed, got, recalled, used>>
  BY DEF Built, BuildFails
<1>6. CASE Built(s) /\ sessions[c] = None
  <2>1. slot' = [slot EXCEPT ![s] = NewSlot] /\ peer' = peer /\ sessions' = sessions
    BY <1>6 DEF Built
  <2>2. \A x \in Caller : sessions[x] # s
    BY <1>0, <1>4, <1>6
  <2>3. slot' \in [Slots -> Slot] /\ Resting' /\ Keyed' /\ Roomy' /\ NoOrphan'
    <3>1. \A x \in Caller : /\ sessions'[x] # s /\ sessions'[x] \in {None, sessions[x]}
                            /\ sessions'[x] = sessions[x] \/ sessions[x] = s \/ x \in overtaken'
      BY <2>1, <2>2
    <3>2. sessions' \in [Caller -> Slots \cup {None}]
      BY <1>0, <2>1 DEF Types
    <3>. QED
      BY <1>0, <1>3, <1>5, <2>1, <3>1, <3>2, SlotEnds, NewSlotIs
  <2>. QED
    BY <1>0, <1>3, <1>5, <2>1, <2>3 DEF ServerInv, Types
<1>7. CASE Built(s) /\ sessions[c] # None
  <2>. DEFINE d == [slot[s] EXCEPT !.building = FALSE, !.warming = FALSE, !.link = "up"]
  <2>1. slot' = [slot EXCEPT ![s] = d] /\ Ua(c, peer[c]) /\ sessions' = sessions
    BY <1>0, <1>7 DEF Built, Types
  <2>2. d \in Slot
    BY <1>0 DEF Slot
  <2>3. /\ ~d.building /\ ~d.warming /\ d.link = "up" /\ d.of = c /\ d.say = slot[s].say /\ d.drop = slot[s].drop
        /\ d.busy = slot[s].busy /\ d.handle = slot[s].handle /\ d.gen = slot[s].gen
    BY <1>0 DEF Slot
  <2>. HIDE DEF d
  <2>4. Rested(d)
    BY <1>0, <1>1, <2>3 DEF Rested, Quiet
  <2>5. sessions[d.of] = s \/ d.of \in overtaken'
    BY <1>3, <1>7, <2>3
  <2>6. slot' \in [Slots -> Slot] /\ Resting' /\ Keyed' /\ Roomy' /\ NoOrphan'
    BY <1>1, <1>3, <1>5, <2>1, <2>2, <2>3, <2>4, <2>5, SlotLinks
  <2>7. peer' \in [Caller -> {"idle", "calling", "up"}]
    BY <1>0, <2>1, UaTypes DEF Types
  <2>. QED
    BY <1>0, <1>3, <1>5, <2>1, <2>6, <2>7 DEF ServerInv, Types
<1>8. CASE BuildFails(s)
  <2>1. slot' = [slot EXCEPT ![s] = NewSlot] /\ peer' = peer /\ sessions' = [sessions EXCEPT ![c] = None]
    BY <1>8 DEF BuildFails
  <2>2. sessions' \in [Caller -> Slots \cup {None}] /\ sessions'[c] = None /\ \A x \in Caller \ {c} : sessions'[x] = sessions[x]
    BY <1>0, <2>1 DEF Types
  <2>3. \A x \in Caller : /\ sessions'[x] # s /\ sessions'[x] \in {None, sessions[x]}
                          /\ sessions'[x] = sessions[x] \/ sessions[x] = s \/ x \in overtaken'
    BY <1>0, <1>3, <1>4, <2>2
  <2>4. slot' \in [Slots -> Slot] /\ Resting' /\ Keyed' /\ Roomy' /\ NoOrphan'
    BY <1>0, <1>3, <1>5, <2>1, <2>2, <2>3, SlotEnds, NewSlotIs
  <2>. QED
    BY <1>0, <1>3, <1>5, <2>1, <2>2, <2>4 DEF ServerInv, Types
<1>. QED
  BY <1>6, <1>7, <1>8

LEMMA TickKeeps ==
    ASSUME ServerInv, Tick
    PROVE  /\ ServerInv' /\ UNCHANGED <<sessions, peer, typed, got, overtaken, recalled, used>>
           /\ \A s \in Slots : /\ slot'[s].link = slot[s].link /\ slot'[s].busy = slot[s].busy /\ slot'[s].buf = slot[s].buf
                               /\ slot'[s].handle = slot[s].handle /\ slot'[s].sink = slot[s].sink
<1>. DEFINE warm == {s \in {sessions[c] : c \in Live} : slot[s].warming /\ slot[s].age <= Deadline}
            older(d) == [d EXCEPT !.age = @ + 1]
<1>0. Types /\ slot \in [Slots -> Slot]
  BY DEF ServerInv, Types
<1>1. /\ slot' = [s \in Slots |-> IF s \in warm THEN older(slot[s]) ELSE slot[s]]
      /\ UNCHANGED <<sessions, peer, typed, got, overtaken, recalled, used>>
  BY DEF Tick, history
<1>2. \A s \in warm : slot[s] # NewSlot
  BY KeyOf DEF Live
<1>3. ASSUME NEW d \in Slot PROVE older(d) \in Slot
  <2>. DEFINE a == d.age + 1
  <2>1. older(d) = [d EXCEPT !.age = a] /\ a \in Nat
    BY DEF Slot
  <2>. HIDE DEF older, a
  <2>. QED
    BY <2>1 DEF Slot
<1>4. \A d \in Slot : /\ older(d).of = d.of /\ older(d).warming = d.warming /\ older(d).building = d.building /\ older(d).gen = d.gen
                      /\ older(d).busy = d.busy /\ older(d).handle = d.handle /\ older(d).say = d.say /\ older(d).buf = d.buf
                      /\ older(d).drop = d.drop /\ older(d).sink = d.sink /\ older(d).link = d.link
  BY DEF Slot
<1>. HIDE DEF older, warm
<1>5. slot' \in [Slots -> Slot]
  BY <1>0, <1>1, <1>3
<1>6. ASSUME NEW s \in Slots
      PROVE  /\ slot'[s].of = slot[s].of /\ slot'[s].warming = slot[s].warming /\ slot'[s].building = slot[s].building
             /\ slot'[s].gen = slot[s].gen /\ slot'[s].busy = slot[s].busy /\ slot'[s].handle = slot[s].handle
             /\ slot'[s].say = slot[s].say /\ slot'[s].buf = slot[s].buf
             /\ slot'[s].drop = slot[s].drop /\ slot'[s].sink = slot[s].sink /\ slot'[s].link = slot[s].link
             /\ slot'[s] # NewSlot => slot[s] # NewSlot
  BY <1>0, <1>1, <1>2, <1>4
<1>7. Resting'
  <2>1. \A s \in Slots : Rested(slot[s])
    BY DEF ServerInv, Resting
  <2>2. ASSUME NEW s \in Slots PROVE Rested(slot'[s])
    BY <1>6, <2>1 DEF Rested, Quiet
  <2>. QED
    BY <2>2 DEF Resting
<1>8. Keyed'
  <2>1. \A x \in Caller : sessions[x] # None => sessions[x] \in Slots
    BY <1>0 DEF Types
  <2>. QED
    BY <1>1, <1>6, <2>1 DEF ServerInv, Keyed
<1>9. Roomy'
  BY <1>1, <1>6 DEF ServerInv, Roomy
<1>10. NoOrphan'
  BY <1>1, <1>6 DEF ServerInv, NoOrphan
<1>11. Types'
  BY <1>0, <1>1, <1>5 DEF Types
<1>. QED
  BY <1>1, <1>6, <1>7, <1>8, <1>9, <1>10, <1>11 DEF ServerInv

LEMMA OnDownIs ==
    ASSUME NEW d \in Slot, Rested(d), d.link \in {"up", "closing"}
    PROVE  /\ Collect(OnDown(d)) \in Slot /\ Rested(Collect(OnDown(d)))
           /\ Collect(OnDown(d)).link \in {"none", "down"}
<1>. DEFINE e == OnDown(d)
            f == [e EXCEPT !.say = <<>>, !.drop = {}]
<1>1. d.gen \in Nat \ {0} /\ d.handle \in Handle /\ d.handle.gen \in Nat /\ <<>> \in Seq(Lines)
  BY DEF Slot, Handle
<1>2. d.handle.gen < d.gen + 1
  <2>1. CASE d.busy
    BY <1>1, <2>1 DEF Rested
  <2>2. CASE ~d.busy
    BY <1>1, <2>2 DEF Rested, NoHandle
  <2>. QED
    BY <2>1, <2>2
<1>3. e \in Slot
  <2>. DEFINE g == d.gen + 1
  <2>1. e = [d EXCEPT !.link = "down", !.buf = <<>>, !.busy = FALSE, !.gen = g, !.sink = FALSE]
    BY DEF OnDown, Slot
  <2>2. g \in Nat \ {0}
    BY <1>1
  <2>. HIDE DEF e, g
  <2>. QED
    BY <1>1, <2>1, <2>2 DEF Slot
<1>4. /\ e.building = d.building /\ e.warming = d.warming /\ e.gen = d.gen + 1 /\ e.handle = d.handle
      /\ e.link = "down" /\ e.buf = <<>> /\ ~e.busy /\ ~e.sink
  BY DEF OnDown, Slot
<1>. HIDE DEF e
<1>5. f \in Slot
  BY <1>1, <1>3 DEF Slot
<1>6. /\ f.building = e.building /\ f.warming = e.warming /\ f.gen = e.gen /\ f.handle = e.handle
      /\ f.link = e.link /\ f.buf = e.buf /\ f.busy = e.busy /\ f.sink = e.sink /\ f.say = <<>> /\ f.drop = {}
  BY <1>3 DEF Slot
<1>7. Collect(e) \in {NewSlot, f}
  BY DEF Collect
<1>. HIDE DEF f
<1>8. Rested(f)
  BY <1>2, <1>4, <1>6 DEF Rested, Quiet
<1>. QED
  BY <1>4, <1>5, <1>6, <1>7, <1>8, NewSlotIs DEF e

LEMMA DownKeeps ==
    ASSUME ServerInv, NEW c \in Caller, Hangup(c) \/ LinkEnds(c)
    PROVE  /\ ServerInv' /\ sessions'[c] = None /\ typed'[c] = <<>> /\ got'[c] = <<>> /\ peer'[c] # "up"
           /\ peer'[c] = peer[c] \/ peer'[c] = "idle"
           /\ \A x \in Caller \ {c} : /\ typed'[x] = typed[x] /\ got'[x] = got[x] /\ peer'[x] = peer[x]
                                      /\ sessions'[x] = sessions[x]
           /\ \A t \in Slots : slot[t].of # c => slot'[t] = slot[t]
<1>. DEFINE s == sessions[c]
            d == Collect(OnDown(slot[s]))
<1>0. Types
  BY DEF ServerInv
<1>1. /\ LinkDown(c) /\ Linked(c)
      /\ peer' = [peer EXCEPT ![c] = IF peer[c] = "up" THEN "idle" ELSE peer[c]] \/ peer' = [peer EXCEPT ![c] = "idle"]
  BY DEF Hangup, LinkEnds
<1>2. s \in Slots /\ slot[s] \in Slot /\ Rested(slot[s]) /\ slot[s].link \in {"up", "closing"} /\ slot[s].of = c /\ slot[s] # NewSlot
  BY <1>1, KeyOf DEF Linked
<1>3. /\ slot' = [slot EXCEPT ![s] = d] /\ sessions' = [sessions EXCEPT ![c] = None] /\ EndCall(c)
      /\ UNCHANGED <<overtaken, recalled, used>>
  BY <1>1 DEF LinkDown
<1>4. d \in Slot /\ Rested(d) /\ d.link \in {"none", "down"}
  BY <1>2, OnDownIs
<1>. HIDE DEF d, s
<1>5. /\ typed' \in [Caller -> Seq(Lines)] /\ got' \in [Caller -> Seq(Lines)]
      /\ typed'[c] = <<>> /\ got'[c] = <<>>
      /\ \A x \in Caller \ {c} : typed'[x] = typed[x] /\ got'[x] = got[x]
  BY <1>0, <1>3, EndCallIs
<1>6. /\ peer' \in [Caller -> {"idle", "calling", "up"}] /\ peer'[c] # "up" /\ (peer'[c] = peer[c] \/ peer'[c] = "idle")
      /\ \A x \in Caller \ {c} : peer'[x] = peer[x]
  BY <1>0, <1>1 DEF Types
<1>7. /\ sessions' \in [Caller -> Slots \cup {None}] /\ sessions'[c] = None
      /\ \A x \in Caller \ {c} : sessions'[x] = sessions[x]
  BY <1>0, <1>3 DEF Types
<1>8. /\ s # None /\ \A x \in Caller \ {c} : sessions[x] # s
  BY <1>2, KeyOf, SlotsIs DEF None
<1>9. \A x \in Caller : /\ sessions'[x] # s /\ sessions'[x] \in {None, sessions[x]}
                        /\ sessions'[x] = sessions[x] \/ sessions[x] = s \/ x \in overtaken'
  BY <1>7, <1>8 DEF s
<1>10. slot' \in [Slots -> Slot] /\ Resting' /\ Keyed' /\ Roomy' /\ NoOrphan'
  BY <1>2, <1>3, <1>4, <1>7, <1>9, SlotEnds
<1>11. \A t \in Slots : slot[t].of # c => slot'[t] = slot[t]
  BY <1>0, <1>2, <1>3 DEF Types
<1>. QED
  BY <1>0, <1>3, <1>5, <1>6, <1>7, <1>10, <1>11 DEF ServerInv, Types

(***************************************************************************)
(* A call of the driver leaves its slot in use and the caller's histories  *)
(* what they were, but for what the driver said and threw away.            *)
(***************************************************************************)
LEMMA CollectIs ==
    ASSUME NEW d \in Slot, Rested(d), d.link \in {"up", "closing"}, NEW e, Kept(d, e), Works(e)
    PROVE  LET f == Collect(e) IN
               /\ f \in Slot /\ Rested(f) /\ f.of = d.of /\ f.building = d.building /\ f.link = e.link
               /\ f.buf = e.buf /\ f.busy = e.busy /\ f.handle = e.handle /\ f.link \in {"up", "closing"}
<1>. DEFINE f == [e EXCEPT !.say = <<>>, !.drop = {}]
<1>1. e \in Slot /\ e.link \in {"up", "closing"} /\ <<>> \in Seq(Lines)
  BY DEF Kept
<1>2. Collect(e) = f
  BY <1>1 DEF Collect
<1>3. f \in Slot
  BY <1>1 DEF Slot
<1>4. /\ f.of = e.of /\ f.building = e.building /\ f.warming = e.warming /\ f.gen = e.gen /\ f.handle = e.handle
      /\ f.link = e.link /\ f.buf = e.buf /\ f.busy = e.busy /\ f.sink = e.sink /\ f.say = <<>> /\ f.drop = {}
  BY <1>1 DEF Slot
<1>. HIDE DEF f
<1>5. Rested(f)
  BY <1>1, <1>4 DEF Rested, Works, Kept
<1>. QED
  BY <1>1, <1>2, <1>3, <1>4, <1>5 DEF Kept

LEMMA PutKeeps ==
    ASSUME ServerInv, NEW s \in Slots, NEW e, NEW ty \in [Caller -> Seq(Lines)], Put(s, e, ty),
           slot[s].link \in {"up", "closing"}, Kept(slot[s], e), Works(e),
           UNCHANGED <<sessions, peer, overtaken, recalled>>,
           used' = used \/ Use("line")
    PROVE  LET o == slot[s].of IN
           /\ ServerInv'
           /\ slot'[s].link = e.link /\ slot'[s].buf = e.buf /\ slot'[s].busy = e.busy /\ slot'[s].handle = e.handle
           /\ \A t \in Slots \ {s} : slot'[t] = slot[t]
           /\ got'[o] = (IF peer[o] = "up" THEN got[o] \o e.say ELSE got[o]) /\ typed'[o] = Without(ty[o], e.drop)
           /\ \A x \in Caller \ {o} : got'[x] = got[x] /\ typed'[x] = ty[x]
<1>. DEFINE o == slot[s].of
            f == Collect(e)
<1>0. Types /\ slot[s] \in Slot /\ Rested(slot[s]) /\ slot[s] # NewSlot /\ o \in Caller
  BY InUse DEF ServerInv, Types, Resting, Slot
<1>1. /\ f \in Slot /\ Rested(f) /\ f.of = o /\ f.building = slot[s].building /\ f.link = e.link
      /\ f.buf = e.buf /\ f.busy = e.busy /\ f.handle = e.handle /\ f.link \in {"up", "closing"}
  BY <1>0, CollectIs
<1>2. e.of = o /\ e.say \in Seq(Lines)
  BY DEF Kept, Slot
<1>3. /\ slot' = [slot EXCEPT ![s] = f]
      /\ got' = [got EXCEPT ![o] = IF peer[o] = "up" THEN got[o] \o e.say ELSE got[o]]
      /\ typed' = [ty EXCEPT ![o] = Without(ty[o], e.drop)]
  BY <1>2 DEF Put
<1>. HIDE DEF f, o
<1>4. /\ used' \in [{"call", "line", "repeat"} -> Nat] /\ used'["call"] <= MaxCalls /\ used'["repeat"] <= MaxRepeats
      /\ used'["call"] >= used["call"] /\ used'["repeat"] >= used["repeat"]
  <2>1. CASE used' = used
    BY <1>0, <2>1 DEF Types
  <2>2. CASE Use("line")
    <3>1. /\ used' \in [{"call", "line", "repeat"} -> Nat] /\ used'["call"] <= MaxCalls /\ used'["repeat"] <= MaxRepeats
          /\ used'["call"] = used["call"] /\ used'["repeat"] = used["repeat"]
      BY <1>0, <2>2, UseIs
    <3>. QED
      BY <3>1
  <2>. QED
    BY <2>1, <2>2
<1>5. /\ sessions' \in [Caller -> Slots \cup {None}] /\ slot' \in [Slots -> Slot]
      /\ Resting' /\ Keyed' /\ Roomy' /\ NoOrphan'
  BY <1>0, <1>1, <1>3, <1>4, SlotStays DEF o
<1>6. slot'[s] = f /\ \A t \in Slots \ {s} : slot'[t] = slot[t]
  BY <1>0, <1>1, <1>3, OneSlot
<1>7. /\ got' \in [Caller -> Seq(Lines)]
      /\ got'[o] = (IF peer[o] = "up" THEN got[o] \o e.say ELSE got[o])
      /\ \A x \in Caller \ {o} : got'[x] = got[x]
  <2>1. got \in [Caller -> Seq(Lines)] /\ got[o] \in Seq(Lines) /\ got[o] \o e.say \in Seq(Lines)
    BY <1>0, <1>2 DEF Types
  <2>. QED
    BY <1>0, <1>3, <2>1
<1>8. /\ typed' \in [Caller -> Seq(Lines)] /\ typed'[o] = Without(ty[o], e.drop)
      /\ \A x \in Caller \ {o} : typed'[x] = ty[x]
  <2>1. Without(ty[o], e.drop) \in Seq(Lines)
    BY <1>0, WithoutIn
  <2>. QED
    BY <1>0, <1>3, <2>1
<1>9. ServerInv'
  BY <1>0, <1>4, <1>5, <1>7, <1>8 DEF ServerInv, Types
<1>. QED
  BY <1>1, <1>6, <1>7, <1>8, <1>9 DEF o

\* onData() while the caller is passed on to another node does nothing.
LEMMA SinkPuts ==
    ASSUME ServerInv, NEW s \in Slots, slot[s].link \in {"up", "closing"}, Put(s, slot[s], typed)
    PROVE  typed' = typed /\ got' = got /\ Kept(slot[s], slot[s]) /\ Works(slot[s])
<1>. DEFINE o == slot[s].of
<1>0. Types /\ slot[s] \in Slot /\ Rested(slot[s]) /\ o \in Caller
  BY DEF ServerInv, Types, Resting, Slot
<1>1. /\ got' = [got EXCEPT ![o] = IF peer[o] = "up" THEN got[o] \o slot[s].say ELSE got[o]]
      /\ typed' = [typed EXCEPT ![o] = Without(typed[o], slot[s].drop)]
  BY DEF Put
<1>2. slot[s].say = <<>> /\ slot[s].drop = {} /\ Works(slot[s])
  BY <1>0 DEF Rested, Works
<1>3. typed \in [Caller -> Seq(Lines)] /\ got \in [Caller -> Seq(Lines)] /\ typed[o] \in Seq(Lines) /\ got[o] \in Seq(Lines)
  BY <1>0 DEF Types
<1>4. Without(typed[o], {}) = typed[o] /\ got[o] \o <<>> = got[o]
  BY <1>3, WithoutNone
<1>5. typed' = typed /\ got' = got
  BY <1>0, <1>1, <1>2, <1>3, <1>4
<1>. QED
  BY <1>0, <1>2, <1>5 DEF Kept

LEMMA OnwardIs ==
    ASSUME ServerInv, NEW s \in Slots, OnwardCloses(s)
    PROVE  /\ ServerInv' /\ UNCHANGED <<sessions, peer, typed, got, overtaken, recalled, used>>
           /\ slot[s].sink
           /\ slot'[s].link = slot[s].link /\ slot'[s].buf = slot[s].buf /\ slot'[s].busy = slot[s].busy
           /\ slot'[s].handle = slot[s].handle
           /\ \A t \in Slots \ {s} : slot'[t] = slot[t]
<1>. DEFINE e == [slot[s] EXCEPT !.sink = FALSE]
            o == slot[s].of
<1>0. /\ Types /\ slot[s] \in Slot /\ Rested(slot[s]) /\ o \in Caller
      /\ typed \in [Caller -> Seq(Lines)] /\ got \in [Caller -> Seq(Lines)]
  BY DEF ServerInv, Types, Resting, Slot
<1>1. slot[s].sink /\ Put(s, e, typed) /\ UNCHANGED <<sessions, peer, overtaken, recalled, used>>
  BY DEF OnwardCloses
<1>2. slot[s].link \in {"up", "closing"} /\ slot[s].say = <<>> /\ slot[s].drop = {}
  BY <1>0, <1>1 DEF Rested, Quiet, Slot
<1>3. e \in Slot
  BY <1>0 DEF Slot
<1>4. /\ e.of = slot[s].of /\ e.building = slot[s].building /\ e.warming = slot[s].warming /\ e.gen = slot[s].gen
      /\ e.handle = slot[s].handle /\ e.link = slot[s].link /\ e.buf = slot[s].buf /\ e.busy = slot[s].busy
      /\ e.say = slot[s].say /\ e.drop = slot[s].drop /\ e.age = slot[s].age
  BY <1>0 DEF Slot
<1>. HIDE DEF e
<1>5. Kept(slot[s], e) /\ Works(e)
  BY <1>0, <1>2, <1>3, <1>4 DEF Kept, Works, Rested
<1>6. /\ ServerInv'
      /\ slot'[s].link = e.link /\ slot'[s].buf = e.buf /\ slot'[s].busy = e.busy /\ slot'[s].handle = e.handle
      /\ \A t \in Slots \ {s} : slot'[t] = slot[t]
  BY <1>0, <1>1, <1>2, <1>5, PutKeeps
<1>7. /\ got' = [got EXCEPT ![o] = IF peer[o] = "up" THEN got[o] \o e.say ELSE got[o]]
      /\ typed' = [typed EXCEPT ![o] = Without(typed[o], e.drop)]
  BY <1>1, <1>4 DEF Put
<1>8. Without(typed[o], {}) = typed[o] /\ got[o] \o <<>> = got[o]
  BY <1>0, WithoutNone
<1>9. typed' = typed /\ got' = got
  BY <1>0, <1>2, <1>4, <1>7, <1>8
<1>. QED
  BY <1>1, <1>4, <1>6, <1>9

LEMMA LateIs ==
    ASSUME ServerInv, NEW s \in Slots, slot[s].link = "down", NEW e \in {Resolve(slot[s]), Reject(slot[s])}, Put(s, e, typed),
           UNCHANGED <<sessions, peer, overtaken, recalled, used>>
    PROVE  /\ ServerInv' /\ typed' = typed /\ got' = got
           /\ \A t \in Slots \ {s} : slot'[t] = slot[t]
<1>. DEFINE o == slot[s].of
<1>0. /\ Types /\ slot[s] \in Slot /\ Rested(slot[s]) /\ o \in Caller
      /\ typed \in [Caller -> Seq(Lines)] /\ got \in [Caller -> Seq(Lines)] /\ sessions \in [Caller -> Slots \cup {None}]
  BY DEF ServerInv, Types, Resting, Slot
<1>1. Collect(e) = NewSlot /\ e.of = o /\ e.say = <<>> /\ e.drop = {}
  BY <1>0, LateSettles
<1>2. /\ slot' = [slot EXCEPT ![s] = NewSlot]
      /\ got' = [got EXCEPT ![o] = IF peer[o] = "up" THEN got[o] \o <<>> ELSE got[o]]
      /\ typed' = [typed EXCEPT ![o] = Without(typed[o], {})]
  BY <1>1 DEF Put
<1>3. Without(typed[o], {}) = typed[o] /\ got[o] \o <<>> = got[o]
  BY <1>0, WithoutNone
<1>4. typed' = typed /\ got' = got
  BY <1>0, <1>2, <1>3
<1>5. \A x \in Caller : sessions[x] # s
  BY KeyOf, SlotsIs DEF None
<1>6. NewSlot \in Slot /\ Rested(NewSlot) /\ NewSlot.link \in {"none", "down"}
  BY NewSlotIs
<1>7. slot' \in [Slots -> Slot] /\ Resting' /\ Keyed' /\ Roomy' /\ NoOrphan'
  BY <1>0, <1>2, <1>5, <1>6, SlotEnds
<1>8. \A t \in Slots \ {s} : slot'[t] = slot[t]
  BY <1>2, <1>6, OneSlot
<1>. QED
  BY <1>0, <1>4, <1>7, <1>8 DEF ServerInv, Types

LEMMA SettleIs ==
    ASSUME ServerInv, NEW s \in Slots, Settle(s)
    PROVE  \E e \in {Resolve(slot[s]), Reject(slot[s])} :
               /\ Put(s, e, typed) /\ UNCHANGED <<sessions, peer, overtaken, recalled, used>>
               /\ \/ slot[s].link = "down"
                  \/ slot[s].link \in {"up", "closing"} /\ slot[s].busy
<1>1. /\ slot[s] \in Slot /\ Rested(slot[s]) /\ slot[s].handle # NoHandle
  BY DEF ServerInv, Types, Resting, Settle
<1>2. slot[s].link = "down" \/ (slot[s].link \in {"up", "closing"} /\ slot[s].busy)
  BY <1>1 DEF Rested, Slot
<1>. QED
  BY <1>2 DEF Settle

LEMMA TypeIs ==
    ASSUME ServerInv, NEW c \in Caller, Type(c)
    PROVE  /\ sessions[c] \in Slots /\ peer[c] = "up" /\ slot[sessions[c]].link = "up" /\ slot[sessions[c]].of = c
           /\ Use("line") /\ UNCHANGED <<sessions, peer, overtaken, recalled>>
           /\ \E line \in Lines :
                 /\ line.n = used["line"] + 1
                 /\ Put(sessions[c], OnData(slot[sessions[c]], line),
                        IF slot[sessions[c]].sink THEN typed ELSE [typed EXCEPT ![c] = Append(typed[c], line)])
<1>1. /\ sessions[c] # None /\ peer[c] = "up" /\ slot[sessions[c]].link = "up"
      /\ Use("line") /\ UNCHANGED <<sessions, peer, overtaken, recalled>>
  BY DEF Type
<1>2. sessions[c] \in Slots /\ slot[sessions[c]].of = c
  BY <1>1, KeyOf
<1>3. PICK kind \in Kinds :
          LET line == [n |-> used["line"] + 1, kind |-> kind] IN
          Put(sessions[c], OnData(slot[sessions[c]], line),
              IF slot[sessions[c]].sink THEN typed ELSE [typed EXCEPT ![c] = Append(@, line)])
  BY DEF Type
<1>. DEFINE line == [n |-> used["line"] + 1, kind |-> kind]
<1>4. line \in Lines /\ line.n = used["line"] + 1
  BY ServerAssumption DEF Lines, ServerInv, Types
<1>5. Put(sessions[c], OnData(slot[sessions[c]], line),
          IF slot[sessions[c]].sink THEN typed ELSE [typed EXCEPT ![c] = Append(typed[c], line)])
  BY <1>3
<1>. HIDE DEF line
<1>. QED
  BY <1>1, <1>2, <1>4, <1>5

LEMMA LinesKeep ==
    ASSUME ServerInv,
           (\E c \in Caller : Type(c)) \/ (\E s \in Slots : OnwardCloses(s) \/ Settle(s))
    PROVE  ServerInv'
<1>1. ASSUME NEW c \in Caller, Type(c) PROVE ServerInv'
  <2>. DEFINE s == sessions[c]
  <2>1. /\ s \in Slots /\ slot[s].link = "up" /\ slot[s].of = c
        /\ Use("line") /\ UNCHANGED <<sessions, peer, overtaken, recalled>>
    BY <1>1, TypeIs
  <2>2. PICK line \in Lines :
             Put(s, OnData(slot[s], line), IF slot[s].sink THEN typed ELSE [typed EXCEPT ![c] = Append(typed[c], line)])
    BY <1>1, TypeIs
  <2>3. slot[s] \in Slot /\ Rested(slot[s]) /\ typed \in [Caller -> Seq(Lines)]
    BY <2>1 DEF ServerInv, Types, Resting
  <2>. HIDE DEF s
  <2>4. CASE slot[s].sink
    <3>1. OnData(slot[s], line) = slot[s]
      BY <2>4 DEF OnData
    <3>2. Put(s, slot[s], typed)
      BY <2>2, <2>4, <3>1
    <3>3. Kept(slot[s], slot[s]) /\ Works(slot[s])
      BY <2>1, <3>2, SinkPuts
    <3>. QED
      BY <2>1, <2>3, <3>2, <3>3, PutKeeps
  <2>5. CASE ~slot[s].sink
    <3>. DEFINE ty == [typed EXCEPT ![c] = Append(typed[c], line)]
    <3>1. ty \in [Caller -> Seq(Lines)]
      BY <2>3
    <3>2. Put(s, OnData(slot[s], line), ty)
      BY <2>2, <2>5
    <3>3. Kept(slot[s], OnData(slot[s], line)) /\ Works(OnData(slot[s], line))
      BY <2>1, <2>3, <2>5, OnDataServes
    <3>. HIDE DEF ty
    <3>. QED
      BY <2>1, <3>1, <3>2, <3>3, PutKeeps
  <2>. QED
    BY <2>4, <2>5
<1>2. ASSUME NEW s \in Slots, OnwardCloses(s) PROVE ServerInv'
  BY <1>2, OnwardIs
<1>3. ASSUME NEW s \in Slots, Settle(s) PROVE ServerInv'
  <2>1. PICK e \in {Resolve(slot[s]), Reject(slot[s])} :
               /\ Put(s, e, typed) /\ UNCHANGED <<sessions, peer, overtaken, recalled, used>>
               /\ \/ slot[s].link = "down"
                  \/ slot[s].link \in {"up", "closing"} /\ slot[s].busy
    BY <1>3, SettleIs
  <2>2. CASE slot[s].link = "down"
    BY <2>1, <2>2, LateIs
  <2>3. CASE slot[s].link \in {"up", "closing"} /\ slot[s].busy
    <3>1. slot[s] \in Slot /\ Rested(slot[s]) /\ typed \in [Caller -> Seq(Lines)]
      BY DEF ServerInv, Types, Resting
    <3>2. Kept(slot[s], e) /\ Works(e)
      BY <2>3, <3>1, SettleServes
    <3>. QED
      BY <2>1, <2>3, <3>1, <3>2, PutKeeps
  <2>. QED
    BY <2>1, <2>2, <2>3
<1>. QED
  BY <1>1, <1>2, <1>3

LEMMA ServerNext == ASSUME ServerInv, [Next]_vars PROVE ServerInv'
<1>1. ASSUME NEW c \in Caller, Call(c) \/ Repeat(c) PROVE ServerInv'
  BY <1>1, CallsKeep
<1>2. ASSUME NEW c \in Caller, Vanish(c) PROVE ServerInv'
  BY <1>2, VanishKeeps
<1>3. ASSUME NEW c \in Caller, Reap(c) PROVE ServerInv'
  BY <1>3, ReapKeeps
<1>4. ASSUME NEW c \in Caller, Hangup(c) \/ LinkEnds(c) PROVE ServerInv'
  BY <1>4, DownKeeps
<1>5. ASSUME NEW s \in Slots, Built(s) \/ BuildFails(s) PROVE ServerInv'
  BY <1>5, BuiltKeeps
<1>6. ASSUME Tick PROVE ServerInv'
  BY <1>6, TickKeeps
<1>7. ASSUME UNCHANGED vars PROVE ServerInv'
  BY <1>7 DEF vars, ServerInv, Types, Resting, Keyed, Roomy, NoOrphan
<1>. QED
  BY <1>1, <1>2, <1>3, <1>4, <1>5, <1>6, <1>7, LinesKeep DEF Next

LEMMA ServerInit == Init => ServerInv
<1>. SUFFICES ASSUME Init PROVE ServerInv
  OBVIOUS
<1>1. NewSlot \in Slot /\ Rested(NewSlot) /\ NewSlot.link = "none"
  BY NewSlotIs
<1>2. used = [e \in {"call", "line", "repeat"} |-> 0]
  BY DEF Init, Bounds
<1>3. <<>> \in Seq(Lines)
  OBVIOUS
<1>4. Types
  BY <1>1, <1>2, <1>3, ServerAssumption DEF Init, Types
<1>. QED
  BY <1>1, <1>4 DEF Init, ServerInv, Resting, Keyed, Roomy, NoOrphan

(***************************************************************************)
(* Every link that is not down is the one under its caller's key, unless   *)
(* the application of a slot poll() had reaped settled after the caller    *)
(* called again: wire() asks for the key, not for its own slot under it.   *)
(***************************************************************************)
THEOREM ServerNoOrphan == Spec => []NoOrphan
<1>1. ServerInv => NoOrphan
  BY DEF ServerInv
<1>. QED
  BY <1>1, ServerInit, ServerNext, PTL DEF Spec
-----------------------------------------------------------------------------
(* Answers come in the order of the lines. *)

LEMMA PrefixIs ==
    ASSUME NEW S, NEW s \in Seq(S), NEW t \in Seq(S)
    PROVE  /\ IsPrefix(s, s \o t)
           /\ IsPrefix(s, t) => \E u \in Seq(S) : t = s \o u
<1>1. IsPrefix(s, s \o t)
  <2>1. Len(s) <= Len(s \o t) /\ SubSeq(s, 1, Len(s)) = s
    OBVIOUS
  <2>2. SubSeq(s \o t, 1, Len(s)) = s
    OBVIOUS
  <2>. QED
    BY <2>1, <2>2 DEF IsPrefix
<1>2. ASSUME IsPrefix(s, t) PROVE \E u \in Seq(S) : t = s \o u
  <2>. DEFINE u == SubSeq(t, Len(s) + 1, Len(t))
  <2>1. Len(s) <= Len(t) /\ SubSeq(s, 1, Len(s)) = SubSeq(t, 1, Len(s)) /\ Len(s) \in Nat /\ Len(t) \in Nat
    BY <1>2 DEF IsPrefix
  <2>2. SubSeq(s, 1, Len(s)) = s
    OBVIOUS
  <2>3. u \in Seq(S) /\ Len(u) = Len(t) - Len(s) /\ \A i \in 1..Len(u) : u[i] = t[Len(s) + i]
    BY <2>1
  <2>4. \A i \in 1..Len(s) : s[i] = t[i]
    <3>1. \A i \in 1..Len(s) : SubSeq(t, 1, Len(s))[i] = t[i]
      BY <2>1
    <3>. QED
      BY <2>1, <2>2, <3>1
  <2>. HIDE DEF u
  <2>5. s \o u \in Seq(S) /\ Len(s \o u) = Len(t)
    BY <2>1, <2>3
  <2>6. ASSUME NEW i \in 1..Len(t) PROVE t[i] = (s \o u)[i]
    <3>1. CASE i <= Len(s)
      <4>1. i \in 1..Len(s)
        BY <2>1, <3>1
      <4>2. (s \o u)[i] = s[i]
        BY <2>3, <4>1
      <4>. QED
        BY <2>4, <4>1, <4>2
    <3>2. CASE i > Len(s)
      <4>1. i - Len(s) \in 1..Len(u) /\ Len(s) + (i - Len(s)) = i
        BY <2>1, <2>3, <3>2
      <4>2. (s \o u)[i] = u[i - Len(s)]
        BY <2>1, <2>3, <3>2
      <4>. QED
        BY <2>3, <4>1, <4>2
    <3>3. i <= Len(s) \/ i > Len(s)
      BY <2>1
    <3>. QED
      BY <3>1, <3>2, <3>3, Zenon
  <2>7. t = s \o u
    BY <2>5, <2>6, SeqEqual
  <2>. QED
    BY <2>3, <2>7
<1>. QED
  BY <1>1, <1>2

\* The parts of a sequence without repetitions have nothing in common.
LEMMA DistinctParts ==
    ASSUME NEW p \in Seq(Lines), NEW q \in Seq(Lines), Distinct(p \o q)
    PROVE  Distinct(p) /\ ToSet(p) \cap ToSet(q) = {}
<1>1. ASSUME NEW i \in DOMAIN p, NEW j \in DOMAIN p, p[i] = p[j] PROVE i = j
  <2>1. i \in DOMAIN (p \o q) /\ j \in DOMAIN (p \o q) /\ (p \o q)[i] = p[i] /\ (p \o q)[j] = p[j]
    OBVIOUS
  <2>. QED
    BY <1>1, <2>1 DEF Distinct
<1>2. ASSUME NEW i \in DOMAIN p, NEW j \in DOMAIN q PROVE p[i] # q[j]
  <2>1. /\ i \in DOMAIN (p \o q) /\ Len(p) + j \in DOMAIN (p \o q)
        /\ (p \o q)[i] = p[i] /\ (p \o q)[Len(p) + j] = q[j] /\ i # Len(p) + j
    OBVIOUS
  <2>. QED
    BY <2>1 DEF Distinct
<1>. QED
  BY <1>1, <1>2 DEF Distinct, ToSet

\* What the caller hears continues what it has heard, and what is thrown away it has not heard.
LEMMA HeardInOrder ==
    ASSUME NEW g \in Seq(Lines), NEW X \in Seq(Lines), NEW e \in Slot, Works(e), Accounts(e, X), Distinct(g \o X)
    PROVE  /\ e.link = "up" => /\ Without(g \o X, e.drop) = (g \o e.say) \o Due(e)
                               /\ Distinct((g \o e.say) \o Due(e))
           /\ e.link # "up" => /\ IsPrefix(g \o e.say, Without(g \o X, e.drop))
                               /\ ToSet(g \o e.say) \cap ToSet(e.buf) = {}
<1>0. e.say \in Seq(Lines) /\ e.buf \in Seq(Lines) /\ Due(e) \in Seq(Lines) /\ g \o e.say \in Seq(Lines)
  <2>1. e.say \in Seq(Lines) /\ e.buf \in Seq(Lines)
    BY DEF Slot
  <2>2. Due(e) \in Seq(Lines)
    BY <2>1, DueIs DEF Works
  <2>. QED
    BY <2>1, <2>2
<1>. DEFINE D == e.drop
<1>. HIDE DEF D
<1>1. CASE e.link = "up"
  <2>1. PICK q \in Seq(Lines) : X = (e.say \o Due(e)) \o q /\ e.drop = ToSet(q)
    BY <1>1 DEF Accounts
  <2>. DEFINE p == (g \o e.say) \o Due(e)
  <2>2. p \in Seq(Lines) /\ e.say \o Due(e) \in Seq(Lines)
    BY <1>0
  <2>3. g \o X = p \o q
    <3>1. g \o ((e.say \o Due(e)) \o q) = (g \o (e.say \o Due(e))) \o q
      BY <2>2, LineConcat, ZenonT(60)
    <3>2. g \o (e.say \o Due(e)) = p
      BY <1>0, LineConcat, ZenonT(60)
    <3>. QED
      BY <2>1, <3>1, <3>2
  <2>. HIDE DEF p
  <2>4. Distinct(p) /\ ToSet(p) \cap e.drop = {}
    BY <2>1, <2>2, <2>3, DistinctParts
  <2>5. \E t \in Seq(Lines) : Without(p \o q, e.drop) = p \o t /\ (ToSet(q) \subseteq e.drop => t = <<>>)
    <3>1. ToSet(p) \cap D = {}
      BY <2>4 DEF D
    <3>2. \E t \in Seq(Lines) : /\ Without(p \o q, D) = p \o t
                                /\ ToSet(t) \subseteq ToSet(q)
                                /\ ToSet(q) \subseteq D => t = <<>>
      BY <2>2, <3>1, WithoutIs, ZenonT(60)
    <3>. QED
      BY <3>2 DEF D
  <2>6. p \o <<>> = p
    BY <2>2
  <2>7. Without(g \o X, e.drop) = p
    BY <2>1, <2>3, <2>5, <2>6
  <2>. QED
    BY <1>1, <2>4, <2>7 DEF p
<1>2. CASE e.link # "up"
  <2>1. PICK q \in Seq(Lines) : X = e.say \o q /\ e.drop \cup ToSet(e.buf) \subseteq ToSet(q)
    BY <1>2 DEF Accounts
  <2>. DEFINE p == g \o e.say
  <2>2. g \o X = p \o q
    BY <1>0, <2>1, LineConcat, ZenonT(60)
  <2>3. p \in Seq(Lines)
    BY <1>0
  <2>. HIDE DEF p
  <2>4. ToSet(p) \cap ToSet(q) = {}
    BY <2>2, <2>3, DistinctParts
  <2>5. ToSet(p) \cap e.drop = {} /\ ToSet(p) \cap ToSet(e.buf) = {}
    BY <2>1, <2>4
  <2>6. \E t \in Seq(Lines) : Without(p \o q, e.drop) = p \o t
    <3>1. ToSet(p) \cap D = {}
      BY <2>5 DEF D
    <3>2. \E t \in Seq(Lines) : Without(p \o q, D) = p \o t
      BY <2>3, <3>1, WithoutIs
    <3>. QED
      BY <3>2 DEF D
  <2>7. IsPrefix(p, Without(g \o X, e.drop))
    BY <2>2, <2>3, <2>6, PrefixIs
  <2>. QED
    BY <1>2, <2>5, <2>7 DEF p
<1>. QED
  BY <1>1, <1>2

\* A caller for whom nothing changes stays in step.
LEMMA SameInStep ==
    ASSUME ServerInv, NEW c \in Caller, InStep(c),
           peer'[c] = peer[c], typed'[c] = typed[c], got'[c] = got[c], sessions'[c] = sessions[c],
           sessions[c] # None =>
               LET d == slot[sessions[c]]  e == slot'[sessions[c]] IN
               /\ e.link = d.link /\ e.buf = d.buf /\ e.busy = d.busy /\ e.handle = d.handle
               /\ e.sink = d.sink \/ (d.sink /\ peer[c] = "up") \/ peer[c] = "idle"
    PROVE  InStep(c)'
<1>0. peer[c] \in {"idle", "calling", "up"}
  BY DEF ServerInv, Types
<1>1. CASE peer[c] = "idle"
  BY <1>1 DEF InStep
<1>2. CASE peer[c] = "calling"
  BY <1>2 DEF InStep, Quiet
<1>3. CASE peer[c] = "up"
  BY <1>3 DEF InStep, Due
<1>. QED
  BY <1>0, <1>1, <1>2, <1>3

\* A caller that is not disturbed after a step was not before it.
LEMMA StillUndisturbed ==
    ASSUME overtaken \subseteq overtaken', recalled \subseteq recalled', NEW c, ~Disturbed(c)'
    PROVE  ~Disturbed(c)
  BY DEF Disturbed

\* A caller that is idle or calling, with a driver that has not begun.
LEMMA FreshInStep ==
    ASSUME NEW c \in Caller, peer'[c] \in {"idle", "calling", "up"}, typed'[c] = <<>>, got'[c] = <<>>,
           peer'[c] = "calling" /\ sessions'[c] # None => Quiet(slot'[sessions'[c]]) /\ slot'[sessions'[c]].link # "closing",
           peer'[c] = "up" => sessions'[c] # None /\ Quiet(slot'[sessions'[c]]) /\ slot'[sessions'[c]].link = "up"
    PROVE  InStep(c)'
<1>1. CASE peer'[c] = "idle"
  BY <1>1 DEF InStep
<1>2. CASE peer'[c] = "calling"
  BY <1>2 DEF InStep
<1>3. CASE peer'[c] = "up"
  <2>1. Due(slot'[sessions'[c]]) = <<>>
    <3>1. <<>> \o <<>> = <<>>
      OBVIOUS
    <3>. QED
      BY <1>3, <3>1 DEF Quiet, Due
  <2>2. <<>> \o <<>> = <<>> /\ Distinct(<<>>)
    BY DEF Distinct
  <2>. QED
    BY <1>3, <2>1, <2>2 DEF InStep
<1>. QED
  BY <1>1, <1>2, <1>3

\* What a connect request changes.
LEMMA SabmIs ==
    ASSUME ServerInv, NEW c \in Caller, OnSabm(c), overtaken' = overtaken, NEW e \in {"call", "repeat"}, Use(e)
    PROVE  /\ peer'[c] \in {"calling", "up"} /\ \A x \in Caller \ {c} : peer'[x] = peer[x] /\ sessions'[x] = sessions[x]
           /\ \A t \in Slots : slot[t] # NewSlot /\ slot[t].of # c => slot'[t] = slot[t]
           /\ \/ /\ sessions[c] # None /\ slot[sessions[c]].link \in {"up", "closing"} /\ sessions'[c] = sessions[c]
                 /\ LET d == slot[sessions[c]]  f == slot'[sessions[c]] IN
                    f.link = "up" /\ f.buf = d.buf /\ f.busy = d.busy /\ f.sink = d.sink
              \/ /\ sessions[c] # None => slot[sessions[c]].link = "none"
                 /\ peer'[c] = "calling"
                 /\ sessions'[c] # None => Quiet(slot'[sessions'[c]]) /\ slot'[sessions'[c]].link = "none"
<1>0. Types /\ slot \in [Slots -> Slot] /\ peer \in [Caller -> {"idle", "calling", "up"}] /\ sessions \in [Caller -> Slots \cup {None}]
  BY DEF ServerInv, Types
<1>1. CASE sessions[c] # None /\ slot[sessions[c]].link # "none"
  <2>. DEFINE s == sessions[c]
              d == [slot[s] EXCEPT !.link = "up"]
  <2>1. slot' = [slot EXCEPT ![s] = d] /\ Ua(c, "calling") /\ sessions' = sessions
    BY <1>1 DEF OnSabm
  <2>2. s \in Slots /\ slot[s] \in Slot /\ Rested(slot[s]) /\ slot[s].link \in {"up", "closing"} /\ slot[s].of = c
    BY <1>1, KeyOf DEF Slot
  <2>3. d \in Slot /\ Rested(d) /\ d.link = "up" /\ d.buf = slot[s].buf /\ d.busy = slot[s].busy /\ d.sink = slot[s].sink
    BY <2>2, RelinkIs
  <2>. HIDE DEF d, s
  <2>4. slot'[s] = d /\ \A t \in Slots \ {s} : slot'[t] = slot[t]
    BY <2>1, <2>2, <2>3, OneSlot
  <2>5. peer'[c] \in {"calling", "up"} /\ \A x \in Caller \ {c} : peer'[x] = peer[x]
    BY <1>0, <2>1, UaTypes
  <2>. QED
    BY <1>1, <2>1, <2>2, <2>3, <2>4, <2>5 DEF s
<1>2. CASE ~ (sessions[c] # None /\ slot[sessions[c]].link # "none")
  <2>1. /\ peer' = [peer EXCEPT ![c] = "calling"]
        /\ IF sessions[c] # None \/ Cardinality(Live) >= MaxSessions THEN UNCHANGED <<sessions, slot>> ELSE Open(c)
    BY <1>2 DEF OnSabm
  <2>2. peer'[c] = "calling" /\ \A x \in Caller \ {c} : peer'[x] = peer[x]
    BY <1>0, <2>1
  <2>3. CASE UNCHANGED <<sessions, slot>>
    <3>1. sessions[c] # None => Quiet(slot[sessions[c]])
      BY <1>2, KeyOf DEF Rested
    <3>. QED
      BY <1>2, <2>2, <2>3, <3>1
  <2>4. CASE sessions[c] = None /\ Open(c)
    <3>1. /\ used' \in [{"call", "line", "repeat"} -> Nat] /\ used'["call"] <= MaxCalls /\ used'["repeat"] <= MaxRepeats
          /\ used'[e] = used[e] + 1 /\ \A x \in {"call", "line", "repeat"} \ {e} : used'[x] = used[x]
      BY <1>0, UseIs
    <3>2. used \in [{"call", "line", "repeat"} -> Nat]
      BY <1>0 DEF Types
    <3>3. /\ used'["call"] + used'["repeat"] = used["call"] + used["repeat"] + 1
          /\ used'["call"] + used'["repeat"] <= MaxCalls + MaxRepeats
      BY <3>1, <3>2, ServerAssumption
    <3>4. /\ sessions'[c] \in Slots /\ Quiet(slot'[sessions'[c]]) /\ slot'[sessions'[c]].link = "none"
          /\ \A x \in Caller \ {c} : sessions'[x] = sessions[x]
          /\ \A t \in Slots : slot[t] # NewSlot => slot'[t] = slot[t]
      BY <2>4, <3>1, <3>3, OpenKeeps
    <3>. QED
      BY <2>2, <2>4, <3>4
  <2>. QED
    BY <2>1, <2>3, <2>4
<1>. QED
  BY <1>1, <1>2

LEMMA CallsAnswer ==
    ASSUME AnswerInv, NEW c \in Caller, Call(c) \/ Repeat(c)
    PROVE  Numbered' /\ AllInStep'
<1>0. ServerInv /\ Types
  BY DEF AnswerInv, ServerInv
<1>1. PICK e \in {"call", "repeat"} : Use(e) /\ OnSabm(c) /\ overtaken' = overtaken
  BY DEF Call, Repeat, history
<1>2. /\ peer'[c] \in {"calling", "up"} /\ \A x \in Caller \ {c} : peer'[x] = peer[x] /\ sessions'[x] = sessions[x]
      /\ \A t \in Slots : slot[t] # NewSlot /\ slot[t].of # c => slot'[t] = slot[t]
  BY <1>0, <1>1, SabmIs
<1>3. used'["line"] = used["line"]
  BY <1>0, <1>1, SabmKeeps
<1>4. /\ Call(c) => typed'[c] = <<>> /\ got'[c] = <<>>
      /\ Repeat(c) => typed'[c] = typed[c] /\ got'[c] = got[c]
      /\ \A x \in Caller \ {c} : typed'[x] = typed[x] /\ got'[x] = got[x]
  BY <1>0, EndCallIs DEF Call, Repeat, history
<1>5. Numbered'
  <2>1. ASSUME NEW x \in Caller, NEW y \in ToSet(typed'[x]) PROVE y.n <= used'["line"]
    <3>1. ToSet(<<>>) = {}
      BY DEF ToSet
    <3>2. typed'[x] = typed[x]
      BY <1>4, <2>1, <3>1
    <3>. QED
      BY <1>3, <2>1, <3>2 DEF AnswerInv, Numbered
  <2>. QED
    BY <2>1 DEF Numbered
<1>6. recalled \subseteq recalled' /\ overtaken \subseteq overtaken'
  BY <1>1 DEF Call, Repeat, history
<1>7. ASSUME NEW x \in Caller, x # c, ~Disturbed(x)' PROVE InStep(x)'
  <2>1. InStep(x)
    BY <1>6, <1>7, StillUndisturbed DEF AnswerInv, AllInStep
  <2>2. sessions[x] # None => slot'[sessions[x]] = slot[sessions[x]]
    BY <1>0, <1>2, <1>7, KeyOf
  <2>. QED
    BY <1>0, <1>2, <1>4, <1>7, <2>1, <2>2, SameInStep
<1>8. ASSUME ~Disturbed(c)' PROVE InStep(c)'
  <2>1. InStep(c) /\ c \notin recalled'
    BY <1>6, <1>8, StillUndisturbed DEF AnswerInv, AllInStep, Disturbed
  <2>2. CASE Call(c)
    <3>1. ~ (sessions[c] # None /\ slot[sessions[c]].link # "none")
      BY <2>1, <2>2 DEF Call
    <3>2. /\ peer'[c] = "calling"
          /\ sessions'[c] # None => Quiet(slot'[sessions'[c]]) /\ slot'[sessions'[c]].link = "none"
      BY <1>0, <1>1, <3>1, SabmIs
    <3>. QED
      BY <1>4, <2>2, <3>2, FreshInStep
  <2>3. CASE Repeat(c)
    <3>1. peer[c] = "calling"
      BY <2>3 DEF Repeat
    <3>2. /\ typed[c] = <<>> /\ got[c] = <<>>
          /\ sessions[c] # None => Quiet(slot[sessions[c]]) /\ slot[sessions[c]].link # "closing"
      BY <2>1, <3>1 DEF InStep
    <3>3. \/ /\ sessions'[c] # None
             /\ Quiet(slot'[sessions'[c]]) /\ slot'[sessions'[c]].link = "up"
          \/ /\ peer'[c] = "calling"
             /\ sessions'[c] # None => Quiet(slot'[sessions'[c]]) /\ slot'[sessions'[c]].link = "none"
      <4>1. CASE /\ sessions[c] # None /\ slot[sessions[c]].link \in {"up", "closing"} /\ sessions'[c] = sessions[c]
                 /\ LET d == slot[sessions[c]]  f == slot'[sessions[c]] IN
                    f.link = "up" /\ f.buf = d.buf /\ f.busy = d.busy /\ f.sink = d.sink
        BY <3>2, <4>1 DEF Quiet
      <4>. QED
        BY <1>0, <1>1, <4>1, SabmIs
    <3>4. typed'[c] = <<>> /\ got'[c] = <<>>
      BY <1>4, <2>3, <3>2
    <3>. QED
      BY <1>2, <3>3, <3>4, FreshInStep
  <2>. QED
    BY <2>2, <2>3
<1>9. AllInStep'
  <2>1. ASSUME NEW x \in Caller PROVE Disturbed(x)' \/ InStep(x)'
    BY <1>7, <1>8
  <2>. QED
    BY <2>1 DEF AllInStep
<1>. QED
  BY <1>5, <1>9

LEMMA VanishAnswers ==
    ASSUME AnswerInv, NEW c \in Caller, Vanish(c)
    PROVE  Numbered' /\ AllInStep'
<1>0. ServerInv /\ Types
  BY DEF AnswerInv, ServerInv
<1>1. /\ EndCall(c) /\ UNCHANGED <<sessions, slot, overtaken, recalled, used>>
      /\ peer'[c] = "idle" /\ \A x \in Caller \ {c} : peer'[x] = peer[x]
  BY <1>0 DEF Vanish, Types
<1>2. /\ typed'[c] = <<>> /\ got'[c] = <<>>
      /\ \A x \in Caller \ {c} : typed'[x] = typed[x] /\ got'[x] = got[x]
  BY <1>0, <1>1, EndCallIs
<1>3. Numbered'
  <2>1. ToSet(<<>>) = {}
    BY DEF ToSet
  <2>. QED
    BY <1>1, <1>2, <2>1 DEF AnswerInv, Numbered
<1>4. ASSUME NEW x \in Caller, ~Disturbed(x)' PROVE InStep(x)'
  <2>1. CASE x = c
    BY <1>1, <1>2, <2>1, FreshInStep
  <2>2. CASE x # c
    <3>1. InStep(x)
      BY <1>1, <1>4 DEF AnswerInv, AllInStep, Disturbed
    <3>. QED
      BY <1>0, <1>1, <1>2, <2>2, <3>1, SameInStep
  <2>. QED
    BY <2>1, <2>2
<1>. QED
  BY <1>3, <1>4 DEF AllInStep

\* A caller whose slot has no link is not up, as far as it knows.
LEMMA NotYetUp ==
    ASSUME ServerInv, NEW c \in Caller, InStep(c), sessions[c] # None, slot[sessions[c]].link = "none"
    PROVE  peer[c] # "up" /\ typed[c] = <<>> /\ got[c] = <<>>
<1>1. peer[c] \in {"idle", "calling", "up"}
  BY DEF ServerInv, Types
<1>. QED
  BY <1>1 DEF InStep

LEMMA ReapAnswers ==
    ASSUME AnswerInv, NEW c \in Caller, Reap(c)
    PROVE  Numbered' /\ AllInStep'
<1>0. ServerInv /\ Types
  BY DEF AnswerInv, ServerInv
<1>1. /\ sessions[c] # None /\ slot[sessions[c]].warming /\ sessions'[c] = None
      /\ \A x \in Caller \ {c} : sessions'[x] = sessions[x]
      /\ UNCHANGED <<slot, peer, typed, got, overtaken, recalled, used>>
  BY <1>0 DEF Reap, history, Types
<1>2. slot[sessions[c]].link = "none"
  BY <1>0, <1>1, KeyOf DEF Rested
<1>3. ASSUME NEW x \in Caller, ~Disturbed(x)' PROVE InStep(x)'
  <2>1. InStep(x)
    BY <1>1, <1>3 DEF AnswerInv, AllInStep, Disturbed
  <2>2. CASE x = c
    <3>1. peer[c] # "up" /\ typed[c] = <<>> /\ got[c] = <<>> /\ peer[c] \in {"idle", "calling", "up"}
      BY <1>0, <1>1, <1>2, <2>1, <2>2, NotYetUp DEF Types
    <3>. QED
      BY <1>1, <2>2, <3>1, FreshInStep
  <2>3. CASE x # c
    BY <1>0, <1>1, <2>1, <2>3, SameInStep
  <2>. QED
    BY <2>2, <2>3
<1>4. Numbered'
  BY <1>1 DEF AnswerInv, Numbered
<1>. QED
  BY <1>3, <1>4 DEF AllInStep

LEMMA DownAnswers ==
    ASSUME AnswerInv, NEW c \in Caller, Hangup(c) \/ LinkEnds(c)
    PROVE  Numbered' /\ AllInStep'
<1>0. ServerInv /\ Types
  BY DEF AnswerInv, ServerInv
<1>1. /\ ServerInv' /\ sessions'[c] = None /\ typed'[c] = <<>> /\ got'[c] = <<>> /\ peer'[c] # "up"
      /\ \A x \in Caller \ {c} : /\ typed'[x] = typed[x] /\ got'[x] = got[x] /\ peer'[x] = peer[x]
                                 /\ sessions'[x] = sessions[x]
      /\ \A t \in Slots : slot[t].of # c => slot'[t] = slot[t]
  BY <1>0, DownKeeps
<1>2. UNCHANGED <<overtaken, recalled, used>>
  BY DEF Hangup, LinkEnds, LinkDown
<1>3. Numbered'
  <2>1. ToSet(<<>>) = {}
    BY DEF ToSet
  <2>. QED
    BY <1>1, <1>2, <2>1 DEF AnswerInv, Numbered
<1>4. ASSUME NEW x \in Caller, ~Disturbed(x)' PROVE InStep(x)'
  <2>1. CASE x = c
    <3>1. peer'[c] \in {"idle", "calling", "up"}
      BY <1>1 DEF ServerInv, Types
    <3>. QED
      BY <1>1, <2>1, <3>1, FreshInStep
  <2>2. CASE x # c
    <3>1. InStep(x)
      BY <1>2, <1>4 DEF AnswerInv, AllInStep, Disturbed
    <3>2. sessions[x] # None => slot'[sessions[x]] = slot[sessions[x]]
      BY <1>0, <1>1, <2>2, KeyOf
    <3>. QED
      BY <1>0, <1>1, <2>2, <3>1, <3>2, SameInStep
  <2>. QED
    BY <2>1, <2>2
<1>. QED
  BY <1>3, <1>4 DEF AllInStep

LEMMA BuiltAnswers ==
    ASSUME AnswerInv, NEW s \in Slots, Built(s) \/ BuildFails(s)
    PROVE  Numbered' /\ AllInStep'
<1>. DEFINE c == slot[s].of
<1>0. /\ ServerInv /\ Types /\ slot[s] \in Slot /\ Rested(slot[s]) /\ c \in Caller /\ s # None
      /\ slot \in [Slots -> Slot] /\ sessions \in [Caller -> Slots \cup {None}]
      /\ peer \in [Caller -> {"idle", "calling", "up"}]
  BY SlotsIs DEF AnswerInv, ServerInv, Types, Resting, Slot, None
<1>1. slot[s].building /\ slot[s].link = "none" /\ Quiet(slot[s])
  BY <1>0 DEF Built, BuildFails, Rested
<1>2. overtaken' = (IF sessions[c] \notin {None, s} THEN overtaken \cup {c} ELSE overtaken)
  BY DEF Built, BuildFails, Overtakes
<1>3. UNCHANGED <<typed, got, recalled, used>>
  BY DEF Built, BuildFails
<1>4. \A x \in Caller : sessions[x] = s => x = c
  BY <1>0, KeyOf
<1>5. \A t \in Slots \ {s} : slot'[t] = slot[t]
  BY <1>0 DEF Built, BuildFails
<1>6. \A x \in Caller \ {c} : sessions'[x] = sessions[x] /\ peer'[x] = peer[x]
  <2>1. CASE Built(s)
    <3>1. sessions' = sessions /\ (peer' = peer \/ Ua(c, peer[c]))
      BY <2>1 DEF Built
    <3>. QED
      BY <1>0, <3>1, UaTypes
  <2>2. CASE BuildFails(s)
    BY <1>0, <2>2 DEF BuildFails
  <2>. QED
    BY <2>1, <2>2
<1>7. ASSUME NEW x \in Caller, ~Disturbed(x)' PROVE InStep(x) /\ InStep(x)'
  <2>1. InStep(x)
    BY <1>2, <1>3, <1>7 DEF AnswerInv, AllInStep, Disturbed
  <2>2. CASE x # c
    <3>1. sessions[x] # None => slot'[sessions[x]] = slot[sessions[x]]
      BY <1>0, <1>4, <1>5, <2>2
    <3>. QED
      BY <1>0, <1>3, <1>6, <2>1, <2>2, <3>1, SameInStep
  <2>3. CASE x = c
    <3>1. sessions[c] \in {None, s}
      BY <1>2, <1>7, <2>3 DEF Disturbed
    <3>2. CASE sessions[c] = None
      <4>1. sessions'[c] = None /\ peer' = peer
        BY <1>0, <3>2 DEF Built, BuildFails
      <4>. QED
        BY <1>0, <1>3, <2>1, <2>3, <3>2, <4>1, SameInStep
    <3>3. CASE sessions[c] = s
      <4>1. peer[c] # "up" /\ typed[c] = <<>> /\ got[c] = <<>>
        BY <1>0, <1>1, <2>1, <2>3, <3>3, NotYetUp
      <4>2. CASE BuildFails(s)
        <5>1. sessions'[c] = None /\ peer' = peer
          BY <1>0, <4>2 DEF BuildFails
        <5>. QED
          BY <1>0, <1>3, <2>1, <2>3, <4>1, <5>1, FreshInStep
      <4>3. CASE Built(s)
        <5>. DEFINE d == [slot[s] EXCEPT !.building = FALSE, !.warming = FALSE, !.link = "up"]
        <5>1. slot' = [slot EXCEPT ![s] = d] /\ Ua(c, peer[c]) /\ sessions' = sessions
          BY <1>0, <3>3, <4>3 DEF Built
        <5>2. d.link = "up" /\ d.buf = slot[s].buf /\ d.busy = slot[s].busy /\ d.sink = slot[s].sink
          BY <1>0 DEF Slot
        <5>. HIDE DEF d
        <5>3. slot'[s] = d
          BY <1>0, <5>1
        <5>4. Quiet(slot'[s]) /\ slot'[s].link = "up"
          BY <1>1, <5>2, <5>3 DEF Quiet
        <5>5. peer'[c] \in {"idle", "calling", "up"}
          BY <1>0, <5>1, UaTypes
        <5>. QED
          BY <1>0, <1>3, <2>1, <2>3, <3>3, <4>1, <5>1, <5>4, <5>5, FreshInStep
      <4>. QED
        BY <4>2, <4>3
    <3>. QED
      BY <3>1, <3>2, <3>3
  <2>. QED
    BY <2>2, <2>3
<1>8. Numbered'
  BY <1>3 DEF AnswerInv, Numbered
<1>. QED
  BY <1>7, <1>8 DEF AllInStep

LEMMA TickAnswers ==
    ASSUME AnswerInv, Tick
    PROVE  Numbered' /\ AllInStep'
<1>0. ServerInv /\ sessions \in [Caller -> Slots \cup {None}]
  BY DEF AnswerInv, ServerInv, Types
<1>1. /\ UNCHANGED <<sessions, peer, typed, got, overtaken, recalled, used>>
      /\ \A s \in Slots : /\ slot'[s].link = slot[s].link /\ slot'[s].busy = slot[s].busy /\ slot'[s].buf = slot[s].buf
                          /\ slot'[s].handle = slot[s].handle /\ slot'[s].sink = slot[s].sink
  BY <1>0, TickKeeps
<1>2. Numbered'
  BY <1>1 DEF AnswerInv, Numbered
<1>3. ASSUME NEW x \in Caller, ~Disturbed(x)' PROVE InStep(x)'
  <2>1. InStep(x)
    BY <1>1, <1>3 DEF AnswerInv, AllInStep, Disturbed
  <2>. QED
    BY <1>0, <1>1, <2>1, SameInStep
<1>. QED
  BY <1>2, <1>3 DEF AllInStep

LEMMA OnwardAnswers ==
    ASSUME AnswerInv, NEW s \in Slots, OnwardCloses(s)
    PROVE  Numbered' /\ AllInStep'
<1>0. ServerInv /\ Types /\ sessions \in [Caller -> Slots \cup {None}]
  BY DEF AnswerInv, ServerInv, Types
<1>1. /\ UNCHANGED <<sessions, peer, typed, got, overtaken, recalled, used>>
      /\ slot[s].sink
      /\ slot'[s].link = slot[s].link /\ slot'[s].buf = slot[s].buf /\ slot'[s].busy = slot[s].busy
      /\ slot'[s].handle = slot[s].handle
      /\ \A t \in Slots \ {s} : slot'[t] = slot[t]
  BY <1>0, OnwardIs
<1>2. Numbered'
  BY <1>1 DEF AnswerInv, Numbered
<1>3. ASSUME NEW x \in Caller, ~Disturbed(x)' PROVE InStep(x)'
  <2>1. InStep(x)
    BY <1>1, <1>3 DEF AnswerInv, AllInStep, Disturbed
  <2>2. CASE sessions[x] = s
    <3>1. s # None /\ peer[x] \in {"idle", "calling", "up"}
      BY <1>0, SlotsIs DEF None, Types
    <3>2. peer[x] # "calling"
      BY <1>1, <2>1, <2>2, <3>1 DEF InStep, Quiet
    <3>. QED
      BY <1>0, <1>1, <2>1, <2>2, <3>1, <3>2, SameInStep
  <2>3. CASE sessions[x] # s
    BY <1>0, <1>1, <2>1, <2>3, SameInStep
  <2>. QED
    BY <2>2, <2>3
<1>. QED
  BY <1>2, <1>3 DEF AllInStep

LEMMA WithoutEmpty == ASSUME NEW D PROVE Without(<<>>, D) = <<>>
<1>1. <<>> \in Seq(Lines) /\ ToSet(<<>>) = {}
  BY DEF ToSet
<1>2. Without(<<>>, D) \in Seq(Lines) /\ ToSet(Without(<<>>, D)) \subseteq {}
  BY <1>1, WithoutIn
<1>. QED
  BY <1>2 DEF ToSet

\* The caller whose session the driver served is in step again.
LEMMA ServedInStep ==
    ASSUME NEW c \in Caller, NEW e \in Slot, Works(e), e.link \in {"up", "closing"},
           NEW g \in Seq(Lines), NEW X \in Seq(Lines), Accounts(e, X), Distinct(g \o X),
           peer'[c] = "up", sessions'[c] # None,
           slot'[sessions'[c]].link = e.link, slot'[sessions'[c]].buf = e.buf,
           slot'[sessions'[c]].busy = e.busy, slot'[sessions'[c]].handle = e.handle,
           got'[c] = g \o e.say, typed'[c] = Without(g \o X, e.drop)
    PROVE  InStep(c)'
<1>. DEFINE d == slot'[sessions'[c]]
<1>1. /\ e.link = "up" => /\ Without(g \o X, e.drop) = (g \o e.say) \o Due(e)
                          /\ Distinct((g \o e.say) \o Due(e))
      /\ e.link # "up" => /\ IsPrefix(g \o e.say, Without(g \o X, e.drop))
                          /\ ToSet(g \o e.say) \cap ToSet(e.buf) = {}
  BY HeardInOrder
<1>2. Due(d) = Due(e)
  BY DEF Due
<1>3. d.link = "up" => typed'[c] = got'[c] \o Due(d) /\ Distinct(typed'[c])
  BY <1>1, <1>2
<1>4. d.link # "up" => d.link = "closing" /\ IsPrefix(got'[c], typed'[c]) /\ ToSet(got'[c]) \cap ToSet(d.buf) = {}
  BY <1>1
<1>. QED
  BY <1>3, <1>4 DEF InStep

\* Callers other than the slot's.
LEMMA OthersInStep ==
    ASSUME AnswerInv, NEW s \in Slots, slot[s].link \in {"up", "closing"}, UNCHANGED <<sessions, peer, overtaken, recalled>>,
           \A t \in Slots \ {s} : slot'[t] = slot[t],
           NEW x \in Caller, x # slot[s].of, got'[x] = got[x], typed'[x] = typed[x], ~Disturbed(x)'
    PROVE  InStep(x)'
<1>0. ServerInv /\ sessions \in [Caller -> Slots \cup {None}]
  BY DEF AnswerInv, ServerInv, Types
<1>1. InStep(x)
  BY DEF AnswerInv, AllInStep, Disturbed
<1>2. sessions[x] # None => sessions[x] # s /\ sessions[x] \in Slots
  BY <1>0, KeyOf
<1>. QED
  BY <1>0, <1>1, <1>2, SameInStep

LEMMA TypeAnswers ==
    ASSUME AnswerInv, NEW c \in Caller, Type(c)
    PROVE  Numbered' /\ AllInStep'
<1>. DEFINE s == sessions[c]
            d == slot[s]
<1>0. ServerInv /\ Types /\ typed \in [Caller -> Seq(Lines)] /\ got \in [Caller -> Seq(Lines)] /\ used["line"] \in Nat
  BY DEF AnswerInv, ServerInv, Types
<1>1. /\ s \in Slots /\ peer[c] = "up" /\ d.link = "up" /\ d.of = c
      /\ Use("line") /\ UNCHANGED <<sessions, peer, overtaken, recalled>>
  BY <1>0, TypeIs
<1>2. PICK line \in Lines : /\ line.n = used["line"] + 1
                            /\ Put(s, OnData(d, line), IF d.sink THEN typed ELSE [typed EXCEPT ![c] = Append(typed[c], line)])
  BY <1>0, TypeIs
<1>3. d \in Slot /\ Rested(d) /\ s # None
  BY <1>0, <1>1, SlotsIs DEF ServerInv, Types, Resting, None
<1>4. used'["line"] = used["line"] + 1
  BY <1>0, <1>1, UseIs
<1>. HIDE DEF s
<1>5. CASE d.sink
  <2>1. OnData(d, line) = d
    BY <1>5 DEF OnData
  <2>2. Put(s, d, typed)
    BY <1>2, <1>5, <2>1
  <2>3. typed' = typed /\ got' = got /\ Kept(d, d) /\ Works(d)
    BY <1>0, <1>1, <2>2, SinkPuts
  <2>4. /\ slot'[s].link = d.link /\ slot'[s].buf = d.buf /\ slot'[s].busy = d.busy /\ slot'[s].handle = d.handle
        /\ \A t \in Slots \ {s} : slot'[t] = slot[t]
    BY <1>0, <1>1, <2>2, <2>3, PutKeeps
  <2>5. Numbered'
    <3>1. ASSUME NEW x \in Caller, NEW y \in ToSet(typed[x]) PROVE y.n <= used["line"] + 1
      <4>1. y.n <= used["line"]
        BY <3>1 DEF AnswerInv, Numbered
      <4>2. y \in Lines
        BY <1>0, <3>1 DEF ToSet
      <4>3. y.n \in Nat
        BY <4>2 DEF Lines
      <4>. QED
        BY <1>0, <4>1, <4>3
    <3>. QED
      BY <1>4, <2>3, <3>1 DEF Numbered
  <2>6. ASSUME NEW x \in Caller, ~Disturbed(x)' PROVE InStep(x)'
    <3>1. CASE x = c
      <4>1. InStep(c)
        BY <1>1, <2>6, <3>1 DEF AnswerInv, AllInStep, Disturbed
      <4>. QED
        BY <1>0, <1>1, <1>5, <2>3, <2>4, <3>1, <4>1, SameInStep DEF s
    <3>2. CASE x # c
      BY <1>1, <2>3, <2>4, <2>6, <3>2, OthersInStep
    <3>. QED
      BY <3>1, <3>2
  <2>. QED
    BY <2>5, <2>6 DEF AllInStep
<1>6. CASE ~d.sink
  <2>. DEFINE ty == [typed EXCEPT ![c] = Append(typed[c], line)]
              e == OnData(d, line)
              X == Due(d) \o <<line>>
  <2>1. ty \in [Caller -> Seq(Lines)] /\ ty[c] = Append(typed[c], line) /\ \A x \in Caller \ {c} : ty[x] = typed[x]
    BY <1>0
  <2>2. Put(s, e, ty)
    BY <1>2, <1>6
  <2>3. Kept(d, e) /\ Works(e) /\ Accounts(e, X)
    BY <1>1, <1>3, <1>6, OnDataServes
  <2>. HIDE DEF ty, e
  <2>4. /\ slot'[s].link = e.link /\ slot'[s].buf = e.buf /\ slot'[s].busy = e.busy /\ slot'[s].handle = e.handle
        /\ \A t \in Slots \ {s} : slot'[t] = slot[t]
        /\ got'[c] = got[c] \o e.say /\ typed'[c] = Without(ty[c], e.drop)
        /\ \A x \in Caller \ {c} : got'[x] = got[x] /\ typed'[x] = ty[x]
    BY <1>0, <1>1, <2>1, <2>2, <2>3, PutKeeps, ZenonT(60)
  <2>5. \A x \in Caller : \A y \in ToSet(typed[x]) : y \in Lines /\ y.n <= used["line"]
    BY <1>0 DEF AnswerInv, Numbered, ToSet
  <2>6. \A y \in Lines : y.n \in Nat
    BY DEF Lines
  <2>7. Numbered'
    <3>1. ASSUME NEW x \in Caller, NEW y \in ToSet(typed'[x]) PROVE y.n <= used["line"] + 1
      <4>1. CASE x = c
        <5>1. y \in ToSet(ty[c])
          BY <2>1, <2>4, <3>1, <4>1, WithoutIn
        <5>2. y = line \/ y \in ToSet(typed[c])
          BY <1>0, <2>1, <5>1 DEF ToSet
        <5>. QED
          BY <1>0, <1>2, <2>5, <2>6, <5>2
      <4>2. CASE x # c
        <5>1. y \in ToSet(typed[x])
          BY <2>1, <2>4, <3>1, <4>2
        <5>. QED
          BY <1>0, <2>5, <2>6, <5>1
      <4>. QED
        BY <4>1, <4>2
    <3>. QED
      BY <1>4, <3>1 DEF Numbered
  <2>8. ASSUME ~Disturbed(c)' PROVE InStep(c)'
    <3>0. InStep(c)
      BY <1>1, <2>8 DEF AnswerInv, AllInStep, Disturbed
    <3>1. typed[c] = got[c] \o Due(d) /\ Distinct(typed[c])
      BY <1>1, <3>0 DEF InStep, s
    <3>2. /\ Due(d) \in Seq(Lines) /\ got[c] \in Seq(Lines) /\ typed[c] \in Seq(Lines) /\ <<line>> \in Seq(Lines)
      <4>1. d.buf \in Seq(Lines)
        BY <1>3 DEF Slot
      <4>2. Due(d) \in Seq(Lines)
        BY <1>3, <4>1, DueIs DEF Rested
      <4>. QED
        BY <1>0, <4>2
    <3>3. X \in Seq(Lines) /\ ty[c] = got[c] \o X
      <4>1. Append(typed[c], line) = typed[c] \o <<line>>
        BY <3>2, AppendIsConcat
      <4>2. (got[c] \o Due(d)) \o <<line>> = got[c] \o (Due(d) \o <<line>>)
        BY <3>2, LineConcat
      <4>3. typed[c] \o <<line>> = (got[c] \o Due(d)) \o <<line>>
        BY <3>1
      <4>4. X \in Seq(Lines)
        BY <3>2
      <4>5. ty[c] = got[c] \o (Due(d) \o <<line>>)
        BY <2>1, <4>1, <4>2, <4>3, Zenon
      <4>. QED
        BY <4>4, <4>5
    <3>4. Distinct(ty[c])
      <4>1. \A i \in DOMAIN typed[c] : typed[c][i] # line
        <5>1. ASSUME NEW i \in DOMAIN typed[c] PROVE typed[c][i] # line
          <6>1. typed[c][i] \in ToSet(typed[c])
            BY DEF ToSet
          <6>2. typed[c][i].n <= used["line"]
            BY <2>5, <6>1
          <6>3. ~ (used["line"] + 1 <= used["line"])
            BY <1>0
          <6>. QED
            BY <1>2, <6>2, <6>3
        <5>. QED
          BY <5>1
      <4>2. /\ DOMAIN ty[c] = 1..(Len(typed[c]) + 1) /\ DOMAIN typed[c] = 1..Len(typed[c]) /\ Len(typed[c]) \in Nat
            /\ ty[c][Len(typed[c]) + 1] = line
            /\ \A i \in 1..Len(typed[c]) : ty[c][i] = typed[c][i]
        BY <2>1, <3>2
      <4>3. ASSUME NEW i \in DOMAIN ty[c], NEW j \in DOMAIN ty[c], ty[c][i] = ty[c][j] PROVE i = j
        <5>1. i \in 1..Len(typed[c]) \/ i = Len(typed[c]) + 1
          BY <4>2
        <5>2. j \in 1..Len(typed[c]) \/ j = Len(typed[c]) + 1
          BY <4>2
        <5>. QED
          BY <3>1, <4>1, <4>2, <4>3, <5>1, <5>2 DEF Distinct
      <4>. QED
        BY <4>3 DEF Distinct
    <3>5. e \in Slot /\ e.link \in {"up", "closing"}
      BY <1>1, <2>3 DEF Kept
    <3>6. Distinct(got[c] \o X) /\ typed'[c] = Without(got[c] \o X, e.drop)
      BY <2>4, <3>3, <3>4
    <3>. HIDE DEF X
    <3>. QED
      BY <1>1, <1>3, <2>3, <2>4, <3>2, <3>3, <3>5, <3>6, ServedInStep DEF s
  <2>9. ASSUME NEW x \in Caller, x # c, ~Disturbed(x)' PROVE InStep(x)'
    <3>1. got'[x] = got[x] /\ typed'[x] = typed[x]
      BY <2>1, <2>4, <2>9
    <3>. QED
      BY <1>1, <2>4, <2>9, <3>1, OthersInStep
  <2>. QED
    BY <2>7, <2>8, <2>9 DEF AllInStep
<1>. QED
  BY <1>5, <1>6

LEMMA SettleAnswers ==
    ASSUME AnswerInv, NEW s \in Slots, Settle(s)
    PROVE  Numbered' /\ AllInStep'
<1>. DEFINE d == slot[s]
<1>a. /\ ServerInv /\ Types /\ typed \in [Caller -> Seq(Lines)] /\ got \in [Caller -> Seq(Lines)]
      /\ sessions \in [Caller -> Slots \cup {None}] /\ d \in Slot /\ Rested(d) /\ d.of \in Caller /\ s # None
  BY SlotsIs DEF AnswerInv, ServerInv, Types, Resting, Slot, None
<1>b. PICK c \in Caller : c = d.of
  BY <1>a
<1>0. /\ ServerInv /\ Types /\ typed \in [Caller -> Seq(Lines)] /\ got \in [Caller -> Seq(Lines)]
      /\ sessions \in [Caller -> Slots \cup {None}] /\ d \in Slot /\ Rested(d) /\ c = d.of /\ s # None
  BY <1>a, <1>b
<1>1. PICK e \in {Resolve(d), Reject(d)} :
               /\ Put(s, e, typed) /\ UNCHANGED <<sessions, peer, overtaken, recalled, used>>
               /\ \/ d.link = "down"
                  \/ d.link \in {"up", "closing"} /\ d.busy
  BY <1>0, SettleIs
<1>2. CASE d.link = "down"
  <2>1. typed' = typed /\ got' = got /\ \A t \in Slots \ {s} : slot'[t] = slot[t]
    BY <1>0, <1>1, <1>2, LateIs
  <2>2. \A x \in Caller : sessions[x] # s
    BY <1>0, <1>2, KeyOf
  <2>3. ASSUME NEW x \in Caller, ~Disturbed(x)' PROVE InStep(x)'
    <3>1. InStep(x)
      BY <1>1, <2>3 DEF AnswerInv, AllInStep, Disturbed
    <3>. QED
      BY <1>0, <1>1, <2>1, <2>2, <3>1, SameInStep
  <2>4. Numbered'
    BY <1>1, <2>1 DEF AnswerInv, Numbered
  <2>. QED
    BY <2>3, <2>4 DEF AllInStep
<1>3. CASE d.link \in {"up", "closing"} /\ d.busy
  <2>1. Kept(d, e) /\ Works(e) /\ Left(d) \in Seq(Lines) /\ Accounts(e, Left(d))
    BY <1>0, <1>3, SettleServes
  <2>2. /\ slot'[s].link = e.link /\ slot'[s].buf = e.buf /\ slot'[s].busy = e.busy /\ slot'[s].handle = e.handle
        /\ \A t \in Slots \ {s} : slot'[t] = slot[t]
        /\ got'[c] = (IF peer[c] = "up" THEN got[c] \o e.say ELSE got[c]) /\ typed'[c] = Without(typed[c], e.drop)
        /\ \A x \in Caller \ {c} : got'[x] = got[x] /\ typed'[x] = typed[x]
    BY <1>0, <1>1, <1>3, <2>1, PutKeeps
  <2>3. Numbered'
    <3>1. ToSet(typed'[c]) \subseteq ToSet(typed[c])
      BY <1>0, <2>2, WithoutIn
    <3>2. \A x \in Caller : ToSet(typed'[x]) \subseteq ToSet(typed[x])
      BY <2>2, <3>1
    <3>. QED
      BY <1>1, <3>2 DEF AnswerInv, Numbered
  <2>4. ASSUME NEW x \in Caller, x # c, ~Disturbed(x)' PROVE InStep(x)'
    BY <1>0, <1>1, <1>3, <2>2, <2>4, OthersInStep
  <2>5. ASSUME ~Disturbed(c)' PROVE InStep(c)'
    <3>0. InStep(c) /\ c \notin overtaken
      BY <1>0, <1>1, <2>5 DEF AnswerInv, AllInStep, Disturbed
    <3>1. sessions[c] = s
      BY <1>0, <1>3, <3>0 DEF ServerInv, NoOrphan
    <3>2. peer[c] \in {"idle", "calling", "up"}
      BY <1>0 DEF Types
    <3>3. CASE peer[c] = "idle"
      <4>1. typed[c] = <<>> /\ got[c] = <<>>
        BY <3>0, <3>3 DEF InStep
      <4>2. typed'[c] = <<>> /\ got'[c] = <<>> /\ peer'[c] = "idle"
        BY <1>1, <2>2, <3>3, <4>1, WithoutEmpty
      <4>. QED
        BY <1>0, <4>2, FreshInStep
    <3>4. CASE peer[c] = "calling"
      BY <1>0, <1>3, <3>0, <3>1, <3>4 DEF InStep, Quiet
    <3>5. CASE peer[c] = "up" /\ d.link = "up"
      <4>1. typed[c] = got[c] \o Due(d) /\ Distinct(typed[c])
        BY <3>0, <3>1, <3>5 DEF InStep
      <4>2. Left(d) = Due(d) /\ e \in Slot /\ e.link \in {"up", "closing"}
        BY <2>1, <3>5 DEF Left, Kept
      <4>3. Distinct(got[c] \o Left(d)) /\ typed'[c] = Without(got[c] \o Left(d), e.drop) /\ got[c] \in Seq(Lines)
        BY <1>0, <2>2, <4>1, <4>2
      <4>4. peer'[c] = "up" /\ sessions'[c] = s /\ got'[c] = got[c] \o e.say
        BY <1>1, <2>2, <3>1, <3>5
      <4>. QED
        BY <1>0, <2>1, <2>2, <4>2, <4>3, <4>4, ServedInStep
    <3>6. CASE peer[c] = "up" /\ d.link = "closing"
      <4>1. IsPrefix(got[c], typed[c]) /\ ToSet(got[c]) \cap ToSet(d.buf) = {}
        BY <3>0, <3>1, <3>6 DEF InStep
      <4>2. got[c] \in Seq(Lines) /\ typed[c] \in Seq(Lines)
        BY <1>0
      <4>3. PICK u \in Seq(Lines) : typed[c] = got[c] \o u
        BY <4>1, <4>2, PrefixIs, ZenonT(60)
      <4>4. e.link = "closing" /\ e.say = <<>> /\ e \in Slot
        BY <1>0, <2>1, <3>6 DEF Kept, Rested
      <4>5. e.drop \cup ToSet(e.buf) \subseteq ToSet(d.buf)
        <5>1. PICK q \in Seq(Lines) : Left(d) = e.say \o q /\ e.drop \cup ToSet(e.buf) \subseteq ToSet(q)
          BY <2>1, <4>4 DEF Accounts
        <5>2. Left(d) = d.buf /\ <<>> \o q = q
          BY <3>6 DEF Left
        <5>. QED
          BY <4>4, <5>1, <5>2
      <4>. DEFINE D == e.drop
      <4>6. ToSet(got[c]) \cap D = {}
        BY <4>1, <4>5
      <4>. HIDE DEF D
      <4>7. \E t \in Seq(Lines) : Without(got[c] \o u, D) = got[c] \o t
        BY <4>2, <4>6, WithoutIs
      <4>8. IsPrefix(got[c], typed'[c])
        <5>1. PICK t \in Seq(Lines) : Without(got[c] \o u, D) = got[c] \o t
          BY <4>7
        <5>2. IsPrefix(got[c], got[c] \o t)
          BY <4>2, PrefixIs
        <5>. QED
          BY <2>2, <4>3, <5>1, <5>2 DEF D
      <4>9. got'[c] = got[c]
        <5>1. got[c] \o <<>> = got[c]
          BY <4>2
        <5>. QED
          BY <2>2, <4>4, <5>1
      <4>10. ToSet(got[c]) \cap ToSet(e.buf) = {}
        BY <4>1, <4>5
      <4>11. peer'[c] = "up" /\ sessions'[c] = s /\ slot'[s].link = "closing" /\ slot'[s].buf = e.buf
        BY <1>1, <2>2, <3>1, <3>6, <4>4
      <4>. QED
        BY <1>0, <4>8, <4>9, <4>10, <4>11 DEF InStep
    <3>. QED
      BY <1>3, <3>2, <3>3, <3>4, <3>5, <3>6
  <2>. QED
    BY <2>3, <2>4, <2>5 DEF AllInStep
<1>. QED
  BY <1>1, <1>2, <1>3

LEMMA AnswerNext == ASSUME AnswerInv, [Next]_vars PROVE AnswerInv'
<1>0. ServerInv'
  BY ServerNext DEF AnswerInv
<1>1. ASSUME NEW c \in Caller, Call(c) \/ Repeat(c) PROVE Numbered' /\ AllInStep'
  BY <1>1, CallsAnswer
<1>2. ASSUME NEW c \in Caller, Vanish(c) PROVE Numbered' /\ AllInStep'
  BY <1>2, VanishAnswers
<1>3. ASSUME NEW c \in Caller, Reap(c) PROVE Numbered' /\ AllInStep'
  BY <1>3, ReapAnswers
<1>4. ASSUME NEW c \in Caller, Hangup(c) \/ LinkEnds(c) PROVE Numbered' /\ AllInStep'
  BY <1>4, DownAnswers
<1>5. ASSUME NEW c \in Caller, Type(c) PROVE Numbered' /\ AllInStep'
  BY <1>5, TypeAnswers
<1>6. ASSUME NEW s \in Slots, Built(s) \/ BuildFails(s) PROVE Numbered' /\ AllInStep'
  BY <1>6, BuiltAnswers
<1>7. ASSUME NEW s \in Slots, OnwardCloses(s) PROVE Numbered' /\ AllInStep'
  BY <1>7, OnwardAnswers
<1>8. ASSUME NEW s \in Slots, Settle(s) PROVE Numbered' /\ AllInStep'
  BY <1>8, SettleAnswers
<1>9. ASSUME Tick PROVE Numbered' /\ AllInStep'
  BY <1>9, TickAnswers
<1>10. ASSUME UNCHANGED vars PROVE Numbered' /\ AllInStep'
  BY <1>10 DEF vars, AnswerInv, Numbered, AllInStep, Disturbed, InStep
<1>11. Numbered' /\ AllInStep'
  BY <1>1, <1>2, <1>3, <1>4, <1>5, <1>6, <1>7, <1>8, <1>9, <1>10 DEF Next
<1>. QED
  BY <1>0, <1>11 DEF AnswerInv

LEMMA AnswerInit == Init => AnswerInv
<1>. SUFFICES ASSUME Init PROVE AnswerInv
  OBVIOUS
<1>1. ServerInv
  BY ServerInit
<1>2. ToSet(<<>>) = {}
  BY DEF ToSet
<1>3. \A c \in Caller : typed[c] = <<>> /\ got[c] = <<>> /\ peer[c] = "idle"
  BY DEF Init
<1>. QED
  BY <1>1, <1>2, <1>3 DEF AnswerInv, Numbered, AllInStep, InStep

LEMMA InStepAnswers ==
    ASSUME ServerInv, NEW c \in Caller, InStep(c)
    PROVE  IsPrefix(got[c], typed[c])
<1>1. peer[c] \in {"idle", "calling", "up"} /\ got[c] \in Seq(Lines) /\ typed[c] \in Seq(Lines)
  BY DEF ServerInv, Types
<1>2. CASE peer[c] # "up"
  <2>1. typed[c] = <<>> /\ got[c] = <<>>
    BY <1>1, <1>2 DEF InStep
  <2>2. <<>> \o <<>> = <<>> /\ <<>> \in Seq(Lines)
    OBVIOUS
  <2>3. IsPrefix(<<>>, <<>> \o <<>>)
    BY <2>2, PrefixIs
  <2>. QED
    BY <2>1, <2>2, <2>3
<1>3. CASE peer[c] = "up" /\ slot[sessions[c]].link = "up"
  <2>. DEFINE d == slot[sessions[c]]
  <2>1. typed[c] = got[c] \o Due(d) /\ sessions[c] # None
    BY <1>3 DEF InStep
  <2>2. d \in Slot /\ Rested(d)
    BY <2>1, KeyOf
  <2>3. d.buf \in Seq(Lines)
    BY <2>2 DEF Slot
  <2>4. Due(d) \in Seq(Lines)
    BY <2>2, <2>3, DueIs DEF Rested
  <2>. QED
    BY <1>1, <2>1, <2>4, PrefixIs
<1>4. CASE peer[c] = "up" /\ slot[sessions[c]].link # "up"
  BY <1>4 DEF InStep
<1>. QED
  BY <1>2, <1>3, <1>4

(***************************************************************************)
(* A caller receives the answers to the lines it typed in this call, each  *)
(* once and in the order typed, however the application's answers, the     *)
(* lines that come in meanwhile, a handover to another node and the end of *)
(* the session meet in pump(): unless it called again over a link the      *)
(* server still held, or a reaped slot of its own settled late.            *)
(***************************************************************************)
THEOREM ServerAnswersInOrder == Spec => []AnswersInOrder
<1>1. AnswerInv => AnswersInOrder
  BY InStepAnswers DEF AnswerInv, AllInStep, AnswersInOrder
<1>. QED
  BY <1>1, AnswerInit, AnswerNext, PTL DEF Spec
=============================================================================

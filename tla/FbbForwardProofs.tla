-------------------------- MODULE FbbForwardProofs --------------------------
(***************************************************************************)
(* Proofs about mail forwarding: for any mail of the two boxes, any size   *)
(* of a block, and links and gateway calls that fail at any point.         *)
(***************************************************************************)
EXTENDS FbbForward, SequenceTheorems, WellFoundedInduction, TLAPS

-----------------------------------------------------------------------------
(* Induction on the natural numbers, and functions defined by it. *)

LEMMA MinIn ==
    ASSUME NEW S \in SUBSET Nat, S # {}
    PROVE  Min(S) \in S /\ \A x \in S : Min(S) <= x
<1>. DEFINE R == OpToRel(<, Nat)
<1>1. \A x, y \in Nat : <<x, y>> \in R <=> x < y
  BY DEF OpToRel
<1>2. IsWellFoundedOn(R, Nat)
  BY NatLessThanWellFounded
<1>. HIDE DEF R
<1>3. PICK x \in S : \A y \in S : ~ (<<y, x>> \in R)
  BY <1>2, WFMin
<1>4. ASSUME NEW y \in S PROVE x <= y
  <2>1. x \in Nat /\ y \in Nat /\ ~ (<<y, x>> \in R)
    BY <1>3
  <2>2. ~ (y < x)
    BY <1>1, <2>1
  <2>. QED
    BY <2>1, <2>2
<1>. QED
  BY <1>4 DEF Min

\* Induction: a set that holds 0, and n + 1 with every n, holds every natural number.
LEMMA Reaches ==
    ASSUME NEW G, 0 \in G, \A n \in Nat : n \in G => n + 1 \in G
    PROVE  \A n \in Nat : n \in G
<1>. SUFFICES ASSUME Nat \ G # {} PROVE FALSE
  OBVIOUS
<1>1. PICK m \in Nat \ G : \A x \in Nat \ G : m <= x
  BY MinIn
<1>2. m # 0 /\ m - 1 \in Nat
  BY <1>1
<1>3. m - 1 \in G
  BY <1>1, <1>2
<1>. QED
  BY <1>1, <1>2, <1>3

\* Primitive recursion: a start and a step give a function on 0..N.
Iteration(T, g, d, N, h) == h \in [0..N -> T] /\ h[0] = d /\ \A i \in 1..N : h[i] = g[i][h[i - 1]]

LEMMA Iterates ==
    ASSUME NEW T, NEW g \in [Nat -> [T -> T]], NEW d \in T, NEW N \in Nat
    PROVE  \E h : Iteration(T, g, d, N, h)
<1>. DEFINE Upto(n) == \E h \in [0..n -> T] : h[0] = d /\ \A i \in 1..n : h[i] = g[i][h[i - 1]]
            G == {n \in Nat : Upto(n)}
<1>1. 0 \in G
  <2>. DEFINE h == [i \in 0..0 |-> d]
  <2>1. h \in [0..0 -> T] /\ h[0] = d /\ \A i \in 1..0 : h[i] = g[i][h[i - 1]]
    OBVIOUS
  <2>. HIDE DEF h
  <2>2. Upto(0)
    BY <2>1
  <2>. QED
    BY <2>2
<1>2. ASSUME NEW n \in Nat, n \in G PROVE n + 1 \in G
  <2>1. PICK h \in [0..n -> T] : h[0] = d /\ \A i \in 1..n : h[i] = g[i][h[i - 1]]
    BY <1>2
  <2>. DEFINE k == [i \in 0..(n + 1) |-> IF i = n + 1 THEN g[i][h[n]] ELSE h[i]]
  <2>2. k \in [0..(n + 1) -> T]
    BY <2>1
  <2>3. k[0] = d
    BY <2>1
  <2>4. ASSUME NEW i \in 1..(n + 1) PROVE k[i] = g[i][k[i - 1]]
    BY <2>1
  <2>. HIDE DEF k
  <2>5. Upto(n + 1)
    BY <2>2, <2>3, <2>4
  <2>. QED
    BY <2>5
<1>3. \A n \in Nat : n \in G
  <2>. HIDE DEF G
  <2>. QED
    BY <1>1, <1>2, Reaches
<1>. QED
  BY <1>3 DEF Iteration
-----------------------------------------------------------------------------
(* The constants. *)

LEMMA OtherIs ==
    /\ Other(Caller) = Called /\ Other(Called) = Caller
    /\ \A b \in Box : /\ Other(b) \in Box /\ Other(b) # b /\ Other(Other(b)) = b
                      /\ \A x \in Box : x = b \/ x = Other(b)
<1>1. Other(Caller) = Called /\ Other(Called) = Caller
  <2>1. Other(Caller) \in Box /\ Other(Caller) # Caller
    BY FbbAssumption, Zenon DEF Other, Box
  <2>2. Other(Called) \in Box /\ Other(Called) # Called
    BY FbbAssumption, Zenon DEF Other, Box
  <2>. QED
    BY <2>1, <2>2 DEF Box
<1>. QED
  BY <1>1, FbbAssumption DEF Box

LEMMA MailIs ==
    \A b \in Box : /\ Mail[b] \in Seq(Msgs) /\ ToSet(Mail[b]) \subseteq Msgs
                   /\ ToSet(Mail[b]) \cap ToSet(Mail[Other(b)]) = {}
<1>. SUFFICES ASSUME NEW b \in Box
              PROVE  Mail[b] \in Seq(Msgs) /\ ToSet(Mail[b]) \subseteq Msgs /\ ToSet(Mail[b]) \cap ToSet(Mail[Other(b)]) = {}
  OBVIOUS
<1>1. ToSet(Mail[b]) \subseteq Msgs
  BY Zenon DEF Msgs
<1>2. Mail[b] \in Seq(ToSet(Mail[b])) /\ ToSet(Mail[b]) \cap ToSet(Mail[Other(b)]) = {}
  BY FbbAssumption
<1>. DEFINE S == ToSet(Mail[b])
<1>. HIDE DEF S
<1>3. Mail[b] \in Seq(Msgs)
  <2>1. Mail[b] \in Seq(S) /\ S \subseteq Msgs
    BY <1>1, <1>2 DEF S
  <2>. QED
    BY <2>1
<1>. QED
  BY <1>1, <1>2, <1>3
-----------------------------------------------------------------------------
(* Lists of messages and of lines. *)

LEMMA WithoutRuns ==
    ASSUME NEW s \in Seq(Msgs), NEW D
    PROVE  \E h \in [0..Len(s) -> Seq(Msgs)] :
               /\ h[0] = <<>>
               /\ \A i \in 1..Len(s) : h[i] = IF s[i] \in D THEN h[i - 1] ELSE Append(h[i - 1], s[i])
               /\ Without(s, D) = h[Len(s)]
<1>. DEFINE N == Len(s)
            More(i, t) == IF s[i] \in D THEN t ELSE Append(t, s[i])
            g == [i \in Nat |-> [t \in Seq(Msgs) |-> IF i \in 1..N THEN More(i, t) ELSE t]]
<1>1. N \in Nat
  OBVIOUS
<1>2. \A i \in 1..N : \A t \in Seq(Msgs) : More(i, t) \in Seq(Msgs)
  OBVIOUS
<1>. HIDE DEF More
<1>3. /\ g \in [Nat -> [Seq(Msgs) -> Seq(Msgs)]]
      /\ \A i \in 1..N : \A t \in Seq(Msgs) : g[i][t] = More(i, t)
  BY <1>1, <1>2
<1>. HIDE DEF N, g
<1>4. PICK h : h \in [0..N -> Seq(Msgs)] /\ h[0] = <<>> /\ \A i \in 1..N : h[i] = g[i][h[i - 1]]
  <2>1. <<>> \in Seq(Msgs)
    OBVIOUS
  <2>2. \E h : Iteration(Seq(Msgs), g, <<>>, N, h)
    BY <1>1, <1>3, <2>1, Iterates
  <2>. QED
    BY <2>2 DEF Iteration
<1>5. \A i \in 1..N : h[i] = More(i, h[i - 1])
  <2>1. \A i \in 1..N : h[i - 1] \in Seq(Msgs)
    BY <1>1, <1>4
  <2>. QED
    BY <1>3, <1>4, <2>1
<1>6. h = [n \in 0..N |-> IF n = 0 THEN <<>> ELSE More(n, h[n - 1])]
  <2>1. \A n \in 0..N : h[n] = IF n = 0 THEN <<>> ELSE More(n, h[n - 1])
    BY <1>1, <1>4, <1>5
  <2>. QED
    BY <1>4, <2>1
<1>. DEFINE f == CHOOSE f : f = [n \in 0..N |-> IF n = 0 THEN <<>> ELSE More(n, f[n - 1])]
<1>7. f = [n \in 0..N |-> IF n = 0 THEN <<>> ELSE More(n, f[n - 1])]
  BY <1>6, Zenon
<1>8. Without(s, D) = f[N]
  BY Zenon DEF Without, N, More
<1>. HIDE DEF f
<1>9. f[0] = <<>> /\ \A i \in 1..N : f[i] = More(i, f[i - 1])
  BY <1>1, <1>7
<1>10. f \in [0..N -> Seq(Msgs)]
  <2>. DEFINE G == {n \in Nat : n <= N => f[n] \in Seq(Msgs)}
  <2>0. <<>> \in Seq(Msgs)
    OBVIOUS
  <2>1. 0 \in G
    BY <1>9, <2>0
  <2>2. ASSUME NEW n \in Nat, n \in G PROVE n + 1 \in G
    <3>. SUFFICES ASSUME n + 1 <= N PROVE f[n + 1] \in Seq(Msgs)
      OBVIOUS
    <3>1. f[n] \in Seq(Msgs) /\ f[n + 1] = More(n + 1, f[n]) /\ n + 1 \in 1..N
      BY <1>1, <1>9, <2>2
    <3>. QED
      BY <1>2, <3>1
  <2>. HIDE DEF G
  <2>3. \A n \in Nat : n \in G
    BY <2>1, <2>2, Reaches
  <2>4. \A n \in 0..N : f[n] \in Seq(Msgs)
    BY <1>1, <2>3 DEF G
  <2>. QED
    BY <1>7, <2>4
<1>. QED
  BY <1>8, <1>9, <1>10 DEF N, More

LEMMA AppendAdds == \A s \in Seq(Msgs) : \A x \in Msgs : ToSet(Append(s, x)) = ToSet(s) \cup {x}
<1>. SUFFICES ASSUME NEW s \in Seq(Msgs), NEW x \in Msgs PROVE ToSet(Append(s, x)) = ToSet(s) \cup {x}
  OBVIOUS
<1>1. /\ DOMAIN Append(s, x) = 1..(Len(s) + 1) /\ DOMAIN s = 1..Len(s) /\ Len(s) \in Nat
      /\ Append(s, x)[Len(s) + 1] = x /\ \A i \in 1..Len(s) : Append(s, x)[i] = s[i]
  OBVIOUS
<1>2. 1..(Len(s) + 1) = 1..Len(s) \cup {Len(s) + 1}
  BY <1>1
<1>. QED
  BY <1>1, <1>2 DEF ToSet

\* What is thrown out is gone, and the rest is there.
LEMMA WithoutIs ==
    ASSUME NEW s \in Seq(Msgs), NEW D
    PROVE  Without(s, D) \in Seq(Msgs) /\ ToSet(Without(s, D)) = ToSet(s) \ D
<1>1. PICK h \in [0..Len(s) -> Seq(Msgs)] :
               /\ h[0] = <<>>
               /\ \A i \in 1..Len(s) : h[i] = IF s[i] \in D THEN h[i - 1] ELSE Append(h[i - 1], s[i])
               /\ Without(s, D) = h[Len(s)]
  BY WithoutRuns
<1>. DEFINE N == Len(s)
            First(n) == {s[i] : i \in 1..n}
            G == {n \in Nat : n <= N => ToSet(h[n]) = First(n) \ D}
<1>0. N \in Nat
  OBVIOUS
<1>2. 0 \in G
  <2>1. ToSet(<<>>) = {} /\ First(0) = {}
    BY DEF ToSet
  <2>. QED
    BY <1>1, <2>1
<1>3. ASSUME NEW n \in Nat, n \in G PROVE n + 1 \in G
  <2>. SUFFICES ASSUME n + 1 <= N PROVE ToSet(h[n + 1]) = First(n + 1) \ D
    OBVIOUS
  <2>1. /\ n \in 0..N /\ n + 1 \in 1..N /\ h[n] \in Seq(Msgs) /\ ToSet(h[n]) = First(n) \ D
        /\ h[n + 1] = IF s[n + 1] \in D THEN h[n] ELSE Append(h[n], s[n + 1])
    BY <1>0, <1>1, <1>3
  <2>2. First(n + 1) = First(n) \cup {s[n + 1]}
    <3>1. 1..(n + 1) = 1..n \cup {n + 1}
      OBVIOUS
    <3>. QED
      BY <3>1
  <2>3. s[n + 1] \in Msgs
    BY <2>1
  <2>4. ToSet(Append(h[n], s[n + 1])) = ToSet(h[n]) \cup {s[n + 1]}
    BY <2>1, <2>3, AppendAdds
  <2>. HIDE DEF First
  <2>. QED
    BY <2>1, <2>2, <2>4
<1>. HIDE DEF G
<1>4. \A n \in Nat : n \in G
  BY <1>2, <1>3, Reaches
<1>5. ToSet(h[N]) = First(N) \ D
  <2>1. N \in G /\ N <= N
    BY <1>0, <1>4
  <2>. QED
    BY <2>1 DEF G
<1>6. First(N) = ToSet(s)
  BY DEF ToSet
<1>7. h[N] \in Seq(Msgs)
  BY <1>0, <1>1
<1>. QED
  BY <1>1, <1>5, <1>6, <1>7

LEMMA AcceptedIs ==
    ASSUME NEW ms \in Seq(Msgs), NEW v
    PROVE  Accepted(ms, v) \in Seq(Msgs) /\ ToSet(Accepted(ms, v)) = {m \in ToSet(ms) : v[m] = "+"}
<1>. DEFINE D == {m \in ToSet(ms) : v[m] # "+"}
<1>1. ToSet(ms) \ D = {m \in ToSet(ms) : v[m] = "+"}
  OBVIOUS
<1>2. Without(ms, D) \in Seq(Msgs) /\ ToSet(Without(ms, D)) = ToSet(ms) \ D
  <2>. HIDE DEF D
  <2>. QED
    BY WithoutIs
<1>. QED
  BY <1>1, <1>2 DEF Accepted

LEMMA EmptySet == ToSet(<<>>) = {}
  BY DEF ToSet

LEMMA OneLine ==
    ASSUME NEW l
    PROVE  <<l>> # <<>> /\ Head(<<l>>) = l /\ Tail(<<l>>) = <<>> /\ <<>> \o <<l>> = <<l>>
  OBVIOUS

LEMMA TwoLines ==
    ASSUME NEW l, NEW k
    PROVE  <<l, k>> # <<>> /\ Head(<<l, k>>) = l /\ Tail(<<l, k>>) = <<k>> /\ <<l>> \o <<k>> = <<l, k>>
<1>. DEFINE S == {l, k}
<1>1. <<l>> \in Seq(S) /\ <<k>> \in Seq(S) /\ <<l, k>> \in Seq(S)
  OBVIOUS
<1>2. Head(<<l, k>>) = l /\ <<l, k>> # <<>>
  OBVIOUS
<1>3. Tail(<<l, k>>) = <<k>>
  <2>1. Tail(<<l, k>>) \in Seq(S) /\ Len(Tail(<<l, k>>)) = 1 /\ Tail(<<l, k>>)[1] = k
    BY <1>1
  <2>2. \A i \in 1..1 : Tail(<<l, k>>)[i] = <<k>>[i]
    BY <2>1
  <2>. QED
    BY <1>1, <2>1, <2>2, SeqEqual
<1>4. <<l>> \o <<k>> = <<l, k>>
  <2>1. <<l>> \o <<k>> \in Seq(S) /\ Len(<<l>> \o <<k>>) = 2 /\ (<<l>> \o <<k>>)[1] = l /\ (<<l>> \o <<k>>)[2] = k
    BY <1>1
  <2>2. \A i \in 1..2 : (<<l>> \o <<k>>)[i] = <<l, k>>[i]
    BY <2>1
  <2>. QED
    BY <1>1, <2>1, <2>2, SeqEqual
<1>. QED
  BY <1>2, <1>3, <1>4

LEMMA HeadTail ==
    ASSUME NEW s \in Seq(Msgs), s # <<>>
    PROVE  /\ Head(s) \in Msgs /\ Tail(s) \in Seq(Msgs)
           /\ ToSet(s) = {Head(s)} \cup ToSet(Tail(s)) /\ ToSet(s) \subseteq Msgs
<1>1. /\ Len(s) \in Nat \ {0} /\ Len(Tail(s)) = Len(s) - 1 /\ Head(s) = s[1] /\ Tail(s) \in Seq(Msgs)
      /\ \A i \in 1..(Len(s) - 1) : Tail(s)[i] = s[i + 1]
  OBVIOUS
<1>2. DOMAIN Tail(s) = 1..(Len(s) - 1) /\ DOMAIN s = 1..Len(s)
  BY <1>1
<1>3. \A j \in 1..Len(s) : j = 1 \/ (j - 1 \in 1..(Len(s) - 1) /\ s[j] = Tail(s)[j - 1])
  BY <1>1
<1>4. ToSet(s) \subseteq {Head(s)} \cup ToSet(Tail(s))
  <2>1. ASSUME NEW j \in 1..Len(s) PROVE s[j] \in {Head(s)} \cup ToSet(Tail(s))
    <3>1. CASE j = 1
      BY <1>1, <3>1
    <3>2. CASE j - 1 \in 1..(Len(s) - 1) /\ s[j] = Tail(s)[j - 1]
      BY <1>2, <3>2 DEF ToSet
    <3>. QED
      BY <1>3, <3>1, <3>2
  <2>. QED
    BY <1>2, <2>1 DEF ToSet
<1>5. {Head(s)} \cup ToSet(Tail(s)) \subseteq ToSet(s)
  <2>1. ASSUME NEW i \in 1..(Len(s) - 1) PROVE Tail(s)[i] \in ToSet(s)
    <3>1. i + 1 \in 1..Len(s)
      BY <1>1
    <3>. QED
      BY <1>1, <1>2, <3>1 DEF ToSet
  <2>2. Head(s) \in ToSet(s)
    BY <1>1, <1>2 DEF ToSet
  <2>. QED
    BY <1>2, <2>1, <2>2 DEF ToSet
<1>6. ToSet(s) \subseteq Msgs
  BY DEF ToSet
<1>. QED
  BY <1>1, <1>4, <1>5, <1>6
-----------------------------------------------------------------------------
Fs(ms, v) == [k |-> "FS", ms |-> ms, v |-> v]

Phase == {"idle", "await-sid", "await-fs", "await-proposals", "recv-block", "done"}
Session == [phase : Phase, queue : Seq(Msgs), held : SUBSET Msgs, offered : Seq(Msgs), rx : Seq(Msgs),
            deferred : SUBSET Msgs, inbox : Seq(Msgs), sent : SUBSET Msgs, out : {<<>>}]
Pending == [on : BOOLEAN, inbox : Seq(Msgs), mark : SUBSET Msgs, fq : BOOLEAN]

\* The types of the variables.  What is on the channels is said by Dialogue.
Types ==
    /\ sess \in [Box -> Session]
    /\ flush \in [Box -> Pending]
    /\ chan = [b \in Box |-> chan[b]]
    /\ hung \in [Box -> BOOLEAN]
    /\ stored \in [Box -> SUBSET Msgs] /\ log \in [Box -> SUBSET Msgs] /\ discarded \in [Box -> SUBSET Msgs]

\* The messages box b has taken from the other: stored, about to be, or thrown away.
Settled(b) == stored[b] \cup ToSet(flush[b].inbox) \cup discarded[b]
Taken(b) == Settled(b) \cup ToSet(sess[b].inbox)

\* A box offers its own mail, and holds besides that only what it has received.
Own(b) ==
    /\ ToSet(sess[b].queue) \cup ToSet(sess[b].offered) \subseteq ToSet(Mail[b])
    /\ sess[b].held \subseteq ToSet(Mail[b]) \cup ToSet(sess[b].inbox)

\* What a session has sent the other box has taken or is waiting for; what is to be marked, it has taken.
Carried(b) ==
    /\ sess[b].sent \subseteq Taken(Other(b)) \cup ToSet(sess[Other(b)].rx)
    /\ flush[b].mark \cup log[b] \subseteq Taken(Other(b))

\* What a box still has to tell its gateway does not meet the next session.
Told(b) ==
    /\ ~flush[b].on => flush[b].inbox = <<>> /\ flush[b].mark = {}
    /\ b = Caller /\ InSession(b) => ~flush[b].on
    /\ sess[b].phase = "done" => b = Called /\ flush[b].on /\ ToSet(sess[b].inbox) \subseteq Settled(b)

\* Where the dialogue is while both boxes are in it, and who speaks next.  Box b has proposed, or passed, ...
Hears(o, l) ==
    /\ sess[o].rx = <<>>
    /\ \/ sess[o].phase = "await-proposals" /\ chan[o] = <<l>>
       \/ sess[o].phase = "await-sid" /\ o = Called /\ sess[o].inbox = <<>> /\ chan[o] = <<Line("SID", <<>>), l>>
Proposed(b) == sess[b].phase = "await-fs" /\ chan[b] = <<>> /\ Hears(Other(b), Line("FB", sess[b].offered))
Passed(b) == sess[b].phase = "await-proposals" /\ chan[b] = <<>> /\ Hears(Other(b), Line("FF", <<>>))

\* ... has been answered, and the other box waits for bodies or goes on itself ...
Replied(b, v) ==
    LET o == Other(b)
        fs == Fs(sess[b].offered, v)
    IN  /\ sess[b].phase = "await-fs" /\ chan[o] = <<>>
        /\ \A m \in ToSet(sess[b].offered) : v[m] \in {"+", "=", "-"} /\ (v[m] = "-" => m \in Taken(o))
        /\ sess[o].rx = Accepted(sess[b].offered, v)
        /\ \/ sess[o].phase = "recv-block" /\ sess[o].rx # <<>> /\ chan[b] = <<fs>>
           \/ sess[o].phase = "await-fs" /\ sess[o].rx = <<>> /\ chan[b] = <<fs, Line("FB", sess[o].offered)>>
           \/ sess[o].phase = "await-proposals" /\ sess[o].rx = <<>> /\ chan[b] = <<fs, Line("FF", <<>>)>>
Answered(b) == \E v \in [ToSet(sess[b].offered) -> {"+", "=", "-"}] : Replied(b, v)

\* ... or has sent the bodies; or the called box is through and has yet to hang up.
Sending(b) ==
    LET o == Other(b) IN
    /\ sess[b].phase = "await-proposals" /\ chan[b] = <<>>
    /\ sess[o].phase = "recv-block" /\ sess[o].rx # <<>> /\ chan[o] = Bodies(sess[o].rx)
Closing(b) ==
    /\ b = Caller /\ sess[b].phase = "await-proposals" /\ chan[b] = <<>>
    /\ sess[Other(b)].phase = "done" /\ sess[Other(b)].rx = <<>>

Talking(b) ==
    /\ ~hung[b] /\ ~hung[Other(b)] /\ sess[b].rx = <<>>
    /\ Proposed(b) \/ Passed(b) \/ Answered(b) \/ Sending(b) \/ Closing(b)

\* Box b has hung up, and the other has its FQ, or not even that.
Left(b) ==
    LET o == Other(b) IN
    /\ hung[b] /\ sess[b] = NoSession /\ ~hung[o] /\ sess[o].rx = <<>>
    /\ sess[o].phase \in {"await-proposals", "done"} /\ chan[o] \in {<<>>, <<Line("FQ", <<>>)>>}

Apart == \A b \in Box : sess[b] = NoSession
Dialogue == Apart \/ \E b \in Box : Left(b) \/ Talking(b)

FbbInv ==
    /\ Types
    /\ \A b \in Box : Own(b) /\ Carried(b) /\ Told(b)
    /\ Dialogue
-----------------------------------------------------------------------------
(* What the operations of a session do. *)

LEMMA MinTwo == ASSUME NEW a \in Nat, NEW b \in Nat PROVE Min({a, b}) \in {a, b} /\ Min({a, b}) <= a /\ Min({a, b}) <= b
<1>1. {a, b} \in SUBSET Nat /\ {a, b} # {}
  OBVIOUS
<1>2. Min({a, b}) \in {a, b} /\ \A x \in {a, b} : Min({a, b}) <= x
  BY <1>1, MinIn
<1>. QED
  BY <1>2

\* A session offers messages of its queue.
LEMMA OfferIs ==
    ASSUME NEW c, c.queue \in Seq(Msgs)
    PROVE  Offer(c) \in Seq(Msgs) /\ ToSet(Offer(c)) \subseteq ToSet(c.queue)
<1>. DEFINE open == Without(c.queue, c.deferred)
            n == Min({MaxBlock, Len(open)})
<1>1. open \in Seq(Msgs) /\ ToSet(open) \subseteq ToSet(c.queue)
  <2>. DEFINE D == c.deferred
              q == c.queue
  <2>. HIDE DEF D, q
  <2>1. Without(q, D) \in Seq(Msgs) /\ ToSet(Without(q, D)) = ToSet(q) \ D
    BY WithoutIs DEF q
  <2>. QED
    BY <2>1 DEF D, q
<1>2. Offer(c) = SubSeq(open, 1, n)
  BY DEF Offer
<1>. HIDE DEF open
<1>3. Len(open) \in Nat /\ MaxBlock \in Nat
  BY <1>1, FbbAssumption
<1>4. n \in Nat /\ n <= Len(open)
  BY <1>3, MinTwo
<1>. HIDE DEF n
<1>5. /\ SubSeq(open, 1, n) \in Seq(Msgs) /\ Len(SubSeq(open, 1, n)) = n
      /\ \A i \in 1..n : SubSeq(open, 1, n)[i] = open[i] /\ i \in 1..Len(open)
  BY <1>1, <1>3, <1>4
<1>6. ToSet(SubSeq(open, 1, n)) \subseteq ToSet(open)
  <2>1. DOMAIN SubSeq(open, 1, n) = 1..n /\ DOMAIN open = 1..Len(open)
    BY <1>1, <1>5
  <2>. QED
    BY <1>5, <2>1 DEF ToSet
<1>. QED
  BY <1>1, <1>2, <1>5, <1>6

Verdicts == UNION {[S -> {"+", "=", "-"}] : S \in SUBSET Msgs}
Wire == [k : {"SID", "FB", "FF", "FQ", "body"}, ms : Seq(Msgs)] \cup [k : {"FS"}, ms : Seq(Msgs), v : Verdicts]

\* A session in the middle of an operation, with what it is about to say.
Draft == [phase : Phase, queue : Seq(Msgs), held : SUBSET Msgs, offered : Seq(Msgs), rx : Seq(Msgs),
          deferred : SUBSET Msgs, inbox : Seq(Msgs), sent : SUBSET Msgs, out : Seq(Wire)]

Same(c, e) == e.queue = c.queue /\ e.held = c.held /\ e.deferred = c.deferred /\ e.inbox = c.inbox /\ e.sent = c.sent

LEMMA LineIs ==
    \A ms \in Seq(Msgs) : \A k \in {"SID", "FB", "FF", "FQ", "body"} :
        Line(k, ms) \in Wire /\ <<Line(k, ms)>> \in Seq(Wire) /\ Line(k, ms).k = k /\ Line(k, ms).ms = ms
<1>. SUFFICES ASSUME NEW ms \in Seq(Msgs), NEW k \in {"SID", "FB", "FF", "FQ", "body"}
              PROVE  Line(k, ms) \in Wire /\ <<Line(k, ms)>> \in Seq(Wire) /\ Line(k, ms).k = k /\ Line(k, ms).ms = ms
  OBVIOUS
<1>1. Line(k, ms) \in Wire /\ Line(k, ms).k = k /\ Line(k, ms).ms = ms
  BY DEF Line, Wire
<1>. QED
  BY <1>1

LEMMA FsIs ==
    ASSUME NEW ms \in Seq(Msgs), NEW v \in [ToSet(ms) -> {"+", "=", "-"}]
    PROVE  /\ Fs(ms, v) \in Wire /\ <<Fs(ms, v)>> \in Seq(Wire)
           /\ Fs(ms, v).k = "FS" /\ Fs(ms, v).ms = ms /\ Fs(ms, v).v = v
<1>1. ToSet(ms) \in SUBSET Msgs
  BY DEF ToSet
<1>2. v \in Verdicts
  BY <1>1, Zenon DEF Verdicts
<1>3. Fs(ms, v) \in Wire
  BY <1>2 DEF Fs, Wire
<1>. QED
  BY <1>3 DEF Fs

LEMMA BodiesTyped ==
    ASSUME NEW ms \in Seq(Msgs)
    PROVE  /\ Bodies(ms) \in Seq(Wire) /\ Len(Bodies(ms)) = Len(ms)
           /\ \A i \in 1..Len(ms) : Bodies(ms)[i] = Line("body", <<ms[i]>>)
<1>. DEFINE n == Len(ms)
<1>1. n \in Nat /\ DOMAIN ms = 1..n /\ \A i \in 1..n : ms[i] \in Msgs /\ <<ms[i]>> \in Seq(Msgs)
  OBVIOUS
<1>2. \A i \in 1..n : Line("body", <<ms[i]>>) \in Wire
  BY <1>1, LineIs
<1>3. Bodies(ms) = [i \in 1..n |-> Line("body", <<ms[i]>>)]
  BY <1>1 DEF Bodies
<1>4. Bodies(ms) \in [1..n -> Wire]
  BY <1>2, <1>3
<1>5. Bodies(ms) \in Seq(Wire)
  BY <1>1, <1>4
<1>6. Len(Bodies(ms)) = n
  BY <1>1, <1>4, <1>5
<1>. QED
  BY <1>3, <1>5, <1>6

LEMMA BodiesAre ==
    ASSUME NEW ms \in Seq(Msgs)
    PROVE  /\ Bodies(ms) \in Seq(Wire) /\ (ms = <<>> => Bodies(ms) = <<>>)
           /\ ms # <<>> => /\ Bodies(ms) # <<>> /\ Head(Bodies(ms)) = Line("body", <<Head(ms)>>)
                           /\ Tail(Bodies(ms)) = Bodies(Tail(ms))
<1>. DEFINE n == Len(ms)
<1>1. n \in Nat
  OBVIOUS
<1>2. /\ Bodies(ms) \in Seq(Wire) /\ Len(Bodies(ms)) = n
      /\ \A i \in 1..n : Bodies(ms)[i] = Line("body", <<ms[i]>>)
  BY BodiesTyped
<1>3. ms = <<>> => Bodies(ms) = <<>>
  BY <1>2
<1>4. ASSUME ms # <<>>
      PROVE  Bodies(ms) # <<>> /\ Head(Bodies(ms)) = Line("body", <<Head(ms)>>) /\ Tail(Bodies(ms)) = Bodies(Tail(ms))
  <2>1. n >= 1 /\ Bodies(ms) # <<>> /\ Head(ms) = ms[1] /\ Head(Bodies(ms)) = Bodies(ms)[1]
    BY <1>1, <1>2, <1>4
  <2>2. /\ Tail(ms) \in Seq(Msgs) /\ Len(Tail(ms)) = n - 1
        /\ \A i \in 1..(n - 1) : Tail(ms)[i] = ms[i + 1] /\ i + 1 \in 1..n
    BY <1>1, <2>1
  <2>3. /\ Tail(Bodies(ms)) \in Seq(Wire) /\ Len(Tail(Bodies(ms))) = n - 1
        /\ \A i \in 1..(n - 1) : Tail(Bodies(ms))[i] = Bodies(ms)[i + 1]
    BY <1>1, <1>2, <2>1
  <2>4. /\ Bodies(Tail(ms)) \in Seq(Wire) /\ Len(Bodies(Tail(ms))) = n - 1
        /\ \A i \in 1..(n - 1) : Bodies(Tail(ms))[i] = Line("body", <<Tail(ms)[i]>>)
    BY <2>2, BodiesTyped
  <2>5. \A i \in 1..(n - 1) : Tail(Bodies(ms))[i] = Bodies(Tail(ms))[i]
    BY <1>2, <2>2, <2>3, <2>4
  <2>6. Tail(Bodies(ms)) = Bodies(Tail(ms))
    BY <2>3, <2>4, <2>5, SeqEqual
  <2>7. Head(Bodies(ms)) = Line("body", <<Head(ms)>>)
    BY <1>1, <1>2, <2>1
  <2>. QED
    BY <2>1, <2>6, <2>7
<1>. QED
  BY <1>2, <1>3, <1>4

LEMMA SayIs ==
    ASSUME NEW c \in Draft, NEW ls \in Seq(Wire)
    PROVE  LET e == Say(c, ls) IN
           e \in Draft /\ Same(c, e) /\ e.phase = c.phase /\ e.offered = c.offered /\ e.rx = c.rx /\ e.out = c.out \o ls
<1>. DEFINE o == c.out \o ls
<1>1. o \in Seq(Wire)
  BY DEF Draft
<1>2. Say(c, ls) = [c EXCEPT !.out = o]
  BY DEF Say
<1>. HIDE DEF o
<1>3. Say(c, ls) \in Draft
  BY <1>1, <1>2 DEF Draft
<1>4. LET e == Say(c, ls) IN Same(c, e) /\ e.phase = c.phase /\ e.offered = c.offered /\ e.rx = c.rx /\ e.out = o
  BY <1>2 DEF Draft, Same
<1>. QED
  BY <1>3, <1>4 DEF o

\* A session whose turn it is proposes a block or passes.
Speaks(c, e) ==
    /\ e \in Draft /\ Same(c, e) /\ e.rx = c.rx
    /\ \/ e.phase = "await-proposals" /\ e.offered = c.offered /\ e.out = c.out \o <<Line("FF", <<>>)>>
       \/ /\ e.phase = "await-fs" /\ ToSet(e.offered) \subseteq ToSet(c.queue)
          /\ e.out = c.out \o <<Line("FB", e.offered)>>

LEMMA ProposeIs == ASSUME NEW c \in Draft PROVE Speaks(c, Propose(c))
<1>0. Offer(c) \in Seq(Msgs) /\ ToSet(Offer(c)) \subseteq ToSet(c.queue)
  BY OfferIs DEF Draft
<1>1. CASE Offer(c) = <<>>
  <2>. DEFINE d == [c EXCEPT !.phase = "await-proposals"]
              ls == <<Line("FF", <<>>)>>
  <2>1. d \in Draft /\ Same(c, d) /\ d.phase = "await-proposals" /\ d.offered = c.offered /\ d.rx = c.rx /\ d.out = c.out
    BY DEF Draft, Same, Phase
  <2>0. <<>> \in Seq(Msgs)
    OBVIOUS
  <2>2. ls \in Seq(Wire)
    BY <2>0, LineIs
  <2>3. Propose(c) = Say(d, ls)
    BY <1>1 DEF Propose
  <2>. HIDE DEF d, ls
  <2>4. LET e == Say(d, ls) IN
        e \in Draft /\ Same(d, e) /\ e.phase = d.phase /\ e.offered = d.offered /\ e.rx = d.rx /\ e.out = d.out \o ls
    BY <2>1, <2>2, SayIs
  <2>. QED
    BY <2>1, <2>3, <2>4 DEF Speaks, Same, ls
<1>2. CASE Offer(c) # <<>>
  <2>. DEFINE f == Offer(c)
              d == [c EXCEPT !.phase = "await-fs", !.offered = f]
              ls == <<Line("FB", f)>>
  <2>2. ls \in Seq(Wire)
    BY <1>0, LineIs
  <2>3. Propose(c) = Say(d, ls)
    BY <1>2 DEF Propose
  <2>. HIDE DEF f
  <2>1. d \in Draft /\ Same(c, d) /\ d.phase = "await-fs" /\ d.offered = f /\ d.rx = c.rx /\ d.out = c.out
    BY <1>0 DEF Draft, Same, Phase, f
  <2>. HIDE DEF d, ls
  <2>4. LET e == Say(d, ls) IN
        e \in Draft /\ Same(d, e) /\ e.phase = d.phase /\ e.offered = d.offered /\ e.rx = d.rx /\ e.out = d.out \o ls
    BY <2>1, <2>2, SayIs
  <2>. QED
    BY <1>0, <2>1, <2>3, <2>4 DEF Speaks, Same, ls, f
<1>. QED
  BY <1>1, <1>2

LEMMA SendAcceptedIs ==
    ASSUME NEW c \in Draft, c.out = <<>>, NEW v \in [ToSet(c.offered) -> {"+", "=", "-"}]
    PROVE  LET e == SendAccepted(c, v) IN
           /\ e \in Draft /\ e.phase = "await-proposals" /\ e.offered = <<>> /\ ToSet(e.queue) \subseteq ToSet(c.queue)
           /\ e.held = c.held /\ e.inbox = c.inbox /\ e.rx = c.rx
           /\ e.sent = c.sent \cup {m \in ToSet(c.offered) : v[m] # "="}
           /\ e.out = Bodies(Accepted(c.offered, v))
<1>. DEFINE gone == {m \in ToSet(c.offered) : v[m] # "="}
            put == c.deferred \cup (ToSet(c.offered) \ gone)
            sent == c.sent \cup gone
            left == Without(c.queue, gone)
            ls == Bodies(Accepted(c.offered, v))
            d == [c EXCEPT !.phase = "await-proposals", !.offered = <<>>, !.queue = left, !.sent = sent,
                           !.deferred = put]
<1>0. c.offered \in Seq(Msgs) /\ c.queue \in Seq(Msgs) /\ c.sent \subseteq Msgs /\ c.deferred \subseteq Msgs
  BY DEF Draft
<1>1. SendAccepted(c, v) = Say(d, ls)
  BY DEF SendAccepted
<1>2. ToSet(c.offered) \subseteq Msgs
  BY <1>0 DEF ToSet
<1>3. put \in SUBSET Msgs /\ sent \in SUBSET Msgs /\ <<>> \in Seq(Msgs)
  BY <1>0, <1>2
<1>4. left \in Seq(Msgs) /\ ToSet(left) \subseteq ToSet(c.queue)
  <2>. DEFINE q == c.queue
  <2>. HIDE DEF gone, q
  <2>1. Without(q, gone) \in Seq(Msgs) /\ ToSet(Without(q, gone)) = ToSet(q) \ gone
    BY <1>0, WithoutIs DEF q
  <2>. QED
    BY <2>1 DEF q
<1>5. ls \in Seq(Wire)
  BY <1>0, AcceptedIs, BodiesAre
<1>. HIDE DEF put, sent, left, ls
<1>6. d \in Draft
  BY <1>3, <1>4 DEF Draft, Phase
<1>7. /\ d.phase = "await-proposals" /\ d.offered = <<>> /\ d.queue = left /\ d.sent = sent
      /\ d.held = c.held /\ d.inbox = c.inbox /\ d.rx = c.rx /\ d.out = c.out
  BY DEF Draft
<1>. HIDE DEF d
<1>8. LET e == Say(d, ls) IN
      e \in Draft /\ Same(d, e) /\ e.phase = d.phase /\ e.offered = d.offered /\ e.rx = d.rx /\ e.out = d.out \o ls
  BY <1>5, <1>6, SayIs
<1>9. <<>> \o ls = ls
  BY <1>5
<1>. QED
  BY <1>1, <1>4, <1>7, <1>8, <1>9 DEF Same, sent, ls

\* The answer of session c to a block ms, and how c goes on.
Answers(c, ms, e, v) ==
    /\ e \in Draft /\ Same(c, e) /\ e.rx = Accepted(ms, v)
    /\ v \in [ToSet(ms) -> {"+", "=", "-"}]
    /\ \A m \in ToSet(ms) : v[m] = "-" => m \in c.held
    /\ \/ e.phase = "recv-block" /\ e.rx # <<>> /\ e.out = <<Fs(ms, v)>> /\ e.offered = c.offered
       \/ /\ e.phase = "await-fs" /\ e.rx = <<>> /\ e.out = <<Fs(ms, v), Line("FB", e.offered)>>
          /\ ToSet(e.offered) \subseteq ToSet(c.queue)
       \/ /\ e.phase = "await-proposals" /\ e.rx = <<>> /\ e.out = <<Fs(ms, v), Line("FF", <<>>)>>
          /\ e.offered = c.offered

LEMMA AnswerIs ==
    ASSUME NEW c \in Draft, c.out = <<>>, NEW ms \in Seq(Msgs)
    PROVE  \E v : Answers(c, ms, Answer(c, ms), v)
<1>. DEFINE v == [m \in ToSet(ms) |-> Verdict(c, m)]
            rx == Accepted(ms, v)
            d == [c EXCEPT !.rx = rx, !.phase = "recv-block"]
            ls == <<[k |-> "FS", ms |-> ms, v |-> v]>>
            e == Say(d, ls)
<1>1. Answer(c, ms) = IF rx = <<>> THEN Propose(e) ELSE e
  BY DEF Answer
<1>2. \A m : Verdict(c, m) \in {"+", "=", "-"} /\ (Verdict(c, m) = "-" => m \in c.held)
  BY DEF Verdict
<1>3. v \in [ToSet(ms) -> {"+", "=", "-"}] /\ \A m \in ToSet(ms) : v[m] = "-" => m \in c.held
  BY <1>2
<1>. HIDE DEF v
<1>4. rx \in Seq(Msgs)
  BY AcceptedIs
<1>5. ls \in Seq(Wire) /\ ls = <<Fs(ms, v)>>
  BY <1>3, FsIs DEF Fs
<1>. HIDE DEF rx, ls
<1>6. d \in Draft /\ Same(c, d) /\ d.phase = "recv-block" /\ d.rx = rx /\ d.offered = c.offered /\ d.out = c.out
  BY <1>4 DEF Draft, Phase, Same
<1>. HIDE DEF d
<1>7. e \in Draft /\ Same(d, e) /\ e.phase = d.phase /\ e.offered = d.offered /\ e.rx = d.rx /\ e.out = d.out \o ls
  BY <1>5, <1>6, SayIs
<1>8. e.out = <<Fs(ms, v)>>
  <2>1. <<>> \o ls = ls
    BY <1>5
  <2>. QED
    BY <1>5, <1>6, <1>7, <2>1
<1>. HIDE DEF e
<1>9. CASE rx # <<>>
  <2>1. Answers(c, ms, e, v)
    BY <1>3, <1>6, <1>7, <1>8, <1>9 DEF Answers, Same, rx
  <2>. QED
    BY <1>1, <1>9, <2>1
<1>10. CASE rx = <<>>
  <2>. DEFINE g == Propose(e)
  <2>1. Speaks(e, g)
    BY <1>7, ProposeIs
  <2>. HIDE DEF g
  <2>2. <<Fs(ms, v)>> \o <<Line("FF", <<>>)>> = <<Fs(ms, v), Line("FF", <<>>)>>
    BY TwoLines
  <2>3. <<Fs(ms, v)>> \o <<Line("FB", g.offered)>> = <<Fs(ms, v), Line("FB", g.offered)>>
    BY TwoLines
  <2>4. g \in Draft /\ Same(c, g) /\ g.rx = rx
    BY <1>6, <1>7, <2>1 DEF Same, Speaks
  <2>5. \/ g.phase = "await-fs" /\ g.out = <<Fs(ms, v), Line("FB", g.offered)>> /\ ToSet(g.offered) \subseteq ToSet(c.queue)
        \/ g.phase = "await-proposals" /\ g.out = <<Fs(ms, v), Line("FF", <<>>)>> /\ g.offered = c.offered
    BY <1>6, <1>7, <1>8, <2>1, <2>2, <2>3 DEF Same, Speaks
  <2>6. Answers(c, ms, g, v)
    BY <1>3, <1>10, <2>4, <2>5 DEF Answers, rx
  <2>. QED
    BY <1>1, <1>10, <2>6 DEF g
<1>. QED
  BY <1>9, <1>10

\* A session that is over has only its FQ left to say.
Finished(c, e) ==
    /\ e \in Draft /\ Same(c, e) /\ e.phase = "done" /\ e.offered = c.offered /\ e.rx = c.rx
    /\ e.out \in {<<>>, <<Line("FQ", <<>>)>>}

LEMMA FinishIs ==
    ASSUME NEW c \in Draft, c.out = <<>>
    PROVE  /\ Finished(c, [c EXCEPT !.phase = "done"])
           /\ Finished(c, Say([c EXCEPT !.phase = "done"], <<Line("FQ", <<>>)>>))
<1>. DEFINE d == [c EXCEPT !.phase = "done"]
            ls == <<Line("FQ", <<>>)>>
<1>1. d \in Draft /\ Same(c, d) /\ d.phase = "done" /\ d.offered = c.offered /\ d.rx = c.rx /\ d.out = <<>>
  BY DEF Draft, Same, Phase
<1>2. <<>> \in Seq(Msgs)
  OBVIOUS
<1>3. ls \in Seq(Wire) /\ <<>> \o ls = ls
  <2>1. ls \in Seq(Wire)
    BY <1>2, LineIs
  <2>. HIDE DEF ls
  <2>. QED
    BY <2>1
<1>. HIDE DEF d
<1>4. LET e == Say(d, ls) IN
      e \in Draft /\ Same(d, e) /\ e.phase = d.phase /\ e.offered = d.offered /\ e.rx = d.rx /\ e.out = d.out \o ls
  BY <1>1, <1>3, SayIs
<1>5. Finished(c, Say(d, ls))
  BY <1>1, <1>3, <1>4 DEF Finished, Same
<1>6. Finished(c, d)
  BY <1>1 DEF Finished
<1>. QED
  BY <1>5, <1>6 DEF d

LEMMA OnFFIs ==
    ASSUME NEW c \in Draft, c.out = <<>>
    PROVE  Speaks(c, OnFF(c)) \/ Finished(c, OnFF(c))
  BY ProposeIs, FinishIs DEF OnFF

\* A body has been received: it is the next one in rx.
Received(c, e) ==
    /\ e \in Draft /\ e.queue = c.queue /\ e.sent = c.sent /\ e.deferred = c.deferred
    /\ e.inbox = Append(c.inbox, Head(c.rx)) /\ e.held = c.held \cup {Head(c.rx)} /\ e.rx = Tail(c.rx)

LEMMA BodyIs ==
    ASSUME NEW c \in Draft, c.out = <<>>, c.rx # <<>>
    PROVE  LET e == Body(c, Head(c.rx)) IN
           \/ Finished(c, e)
           \/ Received(c, e) /\ e.rx # <<>> /\ e.phase = c.phase /\ e.offered = c.offered /\ e.out = <<>>
           \/ /\ Received(c, e) /\ e.rx = <<>>
              /\ \/ e.phase = "await-proposals" /\ e.out = <<Line("FF", <<>>)>> /\ e.offered = c.offered
                 \/ e.phase = "await-fs" /\ e.out = <<Line("FB", e.offered)>> /\ ToSet(e.offered) \subseteq ToSet(c.queue)
<1>. DEFINE m == Head(c.rx)
            in == Append(c.inbox, m)
            hd == c.held \cup {m}
            tl == Tail(c.rx)
            d == [c EXCEPT !.inbox = in, !.held = hd, !.rx = tl]
<1>0. c.rx \in Seq(Msgs) /\ c.inbox \in Seq(Msgs) /\ c.held \subseteq Msgs
  BY DEF Draft
<1>1. m \in Msgs /\ tl \in Seq(Msgs)
  BY <1>0
<1>2. in \in Seq(Msgs) /\ hd \in SUBSET Msgs
  BY <1>0, <1>1
<1>3. Body(c, m) = CASE m \in big -> Say([c EXCEPT !.phase = "done"], <<Line("FQ", <<>>)>>)
                     [] m \notin big /\ d.rx = <<>> -> Propose(d)
                     [] OTHER -> d
  BY DEF Body
<1>. HIDE DEF in, hd, tl
<1>4. /\ d \in Draft /\ d.queue = c.queue /\ d.sent = c.sent /\ d.deferred = c.deferred /\ d.inbox = in /\ d.held = hd
      /\ d.rx = tl /\ d.phase = c.phase /\ d.offered = c.offered /\ d.out = c.out
  BY <1>1, <1>2 DEF Draft
<1>5. Received(c, d)
  BY <1>4 DEF Received, in, hd, tl
<1>. HIDE DEF d, m
<1>6. CASE m \in big
  BY <1>3, <1>6, FinishIs DEF m
<1>7. CASE m \notin big /\ d.rx = <<>>
  <2>. DEFINE e == Propose(d)
  <2>1. Speaks(d, e)
    BY <1>4, ProposeIs
  <2>2. Body(c, m) = e
    BY <1>3, <1>7
  <2>. HIDE DEF e
  <2>3. Received(c, e) /\ e.rx = <<>>
    BY <1>5, <1>7, <2>1 DEF Received, Speaks, Same
  <2>4. <<>> \o <<Line("FF", <<>>)>> = <<Line("FF", <<>>)>> /\ <<>> \o <<Line("FB", e.offered)>> = <<Line("FB", e.offered)>>
    BY OneLine
  <2>5. \/ e.phase = "await-proposals" /\ e.out = <<Line("FF", <<>>)>> /\ e.offered = c.offered
        \/ e.phase = "await-fs" /\ e.out = <<Line("FB", e.offered)>> /\ ToSet(e.offered) \subseteq ToSet(c.queue)
    BY <1>4, <2>1, <2>4 DEF Speaks
  <2>. QED
    BY <2>2, <2>3, <2>5 DEF m
<1>8. CASE m \notin big /\ d.rx # <<>>
  <2>1. Body(c, m) = d
    BY <1>3, <1>8
  <2>. QED
    BY <1>4, <1>5, <1>8, <2>1 DEF m
<1>. QED
  BY <1>6, <1>7, <1>8

-----------------------------------------------------------------------------
(* What a step does to the session of one box. *)

LEMMA SessionIs ==
    /\ NoSession \in Session /\ NoSession.phase = "idle" /\ NoSession.queue = <<>> /\ NoSession.held = {}
    /\ NoSession.offered = <<>> /\ NoSession.rx = <<>> /\ NoSession.inbox = <<>> /\ NoSession.sent = {}
    /\ \A c \in Session : c \in Draft /\ c.out = <<>>
    /\ \A c \in Draft : LET d == [c EXCEPT !.out = <<>>] IN
           d \in Session /\ Same(c, d) /\ d.phase = c.phase /\ d.offered = c.offered /\ d.rx = c.rx
<1>1. <<>> \in Seq(Msgs) /\ {} \in SUBSET Msgs /\ <<>> \in Seq(Wire)
  OBVIOUS
<1>2. /\ NoSession \in Session /\ NoSession.phase = "idle" /\ NoSession.queue = <<>> /\ NoSession.held = {}
      /\ NoSession.offered = <<>> /\ NoSession.rx = <<>> /\ NoSession.inbox = <<>> /\ NoSession.sent = {}
  BY <1>1 DEF NoSession, Session, Phase
<1>3. ASSUME NEW c \in Session PROVE c \in Draft /\ c.out = <<>>
  BY <1>1 DEF Session, Draft
<1>4. ASSUME NEW c \in Draft
      PROVE  LET d == [c EXCEPT !.out = <<>>] IN
             d \in Session /\ Same(c, d) /\ d.phase = c.phase /\ d.offered = c.offered /\ d.rx = c.rx
  <2>. DEFINE d == [c EXCEPT !.out = <<>>]
  <2>1. d \in Session
    BY DEF Session, Draft
  <2>2. Same(c, d) /\ d.phase = c.phase /\ d.offered = c.offered /\ d.rx = c.rx
    BY DEF Session, Draft, Same
  <2>. QED
    BY <2>1, <2>2
<1>. QED
  BY <1>2, <1>3, <1>4

\* A session begins with the mail that is not on record.
Begins(b, d) ==
    /\ d \in Draft /\ ToSet(d.queue) \subseteq ToSet(Mail[b]) /\ d.held \subseteq ToSet(Mail[b])
    /\ d.offered = <<>> /\ d.rx = <<>> /\ d.inbox = <<>> /\ d.sent = {} /\ d.out = <<>>

LEMMA SnapshotIs ==
    ASSUME NEW b \in Box
    PROVE  /\ Begins(b, Snapshot(b))
           /\ LET d == [Snapshot(b) EXCEPT !.phase = "await-proposals"] IN Begins(b, d) /\ d.phase = "await-proposals"
<1>. DEFINE q == Pool(b)
            h == ToSet(q)
            s == Snapshot(b)
            d == [s EXCEPT !.phase = "await-proposals"]
<1>1. q \in Seq(Msgs) /\ h \subseteq ToSet(Mail[b])
  <2>. DEFINE D == log[b]
              M == Mail[b]
  <2>1. M \in Seq(Msgs)
    BY MailIs
  <2>. HIDE DEF D, M
  <2>2. Without(M, D) \in Seq(Msgs) /\ ToSet(Without(M, D)) = ToSet(M) \ D
    BY <2>1, WithoutIs
  <2>. QED
    BY <2>2 DEF D, M, Pool
<1>2. h \in SUBSET Msgs
  BY <1>1, MailIs
<1>3. s = [NoSession EXCEPT !.queue = q, !.held = h]
  BY DEF Snapshot
<1>4. NoSession \in Draft /\ NoSession.out = <<>>
  BY SessionIs
<1>. HIDE DEF q, h, s
<1>5. s \in Draft
  BY <1>1, <1>2, <1>3, <1>4 DEF Draft
<1>6. /\ s.queue = q /\ s.held = h
      /\ s.offered = <<>> /\ s.rx = <<>> /\ s.inbox = <<>> /\ s.sent = {} /\ s.out = <<>>
  BY <1>3, <1>4, SessionIs DEF Draft
<1>7. d \in Draft /\ d.phase = "await-proposals"
  BY <1>5 DEF Draft, Phase
<1>8. /\ d.queue = s.queue /\ d.held = s.held /\ d.offered = s.offered /\ d.rx = s.rx /\ d.inbox = s.inbox
      /\ d.sent = s.sent /\ d.out = s.out
  BY <1>5 DEF Draft
<1>. HIDE DEF d
<1>9. Begins(b, s) /\ Begins(b, d) /\ d.phase = "await-proposals"
  BY <1>1, <1>5, <1>6, <1>7, <1>8 DEF h, Begins
<1>. QED
  BY <1>9 DEF s, d

\* The dialogue as box b sees it after its session has become e.
Moved(b, e, rest) ==
    LET o == Other(b) IN
    /\ sess'[b].phase = e.phase /\ sess'[b].offered = e.offered /\ sess'[b].rx = e.rx
    /\ sess'[o] = sess[o] /\ chan'[b] = rest /\ chan'[o] = chan[o] \o e.out /\ hung' = hung

LEMMA GoesKeeps ==
    ASSUME FbbInv, NEW b \in Box, NEW e \in Draft, NEW rest, Goes(b, e, [chan EXCEPT ![b] = rest]),
           ~hung[b], ~hung[Other(b)], sess[b].phase \notin {"idle", "done"}, e.phase \notin {"idle", "done"},
           ToSet(sess[b].inbox) \subseteq ToSet(e.inbox), ToSet(sess[b].rx) \subseteq ToSet(e.inbox) \cup ToSet(e.rx),
           ToSet(e.queue) \cup ToSet(e.offered) \subseteq ToSet(Mail[b]),
           e.held \subseteq ToSet(Mail[b]) \cup ToSet(e.inbox),
           e.sent \subseteq Taken(Other(b)) \cup ToSet(sess[Other(b)].rx)
    PROVE  /\ Types' /\ \A x \in Box : Own(x)' /\ Carried(x)' /\ Told(x)'
           /\ Moved(b, e, rest)
           /\ \A x \in Box : Taken(x) \subseteq Taken(x)'
<1>. DEFINE o == Other(b)
            d == [e EXCEPT !.out = <<>>]
<1>0. o \in Box /\ o # b /\ Other(o) = b /\ \A x \in Box : x = b \/ x = o
  BY OtherIs
<1>1. d \in Session /\ Same(e, d) /\ d.phase = e.phase /\ d.offered = e.offered /\ d.rx = e.rx
  BY SessionIs
<1>2. /\ sess \in [Box -> Session] /\ chan = [x \in Box |-> chan[x]] /\ Types
      /\ Own(b) /\ Own(o) /\ Carried(b) /\ Carried(o) /\ Told(b) /\ Told(o)
  BY <1>0 DEF FbbInv, Types
<1>3. /\ sess' = [sess EXCEPT ![b] = d] /\ UNCHANGED <<flush, hung, stored, log, discarded>>
      /\ chan' = [[chan EXCEPT ![b] = rest] EXCEPT ![o] = IF hung[b] \/ hung[o] THEN @ ELSE @ \o e.out]
  BY DEF Goes
<1>. HIDE DEF d, o
<1>4. sess' \in [Box -> Session] /\ sess'[b] = d /\ sess'[o] = sess[o]
  BY <1>0, <1>1, <1>2, <1>3
<1>5. chan' = [x \in Box |-> chan'[x]] /\ chan'[b] = rest /\ chan'[o] = chan[o] \o e.out
  BY <1>0, <1>2, <1>3 DEF o
<1>6. Types'
  BY <1>2, <1>3, <1>4, <1>5 DEF Types
<1>7. Taken(b) \subseteq Taken(b)' /\ Taken(o)' = Taken(o) /\ Settled(b)' = Settled(b) /\ Settled(o)' = Settled(o)
  BY <1>1, <1>3, <1>4 DEF Taken, Settled, Same
<1>8. Own(b)' /\ Own(o)'
  BY <1>1, <1>2, <1>4 DEF Own, Same
<1>9. Carried(b)'
  BY <1>1, <1>2, <1>3, <1>4, <1>7 DEF Carried, Same, o
<1>10. Carried(o)'
  <2>1. sess[o].sent \subseteq Taken(b) \cup ToSet(sess[b].rx) /\ flush[o].mark \cup log[o] \subseteq Taken(b)
    BY <1>0, <1>2 DEF Carried
  <2>2. ToSet(sess[b].rx) \subseteq Taken(b)' \cup ToSet(d.rx)
    BY <1>1, <1>4 DEF Taken, Same
  <2>3. sess'[o].sent \subseteq Taken(b)' \cup ToSet(sess'[b].rx)
    BY <1>4, <1>7, <2>1, <2>2
  <2>4. flush'[o].mark \cup log'[o] \subseteq Taken(b)'
    BY <1>3, <1>7, <2>1
  <2>. QED
    BY <1>0, <2>3, <2>4 DEF Carried
<1>11. Told(b)' /\ Told(o)'
  BY <1>1, <1>2, <1>3, <1>4, <1>7 DEF Told, InSession
<1>12. Moved(b, e, rest)
  BY <1>1, <1>3, <1>4, <1>5 DEF Moved, o
<1>. QED
  BY <1>0, <1>6, <1>7, <1>8, <1>9, <1>10, <1>11, <1>12

\* A session ends: the other box has hung up before, or waits for this one to.
LEMMA EndsKeeps ==
    ASSUME FbbInv, NEW b \in Box, NEW e, NEW rest, Finished(sess[b], e), Ends(b, e, [chan EXCEPT ![b] = rest]),
           ~hung[b], sess[b].phase \notin {"idle", "done"}, sess[Other(b)].rx = <<>>,
           \/ hung[Other(b)] /\ sess[Other(b)] = NoSession /\ rest = <<>>
           \/ ~hung[Other(b)] /\ sess[Other(b)].phase = "await-proposals" /\ chan[Other(b)] = <<>>
    PROVE  FbbInv'
<1>. DEFINE o == Other(b)
            d == [e EXCEPT !.out = <<>>, !.rx = <<>>]
<1>0. /\ o \in Box /\ o # b /\ Other(o) = b /\ (\A x \in Box : x = b \/ x = o)
      /\ (b = Caller => o = Called) /\ (b = Called => o = Caller) /\ (b = Caller \/ b = Called) /\ Caller # Called
  BY OtherIs, FbbAssumption DEF Box
<1>1. /\ e \in Draft /\ Same(sess[b], e) /\ e.phase = "done" /\ e.rx = sess[b].rx /\ e.offered = sess[b].offered
      /\ e.out \in {<<>>, <<Line("FQ", <<>>)>>}
  BY DEF Finished
<1>2. d \in Session /\ Same(e, d) /\ d.phase = e.phase /\ d.offered = e.offered /\ d.rx = <<>>
  <2>1. <<>> \in Seq(Msgs)
    OBVIOUS
  <2>2. d \in Session
    BY <1>1, <2>1 DEF Session, Draft
  <2>. QED
    BY <1>1, <2>2 DEF Draft, Same
<1>3. /\ Types /\ sess \in [Box -> Session] /\ chan = [x \in Box |-> chan[x]] /\ flush \in [Box -> Pending]
      /\ hung \in [Box -> BOOLEAN] /\ discarded \in [Box -> SUBSET Msgs] /\ sess[b] \in Session
      /\ Own(b) /\ Own(o) /\ Carried(b) /\ Carried(o) /\ Told(b) /\ Told(o)
  BY <1>0 DEF FbbInv, Types
<1>. DEFINE g == [on |-> TRUE, inbox |-> e.inbox, mark |-> e.sent, fq |-> b = Called /\ e.out # <<>>]
            more == discarded[b] \cup ToSet(e.rx)
            ch == [chan EXCEPT ![b] = rest]
<1>4. /\ ~flush[b].on /\ flush' = [flush EXCEPT ![b] = g] /\ discarded' = [discarded EXCEPT ![b] = more]
      /\ UNCHANGED <<stored, log>>
      /\ b = Caller => SayAndHangUp(b, e.out, ch) /\ sess' = [sess EXCEPT ![b] = NoSession]
      /\ b # Caller => chan' = ch /\ sess' = [sess EXCEPT ![b] = d] /\ hung' = hung
  BY DEF Ends
<1>5. g \in Pending /\ g.on /\ g.inbox = sess[b].inbox /\ g.mark = sess[b].sent
  BY <1>1, <1>3 DEF Pending, Session, Same
<1>6. more \in SUBSET Msgs /\ ToSet(sess[b].rx) \subseteq more /\ discarded[b] \subseteq more
  <2>1. e.rx \in Seq(Msgs) /\ discarded[b] \in SUBSET Msgs
    BY <1>1, <1>3 DEF Draft
  <2>2. ToSet(e.rx) \subseteq Msgs
    BY <2>1 DEF ToSet
  <2>. QED
    BY <1>1, <2>1, <2>2
<1>. HIDE DEF g, more, d, o
<1>7. /\ flush' \in [Box -> Pending] /\ flush'[b] = g /\ flush'[o] = flush[o]
      /\ discarded' \in [Box -> SUBSET Msgs] /\ discarded'[b] = more /\ discarded'[o] = discarded[o]
  BY <1>0, <1>3, <1>4, <1>5, <1>6
<1>8. /\ sess' \in [Box -> Session] /\ sess'[o] = sess[o]
      /\ b = Caller => sess'[b] = NoSession
      /\ b # Caller => sess'[b] = d
  BY <1>0, <1>2, <1>3, <1>4, SessionIs
<1>9. /\ ToSet(sess'[b].queue) \cup ToSet(sess'[b].offered) \subseteq ToSet(Mail[b])
      /\ sess'[b].held \subseteq ToSet(Mail[b]) \cup ToSet(sess'[b].inbox)
      /\ sess'[b].sent \subseteq sess[b].sent /\ sess'[b].rx = <<>>
      /\ ToSet(sess'[b].inbox) \subseteq ToSet(sess[b].inbox)
  <2>1. CASE b = Caller
    BY <1>8, <2>1, SessionIs, EmptySet
  <2>2. CASE b # Caller
    BY <1>1, <1>2, <1>3, <1>8, <2>2 DEF Own, Same
  <2>. QED
    BY <2>1, <2>2
<1>10. /\ hung' \in [Box -> BOOLEAN] /\ chan' = [x \in Box |-> chan'[x]]
       /\ b = Caller => hung'[b] /\ hung'[o] = hung[o]
                        /\ (chan'[o] = chan[o] \/ (~hung[o] /\ chan'[o] = chan[o] \o e.out))
       /\ b # Caller => hung' = hung /\ chan'[b] = rest /\ chan'[o] = chan[o]
  <2>1. CASE b = Caller
    <3>1. /\ hung' = [hung EXCEPT ![b] = TRUE]
          /\ \/ chan' = [ch EXCEPT ![b] = <<>>, ![o] = IF hung[o] THEN @ ELSE @ \o e.out]
             \/ chan' = [ch EXCEPT ![b] = <<>>]
      BY <1>4, <2>1 DEF SayAndHangUp, o
    <3>. QED
      BY <1>0, <1>3, <2>1, <3>1
  <2>2. CASE b # Caller
    BY <1>0, <1>3, <1>4, <2>2
  <2>. QED
    BY <2>1, <2>2
<1>11. Types'
  BY <1>3, <1>4, <1>7, <1>8, <1>10 DEF Types
<1>12. flush[b].inbox = <<>> /\ ToSet(flush[b].inbox) = {} /\ flush[b].mark = {}
  BY <1>3, <1>4, EmptySet DEF Told
<1>13. /\ Settled(b)' = stored[b] \cup ToSet(sess[b].inbox) \cup more
       /\ Settled(o)' = Settled(o) /\ Taken(o)' = Taken(o)
  BY <1>4, <1>5, <1>7, <1>8 DEF Settled, Taken
<1>14. Taken(b) \subseteq Taken(b)' /\ ToSet(sess[b].rx) \subseteq Taken(b)'
  BY <1>6, <1>12, <1>13 DEF Settled, Taken
<1>15. Own(b)' /\ Own(o)'
  BY <1>3, <1>8, <1>9 DEF Own
<1>16. Carried(b)'
  <2>1. sess[b].sent \subseteq Taken(o)
    BY <1>3, EmptySet DEF Carried, o
  <2>2. log[b] \subseteq Taken(o)
    BY <1>3 DEF Carried, o
  <2>. QED
    BY <1>4, <1>5, <1>7, <1>9, <1>13, <2>1, <2>2 DEF Carried, o
<1>17. Carried(o)'
  <2>1. sess[o].sent \subseteq Taken(b) \cup ToSet(sess[b].rx) /\ flush[o].mark \cup log[o] \subseteq Taken(b)
    BY <1>0, <1>3 DEF Carried
  <2>. QED
    BY <1>0, <1>4, <1>7, <1>8, <1>14, <2>1 DEF Carried
<1>18. Told(b)'
  <2>1. CASE b = Caller
    BY <1>5, <1>7, <1>8, <2>1, SessionIs DEF Told, InSession
  <2>2. CASE b # Caller
    BY <1>0, <1>5, <1>7, <1>9, <1>13, <2>2 DEF Told, InSession
  <2>. QED
    BY <2>1, <2>2
<1>19. Told(o)'
  BY <1>3, <1>7, <1>8, <1>13 DEF Told, InSession
<1>20. Dialogue'
  <2>1. CASE hung[o] /\ sess[o] = NoSession /\ rest = <<>> /\ b = Caller
    BY <1>0, <1>8, <2>1 DEF Dialogue, Apart
  <2>2. CASE hung[o] /\ sess[o] = NoSession /\ rest = <<>> /\ b # Caller
    <3>1. Left(o)'
      BY <1>0, <1>1, <1>2, <1>8, <1>10, <2>2 DEF Left
    <3>. QED
      BY <1>0, <3>1 DEF Dialogue
  <2>3. CASE ~hung[o] /\ sess[o].phase = "await-proposals" /\ chan[o] = <<>> /\ b = Caller
    <3>0. <<>> \o <<>> = <<>> /\ <<>> \o <<Line("FQ", <<>>)>> = <<Line("FQ", <<>>)>>
      BY OneLine
    <3>1. chan'[o] \in {<<>>, <<Line("FQ", <<>>)>>}
      BY <1>1, <1>10, <2>3, <3>0
    <3>2. Left(b)'
      BY <1>8, <1>10, <2>3, <3>1 DEF Left, o
    <3>. QED
      BY <3>2 DEF Dialogue
  <2>4. CASE ~hung[o] /\ sess[o].phase = "await-proposals" /\ chan[o] = <<>> /\ b # Caller
    <3>1. Closing(o)'
      BY <1>0, <1>1, <1>2, <1>8, <1>10, <2>4 DEF Closing
    <3>2. Talking(o)'
      BY <1>0, <1>8, <1>10, <2>4, <3>1 DEF Talking, o
    <3>. QED
      BY <1>0, <3>2 DEF Dialogue
  <2>. QED
    BY <2>1, <2>2, <2>3, <2>4 DEF o
<1>21. \A x \in Box : Own(x)' /\ Carried(x)' /\ Told(x)'
  BY <1>0, <1>15, <1>16, <1>17, <1>18, <1>19
<1>. QED
  BY <1>11, <1>20, <1>21 DEF FbbInv

-----------------------------------------------------------------------------
(* The lines of the dialogue, one by one. *)

LEMMA RecvIs ==
    ASSUME FbbInv, NEW b \in Box, Recv(b)
    PROVE  LET l == Head(chan[b])
               ch == [chan EXCEPT ![b] = Tail(chan[b])]
               e == Feed(sess[b], l)
           IN  /\ chan[b] # <<>> /\ sess[b].phase \notin {"idle", "done"}
               /\ sess[b] \in Session /\ sess[b] \in Draft /\ sess[b].out = <<>> /\ sess[Other(b)] \in Session
               /\ l.k = "SID" => Goes(b, [Snapshot(b) EXCEPT !.phase = "await-proposals"], ch)
               /\ l.k # "SID" /\ e.phase = "done" => Ends(b, e, ch)
               /\ l.k # "SID" /\ e.phase # "done" => Goes(b, e, ch)
<1>1. sess \in [Box -> Session] /\ chan = [x \in Box |-> chan[x]]
  BY DEF FbbInv, Types
<1>2. sess[b] \in Session /\ sess[b] \in Draft /\ sess[b].out = <<>> /\ sess[Other(b)] \in Session
  BY <1>1, SessionIs, OtherIs
<1>3. [chan EXCEPT ![b] = Tail(@)] = [chan EXCEPT ![b] = Tail(chan[b])]
  BY <1>1
<1>. DEFINE l == Head(chan[b])
            ch == [chan EXCEPT ![b] = Tail(@)]
            e == Feed(sess[b], l)
            s == [Snapshot(b) EXCEPT !.phase = "await-proposals"]
<1>4. /\ chan[b] # <<>> /\ sess[b].phase \notin {"idle", "done"}
      /\ CASE l.k = "SID" -> Goes(b, s, ch) /\ UNCHANGED used
           [] l.k # "SID" /\ e.phase = "done" -> Ends(b, e, ch)
           [] OTHER -> Goes(b, e, ch) /\ UNCHANGED used
  BY Zenon DEF Recv
<1>. HIDE DEF l, ch, e, s
<1>5. /\ l.k = "SID" => Goes(b, s, ch)
      /\ l.k # "SID" /\ e.phase = "done" => Ends(b, e, ch)
      /\ l.k # "SID" /\ e.phase # "done" => Goes(b, e, ch)
  BY <1>4
<1>. QED
  BY <1>2, <1>3, <1>4, <1>5, Zenon DEF l, ch, e, s

\* The called box hears the caller's SID.
LEMMA RecvSid ==
    ASSUME FbbInv, NEW b \in Box, Recv(b), NEW l, Talking(Other(b)), sess[b].rx = <<>>,
           sess[b].phase = "await-sid", sess[b].inbox = <<>>, chan[b] = <<Line("SID", <<>>), l>>,
           \/ Proposed(Other(b)) /\ l = Line("FB", sess[Other(b)].offered)
           \/ Passed(Other(b)) /\ l = Line("FF", <<>>)
    PROVE  FbbInv'
<1>. DEFINE o == Other(b)
            e == [Snapshot(b) EXCEPT !.phase = "await-proposals"]
            rest == Tail(chan[b])
<1>0. o \in Box /\ o # b /\ Other(o) = b
  BY OtherIs
<1>1. Head(chan[b]) = Line("SID", <<>>) /\ rest = <<l>> /\ Head(chan[b]).k = "SID"
  <2>1. <<>> \in Seq(Msgs)
    OBVIOUS
  <2>2. Line("SID", <<>>).k = "SID"
    BY <2>1, LineIs
  <2>. QED
    BY <2>2, TwoLines
<1>2. Goes(b, e, [chan EXCEPT ![b] = rest])
  BY <1>1, RecvIs
<1>3. Begins(b, e) /\ e.phase = "await-proposals"
  BY SnapshotIs
<1>4. ~hung[b] /\ ~hung[o] /\ sess[o].rx = <<>> /\ chan[o] = <<>>
  BY <1>0 DEF Talking, Proposed, Passed
<1>5. ToSet(sess[b].inbox) \subseteq ToSet(e.inbox)
  BY EmptySet
<1>. HIDE DEF e, rest
<1>6. /\ Types' /\ \A x \in Box : Own(x)' /\ Carried(x)' /\ Told(x)'
      /\ Moved(b, e, rest)
  <2>1. /\ e \in Draft /\ e.phase \notin {"idle", "done"} /\ sess[b].phase \notin {"idle", "done"}
        /\ ToSet(sess[b].rx) \subseteq ToSet(e.inbox) \cup ToSet(e.rx)
        /\ ToSet(e.queue) \cup ToSet(e.offered) \subseteq ToSet(Mail[b])
        /\ e.held \subseteq ToSet(Mail[b]) \cup ToSet(e.inbox)
        /\ e.sent \subseteq Taken(o) \cup ToSet(sess[o].rx)
    BY <1>3, EmptySet DEF Begins
  <2>. QED
    BY <1>2, <1>4, <1>5, <2>1, GoesKeeps DEF o
<1>7. /\ sess'[b].phase = "await-proposals" /\ sess'[b].rx = <<>> /\ sess'[o] = sess[o] /\ hung' = hung
      /\ chan'[b] = <<l>> /\ chan'[o] = <<>>
  <2>1. <<>> \o <<>> = <<>>
    OBVIOUS
  <2>. QED
    BY <1>1, <1>3, <1>4, <1>6, <2>1 DEF Moved, Begins, o
<1>8. Talking(o)'
  <2>1. Hears(b, l)'
    BY <1>7 DEF Hears
  <2>2. Proposed(o)' \/ Passed(o)'
    BY <1>0, <1>7, <2>1 DEF Proposed, Passed, o
  <2>. QED
    BY <1>0, <1>4, <1>7, <2>2 DEF Talking, o
<1>. QED
  BY <1>0, <1>6, <1>8 DEF FbbInv, Dialogue

\* A block of proposals is answered.
LEMMA RecvBlock ==
    ASSUME FbbInv, NEW b \in Box, Recv(b), Talking(Other(b)), Proposed(Other(b)),
           sess[b].phase = "await-proposals", sess[b].rx = <<>>, chan[b] = <<Line("FB", sess[Other(b)].offered)>>
    PROVE  FbbInv'
<1>. DEFINE o == Other(b)
            c == sess[b]
            ms == sess[o].offered
            l == Line("FB", ms)
            e == Answer(c, ms)
            rest == Tail(chan[b])
<1>0. o \in Box /\ o # b /\ Other(o) = b
  BY OtherIs
<1>1. /\ sess[o] \in Session /\ c \in Draft /\ c.out = <<>> /\ ms \in Seq(Msgs)
      /\ Own(b) /\ Own(o) /\ Carried(b)
  BY <1>0, RecvIs DEF FbbInv, Session
<1>2. Head(chan[b]) = l /\ rest = <<>> /\ l.k = "FB" /\ l.ms = ms
  BY <1>1, OneLine, LineIs
<1>3. Feed(c, l) = e
  BY <1>2 DEF Feed
<1>4. PICK v : Answers(c, ms, e, v)
  BY <1>1, AnswerIs
<1>5. Goes(b, e, [chan EXCEPT ![b] = rest])
  <2>1. e.phase # "done"
    BY <1>4 DEF Answers
  <2>. QED
    BY <1>2, <1>3, <2>1, RecvIs
<1>6. ~hung[b] /\ ~hung[o] /\ sess[o].rx = <<>> /\ chan[o] = <<>> /\ sess[o].phase = "await-fs"
  BY <1>0 DEF Talking, Proposed
<1>. HIDE DEF e, rest, ms
<1>7. /\ e \in Draft /\ Same(c, e) /\ e.rx = Accepted(ms, v) /\ e.phase \notin {"idle", "done"} /\ e.out \in Seq(Wire)
      /\ ToSet(e.offered) \subseteq ToSet(c.queue) \cup ToSet(c.offered)
  BY <1>4 DEF Answers, Draft, Same
<1>8. /\ Types' /\ \A x \in Box : Own(x)' /\ Carried(x)' /\ Told(x)'
      /\ Moved(b, e, rest)
      /\ \A x \in Box : Taken(x) \subseteq Taken(x)'
  <2>1. /\ ToSet(c.inbox) \subseteq ToSet(e.inbox)
        /\ ToSet(c.rx) \subseteq ToSet(e.inbox) \cup ToSet(e.rx)
        /\ ToSet(e.queue) \cup ToSet(e.offered) \subseteq ToSet(Mail[b])
        /\ e.held \subseteq ToSet(Mail[b]) \cup ToSet(e.inbox)
        /\ e.sent \subseteq Taken(o) \cup ToSet(sess[o].rx)
    BY <1>1, <1>7, EmptySet DEF Own, Carried, Same
  <2>. QED
    BY <1>5, <1>6, <1>7, <2>1, GoesKeeps DEF o
<1>9. /\ sess'[b].phase = e.phase /\ sess'[b].rx = e.rx /\ sess'[b].offered = e.offered /\ sess'[o] = sess[o]
      /\ hung' = hung /\ chan'[b] = <<>> /\ chan'[o] = e.out
  <2>1. <<>> \o e.out = e.out
    BY <1>7
  <2>. QED
    BY <1>2, <1>6, <1>8, <2>1 DEF Moved, o
<1>10. \A m \in ToSet(ms) : v[m] \in {"+", "=", "-"} /\ (v[m] = "-" => m \in Taken(b)')
  <2>1. ASSUME NEW m \in ToSet(ms), v[m] = "-" PROVE m \in Taken(b)'
    <3>1. m \in c.held /\ c.held \subseteq ToSet(Mail[b]) \cup ToSet(c.inbox)
      BY <1>1, <1>4, <2>1 DEF Answers, Own
    <3>2. m \in ToSet(Mail[o])
      BY <1>1 DEF Own, ms
    <3>3. ToSet(Mail[b]) \cap ToSet(Mail[o]) = {}
      BY MailIs
    <3>4. m \in Taken(b)
      BY <3>1, <3>2, <3>3 DEF Taken
    <3>. QED
      BY <1>8, <3>4
  <2>2. v \in [ToSet(ms) -> {"+", "=", "-"}]
    BY <1>4 DEF Answers
  <2>. QED
    BY <2>1, <2>2
<1>11. Replied(o, v)'
  <2>1. ms = sess'[o].offered
    BY <1>9 DEF ms
  <2>2. \/ e.phase = "recv-block" /\ e.rx # <<>> /\ e.out = <<Fs(ms, v)>>
        \/ e.phase = "await-fs" /\ e.rx = <<>> /\ e.out = <<Fs(ms, v), Line("FB", e.offered)>>
        \/ e.phase = "await-proposals" /\ e.rx = <<>> /\ e.out = <<Fs(ms, v), Line("FF", <<>>)>>
    BY <1>4 DEF Answers
  <2>. QED
    BY <1>0, <1>6, <1>7, <1>9, <1>10, <2>1, <2>2 DEF Replied
<1>12. Talking(o)'
  <2>1. v \in [ToSet(sess'[o].offered) -> {"+", "=", "-"}]
    BY <1>4, <1>9 DEF Answers, ms
  <2>2. Answered(o)'
    BY <1>11, <2>1 DEF Answered
  <2>. QED
    BY <1>0, <1>6, <1>9, <2>2 DEF Talking
<1>. QED
  BY <1>0, <1>8, <1>12 DEF FbbInv, Dialogue

\* The answer to a block: what is accepted is sent.
LEMMA RecvFs ==
    ASSUME FbbInv, NEW b \in Box, Recv(b), Talking(b), Answered(b)
    PROVE  FbbInv'
<1>. DEFINE o == Other(b)
            c == sess[b]
            ms == c.offered
            rest == Tail(chan[b])
<1>0. o \in Box /\ o # b /\ Other(o) = b
  BY OtherIs
<1>1. /\ c \in Session /\ c \in Draft /\ c.out = <<>> /\ ms \in Seq(Msgs) /\ sess[o] \in Session
      /\ Own(b) /\ Own(o) /\ Carried(b)
  BY <1>0, RecvIs DEF FbbInv, Session
<1>2. PICK v \in [ToSet(ms) -> {"+", "=", "-"}] : Replied(b, v)
  BY DEF Answered
<1>. DEFINE fs == Fs(ms, v)
            e == SendAccepted(c, v)
<1>3. /\ c.phase = "await-fs" /\ chan[o] = <<>> /\ sess[o].rx = Accepted(ms, v)
      /\ \A m \in ToSet(ms) : v[m] \in {"+", "=", "-"} /\ (v[m] = "-" => m \in Taken(o))
      /\ \/ sess[o].phase = "recv-block" /\ sess[o].rx # <<>> /\ chan[b] = <<fs>>
         \/ sess[o].phase = "await-fs" /\ sess[o].rx = <<>> /\ chan[b] = <<fs, Line("FB", sess[o].offered)>>
         \/ sess[o].phase = "await-proposals" /\ sess[o].rx = <<>> /\ chan[b] = <<fs, Line("FF", <<>>)>>
  BY <1>2 DEF Replied
<1>4. fs.k = "FS" /\ fs.v = v
  BY <1>1, FsIs
<1>. HIDE DEF fs
<1>5. /\ Head(chan[b]) = fs
      /\ \/ sess[o].phase = "recv-block" /\ sess[o].rx # <<>> /\ rest = <<>>
         \/ sess[o].phase = "await-fs" /\ sess[o].rx = <<>> /\ rest = <<Line("FB", sess[o].offered)>>
         \/ sess[o].phase = "await-proposals" /\ sess[o].rx = <<>> /\ rest = <<Line("FF", <<>>)>>
  <2>. DEFINE fb == Line("FB", sess[o].offered)
              ff == Line("FF", <<>>)
  <2>1. Head(<<fs>>) = fs /\ Tail(<<fs>>) = <<>>
    BY OneLine
  <2>2. Head(<<fs, fb>>) = fs /\ Tail(<<fs, fb>>) = <<fb>>
    BY TwoLines
  <2>3. Head(<<fs, ff>>) = fs /\ Tail(<<fs, ff>>) = <<ff>>
    BY TwoLines
  <2>. QED
    BY <1>3, <2>1, <2>2, <2>3
<1>6. Feed(c, fs) = e
  BY <1>3, <1>4 DEF Feed
<1>7. /\ e \in Draft /\ e.phase = "await-proposals" /\ e.offered = <<>> /\ ToSet(e.queue) \subseteq ToSet(c.queue)
      /\ e.held = c.held /\ e.inbox = c.inbox /\ e.rx = c.rx
      /\ e.sent = c.sent \cup {m \in ToSet(ms) : v[m] # "="}
      /\ e.out = Bodies(Accepted(ms, v))
  BY <1>1, <1>2, SendAcceptedIs
<1>8. Goes(b, e, [chan EXCEPT ![b] = rest])
  BY <1>4, <1>5, <1>6, <1>7, RecvIs
<1>9. ~hung[b] /\ ~hung[o] /\ c.rx = <<>>
  BY DEF Talking
<1>. HIDE DEF e, rest, c, ms, o
<1>10. e.sent \subseteq Taken(o) \cup ToSet(sess[o].rx)
  <2>1. c.sent \subseteq Taken(o) \cup ToSet(sess[o].rx)
    BY <1>1 DEF Carried, c, o
  <2>2. ToSet(sess[o].rx) = {m \in ToSet(ms) : v[m] = "+"}
    BY <1>1, <1>3, AcceptedIs
  <2>3. \A m \in ToSet(ms) : v[m] # "=" => m \in Taken(o) \cup ToSet(sess[o].rx)
    BY <1>3, <2>2
  <2>. QED
    BY <1>7, <2>1, <2>3
<1>11. /\ Types' /\ \A x \in Box : Own(x)' /\ Carried(x)' /\ Told(x)'
       /\ Moved(b, e, rest)
  <2>1. /\ ToSet(c.inbox) \subseteq ToSet(e.inbox)
        /\ ToSet(c.rx) \subseteq ToSet(e.inbox) \cup ToSet(e.rx)
        /\ ToSet(e.queue) \cup ToSet(e.offered) \subseteq ToSet(Mail[b])
        /\ e.held \subseteq ToSet(Mail[b]) \cup ToSet(e.inbox)
        /\ e.phase \notin {"idle", "done"} /\ c.phase \notin {"idle", "done"}
    BY <1>1, <1>3, <1>7, <1>9, EmptySet DEF Own, c
  <2>. QED
    BY <1>7, <1>8, <1>9, <1>10, <2>1, GoesKeeps DEF o, c
<1>12. /\ sess'[b].phase = "await-proposals" /\ sess'[b].rx = <<>> /\ sess'[o] = sess[o]
       /\ hung' = hung /\ chan'[b] = rest /\ chan'[o] = Bodies(sess[o].rx)
  <2>1. e.out = Bodies(sess[o].rx) /\ e.out \in Seq(Wire)
    BY <1>3, <1>7 DEF Draft
  <2>2. <<>> \o e.out = e.out
    BY <2>1
  <2>. QED
    BY <1>3, <1>7, <1>9, <1>11, <2>1, <2>2 DEF Moved, o
<1>13. sess[o].rx = <<>> => chan'[o] = <<>>
  BY <1>1, <1>12, BodiesAre DEF Session
<1>14. CASE sess[o].phase = "recv-block" /\ sess[o].rx # <<>> /\ rest = <<>>
  <2>1. Sending(b)'
    BY <1>12, <1>14 DEF Sending, o
  <2>2. Talking(b)'
    BY <1>9, <1>12, <2>1 DEF Talking, o
  <2>. QED
    BY <1>11, <2>2 DEF FbbInv, Dialogue
<1>15. CASE sess[o].phase = "await-fs" /\ sess[o].rx = <<>> /\ rest = <<Line("FB", sess[o].offered)>>
  <2>1. Proposed(o)'
    BY <1>0, <1>12, <1>13, <1>15 DEF Proposed, Hears
  <2>2. Talking(o)'
    BY <1>0, <1>9, <1>12, <1>15, <2>1 DEF Talking
  <2>. QED
    BY <1>0, <1>11, <2>2 DEF FbbInv, Dialogue
<1>16. CASE sess[o].phase = "await-proposals" /\ sess[o].rx = <<>> /\ rest = <<Line("FF", <<>>)>>
  <2>1. Passed(o)'
    BY <1>0, <1>12, <1>13, <1>16 DEF Passed, Hears
  <2>2. Talking(o)'
    BY <1>0, <1>9, <1>12, <1>16, <2>1 DEF Talking
  <2>. QED
    BY <1>0, <1>11, <2>2 DEF FbbInv, Dialogue
<1>. QED
  BY <1>5, <1>14, <1>15, <1>16

\* A box that speaks while the other listens leads the dialogue.
LEMMA SpokenTalks ==
    ASSUME NEW b \in Box, NEW e, Moved(b, e, <<>>), e.rx = <<>>,
           \/ e.phase = "await-proposals" /\ e.out = <<Line("FF", <<>>)>>
           \/ e.phase = "await-fs" /\ e.out = <<Line("FB", e.offered)>>,
           ~hung[b], ~hung[Other(b)], sess[Other(b)].rx = <<>>, chan[Other(b)] = <<>>,
           sess[Other(b)].phase = "await-proposals"
    PROVE  Talking(b)'
<1>. DEFINE o == Other(b)
            l == IF e.phase = "await-fs" THEN Line("FB", e.offered) ELSE Line("FF", <<>>)
<1>1. e.out = <<l>>
  OBVIOUS
<1>2. <<>> \o <<l>> = <<l>>
  BY OneLine
<1>. HIDE DEF l
<1>3. /\ sess'[b].phase = e.phase /\ sess'[b].offered = e.offered /\ sess'[b].rx = <<>>
      /\ sess'[o] = sess[o] /\ chan'[b] = <<>> /\ chan'[o] = <<l>> /\ hung' = hung
  BY <1>1, <1>2 DEF Moved
<1>4. sess'[o].rx = <<>> /\ sess'[o].phase = "await-proposals"
  BY <1>3
<1>5. Proposed(b)' \/ Passed(b)'
  BY <1>3, <1>4 DEF Proposed, Passed, Hears, l
<1>. QED
  BY <1>3, <1>4, <1>5 DEF Talking

\* The other box has nothing to propose.
LEMMA RecvFf ==
    ASSUME FbbInv, NEW b \in Box, Recv(b), Talking(Other(b)), Passed(Other(b)),
           sess[b].phase = "await-proposals", sess[b].rx = <<>>, chan[b] = <<Line("FF", <<>>)>>
    PROVE  FbbInv'
<1>. DEFINE o == Other(b)
            c == sess[b]
            l == Line("FF", <<>>)
            e == OnFF(c)
            rest == Tail(chan[b])
<1>0. o \in Box /\ o # b /\ Other(o) = b
  BY OtherIs
<1>1. c \in Draft /\ c.out = <<>> /\ Own(b) /\ Own(o) /\ Carried(b)
  BY <1>0, RecvIs DEF FbbInv
<1>2. Head(chan[b]) = l /\ rest = <<>> /\ l.k = "FF"
  <2>1. <<>> \in Seq(Msgs)
    OBVIOUS
  <2>2. l.k = "FF"
    BY <2>1, LineIs
  <2>3. Head(<<l>>) = l /\ Tail(<<l>>) = <<>>
    BY OneLine
  <2>. QED
    BY <2>2, <2>3
<1>3. Feed(c, l) = e
  BY <1>2 DEF Feed
<1>4. ~hung[b] /\ ~hung[o] /\ sess[o].rx = <<>> /\ chan[o] = <<>> /\ sess[o].phase = "await-proposals"
  BY <1>0 DEF Talking, Passed
<1>5. Speaks(c, e) \/ Finished(c, e)
  BY <1>1, OnFFIs
<1>6. /\ e.phase = "done" => Ends(b, e, [chan EXCEPT ![b] = rest])
      /\ e.phase # "done" => Goes(b, e, [chan EXCEPT ![b] = rest])
  BY <1>2, <1>3, RecvIs
<1>. HIDE DEF e, rest
<1>7. CASE Finished(c, e)
  <2>1. Ends(b, e, [chan EXCEPT ![b] = rest])
    BY <1>6, <1>7 DEF Finished
  <2>. QED
    BY <1>4, <1>7, <2>1, EndsKeeps
<1>8. CASE Speaks(c, e)
  <2>1. e \in Draft /\ Same(c, e) /\ e.rx = c.rx /\ e.phase \in {"await-proposals", "await-fs"}
    BY <1>8 DEF Speaks
  <2>2. ToSet(e.offered) \subseteq ToSet(c.queue) \cup ToSet(c.offered)
    BY <1>8 DEF Speaks
  <2>3. /\ Types' /\ \A x \in Box : Own(x)' /\ Carried(x)' /\ Told(x)'
        /\ Moved(b, e, rest)
    <3>1. /\ ToSet(c.inbox) \subseteq ToSet(e.inbox)
          /\ ToSet(c.rx) \subseteq ToSet(e.inbox) \cup ToSet(e.rx)
          /\ ToSet(e.queue) \cup ToSet(e.offered) \subseteq ToSet(Mail[b])
          /\ e.held \subseteq ToSet(Mail[b]) \cup ToSet(e.inbox)
          /\ e.sent \subseteq Taken(o) \cup ToSet(sess[o].rx)
      BY <1>1, <2>1, <2>2 DEF Own, Carried, Same
    <3>2. Goes(b, e, [chan EXCEPT ![b] = rest])
      BY <1>6, <2>1
    <3>3. e.phase \notin {"idle", "done"} /\ c.phase \notin {"idle", "done"}
      BY <2>1
    <3>. QED
      BY <1>4, <2>1, <3>1, <3>2, <3>3, GoesKeeps
  <2>4. Talking(b)'
    <3>1. <<>> \o <<Line("FF", <<>>)>> = <<Line("FF", <<>>)>> /\ <<>> \o <<Line("FB", e.offered)>> = <<Line("FB", e.offered)>>
      BY OneLine
    <3>2. \/ e.phase = "await-proposals" /\ e.out = <<Line("FF", <<>>)>>
          \/ e.phase = "await-fs" /\ e.out = <<Line("FB", e.offered)>>
      BY <1>1, <1>8, <3>1 DEF Speaks
    <3>3. Moved(b, e, <<>>) /\ e.rx = <<>>
      BY <1>2, <2>1, <2>3
    <3>. QED
      BY <1>4, <3>2, <3>3, SpokenTalks
  <2>. QED
    BY <2>3, <2>4 DEF FbbInv, Dialogue
<1>. QED
  BY <1>5, <1>7, <1>8

\* A body has arrived.
LEMMA RecvBody ==
    ASSUME FbbInv, NEW b \in Box, Recv(b), Talking(Other(b)), Sending(Other(b))
    PROVE  FbbInv'
<1>. DEFINE o == Other(b)
            c == sess[b]
            m == Head(c.rx)
            l == Line("body", <<m>>)
            e == Body(c, m)
            rest == Tail(chan[b])
<1>0. o \in Box /\ o # b /\ Other(o) = b
  BY OtherIs
<1>1. c \in Session /\ c \in Draft /\ c.out = <<>> /\ c.rx \in Seq(Msgs) /\ c.inbox \in Seq(Msgs) /\ Own(b) /\ Own(o) /\ Carried(b)
  BY <1>0, RecvIs DEF FbbInv, Session
<1>2. /\ ~hung[b] /\ ~hung[o] /\ sess[o].rx = <<>> /\ chan[o] = <<>> /\ sess[o].phase = "await-proposals"
      /\ c.phase = "recv-block" /\ c.rx # <<>> /\ chan[b] = Bodies(c.rx)
  BY <1>0 DEF Talking, Sending
<1>3. m \in Msgs /\ Tail(c.rx) \in Seq(Msgs) /\ ToSet(c.rx) = {m} \cup ToSet(Tail(c.rx))
  BY <1>1, <1>2, HeadTail
<1>4. Head(chan[b]) = l /\ rest = Bodies(Tail(c.rx)) /\ l.k = "body" /\ l.ms[1] = m
  <2>1. <<m>> \in Seq(Msgs) /\ <<m>>[1] = m
    BY <1>3
  <2>2. l.k = "body" /\ l.ms = <<m>>
    BY <2>1, LineIs
  <2>. QED
    BY <1>1, <1>2, <2>1, <2>2, BodiesAre
<1>5. Feed(c, l) = e
  BY <1>2, <1>4 DEF Feed
<1>6. /\ e.phase = "done" => Ends(b, e, [chan EXCEPT ![b] = rest])
      /\ e.phase # "done" => Goes(b, e, [chan EXCEPT ![b] = rest])
  BY <1>4, <1>5, RecvIs
<1>7. \/ Finished(c, e)
      \/ Received(c, e) /\ e.rx # <<>> /\ e.phase = c.phase /\ e.offered = c.offered /\ e.out = <<>>
      \/ /\ Received(c, e) /\ e.rx = <<>>
         /\ \/ e.phase = "await-proposals" /\ e.out = <<Line("FF", <<>>)>> /\ e.offered = c.offered
            \/ e.phase = "await-fs" /\ e.out = <<Line("FB", e.offered)>> /\ ToSet(e.offered) \subseteq ToSet(c.queue)
  BY <1>1, <1>2, BodyIs
<1>. HIDE DEF e, rest
<1>8. CASE Finished(c, e)
  <2>1. Ends(b, e, [chan EXCEPT ![b] = rest])
    BY <1>6, <1>8 DEF Finished
  <2>. QED
    BY <1>2, <1>8, <2>1, EndsKeeps
<1>9. CASE Received(c, e) /\ ~Finished(c, e)
  <2>1. /\ e \in Draft /\ e.phase \in {"await-proposals", "await-fs", "recv-block"}
        /\ e.queue = c.queue /\ e.sent = c.sent /\ e.inbox = Append(c.inbox, m) /\ e.held = c.held \cup {m}
        /\ e.rx = Tail(c.rx)
    BY <1>2, <1>7, <1>9 DEF Received
  <2>2. ToSet(e.offered) \subseteq ToSet(c.queue) \cup ToSet(c.offered)
    BY <1>7, <1>9
  <2>3. ToSet(e.inbox) = ToSet(c.inbox) \cup {m}
    BY <1>1, <1>3, <2>1, AppendAdds
  <2>4. /\ Types' /\ \A x \in Box : Own(x)' /\ Carried(x)' /\ Told(x)'
        /\ Moved(b, e, rest)
    <3>1. /\ ToSet(c.inbox) \subseteq ToSet(e.inbox)
          /\ ToSet(c.rx) \subseteq ToSet(e.inbox) \cup ToSet(e.rx)
      BY <1>3, <2>1, <2>3
    <3>2. /\ ToSet(e.queue) \cup ToSet(e.offered) \subseteq ToSet(Mail[b])
          /\ e.held \subseteq ToSet(Mail[b]) \cup ToSet(e.inbox)
          /\ e.sent \subseteq Taken(o) \cup ToSet(sess[o].rx)
      BY <1>1, <2>1, <2>2, <2>3 DEF Own, Carried
    <3>3. Goes(b, e, [chan EXCEPT ![b] = rest])
      BY <1>6, <2>1
    <3>4. e.phase \notin {"idle", "done"} /\ c.phase \notin {"idle", "done"}
      BY <1>2, <2>1
    <3>. QED
      BY <1>2, <2>1, <3>1, <3>2, <3>3, <3>4, GoesKeeps
  <2>5. Talking(b)' \/ Talking(o)'
    <3>1. CASE e.rx # <<>>
      <4>1. e.phase = "recv-block" /\ e.out = <<>>
        BY <1>2, <1>7, <1>9, <3>1
      <4>2. <<>> \o <<>> = <<>>
        OBVIOUS
      <4>3. /\ sess'[b].phase = "recv-block" /\ sess'[b].rx = e.rx /\ sess'[o] = sess[o] /\ hung' = hung
            /\ chan'[b] = Bodies(e.rx) /\ chan'[o] = <<>>
        BY <1>2, <1>4, <2>1, <2>4, <4>1, <4>2 DEF Moved
      <4>4. Sending(o)'
        BY <1>0, <1>2, <3>1, <4>3 DEF Sending
      <4>. QED
        BY <1>0, <1>2, <4>3, <4>4 DEF Talking
    <3>2. CASE e.rx = <<>>
      <4>1. rest = <<>>
        BY <1>3, <1>4, <2>1, <3>2, BodiesAre
      <4>2. \/ e.phase = "await-proposals" /\ e.out = <<Line("FF", <<>>)>>
            \/ e.phase = "await-fs" /\ e.out = <<Line("FB", e.offered)>>
        BY <1>7, <1>9, <3>2
      <4>. QED
        BY <1>0, <1>2, <2>4, <3>2, <4>1, <4>2, SpokenTalks
    <3>. QED
      BY <3>1, <3>2
  <2>. QED
    BY <1>0, <2>4, <2>5 DEF FbbInv, Dialogue
<1>. QED
  BY <1>7, <1>8, <1>9

\* The other box has hung up with an FQ.
LEMMA RecvFq ==
    ASSUME FbbInv, NEW b \in Box, Recv(b), Left(Other(b))
    PROVE  FbbInv'
<1>. DEFINE o == Other(b)
            c == sess[b]
            l == Line("FQ", <<>>)
            e == [c EXCEPT !.phase = "done"]
            rest == Tail(chan[b])
<1>0. o \in Box /\ o # b /\ Other(o) = b
  BY OtherIs
<1>1. c \in Draft /\ c.out = <<>> /\ chan[b] # <<>> /\ c.phase \notin {"idle", "done"}
  BY RecvIs
<1>2. /\ hung[o] /\ sess[o] = NoSession /\ ~hung[b] /\ c.rx = <<>> /\ c.phase = "await-proposals"
      /\ chan[b] = <<l>>
  BY <1>0, <1>1 DEF Left
<1>3. Head(chan[b]) = l /\ rest = <<>> /\ l.k = "FQ"
  <2>1. <<>> \in Seq(Msgs)
    OBVIOUS
  <2>2. l.k = "FQ"
    BY <2>1, LineIs
  <2>3. Head(<<l>>) = l /\ Tail(<<l>>) = <<>>
    BY OneLine
  <2>. QED
    BY <1>2, <2>2, <2>3
<1>4. Feed(c, l) = e
  BY <1>2, <1>3 DEF Feed
<1>5. Finished(c, e)
  BY <1>1, FinishIs
<1>6. Ends(b, e, [chan EXCEPT ![b] = rest])
  BY <1>3, <1>4, <1>5, RecvIs DEF Finished
<1>7. sess[o].rx = <<>>
  BY <1>2, SessionIs
<1>. HIDE DEF e, rest
<1>. QED
  BY <1>1, <1>2, <1>3, <1>5, <1>6, <1>7, EndsKeeps

LEMMA RecvKeeps ==
    ASSUME FbbInv, NEW b \in Box, Recv(b)
    PROVE  FbbInv'
<1>0. Other(b) \in Box /\ Other(Other(b)) = b /\ \A x \in Box : x = b \/ x = Other(b)
  BY OtherIs
<1>1. chan[b] # <<>> /\ sess[b].phase \notin {"idle", "done"}
  BY RecvIs
<1>2. Left(Other(b)) \/ Talking(b) \/ Talking(Other(b))
  <2>1. sess[b] # NoSession
    BY <1>1, SessionIs
  <2>. QED
    BY <1>0, <2>1 DEF FbbInv, Dialogue, Apart, Left
<1>3. CASE Talking(b)
  <2>1. Answered(b)
    BY <1>1, <1>3 DEF Talking, Proposed, Passed, Sending, Closing
  <2>. QED
    BY <1>3, <2>1, RecvFs
<1>4. CASE Talking(Other(b))
  <2>1. Proposed(Other(b)) \/ Passed(Other(b)) \/ Sending(Other(b))
    BY <1>0, <1>1, <1>4 DEF Talking, Answered, Replied, Closing
  <2>2. CASE Sending(Other(b))
    BY <1>4, <2>2, RecvBody
  <2>3. CASE Proposed(Other(b))
    <3>1. PICK l : l = Line("FB", sess[Other(b)].offered)
      OBVIOUS
    <3>2. Hears(b, l)
      BY <1>0, <2>3, <3>1 DEF Proposed
    <3>3. CASE sess[b].phase = "await-proposals" /\ chan[b] = <<l>>
      BY <1>4, <2>3, <3>1, <3>2, <3>3, RecvBlock DEF Hears
    <3>4. CASE sess[b].phase = "await-sid"
      BY <1>4, <2>3, <3>1, <3>2, <3>4, RecvSid DEF Hears
    <3>. QED
      BY <3>2, <3>3, <3>4 DEF Hears
  <2>4. CASE Passed(Other(b))
    <3>1. PICK l : l = Line("FF", <<>>)
      OBVIOUS
    <3>2. Hears(b, l)
      BY <1>0, <2>4, <3>1 DEF Passed
    <3>3. CASE sess[b].phase = "await-proposals" /\ chan[b] = <<l>>
      BY <1>4, <2>4, <3>1, <3>2, <3>3, RecvFf DEF Hears
    <3>4. CASE sess[b].phase = "await-sid"
      BY <1>4, <2>4, <3>1, <3>2, <3>4, RecvSid DEF Hears
    <3>. QED
      BY <3>2, <3>3, <3>4 DEF Hears
  <2>. QED
    BY <2>1, <2>2, <2>3, <2>4
<1>. QED
  BY <1>2, <1>3, <1>4, RecvFq

-----------------------------------------------------------------------------
(* The link and the gateways. *)

\* Nothing is said: the dialogue stays where it is.
LEMMA SameDialogue ==
    ASSUME FbbInv, sess' = sess, chan' = chan, hung' = hung, \A x \in Box : Taken(x) \subseteq Taken(x)'
    PROVE  Dialogue'
<1>1. CASE Apart
  BY <1>1 DEF Apart, Dialogue
<1>2. CASE \E b \in Box : Left(b)
  BY <1>2 DEF Left, Dialogue
<1>3. ASSUME NEW b \in Box, Talking(b) PROVE Talking(b)'
  <2>0. Other(b) \in Box
    BY OtherIs
  <2>1. CASE Answered(b)
    <3>1. PICK v \in [ToSet(sess[b].offered) -> {"+", "=", "-"}] : Replied(b, v)
      BY <2>1 DEF Answered
    <3>2. Replied(b, v)'
      BY <2>0, <3>1 DEF Replied
    <3>3. Answered(b)'
      BY <3>1, <3>2 DEF Answered
    <3>. QED
      BY <1>3, <3>3 DEF Talking
  <2>2. CASE ~Answered(b)
    <3>1. (Proposed(b) \/ Passed(b) \/ Sending(b) \/ Closing(b)) /\ ~hung[b] /\ ~hung[Other(b)] /\ sess[b].rx = <<>>
      BY <1>3, <2>2 DEF Talking
    <3>2. (Proposed(b) \/ Passed(b) \/ Sending(b) \/ Closing(b))'
      BY <3>1 DEF Proposed, Passed, Sending, Closing, Hears
    <3>. QED
      BY <3>1, <3>2 DEF Talking
  <2>. QED
    BY <2>1, <2>2
<1>. QED
  BY <1>1, <1>2, <1>3 DEF FbbInv, Dialogue

\* A box that has hung up is in no session, and in a dialogue both boxes are.
LEMMA HungIsIdle ==
    ASSUME FbbInv, NEW b \in Box, hung[b]
    PROVE  sess[b] = NoSession /\ sess[b].phase # "done" /\ ~InSession(b)
<1>0. Other(b) \in Box /\ Other(Other(b)) = b /\ \A x \in Box : x = b \/ x = Other(b)
  BY OtherIs
<1>1. ~Talking(b) /\ ~Talking(Other(b)) /\ ~Left(Other(b))
  BY <1>0 DEF Talking, Left
<1>2. Apart \/ Left(b)
  BY <1>0, <1>1 DEF FbbInv, Dialogue
<1>3. sess[b] = NoSession
  BY <1>2 DEF Apart, Left
<1>. QED
  BY <1>3, SessionIs DEF InSession

\* While the called box is through, the other waits for its FQ or is gone.
LEMMA DoneIsQuiet ==
    ASSUME FbbInv, NEW b \in Box, sess[b].phase = "done", ~hung[b]
    PROVE  /\ sess[b].rx = <<>> /\ (hung[Other(b)] => sess[Other(b)] = NoSession)
           /\ ~hung[Other(b)] => sess[Other(b)].phase = "await-proposals" /\ sess[Other(b)].rx = <<>> /\ chan[Other(b)] = <<>>
<1>0. Other(b) \in Box /\ Other(Other(b)) = b /\ \A x \in Box : x = b \/ x = Other(b)
  BY OtherIs
<1>1. ~Apart
  BY SessionIs DEF Apart
<1>2. ~Talking(b)
  BY DEF Talking, Proposed, Passed, Answered, Replied, Sending, Closing
<1>3. ~Left(b)
  BY DEF Left
<1>4. Talking(Other(b)) \/ Left(Other(b))
  BY <1>0, <1>1, <1>2, <1>3 DEF FbbInv, Dialogue
<1>5. CASE Left(Other(b))
  BY <1>0, <1>5 DEF Left
<1>6. CASE Talking(Other(b))
  <2>1. Closing(Other(b))
    BY <1>0, <1>6 DEF Talking, Proposed, Passed, Hears, Answered, Replied, Sending
  <2>. QED
    BY <1>0, <1>6, <2>1 DEF Talking, Closing
<1>. QED
  BY <1>4, <1>5, <1>6

\* A message reaches the gateway, or is lost there.
LEMMA InboundKeeps == ASSUME FbbInv, NEW b \in Box, Inbound(b) PROVE FbbInv'
<1>. DEFINE o == Other(b)
            i == flush[b].inbox
            m == Head(i)
            t == Tail(i)
<1>0. o \in Box /\ o # b /\ Other(o) = b /\ \A x \in Box : x = b \/ x = o
  BY OtherIs
<1>1. /\ Types /\ flush \in [Box -> Pending] /\ flush[b] \in Pending /\ i \in Seq(Msgs)
      /\ Own(b) /\ Own(o) /\ Carried(b) /\ Carried(o) /\ Told(b) /\ Told(o)
  BY <1>0 DEF FbbInv, Types, Pending
<1>2. /\ i # <<>> /\ UNCHANGED <<sess, chan, hung, log>>
      /\ \/ stored' = [stored EXCEPT ![b] = @ \cup {m}] /\ discarded' = discarded
         \/ discarded' = [discarded EXCEPT ![b] = @ \cup {m}] /\ stored' = stored
      /\ flush' = [flush EXCEPT ![b].inbox = Tail(@)]
  BY DEF Inbound
<1>3. m \in Msgs /\ t \in Seq(Msgs) /\ ToSet(i) = {m} \cup ToSet(t)
  BY <1>1, <1>2, HeadTail
<1>. HIDE DEF m
<1>4. /\ flush' \in [Box -> Pending] /\ flush'[o] = flush[o]
      /\ flush'[b].inbox = t /\ flush'[b].on = flush[b].on /\ flush'[b].mark = flush[b].mark
  BY <1>0, <1>1, <1>2, <1>3 DEF Pending
<1>5. /\ stored' \in [Box -> SUBSET Msgs] /\ discarded' \in [Box -> SUBSET Msgs]
      /\ stored'[o] = stored[o] /\ discarded'[o] = discarded[o]
      /\ stored'[b] \cup discarded'[b] = stored[b] \cup discarded[b] \cup {m}
  BY <1>0, <1>1, <1>2, <1>3 DEF Types
<1>6. Types'
  BY <1>1, <1>2, <1>4, <1>5 DEF Types
<1>7. Settled(b)' = Settled(b) /\ Settled(o)' = Settled(o) /\ Taken(b)' = Taken(b) /\ Taken(o)' = Taken(o)
  BY <1>2, <1>3, <1>4, <1>5 DEF Settled, Taken
<1>8. Own(b)' /\ Own(o)'
  BY <1>1, <1>2 DEF Own
<1>9. Carried(b)' /\ Carried(o)'
  BY <1>0, <1>1, <1>2, <1>4, <1>7 DEF Carried
<1>10. Told(b)' /\ Told(o)'
  BY <1>1, <1>2, <1>4, <1>7 DEF Told, InSession
<1>11. Dialogue'
  BY <1>0, <1>2, <1>7, SameDialogue
<1>12. \A x \in Box : Own(x)' /\ Carried(x)' /\ Told(x)'
  BY <1>0, <1>8, <1>9, <1>10
<1>. QED
  BY <1>6, <1>11, <1>12 DEF FbbInv

\* A gateway call throws.
LEMMA ThrowsKeeps == ASSUME FbbInv, NEW b \in Box, Throws(b) PROVE FbbInv'
<1>. DEFINE o == Other(b)
            i == flush[b].inbox
            g == [flush[b] EXCEPT !.inbox = <<>>, !.mark = {}]
            more == discarded[b] \cup ToSet(i)
<1>0. o \in Box /\ o # b /\ Other(o) = b /\ \A x \in Box : x = b \/ x = o
  BY OtherIs
<1>1. /\ Types /\ flush \in [Box -> Pending] /\ flush[b] \in Pending /\ i \in Seq(Msgs)
      /\ discarded \in [Box -> SUBSET Msgs] /\ discarded[b] \in SUBSET Msgs
      /\ Own(b) /\ Own(o) /\ Carried(b) /\ Carried(o) /\ Told(b) /\ Told(o)
  BY <1>0 DEF FbbInv, Types, Pending
<1>2. /\ flush[b].on /\ UNCHANGED <<sess, chan, hung, stored, log>>
      /\ discarded' = [discarded EXCEPT ![b] = more]
      /\ flush' = [flush EXCEPT ![b].inbox = <<>>, ![b].mark = {}]
  BY DEF Throws
<1>3. flush' = [flush EXCEPT ![b] = g]
  BY <1>1, <1>2
<1>4. g \in Pending /\ g.on = flush[b].on /\ g.inbox = <<>> /\ g.mark = {}
  <2>1. <<>> \in Seq(Msgs) /\ {} \in SUBSET Msgs
    OBVIOUS
  <2>. QED
    BY <1>1, <2>1 DEF Pending
<1>5. more \in SUBSET Msgs
  <2>1. ToSet(i) \subseteq Msgs
    BY <1>1 DEF ToSet
  <2>. QED
    BY <1>1, <2>1
<1>. HIDE DEF g, more
<1>6. /\ flush' \in [Box -> Pending] /\ flush'[o] = flush[o] /\ flush'[b] = g
      /\ discarded' \in [Box -> SUBSET Msgs] /\ discarded'[o] = discarded[o] /\ discarded'[b] = more
  <2>1. flush' \in [Box -> Pending] /\ flush'[o] = flush[o] /\ flush'[b] = g
    BY <1>0, <1>1, <1>3, <1>4
  <2>2. discarded' \in [Box -> SUBSET Msgs] /\ discarded'[o] = discarded[o] /\ discarded'[b] = more
    BY <1>0, <1>1, <1>2, <1>5
  <2>. QED
    BY <2>1, <2>2
<1>7. Types'
  BY <1>1, <1>2, <1>6 DEF Types
<1>8. Settled(b)' = Settled(b) /\ Settled(o)' = Settled(o) /\ Taken(b)' = Taken(b) /\ Taken(o)' = Taken(o)
  BY <1>2, <1>4, <1>6, EmptySet DEF Settled, Taken, more
<1>9. Own(b)' /\ Own(o)'
  BY <1>1, <1>2 DEF Own
<1>10. Carried(b)' /\ Carried(o)'
  BY <1>0, <1>1, <1>2, <1>4, <1>6, <1>8 DEF Carried
<1>11. Told(b)' /\ Told(o)'
  BY <1>1, <1>2, <1>4, <1>6, <1>8 DEF Told, InSession
<1>12. Dialogue'
  BY <1>0, <1>2, <1>8, SameDialogue
<1>13. \A x \in Box : Own(x)' /\ Carried(x)' /\ Told(x)'
  BY <1>0, <1>9, <1>10, <1>11
<1>. QED
  BY <1>7, <1>12, <1>13 DEF FbbInv

\* The gateway has been told everything; the called box then hangs up.
LEMMA MarkKeeps == ASSUME FbbInv, NEW b \in Box, MarkSent(b) PROVE FbbInv'
<1>. DEFINE o == Other(b)
            more == log[b] \cup flush[b].mark
            hangs == b = Called /\ sess[b].phase = "done" /\ ~hung[b]
            fq == IF flush[b].fq THEN <<Line("FQ", <<>>)>> ELSE <<>>
<1>0. o \in Box /\ o # b /\ Other(o) = b /\ (\A x \in Box : x = b \/ x = o) /\ (b = Called => o = Caller)
  BY OtherIs
<1>1. /\ Types /\ flush \in [Box -> Pending] /\ flush[b] \in Pending /\ log \in [Box -> SUBSET Msgs]
      /\ sess \in [Box -> Session] /\ hung \in [Box -> BOOLEAN] /\ chan = [x \in Box |-> chan[x]]
      /\ Own(b) /\ Own(o) /\ Carried(b) /\ Carried(o) /\ Told(b) /\ Told(o)
  BY <1>0 DEF FbbInv, Types
<1>2. /\ flush[b].on /\ flush[b].inbox = <<>> /\ log' = [log EXCEPT ![b] = more]
      /\ flush' = [flush EXCEPT ![b] = NoFlush] /\ UNCHANGED <<stored, discarded>>
      /\ hangs => SayAndHangUp(b, fq, chan) /\ sess' = [sess EXCEPT ![b] = NoSession]
      /\ ~hangs => sess' = sess /\ chan' = chan /\ hung' = hung
  BY DEF MarkSent, Replies
<1>3. more \in SUBSET Msgs /\ NoFlush \in Pending /\ ~NoFlush.on /\ NoFlush.inbox = <<>> /\ NoFlush.mark = {}
  BY <1>1 DEF Pending, NoFlush
<1>. HIDE DEF more
<1>4. /\ flush' \in [Box -> Pending] /\ flush'[b] = NoFlush /\ flush'[o] = flush[o]
      /\ log' \in [Box -> SUBSET Msgs] /\ log'[b] = more /\ log'[o] = log[o]
  BY <1>0, <1>1, <1>2, <1>3
<1>5. Settled(b)' = Settled(b) /\ Settled(o)' = Settled(o)
  BY <1>2, <1>3, <1>4 DEF Settled
<1>6. more \subseteq Taken(o)
  BY <1>1 DEF Carried, more
<1>7. CASE ~hangs
  <2>1. sess' = sess /\ chan' = chan /\ hung' = hung
    BY <1>2, <1>7
  <2>2. Types'
    BY <1>1, <1>2, <1>4, <2>1 DEF Types
  <2>3. Taken(b)' = Taken(b) /\ Taken(o)' = Taken(o)
    BY <1>5, <2>1 DEF Taken
  <2>4. Dialogue'
    BY <1>0, <2>1, <2>3, SameDialogue
  <2>5. Own(b)' /\ Own(o)'
    BY <1>1, <2>1 DEF Own
  <2>6. Carried(b)' /\ Carried(o)'
    BY <1>0, <1>1, <1>3, <1>4, <1>6, <2>1, <2>3 DEF Carried
  <2>7. sess[b].phase # "done"
    <3>1. hung[b] => sess[b].phase # "done"
      BY <1>0, HungIsIdle
    <3>. QED
      BY <1>1, <1>7, <3>1 DEF Told
  <2>8. Told(b)' /\ Told(o)'
    BY <1>1, <1>3, <1>4, <1>5, <2>1, <2>7 DEF Told, InSession
  <2>9. \A x \in Box : Own(x)' /\ Carried(x)' /\ Told(x)'
    BY <1>0, <2>5, <2>6, <2>8
  <2>. QED
    BY <2>2, <2>4, <2>9 DEF FbbInv
<1>8. CASE hangs
  <2>1. /\ sess' = [sess EXCEPT ![b] = NoSession] /\ hung' = [hung EXCEPT ![b] = TRUE]
        /\ \/ chan' = [chan EXCEPT ![b] = <<>>, ![o] = IF hung[o] THEN @ ELSE @ \o fq]
           \/ chan' = [chan EXCEPT ![b] = <<>>]
    BY <1>2, <1>8 DEF SayAndHangUp
  <2>2. /\ sess' \in [Box -> Session] /\ sess'[b] = NoSession /\ sess'[o] = sess[o]
        /\ hung' \in [Box -> BOOLEAN] /\ hung'[b] /\ hung'[o] = hung[o]
        /\ chan' = [x \in Box |-> chan'[x]]
        /\ chan'[o] = chan[o] \/ (~hung[o] /\ chan'[o] = chan[o] \o fq)
    BY <1>0, <1>1, <2>1, SessionIs
  <2>3. Types'
    BY <1>1, <1>2, <1>4, <2>2 DEF Types
  <2>4. ToSet(sess[b].inbox) \subseteq Settled(b) /\ Taken(b) \subseteq Taken(b)' /\ Taken(o)' = Taken(o)
    BY <1>1, <1>5, <1>8, <2>2 DEF Taken, Told
  <2>5. sess[b].rx = <<>> /\ (hung[o] => sess[o] = NoSession)
        /\ (~hung[o] => sess[o].phase = "await-proposals" /\ sess[o].rx = <<>> /\ chan[o] = <<>>)
    BY <1>0, <1>8, DoneIsQuiet
  <2>6. Own(b)' /\ Own(o)'
    BY <1>1, <2>2, SessionIs, EmptySet DEF Own
  <2>7. Carried(b)'
    BY <1>3, <1>4, <1>6, <2>2, <2>4, SessionIs DEF Carried
  <2>8. Carried(o)'
    <3>1. sess[o].sent \subseteq Taken(b) /\ flush[o].mark \cup log[o] \subseteq Taken(b)
      BY <1>0, <1>1, <2>5, EmptySet DEF Carried
    <3>. QED
      BY <1>0, <1>4, <2>2, <2>4, <3>1 DEF Carried
  <2>9. Told(b)' /\ Told(o)'
    BY <1>1, <1>3, <1>4, <1>5, <2>2, SessionIs DEF Told, InSession
  <2>10. Dialogue'
    <3>1. CASE hung[o]
      BY <1>0, <2>2, <2>5, <3>1 DEF Dialogue, Apart
    <3>2. CASE ~hung[o]
      <4>0. <<>> \o <<>> = <<>> /\ <<>> \o <<Line("FQ", <<>>)>> = <<Line("FQ", <<>>)>>
        BY OneLine
      <4>1. chan'[o] \in {<<>>, <<Line("FQ", <<>>)>>}
        BY <2>2, <2>5, <3>2, <4>0
      <4>2. Left(b)'
        BY <2>2, <2>5, <3>2, <4>1 DEF Left
      <4>. QED
        BY <4>2 DEF Dialogue
    <3>. QED
      BY <3>1, <3>2
  <2>11. \A x \in Box : Own(x)' /\ Carried(x)' /\ Told(x)'
    BY <1>0, <2>6, <2>7, <2>8, <2>9
  <2>. QED
    BY <2>3, <2>10, <2>11 DEF FbbInv
<1>. QED
  BY <1>7, <1>8

\* What the end of a link does to the box b: it keeps what it took, or throws it away knowingly.
Loses(b) ==
    /\ flush'[b] \in Pending /\ (~flush'[b].on => flush'[b].inbox = <<>> /\ flush'[b].mark = {})
    /\ flush'[b].mark \subseteq flush[b].mark
    /\ discarded'[b] \in SUBSET Msgs
    /\ stored[b] \cup ToSet(flush[b].inbox) \cup discarded[b] \cup ToSet(sess[b].inbox)
          \subseteq stored[b] \cup ToSet(flush'[b].inbox) \cup discarded'[b]

LEMMA LosesIs ==
    ASSUME FbbInv, NEW b \in Box, InSession(b), flush'[b] = Dropped(b), discarded'[b] = discarded[b] \cup Thrown(b)
    PROVE  Loses(b)
<1>1. /\ sess[b] \in Session /\ flush[b] \in Pending /\ discarded[b] \in SUBSET Msgs /\ Told(b)
      /\ (b = Caller \/ b = Called) /\ Caller # Called
  BY FbbAssumption DEF FbbInv, Types, Box
<1>2. sess[b].inbox \in Seq(Msgs) /\ ToSet(sess[b].inbox) \subseteq Msgs
  BY <1>1 DEF Session, ToSet
<1>3. CASE b = Caller
  <2>1. ~flush[b].on /\ flush[b].inbox = <<>> /\ ToSet(flush[b].inbox) = {}
    BY <1>1, <1>3, EmptySet DEF Told
  <2>2. /\ Dropped(b) \in Pending /\ Dropped(b).on /\ Dropped(b).inbox = sess[b].inbox /\ Dropped(b).mark = {}
    BY <1>2, <1>3 DEF Dropped, NoFlush, Pending
  <2>3. Thrown(b) = {}
    BY <1>1, <1>3 DEF Thrown
  <2>. QED
    BY <1>1, <2>1, <2>2, <2>3 DEF Loses
<1>4. CASE b = Called
  <2>1. /\ Dropped(b) \in Pending /\ Dropped(b).on = flush[b].on /\ Dropped(b).inbox = flush[b].inbox
        /\ Dropped(b).mark = flush[b].mark
    BY <1>1, <1>4 DEF Dropped, Pending
  <2>2. Thrown(b) \subseteq Msgs
    BY <1>2 DEF Thrown
  <2>3. CASE sess[b].phase = "done"
    <3>1. ToSet(sess[b].inbox) \subseteq Settled(b)
      BY <1>1, <2>3 DEF Told
    <3>. QED
      BY <1>1, <2>1, <2>2, <3>1 DEF Loses, Settled, Told
  <2>4. CASE sess[b].phase # "done"
    <3>1. Thrown(b) = ToSet(sess[b].inbox)
      BY <1>4, <2>4 DEF Thrown
    <3>. QED
      BY <1>1, <2>1, <2>2, <3>1 DEF Loses, Told
  <2>. QED
    BY <2>3, <2>4
<1>. QED
  BY <1>1, <1>3, <1>4

\* Without a session a box is as it should be, whatever the other does.
LEMMA LostKeeps ==
    ASSUME FbbInv, NEW b \in Box, Loses(b), sess'[b] = NoSession, stored' = stored, log' = log,
           Taken(Other(b)) \subseteq Taken(Other(b))'
    PROVE  Own(b)' /\ Carried(b)' /\ Told(b)' /\ Taken(b) \subseteq Taken(b)'
<1>1. Carried(b) /\ Told(b)
  BY DEF FbbInv
<1>2. Own(b)'
  BY SessionIs, EmptySet DEF Own
<1>3. Carried(b)'
  BY <1>1, SessionIs DEF Carried, Loses
<1>4. Told(b)'
  BY SessionIs DEF Told, InSession, Loses
<1>5. Taken(b) \subseteq Taken(b)'
  BY DEF Taken, Settled, Loses
<1>. QED
  BY <1>2, <1>3, <1>4, <1>5

LEMMA LinkDownKeeps == ASSUME FbbInv, NEW b \in Box, LinkDown(b) PROVE FbbInv'
<1>. DEFINE o == Other(b)
            g == Dropped(b)
            more == discarded[b] \cup Thrown(b)
<1>0. o \in Box /\ o # b /\ Other(o) = b /\ \A x \in Box : x = b \/ x = o
  BY OtherIs
<1>1. /\ InSession(b) /\ hung[o] /\ flush' = [flush EXCEPT ![b] = g] /\ discarded' = [discarded EXCEPT ![b] = more]
      /\ sess' = [sess EXCEPT ![b] = NoSession] /\ chan' = [chan EXCEPT ![b] = <<>>]
      /\ UNCHANGED <<hung, stored, log>>
  BY DEF LinkDown
<1>2. /\ Types /\ flush \in [Box -> Pending] /\ discarded \in [Box -> SUBSET Msgs]
      /\ sess \in [Box -> Session] /\ chan = [x \in Box |-> chan[x]] /\ Own(o) /\ Carried(o) /\ Told(o)
  BY <1>0 DEF FbbInv, Types
<1>3. sess[o] = NoSession
  BY <1>0, <1>1, HungIsIdle
<1>. HIDE DEF g, more
<1>4. /\ flush'[b] = g /\ flush'[o] = flush[o] /\ discarded'[b] = more /\ discarded'[o] = discarded[o]
      /\ sess'[b] = NoSession /\ sess'[o] = sess[o]
  BY <1>0, <1>1, <1>2
<1>5. Loses(b)
  BY <1>1, <1>4, LosesIs DEF g, more
<1>6. Types'
  <2>1. g \in Pending /\ more \in SUBSET Msgs
    BY <1>4, <1>5 DEF Loses
  <2>2. /\ flush' \in [Box -> Pending] /\ discarded' \in [Box -> SUBSET Msgs] /\ sess' \in [Box -> Session]
        /\ chan' = [x \in Box |-> chan'[x]]
    BY <1>1, <1>2, <2>1, SessionIs
  <2>. QED
    BY <1>1, <1>2, <2>2 DEF Types
<1>7. Taken(o)' = Taken(o) /\ Settled(o)' = Settled(o)
  BY <1>1, <1>4 DEF Taken, Settled
<1>8. Own(b)' /\ Carried(b)' /\ Told(b)' /\ Taken(b) \subseteq Taken(b)'
  BY <1>1, <1>4, <1>5, <1>7, LostKeeps
<1>9. Own(o)' /\ Told(o)'
  BY <1>2, <1>4, <1>7 DEF Own, Told, InSession
<1>10. Carried(o)'
  <2>1. flush[o].mark \cup log[o] \subseteq Taken(b) /\ sess'[o].sent = {}
    BY <1>0, <1>2, <1>3, <1>4, SessionIs DEF Carried
  <2>. QED
    BY <1>0, <1>1, <1>4, <1>8, <2>1 DEF Carried
<1>11. Dialogue'
  BY <1>0, <1>3, <1>4 DEF Dialogue, Apart
<1>12. \A x \in Box : Own(x)' /\ Carried(x)' /\ Told(x)'
  BY <1>0, <1>8, <1>9, <1>10
<1>. QED
  BY <1>6, <1>11, <1>12 DEF FbbInv

LEMMA BreakKeeps == ASSUME FbbInv, Break PROVE FbbInv'
<1>1. /\ \A b \in Box : InSession(b)
      /\ flush' = [b \in Box |-> Dropped(b)] /\ discarded' = [b \in Box |-> discarded[b] \cup Thrown(b)]
      /\ sess' = [b \in Box |-> NoSession] /\ chan' = [b \in Box |-> <<>>]
      /\ UNCHANGED <<hung, stored, log>>
  BY DEF Break
<1>2. Types
  BY DEF FbbInv
<1>3. \A b \in Box : /\ flush'[b] = Dropped(b) /\ discarded'[b] = discarded[b] \cup Thrown(b)
                     /\ sess'[b] = NoSession
  BY <1>1
<1>4. ASSUME NEW b \in Box PROVE Loses(b)
  BY <1>1, <1>3, LosesIs
<1>5. Types'
  <2>1. \A b \in Box : flush'[b] \in Pending /\ discarded'[b] \in SUBSET Msgs
    BY <1>4 DEF Loses
  <2>2. flush' \in [Box -> Pending] /\ discarded' \in [Box -> SUBSET Msgs]
    BY <1>1, <2>1
  <2>3. sess' \in [Box -> Session] /\ chan' = [x \in Box |-> chan'[x]]
    BY <1>1, SessionIs
  <2>. QED
    BY <1>1, <1>2, <2>2, <2>3 DEF Types
<1>6. ASSUME NEW b \in Box PROVE Taken(b) \subseteq Taken(b)'
  BY <1>1, <1>4 DEF Taken, Settled, Loses
<1>7. ASSUME NEW b \in Box PROVE Own(b)' /\ Carried(b)' /\ Told(b)'
  <2>1. Taken(Other(b)) \subseteq Taken(Other(b))'
    BY <1>6, OtherIs
  <2>. QED
    BY <1>1, <1>3, <1>4, <2>1, LostKeeps
<1>8. Dialogue'
  BY <1>3 DEF Dialogue, Apart
<1>. QED
  BY <1>5, <1>7, <1>8 DEF FbbInv

\* A call: both boxes were idle.
LEMMA StartKeeps == ASSUME FbbInv, Start PROVE FbbInv'
<1>. DEFINE s == Snapshot(Caller)
            c == Propose(s)
            d == [c EXCEPT !.out = <<>>]
            w == [NoSession EXCEPT !.phase = "await-sid"]
            sid == Line("SID", <<>>)
<1>0. /\ Caller \in Box /\ Called \in Box /\ Caller # Called /\ Other(Caller) = Called /\ Other(Called) = Caller
      /\ \A x \in Box : x = Caller \/ x = Called
  BY OtherIs, FbbAssumption DEF Box
<1>1. /\ \A b \in Box : ~InSession(b)
      /\ ~flush[Caller].on
      /\ sess' = [b \in Box |-> IF b = Caller THEN d ELSE w]
      /\ chan' = [b \in Box |-> IF b = Called THEN <<sid>> \o c.out ELSE <<>>]
      /\ hung' = [b \in Box |-> FALSE]
      /\ UNCHANGED <<flush, stored, log, discarded>>
  BY DEF Start
<1>2. /\ Types /\ sess \in [Box -> Session]
      /\ \A b \in Box : Carried(b) /\ Told(b)
  BY DEF FbbInv, Types
<1>3. \A b \in Box : sess[b] = NoSession
  <2>0. \A b \in Box : sess[b].phase = "idle" /\ sess[Other(b)].phase = "idle"
    BY <1>1, OtherIs DEF InSession
  <2>1. ASSUME NEW b \in Box PROVE ~Left(b) /\ ~Talking(b)
    BY <2>0 DEF Left, Talking, Proposed, Passed, Answered, Replied, Sending, Closing
  <2>2. Apart
    BY <2>1 DEF FbbInv, Dialogue
  <2>. QED
    BY <2>2 DEF Apart
<1>4. Begins(Caller, s)
  BY <1>0, SnapshotIs
<1>. HIDE DEF s
<1>5. Speaks(s, c)
  BY <1>4, ProposeIs DEF Begins
<1>. HIDE DEF c
<1>6. d \in Session /\ Same(c, d) /\ d.phase = c.phase /\ d.offered = c.offered /\ d.rx = c.rx
  BY <1>5, SessionIs DEF Speaks
<1>7. /\ w \in Session /\ w.phase = "await-sid" /\ w.queue = <<>> /\ w.held = {}
      /\ w.offered = <<>> /\ w.rx = <<>> /\ w.inbox = <<>> /\ w.sent = {}
  <2>1. NoSession \in Session
    BY SessionIs
  <2>2. w \in Session
    BY <2>1 DEF Session, Phase
  <2>. QED
    BY <2>1, <2>2, SessionIs DEF Session
<1>. HIDE DEF d, w
<1>8. /\ sess' \in [Box -> Session] /\ sess'[Caller] = d /\ sess'[Called] = w
      /\ chan' = [x \in Box |-> chan'[x]] /\ chan'[Caller] = <<>> /\ chan'[Called] = <<sid>> \o c.out
      /\ hung' \in [Box -> BOOLEAN] /\ ~hung'[Caller] /\ ~hung'[Called]
  BY <1>0, <1>1, <1>6, <1>7
<1>9. Types'
  BY <1>1, <1>2, <1>8 DEF Types
<1>10. /\ d.inbox = <<>> /\ d.sent = {} /\ d.rx = <<>> /\ d.held \subseteq ToSet(Mail[Caller])
       /\ ToSet(d.queue) \subseteq ToSet(Mail[Caller]) /\ ToSet(d.offered) \subseteq ToSet(Mail[Caller])
  BY <1>4, <1>5, <1>6, EmptySet DEF Begins, Speaks, Same
<1>11. Own(Caller)' /\ Own(Called)'
  BY <1>7, <1>8, <1>10, EmptySet DEF Own
<1>12. \A b \in Box : Taken(b)' = Taken(b) /\ Settled(b)' = Settled(b)
  <2>1. \A b \in Box : Settled(b)' = Settled(b)
    BY <1>1 DEF Settled
  <2>2. \A b \in Box : ToSet(sess[b].inbox) = {}
    BY <1>3, SessionIs, EmptySet
  <2>3. ToSet(sess'[Caller].inbox) = {} /\ ToSet(sess'[Called].inbox) = {}
    BY <1>7, <1>8, <1>10, EmptySet
  <2>. QED
    BY <1>0, <2>1, <2>2, <2>3 DEF Taken
<1>13. Carried(Caller)' /\ Carried(Called)'
  BY <1>0, <1>1, <1>2, <1>7, <1>8, <1>10, <1>12 DEF Carried
<1>14. d.phase \in {"await-fs", "await-proposals"}
  BY <1>5, <1>6 DEF Speaks
<1>15. Told(Caller)' /\ Told(Called)'
  BY <1>0, <1>1, <1>2, <1>7, <1>8, <1>14 DEF Told, InSession
<1>16. PICK l : \/ d.phase = "await-proposals" /\ l = Line("FF", <<>>) /\ c.out = <<l>>
                \/ d.phase = "await-fs" /\ l = Line("FB", d.offered) /\ c.out = <<l>>
  <2>1. <<>> \o <<Line("FF", <<>>)>> = <<Line("FF", <<>>)>> /\ <<>> \o <<Line("FB", c.offered)>> = <<Line("FB", c.offered)>>
    BY OneLine
  <2>. QED
    BY <1>4, <1>5, <1>6, <2>1 DEF Speaks, Begins
<1>17. chan'[Called] = <<sid, l>>
  <2>1. <<sid>> \o <<l>> = <<sid, l>>
    BY TwoLines
  <2>. QED
    BY <1>8, <1>16, <2>1
<1>18. Hears(Called, l)'
  BY <1>7, <1>8, <1>17 DEF Hears
<1>19. Talking(Caller)'
  <2>1. Proposed(Caller)' \/ Passed(Caller)'
    BY <1>0, <1>8, <1>16, <1>18 DEF Proposed, Passed
  <2>. QED
    BY <1>0, <1>8, <1>10, <2>1 DEF Talking
<1>20. \A x \in Box : Own(x)' /\ Carried(x)' /\ Told(x)'
  BY <1>0, <1>11, <1>13, <1>15
<1>. QED
  BY <1>0, <1>9, <1>19, <1>20 DEF FbbInv, Dialogue
-----------------------------------------------------------------------------
LEMMA FbbInit == ASSUME Init PROVE FbbInv
<1>1. NoFlush \in Pending /\ ~NoFlush.on /\ NoFlush.inbox = <<>> /\ NoFlush.mark = {}
  BY DEF Pending, NoFlush
<1>2. /\ sess = [b \in Box |-> NoSession] /\ flush = [b \in Box |-> NoFlush] /\ chan = [b \in Box |-> <<>>]
      /\ hung = [b \in Box |-> FALSE] /\ stored = [b \in Box |-> {}] /\ log = [b \in Box |-> {}]
      /\ discarded = [b \in Box |-> {}]
  BY DEF Init
<1>3. Types
  BY <1>1, <1>2, SessionIs DEF Types
<1>4. ASSUME NEW b \in Box PROVE Own(b) /\ Carried(b) /\ Told(b)
  <2>1. sess[b] = NoSession /\ flush[b] = NoFlush /\ log[b] = {}
    BY <1>2
  <2>. QED
    BY <1>1, <2>1, SessionIs, EmptySet DEF Own, Carried, Told, InSession
<1>5. Dialogue
  BY <1>2 DEF Dialogue, Apart
<1>. QED
  BY <1>3, <1>4, <1>5 DEF FbbInv

LEMMA FbbNext == ASSUME FbbInv, [Next]_vars PROVE FbbInv'
<1>1. CASE Start
  BY <1>1, StartKeeps
<1>2. CASE Break
  BY <1>2, BreakKeeps
<1>3. ASSUME NEW b \in Box, Recv(b) \/ LinkDown(b) \/ Inbound(b) \/ MarkSent(b) \/ Throws(b) PROVE FbbInv'
  BY <1>3, RecvKeeps, LinkDownKeeps, InboundKeeps, MarkKeeps, ThrowsKeeps
<1>4. CASE UNCHANGED vars
  <2>1. /\ sess' = sess /\ flush' = flush /\ chan' = chan /\ hung' = hung /\ stored' = stored /\ log' = log
        /\ discarded' = discarded
    BY <1>4 DEF vars
  <2>2. \A x \in Box : Taken(x)' = Taken(x) /\ Settled(x)' = Settled(x)
    BY <2>1 DEF Taken, Settled
  <2>3. Dialogue'
    BY <2>1, <2>2, SameDialogue
  <2>4. Types'
    BY <2>1 DEF FbbInv, Types
  <2>5. ASSUME NEW b \in Box PROVE Own(b)' /\ Carried(b)' /\ Told(b)'
    <3>1. Own(b) /\ Carried(b) /\ Told(b) /\ Other(b) \in Box
      BY OtherIs DEF FbbInv
    <3>. QED
      BY <2>1, <2>2, <3>1 DEF Own, Carried, Told, InSession
  <2>. QED
    BY <2>3, <2>4, <2>5 DEF FbbInv
<1>. QED
  BY <1>1, <1>2, <1>3, <1>4 DEF Next

LEMMA FbbInvariant == Spec => []FbbInv
<1>1. Init => FbbInv
  BY FbbInit
<1>2. FbbInv /\ [Next]_vars => FbbInv'
  BY FbbNext
<1>. QED
  BY <1>1, <1>2, PTL DEF Spec

(***************************************************************************)
(* Whatever the two boxes have for each other, and wherever links break    *)
(* and gateway calls fail: what runSession() and the called box report as  *)
(* forwarded has been taken by the partner.                                *)
(***************************************************************************)
THEOREM ForwardMarkedIsStored == Spec => []MarkedIsStored
<1>1. FbbInv => MarkedIsStored
  <2>. SUFFICES ASSUME FbbInv, NEW b \in Box, NEW m \in log[b]
                PROVE  LET o == Other(b)
                       IN  m \in stored[o] \cup ToSet(flush[o].inbox) \cup ToSet(sess[o].inbox) \cup discarded[o]
    BY DEF MarkedIsStored
  <2>1. m \in Taken(Other(b))
    BY DEF FbbInv, Carried
  <2>. QED
    BY <2>1 DEF Taken, Settled
<1>. QED
  BY <1>1, FbbInvariant, PTL

\* In every state of the dialogue of feed() a line is on its way, or the called box is telling its gateway.
THEOREM ForwardNobodyWaits == Spec => []NobodyWaits
<1>1. FbbInv => NobodyWaits
  <2>. SUFFICES ASSUME FbbInv, \A b \in Box : InSession(b) /\ chan[b] = <<>> /\ ~hung[b] PROVE flush[Called].on
    BY DEF NobodyWaits
  <2>0. Caller \in Box /\ Called \in Box /\ Other(Caller) = Called /\ \A b \in Box : Other(b) \in Box
    BY OtherIs DEF Box
  <2>1. \A b \in Box : ~Left(b)
    BY DEF Left
  <2>2. ~Apart
    BY <2>0, SessionIs DEF Apart, InSession
  <2>3. PICK b \in Box : Talking(b)
    BY <2>1, <2>2 DEF FbbInv, Dialogue
  <2>4. \A x \in Box : chan[x] = <<>>
    OBVIOUS
  <2>5. ~Proposed(b) /\ ~Passed(b)
    <3>1. \A l : ~Hears(Other(b), l)
      <4>. SUFFICES ASSUME NEW l, Hears(Other(b), l) PROVE FALSE
        OBVIOUS
      <4>1. <<l>> # <<>> /\ <<Line("SID", <<>>), l>> # <<>>
        BY OneLine, TwoLines
      <4>. QED
        BY <2>0, <2>4, <4>1 DEF Hears
    <3>. QED
      BY <3>1 DEF Proposed, Passed
  <2>6. ~Answered(b)
    <3>. SUFFICES ASSUME NEW v, Replied(b, v) PROVE FALSE
      BY DEF Answered
    <3>. DEFINE fs == Fs(sess[b].offered, v)
                fb == Line("FB", sess[Other(b)].offered)
                ff == Line("FF", <<>>)
    <3>1. chan[b] = <<fs>> \/ chan[b] = <<fs, fb>> \/ chan[b] = <<fs, ff>>
      BY DEF Replied
    <3>. HIDE DEF fs, fb, ff
    <3>2. <<fs>> # <<>> /\ <<fs, fb>> # <<>> /\ <<fs, ff>> # <<>>
      OBVIOUS
    <3>. QED
      BY <2>4, <3>1, <3>2
  <2>7. ~Sending(b)
    <3>1. sess[Other(b)].rx \in Seq(Msgs)
      BY <2>0 DEF FbbInv, Types, Session
    <3>2. sess[Other(b)].rx # <<>> => Bodies(sess[Other(b)].rx) # <<>>
      BY <3>1, BodiesAre
    <3>. QED
      BY <2>0, <2>4, <3>2 DEF Sending
  <2>8. Closing(b)
    BY <2>3, <2>5, <2>6, <2>7 DEF Talking
  <2>. QED
    BY <2>0, <2>8 DEF Closing, FbbInv, Told
<1>. QED
  BY <1>1, FbbInvariant, PTL
=============================================================================

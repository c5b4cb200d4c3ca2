--------------------------- MODULE TxArbiterProofs ---------------------------
(***************************************************************************)
(* Proofs about TxArbiter, for any clients, ports, frame sizes and limits. *)
(***************************************************************************)
EXTENDS TxArbiter, SequenceTheorems, FiniteSetTheorems, NaturalsInduction, WellFoundedInduction, TLAPS

\* Splicing keeps the elements before the place and moves the others down.
LEMMA RemoveAtLemma ==
    ASSUME NEW S, NEW s \in Seq(S), NEW i \in 1..Len(s)
    PROVE  /\ RemoveAt(s, i) \in Seq(S)
           /\ Len(RemoveAt(s, i)) = Len(s) - 1
           /\ \A k \in 1..Len(s) - 1 : RemoveAt(s, i)[k] = IF k < i THEN s[k] ELSE s[k + 1]
<1> DEFINE a == SubSeq(s, 1, i - 1)
           b == SubSeq(s, i + 1, Len(s))
<1>1. a \in Seq(S) /\ Len(a) = i - 1 /\ \A k \in 1..i - 1 : a[k] = s[k]
  OBVIOUS
<1>2. b \in Seq(S) /\ Len(b) = Len(s) - i /\ \A k \in 1..Len(s) - i : b[k] = s[k + i]
  OBVIOUS
<1>3. RemoveAt(s, i) = a \o b
  BY DEF RemoveAt
<1> HIDE DEF a, b
<1>4. /\ a \o b \in Seq(S)
      /\ Len(a \o b) = Len(s) - 1
  <2>1. a \o b \in Seq(S) /\ Len(a \o b) = Len(a) + Len(b)
    BY <1>1, <1>2, ConcatProperties
  <2>2. Len(s) \in Nat /\ i \in Int
    BY LenProperties
  <2>3. QED
    BY <1>1, <1>2, <2>1, <2>2
<1>5. ASSUME NEW k \in 1..Len(s) - 1
      PROVE  (a \o b)[k] = IF k < i THEN s[k] ELSE s[k + 1]
  <2>1. (a \o b)[k] = IF k <= Len(a) THEN a[k] ELSE b[k - Len(a)]
    BY <1>1, <1>2, ConcatProperties
  <2>2. CASE k < i
    BY <2>1, <2>2, <1>1
  <2>3. CASE ~(k < i)
    BY <2>1, <2>3, <1>1, <1>2
  <2>4. QED
    BY <2>2, <2>3
<1>6. QED
  BY <1>3, <1>4, <1>5
-----------------------------------------------------------------------------
(***************************************************************************)
(* One port's rotation, as a predicate of its ring, turn and queues.       *)
(***************************************************************************)
PortOK(r, t, q) ==
    /\ r \in Seq(Clients) /\ t \in Nat /\ q \in [Clients -> Seq(Queued)]
    /\ \A i, j \in 1..Len(r) : r[i] = r[j] => i = j
    /\ \A c \in Clients : q[c] # <<>> <=> \E i \in 1..Len(r) : r[i] = c
    /\ t < Len(r) \/ (t = 0 /\ Len(r) = 0)
    /\ \A c \in Clients : Len(q[c]) <= MaxQueue

LEMMA PushType ==
    ASSUME NEW q \in Seq(Queued), Len(q) <= MaxQueue, NEW item \in Queued
    PROVE  /\ Push(q, item) \in Seq(Queued) /\ Push(q, item) # <<>>
           /\ Len(Push(q, item)) <= MaxQueue
<1> USE ArbiterAssumption DEF Push
<1>1. /\ Append(q, item) \in Seq(Queued) /\ Append(q, item) # <<>>
      /\ Len(Append(q, item)) = Len(q) + 1
  BY AppendProperties
<1>2. CASE Len(q) + 1 > MaxQueue
  <2>1. /\ Tail(Append(q, item)) \in Seq(Queued)
        /\ Len(Tail(Append(q, item))) = Len(q)
    BY <1>1, HeadTailProperties
  <2>2. Tail(Append(q, item)) # <<>>
    BY <1>2, <2>1, EmptySeq
  <2>3. QED
    BY <1>2, <2>1, <2>2
<1>3. CASE ~(Len(q) + 1 > MaxQueue)
  BY <1>1, <1>3
<1>4. QED
  BY <1>2, <1>3

\* A client without a frame waiting joins at the end.
LEMMA JoinKeepsPort ==
    ASSUME NEW r, NEW t, NEW q, PortOK(r, t, q),
           NEW c \in Clients, NEW item \in Queued, q[c] = <<>>
    PROVE  PortOK(Append(r, c), t, [q EXCEPT ![c] = Push(q[c], item)])
<1> DEFINE r2 == Append(r, c)
           q2 == [q EXCEPT ![c] = Push(q[c], item)]
<1>1. r \in Seq(Clients) /\ Len(r) \in Nat /\ t \in Nat /\ q \in [Clients -> Seq(Queued)]
  BY DEF PortOK
<1>2. /\ r2 \in Seq(Clients) /\ Len(r2) = Len(r) + 1
      /\ \A i \in 1..Len(r) : r2[i] = r[i]
      /\ r2[Len(r) + 1] = c
  BY <1>1, AppendProperties
<1>3. Push(q[c], item) \in Seq(Queued) /\ Push(q[c], item) # <<>> /\ Len(Push(q[c], item)) <= MaxQueue
  BY PushType DEF PortOK
<1>4. \A i \in 1..Len(r) : r[i] # c
  BY DEF PortOK
<1> HIDE DEF r2
<1>a. 1..Len(r2) = (1..Len(r)) \cup {Len(r) + 1}
  BY <1>1, <1>2
<1>b. \A i, j \in 1..Len(r) : r[i] = r[j] => i = j
  BY DEF PortOK
<1>5. ASSUME NEW i \in 1..Len(r2), NEW j \in 1..Len(r2), r2[i] = r2[j]
      PROVE  i = j
  <2>1. CASE i \in 1..Len(r) /\ j \in 1..Len(r)
    BY <2>1, <1>2, <1>b, <1>5
  <2>2. CASE i = Len(r) + 1 \/ j = Len(r) + 1
    BY <2>2, <1>a, <1>2, <1>4, <1>5
  <2>3. QED
    BY <1>a, <2>1, <2>2
<1>6. ASSUME NEW x \in Clients
      PROVE  q2[x] # <<>> <=> \E i \in 1..Len(r2) : r2[i] = x
  <2>1. CASE x = c
    BY <1>a, <1>1, <1>2, <1>3, <2>1
  <2>2. CASE x # c
    <3>1. q2[x] = q[x]
      BY <2>2, <1>1
    <3>2. (\E i \in 1..Len(r2) : r2[i] = x) <=> (\E i \in 1..Len(r) : r[i] = x)
      BY <1>a, <2>2, <1>2
    <3>3. QED
      BY <3>1, <3>2 DEF PortOK
  <2>3. QED
    BY <2>1, <2>2
<1>7. q2 \in [Clients -> Seq(Queued)] /\ \A x \in Clients : Len(q2[x]) <= MaxQueue
  BY <1>1, <1>3 DEF PortOK
<1>8. t < Len(r2)
  BY <1>1, <1>2 DEF PortOK
<1> HIDE DEF q2
<1>9. PortOK(r2, t, q2)
  BY <1>1, <1>2, <1>5, <1>6, <1>7, <1>8 DEF PortOK
<1>10. QED
  BY <1>9 DEF r2, q2

\* A further frame of a client that has one waiting changes its queue only.
LEMMA PushKeepsPort ==
    ASSUME NEW r, NEW t, NEW q, PortOK(r, t, q),
           NEW c \in Clients, NEW item \in Queued, q[c] # <<>>
    PROVE  PortOK(r, t, [q EXCEPT ![c] = Push(q[c], item)])
<1>1. Push(q[c], item) \in Seq(Queued) /\ Push(q[c], item) # <<>> /\ Len(Push(q[c], item)) <= MaxQueue
  BY PushType DEF PortOK
<1>2. QED
  BY <1>1 DEF PortOK

\* A client with more frames gives one and the turn moves on.
LEMMA AdvanceKeepsPort ==
    ASSUME NEW r, NEW t, NEW q, PortOK(r, t, q), NEW c \in Clients, Len(q[c]) > 1
    PROVE  PortOK(r, Wrap(t + 1, r), [q EXCEPT ![c] = Tail(q[c])])
<1>1. q[c] \in Seq(Queued) /\ q[c] # <<>> /\ Len(q[c]) \in Nat /\ r \in Seq(Clients) /\ Len(r) \in Nat
  BY EmptySeq DEF PortOK
<1>2. Tail(q[c]) \in Seq(Queued) /\ Len(Tail(q[c])) = Len(q[c]) - 1
  BY <1>1, HeadTailProperties
<1>3. Tail(q[c]) # <<>> /\ Len(Tail(q[c])) <= MaxQueue
  <2>1. Len(q[c]) <= MaxQueue
    BY DEF PortOK
  <2>2. Len(Tail(q[c])) # 0
    <3> DEFINE n == Len(q[c])
    <3>a. n \in Nat /\ n > 1
      BY <1>1
    <3> HIDE DEF n
    <3>b. n - 1 # 0
      BY <3>a
    <3>1. Len(q[c]) - 1 # 0
      BY <3>b DEF n
    <3>2. QED
      BY <3>1, <1>2, Zenon
  <2>3. QED
    BY <1>1, <1>2, <2>1, <2>2, EmptySeq, ArbiterAssumption
<1>4. Wrap(t + 1, r) \in Nat /\ (Wrap(t + 1, r) < Len(r) \/ (Wrap(t + 1, r) = 0 /\ Len(r) = 0))
  BY <1>1 DEF PortOK, Wrap
<1>5. QED
  BY <1>1, <1>2, <1>3, <1>4 DEF PortOK

\* A client that leaves is spliced out of the ring, wherever the turn goes.
LEMMA SpliceKeepsPort ==
    ASSUME NEW r, NEW t, NEW q, PortOK(r, t, q), NEW i \in 1..Len(r), NEW u \in Nat
    PROVE  PortOK(RemoveAt(r, i), Wrap(u, RemoveAt(r, i)), [q EXCEPT ![r[i]] = <<>>])
<1> DEFINE r2 == RemoveAt(r, i)
           q2 == [q EXCEPT ![r[i]] = <<>>]
<1>1. r \in Seq(Clients) /\ Len(r) \in Nat /\ q \in [Clients -> Seq(Queued)] /\ r[i] \in Clients
  BY DEF PortOK
<1>2. /\ r2 \in Seq(Clients) /\ Len(r2) = Len(r) - 1
      /\ \A k \in 1..Len(r) - 1 : r2[k] = IF k < i THEN r[k] ELSE r[k + 1]
  BY <1>1, RemoveAtLemma
<1>a. \A k \in 1..Len(r2) : /\ k \in 1..Len(r) /\ k + 1 \in 1..Len(r)
                            /\ r2[k] = IF k < i THEN r[k] ELSE r[k + 1]
  BY <1>1, <1>2
<1>3. /\ \A k, l \in 1..Len(r) : r[k] = r[l] => k = l
      /\ \A c \in Clients : q[c] # <<>> <=> \E k \in 1..Len(r) : r[k] = c
      /\ \A c \in Clients : Len(q[c]) <= MaxQueue
  BY DEF PortOK
<1> HIDE DEF r2
<1>4. ASSUME NEW k \in 1..Len(r2), NEW l \in 1..Len(r2), r2[k] = r2[l]
      PROVE  k = l
  <2> DEFINE f(m) == IF m < i THEN m ELSE m + 1
  <2>1. f(k) \in 1..Len(r) /\ f(l) \in 1..Len(r) /\ r[f(k)] = r[f(l)]
    BY <1>a, <1>4
  <2>2. f(k) = f(l)
    BY <2>1, <1>3
  <2>3. QED
    BY <2>2, <1>1, <1>2
<1>5. ASSUME NEW c \in Clients
      PROVE  q2[c] # <<>> <=> \E k \in 1..Len(r2) : r2[k] = c
  <2>1. CASE c = r[i]
    <3>1. q2[c] = <<>>
      BY <1>1, <2>1
    <3>2. ASSUME NEW k \in 1..Len(r2), r2[k] = c
          PROVE  FALSE
      <4>1. CASE k < i
        <5>1. k \in 1..Len(r) /\ r[k] = r[i] /\ k # i
          BY <4>1, <3>2, <2>1, <1>a
        <5>2. QED
          BY <5>1, <1>3
      <4>2. CASE ~(k < i)
        <5>1. k + 1 \in 1..Len(r) /\ r[k + 1] = r[i] /\ k + 1 # i
          BY <4>2, <3>2, <2>1, <1>a
        <5>2. QED
          BY <5>1, <1>3
      <4>3. QED
        BY <4>1, <4>2
    <3>3. QED
      BY <3>1, <3>2
  <2>2. CASE c # r[i]
    <3>1. q2[c] = q[c]
      BY <1>1, <2>2
    <3>2. ASSUME NEW k \in 1..Len(r2), r2[k] = c
          PROVE  \E l \in 1..Len(r) : r[l] = c
      <4>1. k \in 1..Len(r) /\ k + 1 \in 1..Len(r) /\ (r[k] = c \/ r[k + 1] = c)
        BY <3>2, <1>a
      <4>2. QED
        BY <4>1
    <3>3. ASSUME NEW l \in 1..Len(r), r[l] = c
          PROVE  \E k \in 1..Len(r2) : r2[k] = c
      <4>1. CASE l < i
        <5>1. l \in 1..Len(r2)
          BY <4>1, <1>1, <1>2
        <5>2. r2[l] = c
          BY <5>1, <4>1, <3>3, <1>a
        <5>3. QED
          BY <5>1, <5>2
      <4>2. CASE ~(l < i)
        <5>1. l # i
          BY <3>3, <2>2
        <5>2. l - 1 \in 1..Len(r2) /\ ~(l - 1 < i) /\ (l - 1) + 1 = l
          BY <5>1, <4>2, <1>1, <1>2
        <5>3. r2[l - 1] = c
          BY <5>2, <3>3, <1>a
        <5>4. QED
          BY <5>2, <5>3
      <4>3. QED
        BY <4>1, <4>2
    <3>4. QED
      BY <3>1, <3>2, <3>3, <1>3
  <2>3. QED
    BY <2>1, <2>2
<1>6. q2 \in [Clients -> Seq(Queued)] /\ \A c \in Clients : Len(q2[c]) <= MaxQueue
  BY <1>1, <1>3, EmptySeq, ArbiterAssumption
<1>7. Wrap(u, r2) \in Nat /\ (Wrap(u, r2) < Len(r2) \/ (Wrap(u, r2) = 0 /\ Len(r2) = 0))
  BY <1>1, <1>2 DEF Wrap
<1> HIDE DEF q2
<1>8. PortOK(r2, Wrap(u, r2), q2)
  BY <1>2, <1>4, <1>5, <1>6, <1>7 DEF PortOK
<1>9. QED
  BY <1>8 DEF r2, q2

-----------------------------------------------------------------------------
(***************************************************************************)
(* The types of the state that no rotation is made of.                     *)
(***************************************************************************)
RestOK ==
    /\ now \in Nat /\ offers \in Nat /\ serving \in Ports \cup {NoPort}
    /\ ring = [p \in Ports |-> ring[p]]
    /\ turn = [p \in Ports |-> turn[p]]
    /\ queues = [p \in Ports |-> queues[p]]
    /\ spent \in [Clients -> SUBSET Queued]
    /\ drops \in [Clients -> [DropReason -> Nat]]
    /\ accepted \in [Clients -> SUBSET Queued]
    /\ taken \in [Clients -> SUBSET Queued]
    /\ passed \in [Ports -> [Clients -> [Clients -> Nat]]]

PortsOK == \A p \in Ports : PortOK(ring[p], turn[p], queues[p])

IInv == RestOK /\ PortsOK

\* The inductive invariant is the type invariant and RotationOK in one.
LEMMA IInvMeaning == IInv <=> TypeOK /\ RotationOK
<1>1. ASSUME NEW r \in Seq(Clients)
      PROVE  /\ IsInjective(r) <=> \A i, j \in 1..Len(r) : r[i] = r[j] => i = j
             /\ Range(r) = {r[i] : i \in 1..Len(r)} /\ Range(r) \subseteq Clients
             /\ r = <<>> <=> Len(r) = 0
  BY LenProperties, EmptySeq DEF IsInjective, Range
<1>2. IInv => TypeOK
  BY DEF IInv, RestOK, PortsOK, PortOK, TypeOK
<1>3. IInv => RotationOK
  <2> SUFFICES ASSUME IInv, NEW p \in Ports
               PROVE  /\ IsInjective(ring[p])
                      /\ Range(ring[p]) = {c \in Clients : queues[p][c] # <<>>}
                      /\ turn[p] < Len(ring[p]) \/ (turn[p] = 0 /\ ring[p] = <<>>)
                      /\ \A c \in Clients : Len(queues[p][c]) <= MaxQueue
    BY DEF RotationOK
  <2>1. PortOK(ring[p], turn[p], queues[p])
    BY DEF IInv, PortsOK
  <2> DEFINE r == ring[p]
  <2>2. /\ r \in Seq(Clients)
        /\ \A i, j \in 1..Len(r) : r[i] = r[j] => i = j
        /\ \A c \in Clients : queues[p][c] # <<>> <=> \E i \in 1..Len(r) : r[i] = c
        /\ turn[p] < Len(r) \/ (turn[p] = 0 /\ Len(r) = 0)
        /\ \A c \in Clients : Len(queues[p][c]) <= MaxQueue
    BY <2>1 DEF PortOK
  <2> HIDE DEF r
  <2>3. /\ IsInjective(r)
        /\ Range(r) = {r[i] : i \in 1..Len(r)} /\ Range(r) \subseteq Clients
        /\ r = <<>> <=> Len(r) = 0
    BY <1>1, <2>2
  <2>4. Range(r) = {c \in Clients : queues[p][c] # <<>>}
    BY <2>2, <2>3
  <2>5. QED
    BY <2>2, <2>3, <2>4 DEF r
<1>4. TypeOK /\ RotationOK => IInv
  <2> SUFFICES ASSUME TypeOK, RotationOK PROVE IInv
    OBVIOUS
  <2>1. RestOK
    BY DEF TypeOK, RestOK
  <2>2. ASSUME NEW p \in Ports PROVE PortOK(ring[p], turn[p], queues[p])
    <3>1. /\ IsInjective(ring[p])
          /\ Range(ring[p]) = {c \in Clients : queues[p][c] # <<>>}
          /\ turn[p] < Len(ring[p]) \/ (turn[p] = 0 /\ ring[p] = <<>>)
          /\ \A c \in Clients : Len(queues[p][c]) <= MaxQueue
      BY DEF RotationOK
    <3>2. ring[p] \in Seq(Clients) /\ turn[p] \in Nat /\ queues[p] \in [Clients -> Seq(Queued)]
      BY DEF TypeOK
    <3> DEFINE r == ring[p]
    <3>3. /\ \A i, j \in 1..Len(r) : r[i] = r[j] => i = j
          /\ Range(r) = {r[i] : i \in 1..Len(r)} /\ Range(r) \subseteq Clients
          /\ r = <<>> <=> Len(r) = 0
      BY <1>1, <3>1, <3>2
    <3>4. \A c \in Clients : queues[p][c] # <<>> <=> \E i \in 1..Len(r) : r[i] = c
      BY <3>1, <3>3
    <3>5. QED
      BY <3>1, <3>2, <3>3, <3>4 DEF PortOK
  <2>3. QED
    BY <2>1, <2>2 DEF IInv, PortsOK
<1>5. QED
  BY <1>2, <1>3, <1>4

LEMMA ForgetType ==
    ASSUME NEW h \in [Clients -> [Clients -> Nat]], NEW c \in Clients
    PROVE  Forget(h, c) \in [Clients -> [Clients -> Nat]]
BY DEF Forget

LEMMA CountType ==
    ASSUME NEW c \in Clients, NEW why \in DropReason, drops \in [Clients -> [DropReason -> Nat]],
           Count(c, why)
    PROVE  drops' \in [Clients -> [DropReason -> Nat]]
<1>1. drops[c] \in [DropReason -> Nat] /\ drops[c][why] + 1 \in Nat
  OBVIOUS
<1>2. [drops[c] EXCEPT ![why] = drops[c][why] + 1] \in [DropReason -> Nat]
  BY <1>1
<1>3. drops' = [drops EXCEPT ![c] = [drops[c] EXCEPT ![why] = drops[c][why] + 1]]
  BY DEF Count
<1>4. QED
  BY <1>2, <1>3

LEMMA LastOne ==
    ASSUME NEW S, NEW s \in Seq(S), s # <<>>, ~(Len(s) > 1)
    PROVE  Tail(s) = <<>>
<1>1. Len(s) \in Nat \ {0}
  BY EmptySeq
<1>2. Tail(s) \in Seq(S) /\ Len(Tail(s)) = Len(s) - 1
  BY HeadTailProperties
<1>3. Len(Tail(s)) = 0
  BY <1>1, <1>2
<1>4. QED
  BY <1>2, <1>3, EmptySeq

LEMMA InitIInv == Init => IInv
<1> SUFFICES ASSUME Init PROVE IInv
  OBVIOUS
<1> USE ArbiterAssumption DEF Init
<1>1. RestOK
  BY DEF RestOK, NoDrops
<1>2. ASSUME NEW p \in Ports PROVE PortOK(ring[p], turn[p], queues[p])
  <2>1. ring[p] = <<>> /\ turn[p] = 0 /\ queues[p] = [c \in Clients |-> <<>>]
    OBVIOUS
  <2>2. <<>> \in Seq(Clients) /\ <<>> \in Seq(Queued) /\ Len(<<>>) = 0
    BY EmptySeq
  <2>3. QED
    BY <2>1, <2>2 DEF PortOK
<1>3. QED
  BY <1>1, <1>2 DEF IInv, PortsOK

LEMMA OfferKeeps ==
    ASSUME IInv, NEW c \in Clients, NEW p \in Ports, NEW b \in Sizes, Offer(c, p, b)
    PROVE  IInv'
<1> DEFINE item == [n |-> offers, at |-> now, bytes |-> b]
<1>1. item \in Queued
  BY ArbiterAssumption DEF IInv, RestOK, Queued
<1>2. Recent(c) \subseteq Queued
  BY DEF Recent, IInv, RestOK
<1>3. CASE RefuseFrames(c) \/ RefuseBytes(c, b)
  <2>1. RestOK'
    <3>1. drops' \in [Clients -> [DropReason -> Nat]]
      BY <1>3, CountType DEF RefuseFrames, RefuseBytes, DropReason, IInv, RestOK
    <3>2. spent' \in [Clients -> SUBSET Queued]
      BY <1>2, <1>3 DEF RefuseFrames, RefuseBytes, IInv, RestOK
    <3>3. QED
      BY <1>3, <3>1, <3>2 DEF IInv, RestOK, Offer, RefuseFrames, RefuseBytes
  <2>2. PortsOK'
    BY <1>3 DEF IInv, PortsOK, RefuseFrames, RefuseBytes
  <2>3. QED
    BY <2>1, <2>2 DEF IInv
<1>4. CASE Accept(c, p, item)
  <2> HIDE DEF item
  <2>1. RestOK'
    <3>1. spent' \in [Clients -> SUBSET Queued] /\ accepted' \in [Clients -> SUBSET Queued]
      BY <1>1, <1>2, <1>4 DEF Accept, IInv, RestOK
    <3>2. drops' \in [Clients -> [DropReason -> Nat]]
      BY <1>4, CountType DEF Accept, DropReason, IInv, RestOK
    <3>3. passed' \in [Ports -> [Clients -> [Clients -> Nat]]]
      <4>1. Forget(passed[p], c) \in [Clients -> [Clients -> Nat]]
        BY ForgetType DEF IInv, RestOK
      <4>2. passed' = passed \/ passed' = [passed EXCEPT ![p] = Forget(passed[p], c)]
        BY <1>4 DEF Accept
      <4>3. QED
        BY <4>1, <4>2 DEF IInv, RestOK
    <3>4. /\ ring' = [x \in Ports |-> ring'[x]] /\ turn' = [x \in Ports |-> turn'[x]]
          /\ queues' = [x \in Ports |-> queues'[x]]
      BY <1>4 DEF Accept, IInv, RestOK
    <3>5. now' \in Nat /\ offers' \in Nat /\ serving' \in Ports \cup {NoPort}
          /\ taken' \in [Clients -> SUBSET Queued]
      BY DEF Offer, IInv, RestOK
    <3>6. QED
      BY <3>1, <3>2, <3>3, <3>4, <3>5 DEF RestOK
  <2>2. ASSUME NEW x \in Ports PROVE PortOK(ring'[x], turn'[x], queues'[x])
    <3>1. PortOK(ring[x], turn[x], queues[x])
      BY DEF IInv, PortsOK
    <3>2. CASE x # p
      <4>1. ring'[x] = ring[x] /\ turn'[x] = turn[x] /\ queues'[x] = queues[x]
        BY <3>2, <1>4 DEF Accept, IInv, RestOK
      <4>2. QED
        BY <3>1, <4>1
    <3>3. CASE x = p /\ queues[p][c] = <<>>
      <4>1. /\ ring'[x] = Append(ring[x], c) /\ turn'[x] = turn[x]
            /\ queues'[x] = [queues[x] EXCEPT ![c] = Push(queues[x][c], item)]
        BY <3>3, <1>4 DEF Accept, IInv, RestOK
      <4>2. QED
        BY <1>1, <3>1, <3>3, <4>1, JoinKeepsPort
    <3>4. CASE x = p /\ queues[p][c] # <<>>
      <4>1. /\ ring'[x] = ring[x] /\ turn'[x] = turn[x]
            /\ queues'[x] = [queues[x] EXCEPT ![c] = Push(queues[x][c], item)]
        BY <3>4, <1>4 DEF Accept, IInv, RestOK
      <4>2. QED
        BY <1>1, <3>1, <3>4, <4>1, PushKeepsPort
    <3>5. QED
      BY <3>2, <3>3, <3>4
  <2>3. QED
    BY <2>1, <2>2 DEF IInv, PortsOK
<1>5. QED
  BY <1>3, <1>4 DEF Offer

LEMMA TurnKeeps ==
    ASSUME IInv, NEW p \in Ports, Turn(p)
    PROVE  IInv'
<1> DEFINE c == ring[p][turn[p] + 1]
           item == Head(queues[p][c])
<1>1. PortOK(ring[p], turn[p], queues[p])
  BY DEF IInv, PortsOK
<1>2. /\ turn[p] + 1 \in 1..Len(ring[p]) /\ c \in Clients
      /\ queues[p][c] \in Seq(Queued) /\ queues[p][c] # <<>>
  <2>1. ring[p] \in Seq(Clients) /\ ring[p] # <<>> /\ turn[p] \in Nat
    BY <1>1 DEF PortOK, Turn
  <2>2. Len(ring[p]) \in Nat \ {0}
    BY <2>1, EmptySeq
  <2>3. turn[p] + 1 \in 1..Len(ring[p])
    BY <1>1, <2>1, <2>2 DEF PortOK
  <2>4. c \in Clients
    BY <2>1, <2>3, ElementOfSeq
  <2>5. QED
    BY <1>1, <2>3, <2>4 DEF PortOK
<1>3. item \in Queued
  BY <1>2, HeadTailProperties
<1>4. /\ ServeTurn(p, c)
      /\ \/ Count(c, "stale") /\ serving' = p /\ UNCHANGED taken
         \/ taken' = [taken EXCEPT ![c] = @ \cup {item}] /\ serving' = NoPort /\ UNCHANGED drops
      /\ UNCHANGED <<now, spent, offers, accepted>>
  BY DEF Turn
<1> HIDE DEF c, item
<1>5. RestOK'
  <2>1. taken' \in [Clients -> SUBSET Queued] /\ drops' \in [Clients -> [DropReason -> Nat]]
    <3>1. CASE Count(c, "stale") /\ UNCHANGED taken
      BY <1>2, <3>1, CountType DEF DropReason, IInv, RestOK
    <3>2. CASE taken' = [taken EXCEPT ![c] = @ \cup {item}] /\ UNCHANGED drops
      BY <1>2, <1>3, <3>2 DEF IInv, RestOK
    <3>3. QED
      BY <1>4, <3>1, <3>2
  <2>2. passed' \in [Ports -> [Clients -> [Clients -> Nat]]]
    <3>1. Pass(p, c) \in [Clients -> [Clients -> Nat]]
      BY DEF Pass, IInv, RestOK
    <3>2. Forget(passed[p], c) \in [Clients -> [Clients -> Nat]]
      BY <1>2, ForgetType DEF IInv, RestOK
    <3>3. QED
      BY <1>4, <3>1, <3>2, ZenonT(60) DEF ServeTurn, IInv, RestOK
  <2>3. /\ ring' = [x \in Ports |-> ring'[x]] /\ turn' = [x \in Ports |-> turn'[x]]
        /\ queues' = [x \in Ports |-> queues'[x]]
    BY <1>4 DEF ServeTurn, IInv, RestOK
  <2>4. QED
    BY <1>4, <2>1, <2>2, <2>3 DEF IInv, RestOK
<1>6. ASSUME NEW x \in Ports PROVE PortOK(ring'[x], turn'[x], queues'[x])
  <2>1. CASE x # p
    <3>1. ring'[x] = ring[x] /\ turn'[x] = turn[x] /\ queues'[x] = queues[x]
      BY <2>1, <1>4 DEF ServeTurn, IInv, RestOK
    <3>2. QED
      BY <3>1 DEF IInv, PortsOK
  <2>2. CASE x = p /\ Len(queues[p][c]) > 1
    <3>1. /\ ring'[p] = ring[p] /\ turn'[p] = Wrap(turn[p] + 1, ring[p])
          /\ queues'[p] = [queues[p] EXCEPT ![c] = Tail(queues[p][c])]
      BY <2>2, <1>4 DEF ServeTurn, IInv, RestOK
    <3>2. PortOK(ring[p], Wrap(turn[p] + 1, ring[p]), [queues[p] EXCEPT ![c] = Tail(queues[p][c])])
      BY <1>1, <1>2, <2>2, AdvanceKeepsPort
    <3>3. QED
      BY <2>2, <3>1, <3>2
  <2>3. CASE x = p /\ ~(Len(queues[p][c]) > 1)
    <3>1. /\ ring'[p] = RemoveAt(ring[p], turn[p] + 1)
          /\ turn'[p] = Wrap(turn[p], ring'[p])
          /\ queues'[p] = [queues[p] EXCEPT ![c] = Tail(queues[p][c])]
      BY <2>3, <1>4 DEF ServeTurn, IInv, RestOK
    <3>2. Tail(queues[p][c]) = <<>>
      BY <1>2, <2>3, LastOne
    <3>3. turn[p] \in Nat
      BY <1>1 DEF PortOK
    <3>4. PortOK(RemoveAt(ring[p], turn[p] + 1), Wrap(turn[p], RemoveAt(ring[p], turn[p] + 1)),
                 [queues[p] EXCEPT ![c] = <<>>])
      BY <1>1, <1>2, <3>3, SpliceKeepsPort DEF c
    <3>5. QED
      BY <2>3, <3>1, <3>2, <3>4
  <2>4. QED
    BY <2>1, <2>2, <2>3
<1>7. QED
  BY <1>5, <1>6 DEF IInv, PortsOK

LEMMA IndexInLemma ==
    ASSUME NEW r \in Seq(Clients), NEW c \in Range(r)
    PROVE  IndexIn(r, c) \in 1..Len(r) /\ r[IndexIn(r, c)] = c
<1>1. \E i \in 1..Len(r) : r[i] = c
  BY LenProperties DEF Range
<1>2. QED
  BY <1>1 DEF IndexIn

LEMMA RemoveKeeps ==
    ASSUME IInv, NEW c \in Clients, RemoveClient(c)
    PROVE  IInv'
<1>1. RestOK'
  <2>1. passed' \in [Ports -> [Clients -> [Clients -> Nat]]]
    BY ForgetType DEF RemoveClient, IInv, RestOK
  <2>2. drops' \in [Clients -> [DropReason -> Nat]]
    <3>1. NoDrops \in [DropReason -> Nat]
      BY DEF NoDrops
    <3>2. QED
      BY <3>1 DEF RemoveClient, IInv, RestOK
  <2>3. /\ spent' \in [Clients -> SUBSET Queued] /\ accepted' \in [Clients -> SUBSET Queued]
        /\ taken' \in [Clients -> SUBSET Queued]
    BY DEF RemoveClient, IInv, RestOK
  <2>4. QED
    BY <2>1, <2>2, <2>3 DEF RemoveClient, IInv, RestOK
<1>2. ASSUME NEW p \in Ports PROVE PortOK(ring'[p], turn'[p], queues'[p])
  <2>1. PortOK(ring[p], turn[p], queues[p])
    BY DEF IInv, PortsOK
  <2>2. CASE c \notin Range(ring[p])
    BY <2>1, <2>2 DEF RemoveClient
  <2>3. CASE c \in Range(ring[p])
    <3> DEFINE i == IndexIn(ring[p], c)
               r2 == RemoveAt(ring[p], i)
               u == IF i - 1 < turn[p] THEN turn[p] - 1 ELSE turn[p]
    <3>1. i \in 1..Len(ring[p]) /\ ring[p][i] = c
      BY <2>1, <2>3, IndexInLemma DEF PortOK
    <3>2. ring'[p] = r2 /\ turn'[p] = Wrap(u, r2) /\ queues'[p] = [queues[p] EXCEPT ![c] = <<>>]
      BY <2>3 DEF RemoveClient, TurnWithout
    <3>3. turn[p] \in Nat
      BY <2>1 DEF PortOK
    <3> HIDE DEF i
    <3>4. u \in Nat
      BY <3>1, <3>3
    <3> HIDE DEF u
    <3>5. PortOK(r2, Wrap(u, r2), [queues[p] EXCEPT ![ring[p][i]] = <<>>])
      BY <2>1, <3>1, <3>4, SpliceKeepsPort
    <3>6. QED
      BY <3>1, <3>2, <3>5
  <2>4. QED
    BY <2>2, <2>3
<1>3. QED
  BY <1>1, <1>2 DEF IInv, PortsOK

LEMMA NextIInv == IInv /\ [Next]_vars => IInv'
<1> SUFFICES ASSUME IInv, [Next]_vars PROVE IInv'
  OBVIOUS
<1>1. CASE Tick
  BY <1>1 DEF Tick, IInv, RestOK, PortsOK
<1>2. CASE \E c \in Clients, p \in Ports, b \in Sizes : Offer(c, p, b)
  BY <1>2, OfferKeeps
<1>3. CASE \E p \in Ports : Turn(p)
  BY <1>3, TurnKeeps
<1>4. CASE \E p \in Ports : NoTurn(p)
  BY <1>4 DEF NoTurn, IInv, RestOK, PortsOK
<1>5. CASE \E c \in Clients : RemoveClient(c)
  BY <1>5, RemoveKeeps
<1>6. CASE UNCHANGED vars
  BY <1>6 DEF vars, IInv, RestOK, PortsOK
<1>7. QED
  BY <1>1, <1>2, <1>3, <1>4, <1>5, <1>6 DEF Next

(***************************************************************************)
(* The arbiter's state is well typed, and next() always finds a client at  *)
(* its turn with a frame to give: nobody is in a ring twice, a ring holds  *)
(* exactly the clients with a frame waiting, the turn points into it and   *)
(* no queue grows past maxQueue, whatever is offered, served and removed.  *)
(***************************************************************************)
THEOREM RotationTheorem == Spec => [](TypeOK /\ RotationOK)
<1>1. Init => IInv
  BY InitIInv
<1>2. IInv /\ [Next]_vars => IInv'
  BY NextIInv
<1>3. IInv => TypeOK /\ RotationOK
  BY IInvMeaning
<1>4. QED
  BY <1>1, <1>2, <1>3, PTL DEF Spec
-----------------------------------------------------------------------------
(***************************************************************************)
(* The budget.  What makes it inductive: everything a client had accepted  *)
(* within the last minute is still in spent, so the frames the arbiter     *)
(* counts are all there are.                                               *)
(***************************************************************************)
BudgetOf(c) ==
    /\ IsFiniteSet(accepted[c])
    /\ \A a \in accepted[c] : a.at <= now
    /\ spent[c] \subseteq accepted[c]
    /\ \A a \in accepted[c] : now < a.at + Minute => a \in spent[c]
    /\ \A t \in 0..now : Cardinality(Within(c, t)) <= FramesPerMinute

BudgetInv == \A c \in Clients : BudgetOf(c)

LEMMA ItemTypes == ASSUME IInv, NEW c \in Clients, NEW a \in accepted[c]
                   PROVE  a \in Queued /\ a.at \in Nat
BY DEF IInv, RestOK, Queued

\* What the arbiter still counts is what was accepted in the last minute.
LEMMA RecentIsWithin ==
    ASSUME IInv, BudgetInv, NEW c \in Clients
    PROVE  Recent(c) = Within(c, now) /\ IsFiniteSet(Recent(c))
<1>1. BudgetOf(c) /\ now \in Nat /\ Minute \in Nat
  BY ArbiterAssumption DEF BudgetInv, IInv, RestOK
<1>2. \A a \in accepted[c] : a.at \in Nat /\ a.at <= now
  BY <1>1, ItemTypes DEF BudgetOf
<1>3. \A a \in accepted[c] : now - a.at < Minute <=> now < a.at + Minute
  BY <1>1, <1>2
<1>4. Recent(c) = Within(c, now)
  BY <1>1, <1>2, <1>3 DEF BudgetOf, Recent, Within
<1>5. IsFiniteSet(Recent(c))
  BY <1>1, <1>4, FS_Subset DEF BudgetOf, Within
<1>6. QED
  BY <1>4, <1>5

LEMMA BudgetStep == IInv /\ BudgetInv /\ [Next]_vars => BudgetInv'
<1> SUFFICES ASSUME IInv, BudgetInv, [Next]_vars, NEW c \in Clients
             PROVE  BudgetOf(c)'
  BY DEF BudgetInv
<1> USE ArbiterAssumption
<1>1. BudgetOf(c) /\ now \in Nat /\ \A a \in accepted[c] : a.at \in Nat
  BY ItemTypes DEF BudgetInv, IInv, RestOK
<1>2. CASE Tick
  <2>1. now' = now + 1 /\ UNCHANGED <<spent, accepted>>
    BY <1>2 DEF Tick
  <2>2. ASSUME NEW t \in 0..now' PROVE Cardinality(Within(c, t)') <= FramesPerMinute
    <3>1. Within(c, t)' = Within(c, t)
      BY <2>1 DEF Within
    <3>2. CASE t \in 0..now
      BY <1>1, <3>1, <3>2 DEF BudgetOf
    <3>3. CASE t = now + 1
      <4>1. Within(c, t) \subseteq Within(c, now)
        BY <1>1, <3>3 DEF Within, BudgetOf
      <4>2. IsFiniteSet(Within(c, now)) /\ Cardinality(Within(c, now)) <= FramesPerMinute
        BY <1>1, FS_Subset DEF Within, BudgetOf
      <4>3. /\ Cardinality(Within(c, t)) <= Cardinality(Within(c, now))
            /\ Cardinality(Within(c, t)) \in Nat /\ Cardinality(Within(c, now)) \in Nat
        BY <4>1, <4>2, FS_Subset, FS_CardinalityType
      <4>4. QED
        BY <3>1, <4>2, <4>3
    <3>4. QED
      BY <1>1, <2>1, <3>2, <3>3
  <2>3. QED
    BY <1>1, <2>1, <2>2 DEF BudgetOf
<1>3. CASE UNCHANGED <<now, spent, accepted>>
  BY <1>1, <1>3 DEF BudgetOf, Within
<1>4. CASE \E d \in Clients, p \in Ports, b \in Sizes : Offer(d, p, b)
  <2> PICK d \in Clients, p \in Ports, b \in Sizes : Offer(d, p, b)
    BY <1>4
  <2> DEFINE item == [n |-> offers, at |-> now, bytes |-> b]
  <2>1. now' = now /\ (RefuseFrames(d) \/ RefuseBytes(d, b) \/ Accept(d, p, item))
    BY DEF Offer
  <2>2. spent \in [Clients -> SUBSET Queued] /\ accepted \in [Clients -> SUBSET Queued]
    BY DEF IInv, RestOK
  <2>3. CASE c # d
    <3>1. spent'[c] = spent[c] /\ accepted'[c] = accepted[c]
      BY <2>1, <2>2, <2>3 DEF RefuseFrames, RefuseBytes, Accept
    <3>2. QED
      BY <1>1, <2>1, <3>1 DEF BudgetOf, Within
  <2>4. CASE c = d /\ (RefuseFrames(d) \/ RefuseBytes(d, b))
    <3>1. spent'[c] = Recent(c) /\ accepted' = accepted
      BY <2>2, <2>4 DEF RefuseFrames, RefuseBytes
    <3>2. \A a \in accepted[c] : now < a.at + Minute => a \in Recent(c)
      BY <1>1, RecentIsWithin DEF Within, BudgetOf
    <3>3. Recent(c) \subseteq accepted[c]
      BY <1>1 DEF Recent, BudgetOf
    <3>4. QED
      BY <1>1, <2>1, <3>1, <3>2, <3>3 DEF BudgetOf, Within
  <2>5. CASE c = d /\ Accept(d, p, item)
    <3>1. /\ spent'[c] = Recent(c) \cup {item} /\ accepted'[c] = accepted[c] \cup {item}
          /\ Cardinality(Recent(c)) + 1 <= FramesPerMinute
      BY <2>2, <2>5 DEF Accept, WithinFrames
    <3>2. item.at = now
      OBVIOUS
    <3> HIDE DEF item
    <3>3. IsFiniteSet(accepted'[c])
      BY <1>1, <3>1, FS_AddElement DEF BudgetOf
    <3>4. \A a \in accepted'[c] : a.at <= now' /\ (now' < a.at + Minute => a \in spent'[c])
      BY <1>1, <2>1, <3>1, <3>2, RecentIsWithin DEF Within, BudgetOf
    <3>5. spent'[c] \subseteq accepted'[c]
      BY <1>1, <3>1 DEF Recent, BudgetOf
    <3>6. ASSUME NEW t \in 0..now' PROVE Cardinality(Within(c, t)') <= FramesPerMinute
      <4>1. CASE t < now
        <5>1. Within(c, t)' = Within(c, t)
          BY <1>1, <2>1, <3>1, <3>2, <4>1 DEF Within
        <5>2. QED
          BY <1>1, <2>1, <4>1, <5>1 DEF BudgetOf
      <4>2. CASE t = now
        <5>1. Within(c, t)' = Within(c, now) \cup {item}
          BY <1>1, <2>1, <3>1, <3>2, <4>2 DEF Within
        <5>2. Within(c, t)' = Recent(c) \cup {item} /\ IsFiniteSet(Recent(c))
          BY <5>1, RecentIsWithin
        <5>a. Cardinality(Recent(c)) \in Nat
          BY <5>2, FS_CardinalityType
        <5>b. Cardinality(Recent(c) \cup {item}) =
                IF item \in Recent(c) THEN Cardinality(Recent(c)) ELSE Cardinality(Recent(c)) + 1
          BY <5>2, FS_AddElement
        <5>3. /\ Cardinality(Recent(c)) \in Nat
              /\ Cardinality(Recent(c) \cup {item}) <= Cardinality(Recent(c)) + 1
          BY <5>a, <5>b
        <5>4. Cardinality(Recent(c) \cup {item}) \in Nat
          BY <5>2, FS_AddElement, FS_CardinalityType
        <5>5. QED
          BY <3>1, <5>2, <5>3, <5>4
      <4>3. QED
        BY <1>1, <2>1, <4>1, <4>2
    <3>7. QED
      BY <3>3, <3>4, <3>5, <3>6 DEF BudgetOf
  <2>6. QED
    BY <2>1, <2>3, <2>4, <2>5
<1>5. CASE \E d \in Clients : RemoveClient(d)
  <2> PICK d \in Clients : RemoveClient(d)
    BY <1>5
  <2>1. spent \in [Clients -> SUBSET Queued] /\ accepted \in [Clients -> SUBSET Queued]
    BY DEF IInv, RestOK
  <2>2. CASE c # d
    <3>1. now' = now /\ spent'[c] = spent[c] /\ accepted'[c] = accepted[c]
      BY <2>1, <2>2 DEF RemoveClient
    <3>2. QED
      BY <1>1, <3>1 DEF BudgetOf, Within
  <2>3. CASE c = d
    <3>1. spent'[c] = {} /\ accepted'[c] = {}
      BY <2>1, <2>3 DEF RemoveClient
    <3>2. \A t \in 0..now' : Within(c, t)' = {}
      BY <3>1 DEF Within
    <3>3. QED
      BY <3>1, <3>2, FS_EmptySet DEF BudgetOf
  <2>4. QED
    BY <2>2, <2>3
<1>6. QED
  BY <1>2, <1>3, <1>4, <1>5 DEF Next, Turn, NoTurn, vars

(***************************************************************************)
(* In every minute of a client's connection, wherever it starts, at most   *)
(* framesPerMinute of its frames were accepted over all ports: forgetting  *)
(* what is older than a minute never forgets a frame that still counts.    *)
(***************************************************************************)
THEOREM BudgetTheorem == Spec => []BudgetKept
<1>1. Init => IInv /\ BudgetInv
  <2>1. Init => BudgetInv
    BY FS_EmptySet, ArbiterAssumption DEF Init, BudgetInv, BudgetOf, Within
  <2>2. QED
    BY <2>1, InitIInv
<1>2. IInv /\ BudgetInv /\ [Next]_vars => (IInv /\ BudgetInv)'
  BY NextIInv, BudgetStep
<1>3. BudgetInv => BudgetKept
  BY DEF BudgetInv, BudgetOf, BudgetKept
<1>4. QED
  BY <1>1, <1>2, <1>3, PTL DEF Spec
-----------------------------------------------------------------------------
(***************************************************************************)
(* Sums.  The sum of a number for each element of a finite set is the size *)
(* of the set of its units, so that the laws of cardinality apply to it.   *)
(***************************************************************************)
\* A set of natural numbers has a least one.
LEMMA MinIn ==
    ASSUME NEW S \in SUBSET Nat, S # {}
    PROVE  Min(S) \in S /\ \A x \in S : Min(S) <= x
<1>. DEFINE R == OpToRel(<, Nat)
<1>1. \A x, y \in Nat : <<x, y>> \in R <=> x < y
  BY DEF OpToRel
<1>2. IsWellFoundedOn(R, Nat)
  BY NatLessThanWellFounded
<1>. HIDE DEF R
<1>3. PICK x \in S : \A y \in S : ~ (<<y, x>> \in R)
  BY <1>2, WFMin
<1>4. ASSUME NEW y \in S PROVE x <= y
  <2>1. x \in Nat /\ y \in Nat /\ ~ (<<y, x>> \in R)
    BY <1>3
  <2>2. ~ (y < x)
    BY <1>1, <2>1
  <2>. QED
    BY <2>1, <2>2
<1>. QED
  BY <1>4 DEF Min

\* Induction: a set that holds 0, and n + 1 with every n, holds every natural number.
LEMMA Reaches ==
    ASSUME NEW G, 0 \in G, \A n \in Nat : n \in G => n + 1 \in G
    PROVE  \A n \in Nat : n \in G
<1>. SUFFICES ASSUME Nat \ G # {} PROVE FALSE
  OBVIOUS
<1>1. PICK m \in Nat \ G : \A x \in Nat \ G : m <= x
  BY MinIn
<1>2. m # 0 /\ m - 1 \in Nat
  BY <1>1
<1>3. m - 1 \in G
  BY <1>1, <1>2
<1>. QED
  BY <1>1, <1>2, <1>3

\* Units(s, f): each x of s with each of the f[x] units it counts for.
Units(s, f) == {u \in s \X Nat : u[2] \in 1..f[u[1]]}

LEMMA UnitsNone == ASSUME NEW f PROVE IsFiniteSet(Units({}, f)) /\ Cardinality(Units({}, f)) = 0
<1>1. Units({}, f) = {}
  BY DEF Units
<1>. QED
  BY <1>1, FS_EmptySet

LEMMA UnitsAdd ==
    ASSUME NEW T, NEW x, x \notin T, NEW f, f[x] \in Nat, IsFiniteSet(Units(T, f))
    PROVE  /\ IsFiniteSet(Units(T \cup {x}, f))
           /\ Cardinality(Units(T \cup {x}, f)) = f[x] + Cardinality(Units(T, f))
<1>. DEFINE n == f[x]
            D == {x} \X (1..n)
<1>1. IsFiniteSet(1..n) /\ Cardinality(1..n) = n
  BY FS_Interval
<1>2. IsFiniteSet({x}) /\ Cardinality({x}) = 1
  BY FS_Singleton
<1>3. IsFiniteSet(D) /\ Cardinality(D) = n
  <2>1. IsFiniteSet(D) /\ Cardinality(D) = Cardinality({x}) * Cardinality(1..n)
    BY <1>1, <1>2, FS_Product
  <2>2. n \in Nat /\ 1 * n = n
    OBVIOUS
  <2>. HIDE DEF n
  <2>. QED
    BY <1>1, <1>2, <2>1, <2>2
<1>4. Units(T \cup {x}, f) = Units(T, f) \cup D
  <2>1. ASSUME NEW u \in Units(T \cup {x}, f) PROVE u \in Units(T, f) \cup D
    BY DEF Units
  <2>2. ASSUME NEW u \in Units(T, f) \cup D PROVE u \in Units(T \cup {x}, f)
    BY DEF Units
  <2>. QED
    BY <2>1, <2>2
<1>5. Units(T, f) \cap D = {}
  BY DEF Units
<1>. HIDE DEF D
<1>6. /\ IsFiniteSet(Units(T, f) \cup D)
      /\ Cardinality(Units(T, f) \cup D) = Cardinality(Units(T, f)) + Cardinality(D) - Cardinality(Units(T, f) \cap D)
  BY <1>3, FS_Union
<1>7. Cardinality(Units(T, f) \cap D) = 0
  BY <1>5, FS_EmptySet
<1>8. Cardinality(Units(T, f)) \in Nat
  BY FS_CardinalityType
<1>. DEFINE a == Cardinality(Units(T, f))
            b == Cardinality(Units(T, f) \cup D)
<1>9. a \in Nat /\ n \in Nat /\ b = a + n - 0
  BY <1>3, <1>6, <1>7, <1>8
<1>. HIDE DEF a, b, n
<1>10. b = n + a
  BY <1>9
<1>. QED
  BY <1>4, <1>6, <1>10 DEF a, b, n

\* A finite set of numbers counts for finitely many units.
LEMMA UnitsFinite ==
    ASSUME NEW S, IsFiniteSet(S), NEW f, \A x \in S : f[x] \in Nat
    PROVE  \A s \in SUBSET S : IsFiniteSet(Units(s, f))
<1>. DEFINE G == {n \in Nat : \A s \in SUBSET S : Cardinality(s) = n => IsFiniteSet(Units(s, f))}
<1>1. \A s \in SUBSET S : IsFiniteSet(s) /\ Cardinality(s) \in Nat
  BY FS_Subset, FS_CardinalityType
<1>2. 0 \in G
  <2>1. ASSUME NEW s \in SUBSET S, Cardinality(s) = 0 PROVE IsFiniteSet(Units(s, f))
    BY <1>1, <2>1, FS_EmptySet, UnitsNone
  <2>. QED
    BY <2>1
<1>3. ASSUME NEW n \in Nat, n \in G PROVE n + 1 \in G
  <2>1. ASSUME NEW s \in SUBSET S, Cardinality(s) = n + 1 PROVE IsFiniteSet(Units(s, f))
    <3>1. s # {}
      BY <2>1, FS_EmptySet
    <3>2. PICK x \in s : TRUE
      BY <3>1
    <3>3. Cardinality(s \ {x}) = n
      <4>1. IsFiniteSet(s)
        BY <1>1
      <4>2. Cardinality(s \ {x}) = Cardinality(s) - 1
        BY <3>2, <4>1, FS_RemoveElement
      <4>. QED
        BY <2>1, <4>2
    <3>4. IsFiniteSet(Units(s \ {x}, f))
      BY <1>3, <3>3
    <3>5. IsFiniteSet(Units((s \ {x}) \cup {x}, f))
      BY <3>4, UnitsAdd
    <3>6. (s \ {x}) \cup {x} = s
      OBVIOUS
    <3>. QED
      BY <3>5, <3>6
  <2>. QED
    BY <2>1
<1>4. \A n \in Nat : n \in G
  <2>. HIDE DEF G
  <2>. QED
    BY <1>2, <1>3, Reaches
<1>. QED
  BY <1>1, <1>4

\* Taking one element out of a set takes its units.
LEMMA UnitsWithout ==
    ASSUME NEW S, IsFiniteSet(S), NEW f, \A x \in S : f[x] \in Nat, NEW s \in SUBSET S, NEW x \in s
    PROVE  Cardinality(Units(s, f)) = f[x] + Cardinality(Units(s \ {x}, f))
<1>1. IsFiniteSet(Units(s \ {x}, f))
  BY UnitsFinite
<1>2. (s \ {x}) \cup {x} = s
  OBVIOUS
<1>. QED
  BY <1>1, <1>2, UnitsAdd

One(s) == CHOOSE x \in s : TRUE

\* The fold that sums a set, spelt out.
Sums(g, S, f) == g = [s \in SUBSET S |-> IF s = {} THEN 0 ELSE f[One(s)] + g[s \ {One(s)}]]

LEMMA SumExists ==
    ASSUME NEW S, IsFiniteSet(S), NEW f, \A x \in S : f[x] \in Nat
    PROVE  Sums([s \in SUBSET S |-> Cardinality(Units(s, f))], S, f)
<1>. DEFINE h == [s \in SUBSET S |-> Cardinality(Units(s, f))]
<1>1. ASSUME NEW s \in SUBSET S
      PROVE  h[s] = IF s = {} THEN 0 ELSE f[One(s)] + h[s \ {One(s)}]
  <2>1. CASE s = {}
    BY <2>1, UnitsNone
  <2>2. CASE s # {}
    <3>1. One(s) \in s
      BY <2>2 DEF One
    <3>2. Cardinality(Units(s, f)) = f[One(s)] + Cardinality(Units(s \ {One(s)}, f))
      BY <3>1, UnitsWithout
    <3>. QED
      BY <2>2, <3>2
  <2>. QED
    BY <2>1, <2>2
<1>2. h = [s \in SUBSET S |-> h[s]]
  OBVIOUS
<1>. HIDE DEF h
<1>3. Sums(h, S, f)
  BY <1>1, <1>2 DEF Sums
<1>. QED
  BY <1>3 DEF h

LEMMA SumIsCount ==
    ASSUME NEW S, IsFiniteSet(S), NEW f, \A x \in S : f[x] \in Nat, NEW g, Sums(g, S, f)
    PROVE  g[S] = Cardinality(Units(S, f))
<1>. DEFINE G == {n \in Nat : \A s \in SUBSET S : Cardinality(s) = n => g[s] = Cardinality(Units(s, f))}
<1>1. \A s \in SUBSET S : IsFiniteSet(s) /\ Cardinality(s) \in Nat
  BY FS_Subset, FS_CardinalityType
<1>a. \A s \in SUBSET S : g[s] = IF s = {} THEN 0 ELSE f[One(s)] + g[s \ {One(s)}]
  BY DEF Sums
<1>2. 0 \in G
  <2>1. ASSUME NEW s \in SUBSET S, Cardinality(s) = 0 PROVE g[s] = Cardinality(Units(s, f))
    <3>1. s = {}
      BY <1>1, <2>1, FS_EmptySet
    <3>. QED
      BY <1>a, <3>1, UnitsNone
  <2>. QED
    BY <2>1
<1>3. ASSUME NEW n \in Nat, n \in G PROVE n + 1 \in G
  <2>1. ASSUME NEW s \in SUBSET S, Cardinality(s) = n + 1 PROVE g[s] = Cardinality(Units(s, f))
    <3>1. s # {}
      BY <2>1, FS_EmptySet
    <3>2. One(s) \in s
      BY <3>1 DEF One
    <3>3. Cardinality(s \ {One(s)}) = n
      <4>1. IsFiniteSet(s)
        BY <1>1
      <4>2. Cardinality(s \ {One(s)}) = Cardinality(s) - 1
        BY <3>2, <4>1, FS_RemoveElement
      <4>. QED
        BY <2>1, <4>2
    <3>4. g[s \ {One(s)}] = Cardinality(Units(s \ {One(s)}, f))
      BY <1>3, <3>3
    <3>5. Cardinality(Units(s, f)) = f[One(s)] + Cardinality(Units(s \ {One(s)}, f))
      BY <3>2, UnitsWithout
    <3>. QED
      BY <1>a, <3>1, <3>4, <3>5
  <2>. QED
    BY <2>1
<1>4. \A n \in Nat : n \in G
  <2>. HIDE DEF G
  <2>. QED
    BY <1>2, <1>3, Reaches
<1>. QED
  BY <1>1, <1>4

\* A sum in which one element counts for more or less moves by that much.
AlikeBut(S, f, g, p) ==
    /\ IsFiniteSet(S) /\ p \in S
    /\ \A x \in S : f[x] \in Nat /\ g[x] \in Nat
    /\ \A x \in S \ {p} : f[x] = g[x]

LEMMA SumMoves ==
    ASSUME NEW S, NEW f, NEW g, NEW p, AlikeBut(S, f, g, p)
    PROVE  /\ Cardinality(Units(S, f)) \in Nat /\ Cardinality(Units(S, g)) \in Nat
           /\ Cardinality(Units(S, g)) + f[p] = Cardinality(Units(S, f)) + g[p]
<1>. USE DEF AlikeBut
<1>. DEFINE w == Cardinality(Units(S \ {p}, f))
            a == f[p]
            b == g[p]
<1>1. Cardinality(Units(S, f)) = a + w
  BY UnitsWithout
<1>2. Cardinality(Units(S, g)) = b + Cardinality(Units(S \ {p}, g))
  BY UnitsWithout
<1>3. Units(S \ {p}, f) = Units(S \ {p}, g)
  BY DEF Units
<1>4. w \in Nat
  <2>1. S \ {p} \in SUBSET S
    OBVIOUS
  <2>2. IsFiniteSet(Units(S \ {p}, f))
    BY <2>1, UnitsFinite
  <2>. QED
    BY <2>2, FS_CardinalityType
<1>5. Cardinality(Units(S, g)) = b + w /\ a \in Nat /\ b \in Nat
  BY <1>2, <1>3
<1>. HIDE DEF w, a, b
<1>6. a + w \in Nat /\ b + w \in Nat /\ (b + w) + a = (a + w) + b
  BY <1>4, <1>5
<1>. QED
  BY <1>1, <1>5, <1>6 DEF a, b

\* Sums over the frames of a set and over the ports are such folds.
Sized == [q \in Queued |-> q.bytes]

LEMMA BytesCount ==
    ASSUME NEW S \in SUBSET Queued, IsFiniteSet(S)
    PROVE  BytesOf(S) = Cardinality(Units(S, Sized))
<1>. DEFINE E(g) == g = [s \in SUBSET S |-> IF s = {} THEN 0
                                            ELSE (CHOOSE x \in s : TRUE).bytes + g[s \ {CHOOSE x \in s : TRUE}]]
            it == CHOOSE g : E(g)
<1>1. \A x \in S : Sized[x] = x.bytes /\ Sized[x] \in Nat
  BY DEF Sized, Queued
<1>2. BytesOf(S) = it[S]
  BY DEF BytesOf, MapThenSumSet, MapThenFoldSet
<1>3. ASSUME NEW g PROVE Sums(g, S, Sized) <=> E(g)
  <2>1. ASSUME NEW s \in SUBSET S, s # {} PROVE Sized[One(s)] = (CHOOSE x \in s : TRUE).bytes
    BY <1>1, <2>1 DEF One
  <2>. QED
    BY <2>1 DEF Sums, One
<1>4. PICK g : Sums(g, S, Sized)
  BY <1>1, SumExists
<1>5. E(g)
  BY <1>3, <1>4
<1>. HIDE DEF E
<1>6. E(it)
  BY <1>5, Zenon
<1>. HIDE DEF it
<1>7. Sums(it, S, Sized)
  BY <1>3, <1>6
<1>. QED
  BY <1>1, <1>2, <1>7, SumIsCount

\* How many frames of c wait on the ports, as DropsCounted sums them.
WaitingSum(q, c) == MapThenSumSet(LAMBDA p : Len(q[p][c]), Ports)
Lengths(q, c) == [p \in Ports |-> Len(q[p][c])]

LEMMA WaitingCount ==
    ASSUME NEW q, NEW c, \A p \in Ports : Len(q[p][c]) \in Nat
    PROVE  WaitingSum(q, c) = Cardinality(Units(Ports, Lengths(q, c)))
<1>. DEFINE E(g) == g = [s \in SUBSET Ports |->
                            IF s = {} THEN 0
                            ELSE Len(q[CHOOSE x \in s : TRUE][c]) + g[s \ {CHOOSE x \in s : TRUE}]]
            it == CHOOSE g : E(g)
<1>1. \A x \in Ports : Lengths(q, c)[x] = Len(q[x][c]) /\ Lengths(q, c)[x] \in Nat
  BY DEF Lengths
<1>2. WaitingSum(q, c) = it[Ports]
  BY DEF WaitingSum, MapThenSumSet, MapThenFoldSet
<1>3. ASSUME NEW g PROVE Sums(g, Ports, Lengths(q, c)) <=> E(g)
  <2>1. ASSUME NEW s \in SUBSET Ports, s # {} PROVE Lengths(q, c)[One(s)] = Len(q[CHOOSE x \in s : TRUE][c])
    BY <1>1, <2>1 DEF One
  <2>. QED
    BY <2>1 DEF Sums, One
<1>4. PICK g : Sums(g, Ports, Lengths(q, c))
  BY <1>1, ArbiterAssumption, SumExists
<1>5. E(g)
  BY <1>3, <1>4
<1>. HIDE DEF E
<1>6. E(it)
  BY <1>5, Zenon
<1>. HIDE DEF it
<1>7. Sums(it, Ports, Lengths(q, c))
  BY <1>3, <1>6
<1>. QED
  BY <1>1, <1>2, <1>7, ArbiterAssumption, SumIsCount

LEMMA BytesGrow ==
    ASSUME NEW S \in SUBSET Queued, IsFiniteSet(S), NEW T \in SUBSET S
    PROVE  BytesOf(S) \in Nat /\ BytesOf(T) \in Nat /\ BytesOf(T) <= BytesOf(S)
<1>1. \A x \in S : Sized[x] \in Nat
  BY DEF Sized, Queued
<1>2. IsFiniteSet(Units(S, Sized)) /\ IsFiniteSet(T) /\ T \in SUBSET Queued
  BY <1>1, UnitsFinite, FS_Subset
<1>3. Units(T, Sized) \in SUBSET Units(S, Sized)
  BY DEF Units
<1>4. /\ Cardinality(Units(T, Sized)) <= Cardinality(Units(S, Sized))
      /\ Cardinality(Units(T, Sized)) \in Nat /\ Cardinality(Units(S, Sized)) \in Nat
  BY <1>2, <1>3, FS_Subset, FS_CardinalityType
<1>. QED
  BY <1>2, <1>4, BytesCount

LEMMA BytesAdd ==
    ASSUME NEW S \in SUBSET Queued, IsFiniteSet(S), NEW x \in Queued
    PROVE  BytesOf(S \cup {x}) <= BytesOf(S) + x.bytes
<1>. DEFINE a == BytesOf(S)
            b == x.bytes
<1>1. a \in Nat /\ b \in Nat
  BY BytesGrow DEF Queued
<1>. HIDE DEF a, b
<1>2. CASE x \in S
  <2>1. S \cup {x} = S
    BY <1>2
  <2>2. a <= a + b
    BY <1>1
  <2>. QED
    BY <2>1, <2>2 DEF a, b
<1>3. CASE x \notin S
  <2>1. \A y \in S : Sized[y] \in Nat
    BY DEF Sized, Queued
  <2>2. IsFiniteSet(Units(S, Sized))
    BY <2>1, UnitsFinite
  <2>3. Sized[x] = b /\ Sized[x] \in Nat
    BY <1>1 DEF Sized, b
  <2>a. Cardinality(Units(S \cup {x}, Sized)) = Sized[x] + Cardinality(Units(S, Sized))
    BY <1>3, <2>2, <2>3, UnitsAdd
  <2>4. Cardinality(Units(S \cup {x}, Sized)) = b + Cardinality(Units(S, Sized))
    BY <2>3, <2>a
  <2>5. IsFiniteSet(S \cup {x}) /\ S \cup {x} \in SUBSET Queued
    BY FS_AddElement
  <2>6. BytesOf(S \cup {x}) = b + a
    BY <2>4, <2>5, BytesCount DEF a
  <2>7. b + a <= a + b
    BY <1>1
  <2>. QED
    BY <2>6, <2>7 DEF a, b
<1>. QED
  BY <1>2, <1>3
-----------------------------------------------------------------------------
(* The bytes, by the same argument as the frames. *)
BytesInv == \A c \in Clients : \A t \in 0..now : BytesOf(Within(c, t)) <= BytesPerMinute

LEMMA BytesStep == IInv /\ BudgetInv /\ BytesInv /\ [Next]_vars => BytesInv'
<1>. SUFFICES ASSUME IInv, BudgetInv, BytesInv, [Next]_vars, NEW c \in Clients, NEW t \in 0..now'
              PROVE  BytesOf(Within(c, t)') <= BytesPerMinute
  BY DEF BytesInv
<1>. USE ArbiterAssumption
<1>1. BudgetOf(c) /\ now \in Nat /\ \A a \in accepted[c] : a.at \in Nat
  BY ItemTypes DEF BudgetInv, IInv, RestOK
<1>2. accepted \in [Clients -> SUBSET Queued] /\ accepted[c] \subseteq Queued
  BY DEF IInv, RestOK
<1>3. \A u \in 0..now : BytesOf(Within(c, u)) <= BytesPerMinute
  BY DEF BytesInv
<1>4. \A u : Within(c, u) \in SUBSET Queued /\ IsFiniteSet(Within(c, u))
  BY <1>1, <1>2, FS_Subset DEF Within, BudgetOf
<1>5. CASE Tick
  <2>1. now' = now + 1 /\ Within(c, t)' = Within(c, t)
    BY <1>5 DEF Tick, Within
  <2>2. CASE t \in 0..now
    BY <1>3, <2>1, <2>2
  <2>3. CASE t = now + 1
    <3>1. Within(c, t) \in SUBSET Within(c, now)
      BY <1>1, <2>3 DEF Within, BudgetOf
    <3>2. /\ BytesOf(Within(c, now)) \in Nat /\ BytesOf(Within(c, t)) \in Nat
          /\ BytesOf(Within(c, t)) <= BytesOf(Within(c, now))
      BY <1>4, <3>1, BytesGrow
    <3>3. BytesOf(Within(c, now)) <= BytesPerMinute
      BY <1>1, <1>3
    <3>. QED
      BY <2>1, <3>2, <3>3
  <2>. QED
    BY <1>1, <2>1, <2>2, <2>3
<1>6. CASE now' = now /\ accepted'[c] = accepted[c]
  <2>1. Within(c, t)' = Within(c, t)
    BY <1>6 DEF Within
  <2>. QED
    BY <1>3, <1>6, <2>1
<1>7. ASSUME NEW d \in Clients, NEW p \in Ports, NEW b \in Sizes, Offer(d, p, b)
      PROVE  BytesOf(Within(c, t)') <= BytesPerMinute
  <2>. DEFINE item == [n |-> offers, at |-> now, bytes |-> b]
  <2>1. now' = now /\ (RefuseFrames(d) \/ RefuseBytes(d, b) \/ Accept(d, p, item))
    BY <1>7 DEF Offer
  <2>2. item \in Queued /\ item.at = now /\ item.bytes = b
    BY DEF IInv, RestOK, Queued
  <2>3. CASE c # d \/ RefuseFrames(d) \/ RefuseBytes(d, b)
    <3>1. accepted'[c] = accepted[c]
      BY <1>2, <2>1, <2>3 DEF RefuseFrames, RefuseBytes, Accept
    <3>. QED
      BY <1>6, <2>1, <3>1
  <2>4. CASE c = d /\ Accept(d, p, item)
    <3>1. /\ accepted'[c] = accepted[c] \cup {item}
          /\ BytesOf(Recent(c)) + item.bytes <= BytesPerMinute
      BY <1>2, <2>4 DEF Accept, WithinBytes
    <3>. HIDE DEF item
    <3>2. CASE t < now
      <4>1. Within(c, t)' = Within(c, t)
        BY <1>1, <2>1, <2>2, <3>1, <3>2 DEF Within
      <4>. QED
        BY <1>1, <1>3, <2>1, <3>2, <4>1
    <3>3. CASE t = now
      <4>1. Within(c, t)' = Within(c, now) \cup {item}
        BY <1>1, <2>1, <2>2, <3>1, <3>3 DEF Within
      <4>2. Recent(c) = Within(c, now) /\ IsFiniteSet(Recent(c)) /\ Recent(c) \in SUBSET Queued
        BY <1>4, RecentIsWithin
      <4>3. BytesOf(Recent(c) \cup {item}) <= BytesOf(Recent(c)) + item.bytes
        BY <2>2, <4>2, BytesAdd
      <4>4. IsFiniteSet(Recent(c) \cup {item}) /\ Recent(c) \cup {item} \in SUBSET Queued
        BY <2>2, <4>2, FS_AddElement
      <4>5. BytesOf(Recent(c) \cup {item}) \in Nat /\ BytesOf(Recent(c)) \in Nat
        BY <4>2, <4>4, BytesGrow
      <4>6. item.bytes \in Nat
        BY <2>2 DEF Queued
      <4>. QED
        BY <3>1, <4>1, <4>2, <4>3, <4>5, <4>6
    <3>. QED
      BY <1>1, <2>1, <3>2, <3>3
  <2>. QED
    BY <2>1, <2>3, <2>4
<1>8. ASSUME NEW d \in Clients, RemoveClient(d) PROVE BytesOf(Within(c, t)') <= BytesPerMinute
  <2>1. now' = now /\ accepted' = [accepted EXCEPT ![d] = {}]
    BY <1>8 DEF RemoveClient
  <2>2. CASE c # d
    BY <1>2, <1>6, <2>1, <2>2
  <2>3. CASE c = d
    <3>1. Within(c, t)' = {}
      BY <1>2, <2>1, <2>3 DEF Within
    <3>2. {} \in SUBSET Within(c, now)
      OBVIOUS
    <3>3. /\ BytesOf({}) \in Nat /\ BytesOf(Within(c, now)) \in Nat
          /\ BytesOf({}) <= BytesOf(Within(c, now))
      BY <1>4, <3>2, BytesGrow
    <3>4. BytesOf(Within(c, now)) <= BytesPerMinute
      BY <1>1, <1>3
    <3>. QED
      BY <3>1, <3>3, <3>4
  <2>. QED
    BY <2>2, <2>3
<1>9. CASE \E p \in Ports : Turn(p) \/ NoTurn(p)
  <2>1. now' = now /\ accepted' = accepted
    BY <1>9 DEF Turn, NoTurn
  <2>. QED
    BY <1>6, <2>1
<1>10. CASE UNCHANGED vars
  BY <1>6, <1>10 DEF vars
<1>. QED
  BY <1>5, <1>7, <1>8, <1>9, <1>10 DEF Next

(***************************************************************************)
(* The same for bytes: in every minute of a client's connection at most    *)
(* bytesPerMinute bytes of its frames were accepted, over all ports.       *)
(***************************************************************************)
THEOREM BytesTheorem == Spec => []BytesKept
<1>1. Init => IInv /\ BudgetInv /\ BytesInv
  <2>1. Init => BudgetInv
    BY FS_EmptySet, ArbiterAssumption DEF Init, BudgetInv, BudgetOf, Within
  <2>2. BytesOf({}) = 0
    <3>1. {} \in SUBSET Queued /\ IsFiniteSet({})
      BY FS_EmptySet
    <3>. QED
      BY <3>1, BytesCount, UnitsNone
  <2>3. Init => BytesInv
    <3>. SUFFICES ASSUME Init, NEW c \in Clients, NEW t \in 0..now
                  PROVE  BytesOf(Within(c, t)) <= BytesPerMinute
      BY DEF BytesInv
    <3>1. Within(c, t) = {}
      BY DEF Init, Within
    <3>. QED
      BY <2>2, <3>1, ArbiterAssumption
  <2>. QED
    BY <2>1, <2>3, InitIInv
<1>2. IInv /\ BudgetInv /\ BytesInv /\ [Next]_vars => (IInv /\ BudgetInv /\ BytesInv)'
  BY NextIInv, BudgetStep, BytesStep
<1>3. BytesInv => BytesKept
  BY DEF BytesInv, BytesKept
<1>. QED
  BY <1>1, <1>2, <1>3, PTL DEF Spec
-----------------------------------------------------------------------------
(***************************************************************************)
(* Fairness of the rotation.  What makes it inductive: while c waits, d    *)
(* can have had a turn only if c now comes before d in the rotation, and   *)
(* joining, serving and splicing keep the order of those that stay.        *)
(***************************************************************************)
\* From turn t on, round the ring, index i comes before index j.
Before(i, j, t) == (t < i /\ i < j) \/ (i < j /\ j <= t) \/ (j <= t /\ t < i)

FairPort(r, t, h) ==
    \A c, d \in Clients : h[c][d] # 0 =>
        h[c][d] = 1 /\ \E i, j \in 1..Len(r) : r[i] = c /\ r[j] = d /\ Before(i, j, t)

FairInv == \A p \in Ports : FairPort(ring[p], turn[p], passed[p])

\* Whoever joins comes last and has passed nobody.
LEMMA JoinKeepsFair ==
    ASSUME NEW r \in Seq(Clients), NEW t \in Nat, NEW h, FairPort(r, t, h), NEW c \in Clients
    PROVE  FairPort(Append(r, c), t, Forget(h, c))
<1>. SUFFICES ASSUME NEW x \in Clients, NEW d \in Clients, Forget(h, c)[x][d] # 0
              PROVE  /\ Forget(h, c)[x][d] = 1
                     /\ \E i, j \in 1..Len(Append(r, c)) :
                           Append(r, c)[i] = x /\ Append(r, c)[j] = d /\ Before(i, j, t)
  BY DEF FairPort
<1>1. Forget(h, c)[x][d] = h[x][d] /\ h[x][d] # 0
  BY DEF Forget
<1>2. PICK i, j \in 1..Len(r) : r[i] = x /\ r[j] = d /\ Before(i, j, t)
  BY <1>1 DEF FairPort
<1>3. /\ \A k \in 1..Len(r) : Append(r, c)[k] = r[k] /\ k \in 1..Len(Append(r, c))
  BY AppendProperties, LenProperties
<1>. QED
  BY <1>1, <1>2, <1>3 DEF FairPort

\* Splicing and wrapping the turn keep the order of the clients that stay.
LEMMA SpliceKeepsOrder ==
    ASSUME NEW n \in Nat, NEW k \in 1..n, NEW i \in 1..n, NEW j \in 1..n, i # k, j # k,
           NEW t \in Nat, t < n, Before(i, j, t),
           NEW u, u = IF k - 1 < t THEN t - 1 ELSE t,
           NEW v, v = IF u >= n - 1 THEN 0 ELSE u
    PROVE  Before(IF i < k THEN i ELSE i - 1, IF j < k THEN j ELSE j - 1, v)
BY DEF Before

LEMMA SpliceKeepsFair ==
    ASSUME NEW r, NEW t, NEW q, PortOK(r, t, q), NEW h, FairPort(r, t, h), NEW k \in 1..Len(r),
           NEW u, u = IF k - 1 < t THEN t - 1 ELSE t
    PROVE  FairPort(RemoveAt(r, k), Wrap(u, RemoveAt(r, k)), Forget(h, r[k]))
<1>. DEFINE r2 == RemoveAt(r, k)
            v == Wrap(u, r2)
            f(m) == IF m < k THEN m ELSE m - 1
<1>1. r \in Seq(Clients) /\ Len(r) \in Nat /\ t \in Nat /\ t < Len(r)
  BY DEF PortOK
<1>2. /\ Len(r2) = Len(r) - 1
      /\ \A m \in 1..Len(r) - 1 : r2[m] = IF m < k THEN r[m] ELSE r[m + 1]
  BY <1>1, RemoveAtLemma
<1>3. v = IF u >= Len(r) - 1 THEN 0 ELSE u
  BY <1>2 DEF Wrap
<1>. HIDE DEF r2, v
<1>4. \A m \in 1..Len(r) : m # k => f(m) \in 1..Len(r2) /\ r2[f(m)] = r[m]
  <2>. SUFFICES ASSUME NEW m \in 1..Len(r), m # k PROVE f(m) \in 1..Len(r2) /\ r2[f(m)] = r[m]
    OBVIOUS
  <2>1. CASE m < k
    <3>1. m \in 1..Len(r) - 1 /\ f(m) = m
      BY <1>1, <2>1
    <3>. QED
      BY <1>2, <2>1, <3>1
  <2>2. CASE ~(m < k)
    <3>1. m - 1 \in 1..Len(r) - 1 /\ ~(m - 1 < k) /\ (m - 1) + 1 = m
      BY <1>1, <2>2
    <3>. QED
      BY <1>2, <2>2, <3>1
  <2>. QED
    BY <2>1, <2>2
<1>5. ASSUME NEW x \in Clients, NEW d \in Clients, Forget(h, r[k])[x][d] # 0
      PROVE  /\ Forget(h, r[k])[x][d] = 1
             /\ \E i, j \in 1..Len(r2) : r2[i] = x /\ r2[j] = d /\ Before(i, j, v)
  <2>1. Forget(h, r[k])[x][d] = h[x][d] /\ h[x][d] # 0 /\ x # r[k] /\ d # r[k]
    BY <1>5 DEF Forget
  <2>2. PICK i, j \in 1..Len(r) : r[i] = x /\ r[j] = d /\ Before(i, j, t)
    BY <2>1 DEF FairPort
  <2>3. i # k /\ j # k
    BY <2>1, <2>2
  <2>4. Before(f(i), f(j), v)
    BY <1>1, <1>3, <2>2, <2>3, SpliceKeepsOrder
  <2>. HIDE DEF f
  <2>. QED
    BY <1>4, <2>1, <2>2, <2>3, <2>4 DEF FairPort
<1>. QED
  BY <1>5 DEF FairPort, r2, v

\* The client that had its turn comes last; everyone else keeps the order.
LEMMA AdvanceKeepsFair ==
    ASSUME NEW r, NEW t, NEW q, PortOK(r, t, q), NEW h, FairPort(r, t, h), t < Len(r), NEW h2,
           \A x, d \in Clients : h2[x][d] = IF x = r[t + 1] THEN 0
                                            ELSE IF d = r[t + 1] /\ x \in Range(r) THEN h[x][d] + 1
                                            ELSE h[x][d]
    PROVE  FairPort(r, Wrap(t + 1, r), h2)
<1>. DEFINE v == Wrap(t + 1, r)
<1>1. r \in Seq(Clients) /\ Len(r) \in Nat /\ t \in Nat /\ t + 1 \in 1..Len(r)
  BY DEF PortOK
<1>2. v = IF t + 1 >= Len(r) THEN 0 ELSE t + 1
  BY DEF Wrap
<1>. HIDE DEF v
<1>3. \A i \in 1..Len(r) : i # t + 1 => Before(i, t + 1, v) /\ ~Before(i, t + 1, t)
  BY <1>1, <1>2 DEF Before
<1>4. \A i, j \in 1..Len(r) : i # t + 1 /\ j # t + 1 /\ Before(i, j, t) => Before(i, j, v)
  BY <1>1, <1>2 DEF Before
<1>5. \A i, j \in 1..Len(r) : r[i] = r[j] => i = j
  BY DEF PortOK
<1>6. ASSUME NEW x \in Clients, NEW d \in Clients, h2[x][d] # 0
      PROVE  h2[x][d] = 1 /\ \E i, j \in 1..Len(r) : r[i] = x /\ r[j] = d /\ Before(i, j, v)
  <2>1. x # r[t + 1]
    BY <1>6
  <2>2. CASE d = r[t + 1] /\ x \in Range(r)
    <3>1. PICK i \in 1..Len(r) : r[i] = x
      BY <1>1, <2>2 DEF Range
    <3>2. h[x][d] = 0
      <4>. SUFFICES ASSUME h[x][d] # 0 PROVE FALSE
        OBVIOUS
      <4>1. PICK k, j \in 1..Len(r) : r[k] = x /\ r[j] = d /\ Before(k, j, t)
        BY DEF FairPort
      <4>2. k = i /\ j = t + 1
        BY <1>1, <1>5, <2>2, <3>1, <4>1
      <4>. QED
        BY <1>3, <2>1, <3>1, <4>1, <4>2
    <3>3. h2[x][d] = 1
      BY <2>1, <2>2, <3>2
    <3>4. i # t + 1
      BY <2>1, <3>1
    <3>. QED
      BY <1>1, <1>3, <2>2, <3>1, <3>3, <3>4
  <2>3. CASE ~(d = r[t + 1] /\ x \in Range(r))
    <3>1. h2[x][d] = h[x][d] /\ h[x][d] # 0
      BY <1>6, <2>1, <2>3
    <3>2. PICK i, j \in 1..Len(r) : r[i] = x /\ r[j] = d /\ Before(i, j, t)
      BY <3>1 DEF FairPort
    <3>3. i # t + 1 /\ j # t + 1
      BY <1>1, <2>1, <2>3, <3>2 DEF Range
    <3>. QED
      BY <1>4, <3>1, <3>2, <3>3 DEF FairPort
  <2>. QED
    BY <2>2, <2>3
<1>. QED
  BY <1>6 DEF FairPort, v

LEMMA FairStep == IInv /\ FairInv /\ [Next]_vars => FairInv'
<1>. SUFFICES ASSUME IInv, FairInv, [Next]_vars, NEW x \in Ports
              PROVE  FairPort(ring'[x], turn'[x], passed'[x])
  BY DEF FairInv
<1>1. /\ PortOK(ring[x], turn[x], queues[x]) /\ FairPort(ring[x], turn[x], passed[x])
      /\ ring[x] \in Seq(Clients) /\ turn[x] \in Nat
  BY DEF IInv, PortsOK, PortOK, FairInv
<1>2. /\ DOMAIN ring = Ports /\ DOMAIN turn = Ports
      /\ passed \in [Ports -> [Clients -> [Clients -> Nat]]]
  BY DEF IInv, RestOK
<1>3. CASE UNCHANGED <<ring, turn, passed>>
  BY <1>1, <1>3
<1>4. ASSUME NEW c \in Clients, NEW p \in Ports, NEW b \in Sizes, Offer(c, p, b)
      PROVE  FairPort(ring'[x], turn'[x], passed'[x])
  <2>1. /\ turn' = turn
        /\ \/ UNCHANGED <<ring, passed>>
           \/ /\ ring' = [ring EXCEPT ![p] = Append(@, c)]
              /\ passed' = [passed EXCEPT ![p] = Forget(@, c)]
    BY <1>4 DEF Offer, RefuseFrames, RefuseBytes, Accept
  <2>2. CASE x = p /\ ~UNCHANGED <<ring, passed>>
    <3>1. /\ ring'[x] = Append(ring[x], c) /\ turn'[x] = turn[x]
          /\ passed'[x] = Forget(passed[x], c)
      BY <1>2, <2>1, <2>2
    <3>. QED
      BY <1>1, <3>1, JoinKeepsFair
  <2>3. CASE x # p \/ UNCHANGED <<ring, passed>>
    BY <1>1, <1>2, <2>1, <2>3
  <2>. QED
    BY <2>2, <2>3
<1>5. ASSUME NEW p \in Ports, Turn(p) PROVE FairPort(ring'[x], turn'[x], passed'[x])
  <2>. DEFINE c == ring[p][turn[p] + 1]
  <2>1. ServeTurn(p, c) /\ ring[p] # <<>>
    BY <1>5 DEF Turn
  <2>2. CASE x # p
    BY <1>1, <1>2, <2>1, <2>2 DEF ServeTurn
  <2>3. CASE x = p /\ Len(queues[p][c]) > 1
    <3>1. /\ ring'[x] = ring[x] /\ turn'[x] = Wrap(turn[x] + 1, ring[x]) /\ passed'[x] = Pass(x, c)
      BY <1>2, <2>1, <2>3 DEF ServeTurn
    <3>2. turn[x] < Len(ring[x])
      BY <1>1, <2>1, <2>3, EmptySeq DEF PortOK
    <3>3. \A y, d \in Clients :
             Pass(x, c)[y][d] = IF y = c THEN 0
                                ELSE IF d = c /\ y \in Range(ring[x]) THEN passed[x][y][d] + 1
                                ELSE passed[x][y][d]
      BY DEF Pass
    <3>. QED
      BY <1>1, <2>3, <3>1, <3>2, <3>3, AdvanceKeepsFair
  <2>4. CASE x = p /\ ~(Len(queues[p][c]) > 1)
    <3>1. /\ ring'[x] = RemoveAt(ring[x], turn[x] + 1) /\ turn'[x] = Wrap(turn[x], ring'[x])
          /\ passed'[x] = Forget(passed[x], c)
      BY <1>2, <2>1, <2>4 DEF ServeTurn
    <3>2. turn[x] + 1 \in 1..Len(ring[x])
      BY <1>1, <2>1, <2>4, EmptySeq DEF PortOK
    <3>3. turn[x] = IF (turn[x] + 1) - 1 < turn[x] THEN turn[x] - 1 ELSE turn[x]
      BY <1>1
    <3>. QED
      BY <1>1, <2>4, <3>1, <3>2, <3>3, SpliceKeepsFair
  <2>. QED
    BY <2>2, <2>3, <2>4
<1>6. ASSUME NEW c \in Clients, RemoveClient(c) PROVE FairPort(ring'[x], turn'[x], passed'[x])
  <2>1. passed'[x] = Forget(passed[x], c)
    BY <1>6 DEF RemoveClient
  <2>2. CASE c \in Range(ring[x])
    <3>. DEFINE k == IndexIn(ring[x], c)
                u == IF k - 1 < turn[x] THEN turn[x] - 1 ELSE turn[x]
    <3>1. ring'[x] = RemoveAt(ring[x], k) /\ turn'[x] = Wrap(u, RemoveAt(ring[x], k))
      BY <1>6, <2>2 DEF RemoveClient, TurnWithout
    <3>2. k \in 1..Len(ring[x]) /\ ring[x][k] = c
      BY <1>1, <2>2, IndexInLemma
    <3>. HIDE DEF k
    <3>. QED
      BY <1>1, <2>1, <3>1, <3>2, SpliceKeepsFair
  <2>3. CASE c \notin Range(ring[x])
    <3>1. ring'[x] = ring[x] /\ turn'[x] = turn[x]
      BY <1>6, <2>3 DEF RemoveClient
    <3>2. \A y, d \in Clients : passed'[x][y][d] = 0 \/ passed'[x][y][d] = passed[x][y][d]
      BY <2>1 DEF Forget
    <3>. QED
      BY <1>1, <3>1, <3>2 DEF FairPort
  <2>. QED
    BY <2>2, <2>3
<1>. QED
  BY <1>3, <1>4, <1>5, <1>6 DEF Next, Tick, NoTurn, vars

(***************************************************************************)
(* A busy client cannot hold the channel, however many clients there are:  *)
(* while another client waits on a port it has at most one turn there,     *)
(* whatever joins, leaves, stale frames and removals happen in between.    *)
(***************************************************************************)
THEOREM FairTheorem == Spec => []BusyClientWaits
<1>1. Init => IInv /\ FairInv
  BY InitIInv DEF Init, FairInv, FairPort
<1>2. IInv /\ FairInv /\ [Next]_vars => (IInv /\ FairInv)'
  BY NextIInv, FairStep
<1>3. IInv /\ FairInv => BusyClientWaits
  <2>. SUFFICES ASSUME FairInv, NEW p \in Ports, NEW c \in Clients, NEW d \in Clients
                PROVE  passed[p][c][d] <= 1
    BY DEF BusyClientWaits
  <2>1. passed[p][c][d] = 0 \/ passed[p][c][d] = 1
    BY DEF FairInv, FairPort
  <2>. QED
    BY <2>1
<1>. QED
  BY <1>1, <1>2, <1>3, PTL DEF Spec
-----------------------------------------------------------------------------
(***************************************************************************)
(* Where every accepted frame is.  What makes it inductive: a frame still  *)
(* waiting was accepted, is in one place of one queue and was not handed   *)
(* out, and a frame offered now has a number no accepted frame has.        *)
(***************************************************************************)
Placed(a, t, q, c, o) ==
    /\ \A f \in a : f.n < o
    /\ t \subseteq a
    /\ \A p \in Ports : \A i \in 1..Len(q[p][c]) : q[p][c][i] \in a \ t
    /\ \A p, x \in Ports : \A i \in 1..Len(q[p][c]), j \in 1..Len(q[x][c]) :
           q[p][c][i] = q[x][c][j] => p = x /\ i = j

PlacedInv == \A c \in Clients : Placed(accepted[c], taken[c], queues, c, offers)

CountedOf(c) == Cardinality(accepted[c]) = WaitingSum(queues, c) + Cardinality(taken[c])
                                           + drops[c]["queue-full"] + drops[c]["stale"]

CountedInv == \A c \in Clients : CountedOf(c)

\* The queue after an accepted frame: the frame at its end, the others moved down if it was full.
LEMMA PushItems ==
    ASSUME NEW q \in Seq(Queued), Len(q) <= MaxQueue, NEW item \in Queued,
           NEW s, s = IF Len(q) + 1 > MaxQueue THEN 1 ELSE 0
    PROVE  /\ s \in {0, 1} /\ Len(q) \in Nat /\ Len(Push(q, item)) = Len(q) + 1 - s
           /\ \A i \in 1..(Len(q) + 1 - s) : \/ i + s \in 1..Len(q) /\ Push(q, item)[i] = q[i + s]
                                             \/ i + s = Len(q) + 1 /\ Push(q, item)[i] = item
<1>1. /\ Append(q, item) \in Seq(Queued) /\ Append(q, item) # <<>> /\ Len(q) \in Nat
      /\ Len(Append(q, item)) = Len(q) + 1
      /\ \A i \in 1..Len(q) : Append(q, item)[i] = q[i]
      /\ Append(q, item)[Len(q) + 1] = item
  BY AppendProperties
<1>2. CASE Len(q) + 1 > MaxQueue
  <2>1. /\ s = 1 /\ Push(q, item) = Tail(Append(q, item))
        /\ Len(Tail(Append(q, item))) = Len(q)
        /\ \A i \in 1..Len(q) : Tail(Append(q, item))[i] = Append(q, item)[i + 1]
    BY <1>1, <1>2, HeadTailProperties DEF Push
  <2>2. ASSUME NEW i \in 1..Len(q) PROVE \/ i + 1 \in 1..Len(q) /\ Push(q, item)[i] = q[i + 1]
                                         \/ i + 1 = Len(q) + 1 /\ Push(q, item)[i] = item
    <3>1. i + 1 \in 1..Len(q) \/ i + 1 = Len(q) + 1
      BY <1>1
    <3>. QED
      BY <1>1, <2>1, <3>1
  <2>3. Len(q) + 1 - s = Len(q)
    BY <1>1, <2>1
  <2>. QED
    BY <1>1, <2>1, <2>2, <2>3
<1>3. CASE ~(Len(q) + 1 > MaxQueue)
  <2>1. s = 0 /\ Push(q, item) = Append(q, item)
    BY <1>3 DEF Push
  <2>2. ASSUME NEW i \in 1..(Len(q) + 1) PROVE \/ i \in 1..Len(q) /\ Push(q, item)[i] = q[i]
                                               \/ i = Len(q) + 1 /\ Push(q, item)[i] = item
    <3>1. i \in 1..Len(q) \/ i = Len(q) + 1
      BY <1>1
    <3>. QED
      BY <1>1, <2>1, <3>1
  <2>3. Len(q) + 1 - s = Len(q) + 1 /\ \A i \in 1..(Len(q) + 1) : i + s = i
    BY <1>1, <2>1
  <2>. QED
    BY <1>1, <2>1, <2>2, <2>3
<1>. QED
  BY <1>2, <1>3

LEMMA WaitingNat ==
    ASSUME NEW q, NEW c, \A p \in Ports : Len(q[p][c]) \in Nat
    PROVE  WaitingSum(q, c) \in Nat
<1>1. \A x \in Ports : Lengths(q, c)[x] \in Nat
  BY DEF Lengths
<1>2. Ports \in SUBSET Ports
  OBVIOUS
<1>3. IsFiniteSet(Units(Ports, Lengths(q, c)))
  BY <1>1, <1>2, ArbiterAssumption, UnitsFinite
<1>. QED
  BY <1>3, WaitingCount, FS_CardinalityType

\* A sum in which one port's queue changes moves by the change of its length.
LEMMA WaitingMoves ==
    ASSUME NEW q, NEW r, NEW c, NEW p \in Ports, \A x \in Ports : Len(q[x][c]) \in Nat,
           \A x \in Ports : Len(r[x][c]) \in Nat,
           \A x \in Ports \ {p} : Len(r[x][c]) = Len(q[x][c])
    PROVE  /\ WaitingSum(q, c) \in Nat /\ WaitingSum(r, c) \in Nat
           /\ WaitingSum(r, c) + Len(q[p][c]) = WaitingSum(q, c) + Len(r[p][c])
<1>1. /\ WaitingSum(q, c) = Cardinality(Units(Ports, Lengths(q, c)))
      /\ WaitingSum(r, c) = Cardinality(Units(Ports, Lengths(r, c)))
  BY WaitingCount
<1>2. \A x \in Ports : /\ Lengths(q, c)[x] \in Nat /\ Lengths(r, c)[x] \in Nat
                       /\ Lengths(q, c)[x] = Len(q[x][c]) /\ Lengths(r, c)[x] = Len(r[x][c])
  BY DEF Lengths
<1>3. \A x \in Ports \ {p} : Lengths(q, c)[x] = Lengths(r, c)[x]
  BY <1>2
<1>. DEFINE f == Lengths(q, c)
            g == Lengths(r, c)
<1>4. /\ \A x \in Ports : f[x] \in Nat /\ g[x] \in Nat
      /\ \A x \in Ports \ {p} : f[x] = g[x]
      /\ f[p] = Len(q[p][c]) /\ g[p] = Len(r[p][c])
  BY <1>2, <1>3
<1>. HIDE DEF f, g
<1>5. /\ Cardinality(Units(Ports, f)) \in Nat /\ Cardinality(Units(Ports, g)) \in Nat
      /\ Cardinality(Units(Ports, g)) + f[p] = Cardinality(Units(Ports, f)) + g[p]
  <2>1. AlikeBut(Ports, f, g, p)
    BY <1>4, ArbiterAssumption DEF AlikeBut
  <2>. QED
    BY <2>1, SumMoves
<1>. QED
  BY <1>1, <1>4, <1>5 DEF f, g

\* A frame joins the end of a queue, whose oldest may leave it.
LEMMA PlacedAccept ==
    ASSUME NEW a, NEW t, NEW q, NEW r, NEW c, NEW o \in Nat, Placed(a, t, q, c, o), \A f \in a : f.n \in Nat,
           NEW p \in Ports, NEW item, item.n = o, NEW s \in {0, 1},
           \A x \in Ports : Len(q[x][c]) \in Nat,
           \A x \in Ports \ {p} : r[x][c] = q[x][c],
           Len(r[p][c]) = Len(q[p][c]) + 1 - s,
           \A i \in 1..(Len(q[p][c]) + 1 - s) :
               \/ i + s \in 1..Len(q[p][c]) /\ r[p][c][i] = q[p][c][i + s]
               \/ i + s = Len(q[p][c]) + 1 /\ r[p][c][i] = item
    PROVE  Placed(a \cup {item}, t, r, c, o + 1)
<1>. DEFINE m(x) == IF x = p THEN s ELSE 0
<1>1. item \notin a /\ \A f \in a \cup {item} : f.n < o + 1
  BY DEF Placed
<1>2. ASSUME NEW x \in Ports, NEW i \in 1..Len(r[x][c])
      PROVE  \/ i + m(x) \in 1..Len(q[x][c]) /\ r[x][c][i] = q[x][c][i + m(x)]
             \/ x = p /\ i + s = Len(q[p][c]) + 1 /\ r[x][c][i] = item
  <2>1. CASE x = p
    BY <1>2, <2>1
  <2>2. CASE x # p
    BY <1>2, <2>2
  <2>. QED
    BY <2>1, <2>2
<1>3. \A x \in Ports : m(x) \in {0, 1}
  OBVIOUS
<1>4. t \subseteq a \cup {item} /\ item \notin t
  BY <1>1 DEF Placed
<1>5. \A x \in Ports : \A i \in 1..Len(q[x][c]) : q[x][c][i] \in a \ t
  BY DEF Placed
<1>. HIDE DEF m
<1>a. ASSUME NEW x \in Ports, NEW i \in 1..Len(r[x][c]), r[x][c][i] = item
      PROVE  x = p /\ i + s = Len(q[p][c]) + 1
  <2>1. ASSUME i + m(x) \in 1..Len(q[x][c]), r[x][c][i] = q[x][c][i + m(x)] PROVE FALSE
    <3>1. q[x][c][i + m(x)] \in a
      BY <1>5, <2>1
    <3>. QED
      BY <1>1, <1>a, <2>1, <3>1
  <2>. QED
    BY <1>2, <2>1
<1>6. ASSUME NEW x \in Ports, NEW i \in 1..Len(r[x][c]) PROVE r[x][c][i] \in (a \cup {item}) \ t
  BY <1>2, <1>4, <1>5
<1>7. ASSUME NEW x \in Ports, NEW y \in Ports, NEW i \in 1..Len(r[x][c]), NEW j \in 1..Len(r[y][c]),
             r[x][c][i] = r[y][c][j]
      PROVE  x = y /\ i = j
  <2>1. CASE r[x][c][i] = item
    <3>1. x = p /\ i + s = Len(q[p][c]) + 1
      BY <1>a, <2>1
    <3>2. y = p /\ j + s = Len(q[p][c]) + 1
      <4>1. r[y][c][j] = item
        BY <1>7, <2>1
      <4>. QED
        BY <1>a, <4>1
    <3>. QED
      BY <3>1, <3>2
  <2>2. CASE r[x][c][i] # item
    <3>1. i + m(x) \in 1..Len(q[x][c]) /\ r[x][c][i] = q[x][c][i + m(x)]
      BY <1>2, <2>2
    <3>2. j + m(y) \in 1..Len(q[y][c]) /\ r[y][c][j] = q[y][c][j + m(y)]
      BY <1>2, <1>7, <2>2
    <3>3. x = y /\ i + m(x) = j + m(y)
      <4>1. PICK k \in 1..Len(q[x][c]), l \in 1..Len(q[y][c]) : k = i + m(x) /\ l = j + m(y)
        BY <3>1, <3>2
      <4>2. q[x][c][k] = q[y][c][l]
        BY <1>7, <3>1, <3>2, <4>1
      <4>3. x = y /\ k = l
        BY <4>2 DEF Placed
      <4>. QED
        BY <4>1, <4>3
    <3>. QED
      BY <1>3, <3>3
  <2>. QED
    BY <2>1, <2>2
<1>. QED
  BY <1>1, <1>4, <1>6, <1>7 DEF Placed

\* The oldest frame of a queue leaves it, handed out or dropped.
LEMMA PlacedServe ==
    ASSUME NEW a, NEW t, NEW q, NEW r, NEW c, NEW o, Placed(a, t, q, c, o),
           NEW p \in Ports, \A x \in Ports : Len(q[x][c]) \in Nat, Len(q[p][c]) > 0,
           \A x \in Ports \ {p} : r[x][c] = q[x][c],
           Len(r[p][c]) = Len(q[p][c]) - 1,
           \A i \in 1..(Len(q[p][c]) - 1) : r[p][c][i] = q[p][c][i + 1],
           NEW u, u = t \/ u = t \cup {q[p][c][1]}
    PROVE  Placed(a, u, r, c, o) /\ q[p][c][1] \in a \ t
<1>. DEFINE m(x) == IF x = p THEN 1 ELSE 0
<1>1. ASSUME NEW x \in Ports, NEW i \in 1..Len(r[x][c])
      PROVE  /\ i + m(x) \in 1..Len(q[x][c]) /\ r[x][c][i] = q[x][c][i + m(x)]
             /\ ~(x = p /\ i + m(x) = 1)
  <2>1. CASE x = p
    BY <1>1, <2>1
  <2>2. CASE x # p
    BY <1>1, <2>2
  <2>. QED
    BY <2>1, <2>2
<1>2. \A x \in Ports : m(x) \in {0, 1}
  OBVIOUS
<1>3. \A x \in Ports : \A i \in 1..Len(q[x][c]) : q[x][c][i] \in a \ t
  BY DEF Placed
<1>4. 1 \in 1..Len(q[p][c]) /\ q[p][c][1] \in a \ t
  BY <1>3
<1>5. u \subseteq a
  BY <1>4 DEF Placed
<1>. HIDE DEF m
<1>6. ASSUME NEW x \in Ports, NEW i \in 1..Len(r[x][c]) PROVE r[x][c][i] \in a \ u
  <2>1. q[x][c][i + m(x)] # q[p][c][1]
    BY <1>1, <1>4 DEF Placed
  <2>. QED
    BY <1>1, <1>3, <2>1
<1>7. ASSUME NEW x \in Ports, NEW y \in Ports, NEW i \in 1..Len(r[x][c]), NEW j \in 1..Len(r[y][c]),
             r[x][c][i] = r[y][c][j]
      PROVE  x = y /\ i = j
  <2>1. i + m(x) \in 1..Len(q[x][c]) /\ r[x][c][i] = q[x][c][i + m(x)]
    BY <1>1
  <2>2. j + m(y) \in 1..Len(q[y][c]) /\ r[y][c][j] = q[y][c][j + m(y)]
    BY <1>1
  <2>3. x = y /\ i + m(x) = j + m(y)
    <3>1. PICK k \in 1..Len(q[x][c]), l \in 1..Len(q[y][c]) : k = i + m(x) /\ l = j + m(y)
      BY <2>1, <2>2
    <3>2. q[x][c][k] = q[y][c][l]
      BY <1>7, <2>1, <2>2, <3>1
    <3>3. x = y /\ k = l
      BY <3>2 DEF Placed
    <3>. QED
      BY <3>1, <3>3
  <2>. QED
    BY <1>2, <2>3
<1>. QED
  BY <1>4, <1>5, <1>6, <1>7 DEF Placed

\* What one turn does to the client it serves, and leaves of the others.
Serves(p, d) ==
    /\ UNCHANGED <<accepted, offers>>
    /\ Len(queues[p][d]) > 0
    /\ Len(queues'[p][d]) = Len(queues[p][d]) - 1
    /\ \A i \in 1..(Len(queues[p][d]) - 1) : queues'[p][d][i] = queues[p][d][i + 1]
    /\ \A x \in Ports \ {p} : queues'[x][d] = queues[x][d]
    /\ \A c \in Clients \ {d} : /\ taken'[c] = taken[c] /\ drops'[c] = drops[c]
                                /\ \A x \in Ports : queues'[x][c] = queues[x][c]
    /\ drops'[d]["queue-full"] = drops[d]["queue-full"]
    /\ \/ /\ taken'[d] = taken[d] /\ serving' = p
          /\ drops'[d]["stale"] = drops[d]["stale"] + 1
       \/ /\ taken'[d] = taken[d] \cup {queues[p][d][1]} /\ serving' = NoPort
          /\ drops'[d]["stale"] = drops[d]["stale"]

LEMMA TurnServes ==
    ASSUME IInv, NEW p \in Ports, Turn(p)
    PROVE  ring[p][turn[p] + 1] \in Clients /\ Serves(p, ring[p][turn[p] + 1])
<1>1. PICK d : d = ring[p][turn[p] + 1]
  OBVIOUS
<1>2. PortOK(ring[p], turn[p], queues[p])
  BY DEF IInv, PortsOK
<1>3. d \in Clients /\ queues[p][d] \in Seq(Queued) /\ queues[p][d] # <<>>
  <2>1. ring[p] \in Seq(Clients) /\ ring[p] # <<>> /\ turn[p] \in Nat
    BY <1>2 DEF PortOK, Turn
  <2>2. Len(ring[p]) \in Nat \ {0}
    BY <2>1, EmptySeq
  <2>3. turn[p] + 1 \in 1..Len(ring[p])
    BY <1>2, <2>1, <2>2 DEF PortOK
  <2>4. d \in Clients
    BY <1>1, <2>1, <2>3, ElementOfSeq
  <2>. QED
    BY <1>1, <1>2, <2>3, <2>4 DEF PortOK
<1>4. PICK q : q = queues[p][d]
  OBVIOUS
<1>5. /\ Len(q) \in Nat /\ Len(q) > 0 /\ Head(q) = q[1]
      /\ Len(Tail(q)) = Len(q) - 1 /\ \A i \in 1..(Len(q) - 1) : Tail(q)[i] = q[i + 1]
  BY <1>3, <1>4, EmptySeq, HeadTailProperties
<1>6. /\ queues' = [queues EXCEPT ![p][d] = Tail(@)]
      /\ \/ Count(d, "stale") /\ UNCHANGED taken /\ serving' = p
         \/ taken' = [taken EXCEPT ![d] = @ \cup {Head(q)}] /\ UNCHANGED drops /\ serving' = NoPort
      /\ UNCHANGED <<offers, accepted>>
  BY <1>1, <1>4 DEF Turn, ServeTurn
<1>7. DOMAIN queues = Ports /\ \A x \in Ports : queues[x] \in [Clients -> Seq(Queued)]
  BY DEF IInv, RestOK, PortsOK, PortOK
<1>8. /\ queues'[p][d] = Tail(q)
      /\ \A x \in Ports \ {p} : queues'[x][d] = queues[x][d]
      /\ \A c \in Clients \ {d} : \A x \in Ports : queues'[x][c] = queues[x][c]
  BY <1>3, <1>4, <1>6, <1>7
<1>9. taken \in [Clients -> SUBSET Queued] /\ drops \in [Clients -> [DropReason -> Nat]]
  BY DEF IInv, RestOK
<1>a. /\ Len(queues[p][d]) > 0 /\ Len(queues'[p][d]) = Len(queues[p][d]) - 1
      /\ \A i \in 1..(Len(queues[p][d]) - 1) : queues'[p][d][i] = queues[p][d][i + 1]
  BY <1>4, <1>5, <1>8
<1>10. CASE Count(d, "stale") /\ UNCHANGED taken /\ serving' = p
  <2>1. /\ \A c \in Clients \ {d} : drops'[c] = drops[c]
        /\ drops'[d]["queue-full"] = drops[d]["queue-full"]
        /\ drops'[d]["stale"] = drops[d]["stale"] + 1
    BY <1>3, <1>9, <1>10 DEF Count, DropReason
  <2>2. \A c \in Clients \ {d} : taken'[c] = taken[c]
    BY <1>10
  <2>3. taken'[d] = taken[d]
    BY <1>10
  <2>4. Serves(p, d)
    BY <1>6, <1>8, <1>10, <1>a, <2>1, <2>2, <2>3, Zenon DEF Serves
  <2>. QED
    BY <1>1, <1>3, <2>4
<1>11. CASE taken' = [taken EXCEPT ![d] = @ \cup {Head(q)}] /\ UNCHANGED drops /\ serving' = NoPort
  <2>1. taken'[d] = taken[d] \cup {q[1]} /\ \A c \in Clients \ {d} : taken'[c] = taken[c]
    BY <1>3, <1>5, <1>9, <1>11
  <2>2. taken'[d] = taken[d] \cup {queues[p][d][1]}
    BY <1>4, <2>1
  <2>3. (\A c \in Clients : drops'[c] = drops[c]) /\ drops'[d]["stale"] = drops[d]["stale"]
        /\ drops'[d]["queue-full"] = drops[d]["queue-full"]
    BY <1>11
  <2>4. Serves(p, d)
    BY <1>6, <1>8, <1>11, <1>a, <2>1, <2>2, <2>3, Zenon DEF Serves
  <2>. QED
    BY <1>1, <1>3, <2>4
<1>. QED
  BY <1>6, <1>10, <1>11

\* A client that is removed has nothing waiting, on any port.
LEMMA RemoveEmpties ==
    ASSUME IInv, NEW c \in Clients, RemoveClient(c)
    PROVE  \A p \in Ports : queues'[p][c] = <<>>
<1>. SUFFICES ASSUME NEW p \in Ports PROVE queues'[p][c] = <<>>
  OBVIOUS
<1>1. /\ ring[p] \in Seq(Clients) /\ queues[p] \in [Clients -> Seq(Queued)]
      /\ queues[p][c] # <<>> => \E i \in 1..Len(ring[p]) : ring[p][i] = c
  BY DEF IInv, PortsOK, PortOK
<1>2. c \notin Range(ring[p]) => queues[p][c] = <<>>
  BY <1>1 DEF Range
<1>. QED
  BY <1>1, <1>2 DEF RemoveClient

LEMMA PlacedStep == IInv /\ PlacedInv /\ [Next]_vars => PlacedInv'
<1>. SUFFICES ASSUME IInv, PlacedInv, [Next]_vars, NEW c \in Clients
              PROVE  Placed(accepted'[c], taken'[c], queues', c, offers')
  BY DEF PlacedInv
<1>1. /\ Placed(accepted[c], taken[c], queues, c, offers) /\ offers \in Nat
      /\ accepted \in [Clients -> SUBSET Queued] /\ taken \in [Clients -> SUBSET Queued]
      /\ \A f \in accepted[c] : f.n \in Nat
  BY DEF PlacedInv, IInv, RestOK, Queued
<1>2. \A p \in Ports : /\ queues[p] \in [Clients -> Seq(Queued)]
                       /\ queues[p][c] \in Seq(Queued) /\ Len(queues[p][c]) \in Nat
                       /\ Len(queues[p][c]) <= MaxQueue
  BY DEF IInv, PortsOK, PortOK
<1>3. DOMAIN queues = Ports
  BY DEF IInv, RestOK
<1>4. CASE /\ accepted'[c] = accepted[c] /\ taken'[c] = taken[c] /\ offers' \in {offers, offers + 1}
           /\ \A p \in Ports : queues'[p][c] = queues[p][c]
  <2>1. \A f \in accepted'[c] : f.n < offers'
    BY <1>1, <1>4 DEF Placed
  <2>. QED
    BY <1>1, <1>4, <2>1 DEF Placed
<1>5. ASSUME NEW d \in Clients, NEW p \in Ports, NEW b \in Sizes, Offer(d, p, b)
      PROVE  Placed(accepted'[c], taken'[c], queues', c, offers')
  <2>. DEFINE item == [n |-> offers, at |-> now, bytes |-> b]
  <2>1. /\ offers' = offers + 1 /\ taken' = taken
        /\ RefuseFrames(d) \/ RefuseBytes(d, b) \/ Accept(d, p, item)
    BY <1>5 DEF Offer
  <2>2. item \in Queued /\ item.n = offers
    BY ArbiterAssumption DEF IInv, RestOK, Queued
  <2>. HIDE DEF item
  <2>3. CASE RefuseFrames(d) \/ RefuseBytes(d, b)
    <3>1. accepted' = accepted /\ queues' = queues
      BY <2>3 DEF RefuseFrames, RefuseBytes
    <3>. QED
      BY <1>4, <2>1, <3>1
  <2>4. CASE Accept(d, p, item) /\ c # d
    <3>1. /\ accepted' = [accepted EXCEPT ![d] = @ \cup {item}]
          /\ queues' = [queues EXCEPT ![p][d] = Push(@, item)]
      BY <2>4 DEF Accept
    <3>2. accepted'[c] = accepted[c] /\ \A x \in Ports : queues'[x][c] = queues[x][c]
      BY <1>1, <1>2, <1>3, <2>4, <3>1
    <3>. QED
      BY <1>4, <2>1, <3>2
  <2>5. CASE Accept(d, p, item) /\ c = d
    <3>1. /\ accepted'[c] = accepted[c] \cup {item}
          /\ queues' = [queues EXCEPT ![p][c] = Push(@, item)]
      BY <1>1, <2>5 DEF Accept
    <3>2. queues'[p][c] = Push(queues[p][c], item) /\ \A x \in Ports \ {p} : queues'[x][c] = queues[x][c]
      BY <1>2, <1>3, <3>1
    <3>3. PICK s : s = IF Len(queues[p][c]) + 1 > MaxQueue THEN 1 ELSE 0
      OBVIOUS
    <3>4. /\ s \in {0, 1} /\ Len(queues'[p][c]) = Len(queues[p][c]) + 1 - s
          /\ \A i \in 1..(Len(queues[p][c]) + 1 - s) :
                \/ i + s \in 1..Len(queues[p][c]) /\ queues'[p][c][i] = queues[p][c][i + s]
                \/ i + s = Len(queues[p][c]) + 1 /\ queues'[p][c][i] = item
      <4>1. PICK q \in Seq(Queued) : q = queues[p][c]
        BY <1>2
      <4>2. Len(q) <= MaxQueue /\ s = IF Len(q) + 1 > MaxQueue THEN 1 ELSE 0
        BY <1>2, <3>3, <4>1
      <4>3. /\ s \in {0, 1} /\ Len(Push(q, item)) = Len(q) + 1 - s
            /\ \A i \in 1..(Len(q) + 1 - s) : \/ i + s \in 1..Len(q) /\ Push(q, item)[i] = q[i + s]
                                              \/ i + s = Len(q) + 1 /\ Push(q, item)[i] = item
        BY <2>2, <4>2, PushItems
      <4>. QED
        BY <3>2, <4>1, <4>3
    <3>5. Placed(accepted[c] \cup {item}, taken[c], queues', c, offers + 1)
      BY <1>1, <1>2, <2>2, <3>2, <3>4, PlacedAccept
    <3>. QED
      BY <2>1, <3>1, <3>5
  <2>. QED
    BY <2>1, <2>3, <2>4, <2>5
<1>6. ASSUME NEW p \in Ports, Turn(p)
      PROVE  Placed(accepted'[c], taken'[c], queues', c, offers')
  <2>1. PICK d \in Clients : Serves(p, d)
    BY <1>6, TurnServes
  <2>2. CASE c # d
    BY <1>1, <1>4, <2>1, <2>2 DEF Serves
  <2>3. CASE c = d
    <3>1. /\ accepted' = accepted /\ offers' = offers
          /\ taken'[c] = taken[c] \/ taken'[c] = taken[c] \cup {queues[p][c][1]}
      BY <1>1, <2>1, <2>3 DEF Serves
    <3>a. /\ Len(queues[p][c]) > 0 /\ Len(queues'[p][c]) = Len(queues[p][c]) - 1
          /\ \A i \in 1..(Len(queues[p][c]) - 1) : queues'[p][c][i] = queues[p][c][i + 1]
          /\ \A x \in Ports \ {p} : queues'[x][c] = queues[x][c]
      BY <2>1, <2>3 DEF Serves
    <3>b. \A x \in Ports : Len(queues[x][c]) \in Nat
      BY <1>2
    <3>2. Placed(accepted[c], taken'[c], queues', c, offers)
      BY <1>1, <3>1, <3>a, <3>b, PlacedServe, SMTT(60)
    <3>. QED
      BY <3>1, <3>2
  <2>. QED
    BY <2>2, <2>3
<1>7. ASSUME NEW d \in Clients, RemoveClient(d)
      PROVE  Placed(accepted'[c], taken'[c], queues', c, offers')
  <2>1. CASE c # d
    <3>1. accepted'[c] = accepted[c] /\ taken'[c] = taken[c] /\ offers' = offers
      BY <1>1, <1>7, <2>1 DEF RemoveClient
    <3>2. \A x \in Ports : queues'[x][c] = queues[x][c]
      BY <1>2, <1>7, <2>1 DEF RemoveClient
    <3>. QED
      BY <1>4, <3>1, <3>2
  <2>2. CASE c = d
    <3>1. accepted'[c] = {} /\ taken'[c] = {} /\ \A x \in Ports : queues'[x][c] = <<>>
      BY <1>1, <1>7, <2>2, RemoveEmpties DEF RemoveClient
    <3>2. 1..Len(<<>>) = {}
      OBVIOUS
    <3>. QED
      BY <3>1, <3>2 DEF Placed
  <2>. QED
    BY <2>1, <2>2
<1>8. CASE Tick \/ UNCHANGED vars \/ \E p \in Ports : NoTurn(p)
  <2>1. UNCHANGED <<accepted, taken, queues, offers>>
    BY <1>8 DEF Tick, NoTurn, vars
  <2>. QED
    BY <1>4, <2>1
<1>. QED
  BY <1>5, <1>6, <1>7, <1>8 DEF Next

\* What an accepted frame does to its client's sum and counts.
LEMMA AcceptCounts ==
    ASSUME IInv, NEW c \in Clients, NEW p \in Ports, NEW item \in Queued, Accept(c, p, item)
    PROVE  /\ WaitingSum(queues, c) \in Nat /\ WaitingSum(queues', c) \in Nat
           /\ \/ WaitingSum(queues', c) = WaitingSum(queues, c) + 1 /\ drops' = drops
              \/ WaitingSum(queues', c) = WaitingSum(queues, c) /\ Count(c, "queue-full")
<1>1. \A x \in Ports : /\ queues[x] \in [Clients -> Seq(Queued)]
                       /\ queues[x][c] \in Seq(Queued) /\ Len(queues[x][c]) \in Nat
                       /\ Len(queues[x][c]) <= MaxQueue
  BY DEF IInv, PortsOK, PortOK
<1>2. DOMAIN queues = Ports /\ drops \in [Clients -> [DropReason -> Nat]]
  BY DEF IInv, RestOK
<1>3. queues' = [queues EXCEPT ![p][c] = Push(@, item)]
  BY DEF Accept
<1>4. queues'[p][c] = Push(queues[p][c], item) /\ \A x \in Ports \ {p} : queues'[x][c] = queues[x][c]
  BY <1>1, <1>2, <1>3
<1>5. PICK q \in Seq(Queued) : q = queues[p][c]
  BY <1>1
<1>6. PICK s : s = IF Len(q) + 1 > MaxQueue THEN 1 ELSE 0
  OBVIOUS
<1>7. Len(q) <= MaxQueue
  BY <1>1, <1>5
<1>8. s \in {0, 1} /\ Len(q) \in Nat /\ Len(Push(q, item)) = Len(q) + 1 - s
  BY <1>6, <1>7, PushItems
<1>9. \A x \in Ports : Len(queues'[x][c]) \in Nat
  BY <1>1, <1>4, <1>5, <1>8
<1>10. \A x \in Ports \ {p} : Len(queues'[x][c]) = Len(queues[x][c])
  BY <1>4
<1>11. /\ WaitingSum(queues, c) \in Nat /\ WaitingSum(queues', c) \in Nat
       /\ WaitingSum(queues', c) + Len(queues[p][c]) = WaitingSum(queues, c) + Len(queues'[p][c])
  BY <1>1, <1>9, <1>10, WaitingMoves
<1>12. WaitingSum(queues', c) = WaitingSum(queues, c) + 1 - s
  <2>. DEFINE a == WaitingSum(queues, c)
              b == WaitingSum(queues', c)
              n == Len(q)
  <2>1. a \in Nat /\ b \in Nat /\ n \in Nat /\ s \in {0, 1} /\ b + n = a + (n + 1 - s)
    BY <1>4, <1>5, <1>8, <1>11
  <2>. HIDE DEF a, b, n
  <2>2. b = a + 1 - s
    BY <2>1
  <2>. QED
    BY <2>2 DEF a, b
<1>13. CASE s = 1
  <2>1. Count(c, "queue-full")
    BY <1>5, <1>6, <1>13 DEF Accept
  <2>2. WaitingSum(queues', c) = WaitingSum(queues, c)
    BY <1>11, <1>12, <1>13
  <2>. QED
    BY <1>11, <2>1, <2>2
<1>14. CASE s = 0
  <2>1. drops' = drops
    BY <1>5, <1>6, <1>14 DEF Accept
  <2>2. WaitingSum(queues', c) = WaitingSum(queues, c) + 1
    BY <1>11, <1>12, <1>14
  <2>. QED
    BY <1>11, <2>1, <2>2
<1>. QED
  BY <1>8, <1>13, <1>14

\* A sum of the same queues is the same.
LEMMA WaitingSame ==
    ASSUME NEW q, NEW r, NEW c, \A x \in Ports : Len(q[x][c]) \in Nat, \A x \in Ports : r[x][c] = q[x][c]
    PROVE  WaitingSum(r, c) = WaitingSum(q, c)
<1>1. \A x \in Ports : Len(r[x][c]) \in Nat
  OBVIOUS
<1>2. Lengths(r, c) = Lengths(q, c)
  BY DEF Lengths
<1>. QED
  BY <1>1, <1>2, WaitingCount

LEMMA WaitingNone ==
    ASSUME NEW q, NEW c, \A x \in Ports : q[x][c] = <<>>
    PROVE  WaitingSum(q, c) = 0
<1>1. \A x \in Ports : Len(q[x][c]) \in Nat /\ Lengths(q, c)[x] = 0
  BY DEF Lengths
<1>2. Units(Ports, Lengths(q, c)) = {}
  BY <1>1 DEF Units
<1>. QED
  BY <1>1, <1>2, WaitingCount, FS_EmptySet

LEMMA CountedStep == IInv /\ BudgetInv /\ PlacedInv /\ CountedInv /\ [Next]_vars => CountedInv'
<1>. SUFFICES ASSUME IInv, BudgetInv, PlacedInv, CountedInv, [Next]_vars, NEW c \in Clients
              PROVE  CountedOf(c)'
  BY DEF CountedInv
<1>1. /\ CountedOf(c) /\ Placed(accepted[c], taken[c], queues, c, offers) /\ offers \in Nat
      /\ IsFiniteSet(accepted[c])
      /\ accepted \in [Clients -> SUBSET Queued] /\ taken \in [Clients -> SUBSET Queued]
      /\ drops \in [Clients -> [DropReason -> Nat]]
      /\ \A f \in accepted[c] : f.n \in Nat
  BY DEF CountedInv, PlacedInv, BudgetInv, BudgetOf, IInv, RestOK, Queued
<1>2. IsFiniteSet(taken[c]) /\ Cardinality(taken[c]) \in Nat /\ Cardinality(accepted[c]) \in Nat
  BY <1>1, FS_Subset, FS_CardinalityType DEF Placed
<1>3. \A p \in Ports : /\ queues[p] \in [Clients -> Seq(Queued)]
                       /\ queues[p][c] \in Seq(Queued) /\ Len(queues[p][c]) \in Nat
  BY DEF IInv, PortsOK, PortOK
<1>4. DOMAIN queues = Ports
  BY DEF IInv, RestOK
<1>5. drops[c]["queue-full"] \in Nat /\ drops[c]["stale"] \in Nat
  BY <1>1 DEF DropReason
<1>6. CASE /\ accepted'[c] = accepted[c] /\ taken'[c] = taken[c]
           /\ drops'[c]["queue-full"] = drops[c]["queue-full"] /\ drops'[c]["stale"] = drops[c]["stale"]
           /\ \A p \in Ports : queues'[p][c] = queues[p][c]
  <2>1. WaitingSum(queues', c) = WaitingSum(queues, c)
    BY <1>3, <1>6, WaitingSame
  <2>. QED
    BY <1>1, <1>6, <2>1 DEF CountedOf
<1>7. ASSUME NEW d \in Clients, NEW p \in Ports, NEW b \in Sizes, Offer(d, p, b)
      PROVE  CountedOf(c)'
  <2>. DEFINE item == [n |-> offers, at |-> now, bytes |-> b]
  <2>1. /\ taken' = taken
        /\ RefuseFrames(d) \/ RefuseBytes(d, b) \/ Accept(d, p, item)
    BY <1>7 DEF Offer
  <2>2. item \in Queued /\ item.n = offers
    BY ArbiterAssumption DEF IInv, RestOK, Queued
  <2>. HIDE DEF item
  <2>3. CASE RefuseFrames(d) \/ RefuseBytes(d, b)
    <3>1. accepted' = accepted /\ queues' = queues /\ (Count(d, "frame-budget") \/ Count(d, "byte-budget"))
      BY <2>3 DEF RefuseFrames, RefuseBytes
    <3>2. drops'[c]["queue-full"] = drops[c]["queue-full"] /\ drops'[c]["stale"] = drops[c]["stale"]
      BY <1>1, <3>1 DEF Count, DropReason
    <3>. QED
      BY <1>6, <2>1, <3>1, <3>2
  <2>4. CASE Accept(d, p, item) /\ c # d
    <3>1. /\ accepted' = [accepted EXCEPT ![d] = @ \cup {item}]
          /\ queues' = [queues EXCEPT ![p][d] = Push(@, item)]
          /\ Count(d, "queue-full") \/ drops' = drops
      BY <2>4 DEF Accept
    <3>2. accepted'[c] = accepted[c] /\ \A x \in Ports : queues'[x][c] = queues[x][c]
      BY <1>1, <1>3, <1>4, <2>4, <3>1
    <3>3. drops'[c] = drops[c]
      BY <1>1, <2>4, <3>1 DEF Count
    <3>. QED
      BY <1>6, <2>1, <3>2, <3>3
  <2>5. CASE Accept(d, p, item) /\ c = d
    <3>1. accepted'[c] = accepted[c] \cup {item} /\ item \notin accepted[c]
      BY <1>1, <2>2, <2>5 DEF Accept, Placed
    <3>2. Cardinality(accepted'[c]) = Cardinality(accepted[c]) + 1
      BY <1>1, <3>1, FS_AddElement
    <3>3. /\ WaitingSum(queues, c) \in Nat /\ WaitingSum(queues', c) \in Nat
          /\ drops'[c]["stale"] = drops[c]["stale"]
          /\ \/ /\ WaitingSum(queues', c) = WaitingSum(queues, c) + 1
                /\ drops'[c]["queue-full"] = drops[c]["queue-full"]
             \/ /\ WaitingSum(queues', c) = WaitingSum(queues, c)
                /\ drops'[c]["queue-full"] = drops[c]["queue-full"] + 1
      <4>1. /\ WaitingSum(queues, c) \in Nat /\ WaitingSum(queues', c) \in Nat
            /\ \/ WaitingSum(queues', c) = WaitingSum(queues, c) + 1 /\ drops' = drops
               \/ WaitingSum(queues', c) = WaitingSum(queues, c) /\ Count(c, "queue-full")
        BY <2>2, <2>5, AcceptCounts
      <4>2. Count(c, "queue-full") => /\ drops'[c]["queue-full"] = drops[c]["queue-full"] + 1
                                      /\ drops'[c]["stale"] = drops[c]["stale"]
        BY <1>1 DEF Count, DropReason
      <4>. QED
        BY <4>1, <4>2
    <3>. DEFINE A == Cardinality(accepted[c])
                W == WaitingSum(queues, c)
                T == Cardinality(taken[c])
                F == drops[c]["queue-full"]
                S == drops[c]["stale"]
                W2 == WaitingSum(queues', c)
                F2 == drops'[c]["queue-full"]
    <3>4. A = W + T + F + S
      BY <1>1 DEF CountedOf
    <3>5. /\ A \in Nat /\ W \in Nat /\ T \in Nat /\ F \in Nat /\ S \in Nat
          /\ (W2 = W + 1 /\ F2 = F) \/ (W2 = W /\ F2 = F + 1)
      BY <1>2, <1>5, <3>3
    <3>. HIDE DEF A, W, T, F, S, W2, F2
    <3>6. A + 1 = W2 + T + F2 + S
      BY <3>4, <3>5
    <3>. QED
      BY <2>1, <3>2, <3>3, <3>6 DEF CountedOf, A, W, T, F, S, W2, F2
  <2>. QED
    BY <2>1, <2>3, <2>4, <2>5
<1>8. ASSUME NEW p \in Ports, Turn(p) PROVE CountedOf(c)'
  <2>1. PICK d \in Clients : Serves(p, d)
    BY <1>8, TurnServes
  <2>2. CASE c # d
    BY <1>1, <1>6, <2>1, <2>2 DEF Serves
  <2>3. CASE c = d
    <3>1. /\ accepted' = accepted
          /\ Len(queues[p][c]) > 0 /\ Len(queues'[p][c]) = Len(queues[p][c]) - 1
          /\ \A i \in 1..(Len(queues[p][c]) - 1) : queues'[p][c][i] = queues[p][c][i + 1]
          /\ \A x \in Ports \ {p} : queues'[x][c] = queues[x][c]
          /\ drops'[c]["queue-full"] = drops[c]["queue-full"]
          /\ \/ taken'[c] = taken[c] /\ drops'[c]["stale"] = drops[c]["stale"] + 1
             \/ /\ taken'[c] = taken[c] \cup {queues[p][c][1]}
                /\ drops'[c]["stale"] = drops[c]["stale"]
      BY <2>1, <2>3 DEF Serves
    <3>a. \A x \in Ports : Len(queues[x][c]) \in Nat /\ Len(queues'[x][c]) \in Nat
      BY <1>3, <3>1
    <3>b. \A x \in Ports \ {p} : Len(queues'[x][c]) = Len(queues[x][c])
      BY <3>1
    <3>2. /\ WaitingSum(queues, c) \in Nat /\ WaitingSum(queues', c) \in Nat
          /\ WaitingSum(queues', c) + Len(queues[p][c]) = WaitingSum(queues, c) + Len(queues'[p][c])
      BY <3>a, <3>b, WaitingMoves
    <3>3. WaitingSum(queues', c) + 1 = WaitingSum(queues, c)
      <4>. DEFINE a == WaitingSum(queues, c)
                  b == WaitingSum(queues', c)
                  n == Len(queues[p][c])
      <4>1. a \in Nat /\ b \in Nat /\ n \in Nat /\ b + n = a + (n - 1)
        BY <3>1, <3>2, <3>a
      <4>. HIDE DEF a, b, n
      <4>2. b + 1 = a
        BY <4>1
      <4>. QED
        BY <4>2 DEF a, b
    <3>4. queues[p][c][1] \notin taken[c]
      <4>1. 1 \in 1..Len(queues[p][c])
        BY <3>1, <3>a
      <4>. QED
        BY <1>1, <4>1 DEF Placed
    <3>5. \/ /\ Cardinality(taken'[c]) = Cardinality(taken[c])
             /\ drops'[c]["stale"] = drops[c]["stale"] + 1
          \/ /\ Cardinality(taken'[c]) = Cardinality(taken[c]) + 1
             /\ drops'[c]["stale"] = drops[c]["stale"]
      <4>1. PICK f : f = queues[p][c][1]
        OBVIOUS
      <4>2. Cardinality(taken[c] \cup {f}) = Cardinality(taken[c]) + 1
        BY <1>2, <3>4, <4>1, FS_AddElement
      <4>3. \/ taken'[c] = taken[c] /\ drops'[c]["stale"] = drops[c]["stale"] + 1
            \/ taken'[c] = taken[c] \cup {f} /\ drops'[c]["stale"] = drops[c]["stale"]
        BY <3>1, <4>1
      <4>. QED
        BY <4>2, <4>3, ZenonT(60)
    <3>. DEFINE A == Cardinality(accepted[c])
                W == WaitingSum(queues, c)
                T == Cardinality(taken[c])
                F == drops[c]["queue-full"]
                S == drops[c]["stale"]
                W2 == WaitingSum(queues', c)
                T2 == Cardinality(taken'[c])
                S2 == drops'[c]["stale"]
    <3>6. A = W + T + F + S
      BY <1>1 DEF CountedOf
    <3>7. /\ A \in Nat /\ W \in Nat /\ T \in Nat /\ F \in Nat /\ S \in Nat /\ W2 \in Nat
          /\ W2 + 1 = W /\ ((T2 = T /\ S2 = S + 1) \/ (T2 = T + 1 /\ S2 = S))
      BY <1>2, <1>5, <3>2, <3>3, <3>5
    <3>. HIDE DEF A, W, T, F, S, W2, T2, S2
    <3>8. A = W2 + T2 + F + S2
      BY <3>6, <3>7
    <3>. QED
      BY <3>1, <3>8 DEF CountedOf, A, W2, T2, F, S2
  <2>. QED
    BY <2>2, <2>3
<1>9. ASSUME NEW d \in Clients, RemoveClient(d) PROVE CountedOf(c)'
  <2>1. CASE c # d
    <3>1. accepted'[c] = accepted[c] /\ taken'[c] = taken[c] /\ drops'[c] = drops[c]
      BY <1>1, <1>9, <2>1 DEF RemoveClient
    <3>2. \A x \in Ports : queues'[x][c] = queues[x][c]
      BY <1>3, <1>9, <2>1 DEF RemoveClient
    <3>. QED
      BY <1>6, <3>1, <3>2
  <2>2. CASE c = d
    <3>1. accepted'[c] = {} /\ taken'[c] = {} /\ drops'[c] = NoDrops
      BY <1>1, <1>9, <2>2 DEF RemoveClient
    <3>2. \A x \in Ports : queues'[x][c] = <<>>
      BY <1>9, <2>2, RemoveEmpties
    <3>3. WaitingSum(queues', c) = 0
      BY <3>2, WaitingNone
    <3>4. drops'[c]["queue-full"] = 0 /\ drops'[c]["stale"] = 0
      BY <3>1 DEF NoDrops, DropReason
    <3>. QED
      BY <3>1, <3>3, <3>4, FS_EmptySet DEF CountedOf
  <2>. QED
    BY <2>1, <2>2
<1>10. CASE Tick \/ UNCHANGED vars \/ \E p \in Ports : NoTurn(p)
  <2>1. UNCHANGED <<accepted, taken, queues, drops>>
    BY <1>10 DEF Tick, NoTurn, vars
  <2>. QED
    BY <1>6, <2>1
<1>. QED
  BY <1>7, <1>8, <1>9, <1>10 DEF Next

(***************************************************************************)
(* Every drop is counted: a frame of a client that was accepted waits in   *)
(* one place of one queue, was handed out once, or is in the client's      *)
(* counts as displaced from a full queue or as stale, whatever is offered, *)
(* served and removed and however many ports the box has.                  *)
(***************************************************************************)
THEOREM DropsTheorem == Spec => []DropsCounted
<1>1. Init => IInv /\ BudgetInv /\ PlacedInv /\ CountedInv
  <2>. SUFFICES ASSUME Init PROVE BudgetInv /\ PlacedInv /\ CountedInv
    BY InitIInv
  <2>1. BudgetInv
    BY FS_EmptySet, ArbiterAssumption DEF Init, BudgetInv, BudgetOf, Within
  <2>2. ASSUME NEW c \in Clients PROVE Placed(accepted[c], taken[c], queues, c, offers) /\ CountedOf(c)
    <3>1. /\ accepted[c] = {} /\ taken[c] = {} /\ \A x \in Ports : queues[x][c] = <<>>
          /\ drops[c]["queue-full"] = 0 /\ drops[c]["stale"] = 0
      BY DEF Init, NoDrops, DropReason
    <3>2. WaitingSum(queues, c) = 0
      BY <3>1, WaitingNone
    <3>3. 1..Len(<<>>) = {}
      OBVIOUS
    <3>4. Placed(accepted[c], taken[c], queues, c, offers)
      BY <3>1, <3>3 DEF Placed
    <3>5. CountedOf(c)
      BY <3>1, <3>2, FS_EmptySet DEF CountedOf
    <3>. QED
      BY <3>4, <3>5
  <2>. QED
    BY <2>1, <2>2 DEF PlacedInv, CountedInv
<1>2. IInv /\ BudgetInv /\ PlacedInv /\ CountedInv /\ [Next]_vars
      => (IInv /\ BudgetInv /\ PlacedInv /\ CountedInv)'
  BY NextIInv, BudgetStep, PlacedStep, CountedStep
<1>3. IInv /\ PlacedInv /\ CountedInv => DropsCounted
  <2>. SUFFICES ASSUME IInv, PlacedInv, CountedInv, NEW c \in Clients
                PROVE  LET waiting == UNION {Range(queues[p][c]) : p \in Ports}
                       IN  /\ waiting \cup taken[c] \subseteq accepted[c]
                           /\ waiting \cap taken[c] = {}
                           /\ CountedOf(c)
    BY DEF DropsCounted, CountedOf, WaitingSum, MapThenSumSet, MapThenFoldSet
  <2>1. Placed(accepted[c], taken[c], queues, c, offers) /\ CountedOf(c)
    BY DEF PlacedInv, CountedInv
  <2>2. ASSUME NEW p \in Ports PROVE Range(queues[p][c]) \subseteq accepted[c] \ taken[c]
    <3>1. queues[p][c] \in Seq(Queued)
      BY DEF IInv, PortsOK, PortOK
    <3>2. Range(queues[p][c]) = {queues[p][c][i] : i \in 1..Len(queues[p][c])}
      BY <3>1 DEF Range
    <3>. QED
      BY <2>1, <3>2 DEF Placed
  <2>. QED
    BY <2>1, <2>2 DEF Placed
<1>. QED
  BY <1>1, <1>2, <1>3, PTL DEF Spec
=============================================================================

-------------------------- MODULE TokenBucketProofs --------------------------
(***************************************************************************)
(* Proof that a token bucket keeps its pace for every burst and every      *)
(* refill time, however its clock is set back.                             *)
(***************************************************************************)
EXTENDS TokenBucket, TLAPS

(***************************************************************************)
(* What was let through since the i-th transmit, together with the tokens  *)
(* left, is never more than a full bucket and the time that passed since.  *)
(***************************************************************************)
Spare ==
    \A i \in 1..Len(taken) :
        (Len(taken) - i + 1) * Refill + Level <= Full + (elapsed - taken[i])

IInv == TypeOK /\ Spare /\ Paced

\* The tokens now are whole ticks and never more than a full bucket.
LEMMA LevelType ==
    ASSUME TypeOK
    PROVE  Full \in Nat /\ Level \in Int /\ Level <= Full
<1>1. Full \in Nat
  BY BucketAssumption DEF Full
<1>. QED
  BY <1>1 DEF TypeOK, Level

\* Adding one transmit costs one refill.
LEMMA OneMore ==
    ASSUME NEW n \in Int, NEW r \in Int
    PROVE  (n + 1) * r = n * r + r
OBVIOUS

\* Burst transmits cost a full bucket.
LEMMA PaceArithmetic ==
    ASSUME NEW k \in Int, NEW r \in Int, NEW b \in Int, NEW left \in Int, NEW full \in Int,
           NEW time \in Int, NEW t \in Int,
           b * r = full, left >= 0, k * r + left <= full + (time - t)
    PROVE  (k - b) * r <= time - t
<1>1. (k - b) * r = k * r - b * r /\ k * r \in Int
  OBVIOUS
<1>. QED
  BY <1>1

\* take() pays for the transmit it lets through.
LEMMA TakeStep ==
    ASSUME IInv, Take
    PROVE  IInv'
<1>1. Full \in Nat /\ Level \in Int /\ Level <= Full
  BY LevelType DEF IInv
<1>2. Refill \in Nat \ {0} /\ Burst \in Nat /\ Burst * Refill = Full
  BY BucketAssumption DEF Full
<1>3. level' = Level - Refill /\ at' = now /\ now' = now /\ elapsed' = elapsed
  BY DEF Take, Refilled
<1>4. taken \in Seq(Nat) /\ elapsed \in Nat /\ now \in Int
  BY DEF IInv, TypeOK
<1>5. taken' = Append(taken, elapsed) /\ promised' = <<>>
  BY DEF Take
<1>6. TypeOK'
  <2>1. taken' \in Seq(Nat) /\ promised' \in Seq(Int)
    BY <1>4, <1>5
  <2>2. level' \in Int /\ level' <= Full
    BY <1>1, <1>2, <1>3
  <2>. QED
    BY <1>3, <1>4, <2>1, <2>2 DEF TypeOK, Full
<1>7. Level' = Level - Refill
  <2>1. level' + (now' - at') = Level - Refill
    BY <1>1, <1>2, <1>3, <1>4
  <2>2. ~(Level - Refill > Full)
    BY <1>1, <1>2
  <2>. QED
    BY <2>1, <2>2 DEF Level, Full
<1>8. Len(taken') = Len(taken) + 1 /\ Len(taken) \in Nat
  BY <1>4, <1>5
<1>9. \A i \in 1..Len(taken) : taken'[i] = taken[i] /\ taken[i] \in Nat
  BY <1>4, <1>5
<1>10. taken'[Len(taken) + 1] = elapsed
  BY <1>4, <1>5
<1>11. Spare'
  <2>1. SUFFICES ASSUME NEW i \in 1..Len(taken')
                 PROVE  (Len(taken') - i + 1) * Refill + Level' <= Full + (elapsed' - taken'[i])
    BY DEF Spare, Full
  <2>2. CASE i = Len(taken) + 1
    <3>1. (Len(taken') - i + 1) * Refill = Refill
      BY <1>2, <1>8, <2>2
    <3>. QED
      BY <3>1, <2>2, <1>1, <1>2, <1>3, <1>4, <1>7, <1>10
  <2>3. CASE i \in 1..Len(taken)
    <3>. DEFINE k == Len(taken) - i + 1
    <3>1. k \in Int /\ Len(taken') - i + 1 = k + 1
      BY <1>8, <2>3
    <3>2. k * Refill + Level <= Full + (elapsed - taken[i])
      BY <2>3 DEF IInv, Spare
    <3>3. (k + 1) * Refill = k * Refill + Refill /\ k * Refill \in Int
      BY <3>1, <1>2, OneMore
    <3>4. taken'[i] = taken[i] /\ taken[i] \in Nat
      BY <1>9, <2>3
    <3>5. (k + 1) * Refill + Level' = k * Refill + Level
      <4>. HIDE DEF k
      <4>. QED
        BY <3>3, <1>1, <1>2, <1>7
    <3>6. elapsed' = elapsed /\ taken'[i] = taken[i]
      BY <1>3, <3>4
    <3>. QED
      BY <3>1, <3>2, <3>5, <3>6
  <2>. QED
    BY <2>1, <2>2, <2>3, <1>8
<1>12. Paced'
  <2>1. SUFFICES ASSUME NEW i \in 1..Len(taken'), NEW j \in 1..Len(taken'), i <= j
                 PROVE  (j - i + 1 - Burst) * Refill <= taken'[j] - taken'[i]
    BY <1>4, <1>5 DEF Paced
  <2>2. CASE j \in 1..Len(taken)
    <3>1. i \in 1..Len(taken)
      BY <1>8, <2>1, <2>2
    <3>2. i \in DOMAIN taken /\ j \in DOMAIN taken
      BY <1>4, <2>2, <3>1
    <3>3. (j - i + 1 - Burst) * Refill <= taken[j] - taken[i]
      BY <2>1, <3>2 DEF IInv, Paced
    <3>. QED
      BY <3>1, <3>3, <2>2, <1>9
  <2>3. CASE j = Len(taken) + 1
    <3>. DEFINE k == j - i + 1
    <3>1. k \in Int /\ Len(taken') - i + 1 = k
      BY <1>8, <2>3
    <3>2. k * Refill + Level' <= Full + (elapsed' - taken'[i])
      BY <1>11, <3>1 DEF Spare, Full
    <3>3. Level' >= 0 /\ Level' \in Int
      BY <1>1, <1>2, <1>7 DEF Take
    <3>4. taken'[j] = elapsed /\ taken'[i] \in Nat
      BY <1>4, <1>9, <1>10, <1>8, <2>3
    <3>5. taken'[j] = elapsed /\ elapsed' = elapsed /\ elapsed \in Int /\ taken'[i] \in Int
      BY <1>3, <1>4, <3>4
    <3>. HIDE DEF k
    <3>6. (k - Burst) * Refill <= elapsed - taken'[i]
      BY <3>1, <3>2, <3>3, <3>5, <1>1, <1>2, PaceArithmetic
    <3>7. k - Burst = j - i + 1 - Burst
      BY <1>2, <1>8, <2>3 DEF k
    <3>. QED
      BY <3>5, <3>6, <3>7
  <2>. QED
    BY <1>8, <2>2, <2>3
<1>. QED
  BY <1>6, <1>11, <1>12 DEF IInv

\* A step that lets nothing through keeps the invariant when the tokens grow no
\* faster than time passes.
LEMMA QuietStep ==
    ASSUME IInv, TypeOK', UNCHANGED taken,
           NEW d \in Nat, elapsed' = elapsed + d, Level' <= Level + d
    PROVE  IInv'
<1>1. Full \in Nat /\ Level \in Int /\ Level' \in Int /\ elapsed \in Nat /\ elapsed' \in Nat
  <2>1. Level' \in Int
    <3>1. Full \in Nat /\ Full' = Full
      BY BucketAssumption DEF Full
    <3>2. level' \in Int /\ now' \in Int /\ at' \in Int
      BY DEF TypeOK
    <3>. QED
      BY <3>1, <3>2 DEF Level, Full
  <2>. QED
    BY <2>1, LevelType DEF IInv, TypeOK
<1>2. Spare'
  <2>1. SUFFICES ASSUME NEW i \in 1..Len(taken)
                 PROVE  (Len(taken) - i + 1) * Refill + Level' <= Full + (elapsed' - taken[i])
    BY DEF Spare, Full
  <2>. DEFINE cost == (Len(taken) - i + 1) * Refill
  <2>2. cost + Level <= Full + (elapsed - taken[i])
    BY DEF IInv, Spare
  <2>3. taken[i] \in Nat /\ Len(taken) - i + 1 \in Int
    BY DEF IInv, TypeOK
  <2>4. cost \in Int
    BY <2>3, BucketAssumption
  <2>. HIDE DEF cost
  <2>5. cost + Level' <= Full + (elapsed' - taken[i])
    BY <1>1, <2>2, <2>3, <2>4
  <2>. QED
    BY <2>5 DEF cost
<1>3. Paced'
  BY DEF IInv, Paced
<1>. QED
  BY <1>2, <1>3 DEF IInv

\* After refill() the tokens are the same.
LEMMA RefilledLevel ==
    ASSUME TypeOK, Refilled(Level), UNCHANGED now
    PROVE  level' \in Int /\ at' \in Int /\ level' <= Full /\ Level' = Level
<1>1. Full \in Nat /\ Level \in Int /\ Level <= Full /\ now \in Int
  BY LevelType DEF TypeOK
<1>2. level' = Level /\ at' = now /\ now' = now
  BY DEF Refilled
<1>3. level' + (now' - at') = Level
  BY <1>1, <1>2
<1>4. Level' = Level
  BY <1>1, <1>3 DEF Level, Full
<1>. QED
  BY <1>1, <1>2, <1>4

LEMMA InitInv == Init => IInv
  BY BucketAssumption DEF Init, IInv, TypeOK, Spare, Paced, Full

LEMMA NextInv == IInv /\ [Next]_vars => IInv'
<1>. SUFFICES ASSUME IInv, [Next]_vars PROVE IInv'
  OBVIOUS
<1>. USE DEF IInv
<1>0. TypeOK /\ elapsed \in Nat /\ now \in Int /\ level \in Int /\ at \in Int
  BY DEF TypeOK
<1>1. CASE Tick
  <2>1. TypeOK' /\ UNCHANGED taken
    BY <1>1 DEF Tick, TypeOK, Full
  <2>2. elapsed' = elapsed + 1 /\ Level' <= Level + 1
    <3>1. Full \in Nat /\ level' = level /\ at' = at /\ now' = now + 1 /\ elapsed' = elapsed + 1
      BY <1>1, LevelType DEF Tick
    <3>. QED
      BY <1>0, <3>1 DEF Level, Full
  <2>. QED
    BY <2>1, <2>2, QuietStep
<1>2. CASE Take
  BY <1>2, TakeStep
<1>3. CASE Refuse
  <2>1. UNCHANGED <<elapsed, now, taken, promised>> /\ Refilled(Level)
    BY <1>3 DEF Refuse
  <2>2. level' \in Int /\ at' \in Int /\ level' <= Full /\ Level' = Level
    BY <1>0, <2>1, RefilledLevel
  <2>3. TypeOK'
    BY <1>0, <2>1, <2>2 DEF TypeOK, Full
  <2>4. elapsed' = elapsed + 0 /\ Level' <= Level + 0
    BY <1>0, <2>1, <2>2, LevelType
  <2>. QED
    BY <2>1, <2>3, <2>4, QuietStep
<1>4. CASE WaitSec
  <2>1. UNCHANGED <<elapsed, now, taken>> /\ Refilled(Level)
    BY <1>4 DEF WaitSec
  <2>2. level' \in Int /\ at' \in Int /\ level' <= Full /\ Level' = Level
    BY <1>0, <2>1, RefilledLevel
  <2>3. Wait \in Int
    <3>1. Level \in Int /\ Refill \in Nat /\ Second \in Nat \ {0}
      BY <1>0, LevelType, BucketAssumption
    <3>2. (Refill - Level + Second - 1) \div Second \in Int
      BY <3>1
    <3>. QED
      BY <3>1, <3>2 DEF Wait
  <2>4. promised' \in Seq(Int)
    BY <1>0, <1>4, <2>3 DEF WaitSec
  <2>5. TypeOK'
    BY <1>0, <2>1, <2>2, <2>4 DEF TypeOK, Full
  <2>6. elapsed' = elapsed + 0 /\ Level' <= Level + 0
    BY <1>0, <2>1, <2>2, LevelType
  <2>. QED
    BY <2>1, <2>5, <2>6, QuietStep
<1>5. ASSUME NEW d \in Steps, SetBack(d) PROVE IInv'
  <2>1. d \in Nat
    BY BucketAssumption
  <2>2. TypeOK' /\ UNCHANGED taken
    BY <1>0, <1>5, <2>1 DEF SetBack, TypeOK, Full
  <2>3. elapsed' = elapsed + 0 /\ Level' <= Level + 0
    <3>1. Full \in Nat /\ level' = level /\ at' = at /\ now' = now - d /\ elapsed' = elapsed
      BY <1>0, <1>5, LevelType DEF SetBack
    <3>. QED
      BY <1>0, <2>1, <3>1 DEF Level, Full
  <2>. QED
    BY <2>2, <2>3, QuietStep
<1>6. CASE UNCHANGED vars
  BY <1>6 DEF vars, TypeOK, Spare, Paced, Level, Full
<1>. QED
  BY <1>1, <1>2, <1>3, <1>4, <1>5, <1>6 DEF Next

(***************************************************************************)
(* The pace: between any two transmits that take() let through there are   *)
(* at most burst of them plus one for every refillSec that passed, for     *)
(* every burst and refillSec and whenever the clock is set back.           *)
(***************************************************************************)
THEOREM PacedTheorem == Spec => []Paced
<1>1. IInv => Paced
  BY DEF IInv
<1>. QED
  BY InitInv, NextInv, <1>1, PTL DEF Spec
-----------------------------------------------------------------------------
(***************************************************************************)
(* waitSec().  What makes its promise inductive: the tokens there are and  *)
(* the ticks until the instant it named add up to one token, at least.     *)
(***************************************************************************)
Coming == \A i \in DOMAIN promised : Level >= Refill \/ Level + (promised[i] - now) >= Refill

\* A full bucket holds a token.
LEMMA FullHolds == Refill \in Nat \ {0} /\ Full \in Nat /\ Full >= Refill
<1>1. Burst \in Nat \ {0} /\ Refill \in Nat \ {0}
  BY BucketAssumption
<1>2. Burst * Refill >= Refill /\ Burst * Refill \in Nat
  BY <1>1
<1>. QED
  BY <1>1, <1>2 DEF Full

\* Rounding up to whole seconds never shortens a wait.
LEMMA RoundUp ==
    ASSUME NEW a \in Nat, NEW s \in Nat \ {0}
    PROVE  ((a + s - 1) \div s) * s >= a /\ ((a + s - 1) \div s) * s \in Int
OBVIOUS

LEMMA WaitEnough ==
    ASSUME TypeOK
    PROVE  Wait \in Int /\ (Level >= Refill \/ Level + Wait >= Refill)
<1>1. Level \in Int /\ Refill \in Nat \ {0} /\ Second \in Nat \ {0}
  BY LevelType, BucketAssumption
<1>2. CASE Level >= Refill
  BY <1>2 DEF Wait
<1>3. CASE ~(Level >= Refill)
  <2>. DEFINE a == Refill - Level
  <2>1. a \in Nat /\ Refill - Level + Second - 1 = a + Second - 1
    BY <1>1, <1>3
  <2>2. Wait = ((a + Second - 1) \div Second) * Second
    BY <1>3, <2>1 DEF Wait
  <2>. HIDE DEF a
  <2>3. Wait >= a /\ Wait \in Int
    BY <1>1, <2>1, <2>2, RoundUp
  <2>. QED
    BY <1>1, <2>1, <2>3 DEF a
<1>. QED
  BY <1>2, <1>3

LEMMA ComingStep == IInv /\ Coming /\ [Next]_vars => Coming'
<1>. SUFFICES ASSUME IInv, Coming, [Next]_vars, NEW i \in DOMAIN promised'
              PROVE  Level' >= Refill \/ Level' + (promised'[i] - now') >= Refill
  BY DEF Coming
<1>1. /\ TypeOK /\ now \in Int /\ level \in Int /\ at \in Int /\ level <= Full
      /\ promised \in Seq(Int) /\ Level \in Int
  BY LevelType DEF IInv, TypeOK
<1>2. CASE Tick
  <2>1. now' = now + 1 /\ level' = level /\ at' = at /\ promised' = promised
    BY <1>2 DEF Tick
  <2>2. Level' = Full \/ Level' = Level + 1
    BY <1>1, <2>1, FullHolds DEF Level, Full
  <2>3. promised[i] \in Int /\ (Level >= Refill \/ Level + (promised[i] - now) >= Refill)
    BY <1>1, <2>1 DEF Coming
  <2>. QED
    BY <1>1, <2>1, <2>2, <2>3, FullHolds
<1>3. CASE Refuse
  <2>1. Level' = Level /\ now' = now /\ promised' = promised
    BY <1>1, <1>3, RefilledLevel DEF Refuse
  <2>. QED
    BY <2>1 DEF Coming
<1>4. CASE WaitSec
  <2>1. Level' = Level /\ now' = now /\ promised' = <<now + Wait>>
    BY <1>1, <1>4, RefilledLevel DEF WaitSec
  <2>2. i = 1 /\ promised'[i] = now + Wait
    BY <2>1
  <2>. QED
    BY <1>1, <2>1, <2>2, WaitEnough
<1>5. CASE Take \/ \E d \in Steps : SetBack(d)
  BY <1>5 DEF Take, SetBack
<1>6. CASE UNCHANGED vars
  BY <1>6 DEF vars, Coming, Level, Full
<1>. QED
  BY <1>2, <1>3, <1>4, <1>5, <1>6 DEF Next

(***************************************************************************)
(* waitSec() is long enough, for every burst, refill time and length of a  *)
(* second: whoever sleeps for as long as it said finds a token, unless     *)
(* another transmit took it or the clock was set back meanwhile.           *)
(***************************************************************************)
THEOREM PromiseTheorem == Spec => []PromiseKept
<1>1. Init => IInv /\ Coming
  BY InitInv DEF Init, Coming
<1>2. IInv /\ Coming /\ [Next]_vars => (IInv /\ Coming)'
  BY NextInv, ComingStep
<1>3. IInv /\ Coming => PromiseKept
  <2>. SUFFICES ASSUME IInv, Coming, NEW i \in DOMAIN promised, now >= promised[i]
                PROVE  Level >= Refill
    BY DEF PromiseKept
  <2>1. Level \in Int /\ now \in Int /\ promised[i] \in Int /\ Refill \in Int
    BY LevelType, FullHolds DEF IInv, TypeOK
  <2>. QED
    BY <2>1 DEF Coming
<1>. QED
  BY <1>1, <1>2, <1>3, PTL DEF Spec
=============================================================================

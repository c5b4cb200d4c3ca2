----------------------------- MODULE TokenBucket -----------------------------
(***************************************************************************)
(* The token bucket that paces every unattended transmit path:             *)
(* TokenBucket of apps/ingest/src/txlimit.ts.                              *)
(*                                                                         *)
(* Time is counted in ticks.  A token is Refill ticks' worth, so level, in *)
(* ticks, is the code's tokens times refillSec, and the code's fractions   *)
(* are whole numbers here.  now is the wall clock the bucket reads         *)
(* (Date.now()), elapsed the time that really passed.  The wall clock runs *)
(* with it, but the operating system may set it back.                      *)
(***************************************************************************)
EXTENDS Integers, Sequences

CONSTANTS Burst,     \* opts.burst
          Refill,    \* opts.refillSec, in ticks
          Second,    \* ticks in a second: waitSec() answers in whole seconds
          MaxElapsed,   \* bound: how long a behaviour lasts
          Steps      \* by how many ticks the clock may be set back

ASSUME BucketAssumption ==
    /\ Burst \in Nat \ {0} /\ Refill \in Nat \ {0} /\ Second \in Nat \ {0}
    /\ MaxElapsed \in Nat /\ Steps \subseteq Nat

VARIABLES elapsed, now,
          level, at,   \* the tokens at the last refill, and when that was
          taken,       \* history: when each transmit was let through
          promised     \* history: <<t>> after waitSec() named the instant t, until the next take()

vars == <<elapsed, now, level, at, taken, promised>>

Full == Burst * Refill

Init ==
    /\ elapsed = 0 /\ now = 0
    /\ level = Full /\ at = 0
    /\ taken = <<>> /\ promised = <<>>

Tick ==
    /\ elapsed < MaxElapsed
    /\ elapsed' = elapsed + 1 /\ now' = now + 1
    /\ UNCHANGED <<level, at, taken, promised>>

\* Mutant: a full bucket goes on banking time.
BankLevel == level + (now - at)

\* What refill() makes of the tokens now.  A full bucket banks no extra time.
Level == IF level + (now - at) > Full THEN Full ELSE level + (now - at)

Refilled(l) == level' = l /\ at' = now

\* take() lets a transmit through.
Take ==
    /\ Level >= Refill
    /\ Refilled(Level - Refill)
    /\ taken' = Append(taken, elapsed)
    /\ promised' = <<>>
    /\ UNCHANGED <<elapsed, now>>

\* take() refuses.
Refuse ==
    /\ Level < Refill
    /\ Refilled(Level)
    /\ UNCHANGED <<elapsed, now, taken, promised>>

\* Mutant: rounded down to whole seconds.
WaitFloor == IF Level >= Refill THEN 0 ELSE ((Refill - Level) \div Second) * Second

\* waitSec(), in ticks: whole seconds, rounded up.
Wait == IF Level >= Refill THEN 0 ELSE ((Refill - Level + Second - 1) \div Second) * Second

WaitSec ==
    /\ Refilled(Level)
    /\ promised' = <<now + Wait>>
    /\ UNCHANGED <<elapsed, now, taken>>

\* The operating system corrects its clock.
SetBack(d) ==
    /\ now' = now - d
    /\ promised' = <<>>
    /\ UNCHANGED <<elapsed, level, at, taken>>

Next == Tick \/ Take \/ Refuse \/ WaitSec \/ \E d \in Steps : d <= now /\ SetBack(d)

Spec == Init /\ [][Next]_vars
----------------------------------------------------------------------------
\* The type invariant: the level may fall below zero when the clock is set back, but never exceeds burst.
TypeOK ==
    /\ elapsed \in Nat /\ now \in Int /\ level \in Int /\ at \in Int
    /\ taken \in Seq(Nat) /\ promised \in Seq(Int)
    /\ level <= Full

(***************************************************************************)
(* The pace: burst transmits at once, then one more every refillSec.  From *)
(* any transmit to any later one there are at most burst of them, plus one *)
(* for every refillSec that passed, also when the clock is set back.       *)
(***************************************************************************)
Paced ==
    \A i, j \in DOMAIN taken : i <= j =>
        (j - i + 1 - Burst) * Refill <= taken[j] - taken[i]

(***************************************************************************)
(* waitSec() is long enough: whoever sleeps for as long as it said finds a *)
(* token, so the pump that sleeps on it never wakes in vain.               *)
(***************************************************************************)
PromiseKept == \A i \in DOMAIN promised : now >= promised[i] => Level >= Refill
============================================================================

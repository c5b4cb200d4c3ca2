--------------------------- MODULE ReliableStream ---------------------------
(***************************************************************************)
(* What a connected link promises its two layer-3 users: the data one end  *)
(* hands over comes out at the other end in the same order, each piece at  *)
(* most once and none skipped, until the link gives up.  Data is numbered  *)
(* in the order it was handed over.                                        *)
(***************************************************************************)
EXTENDS Naturals, Sequences

CONSTANT Station
VARIABLES given,   \* given[s]: how much s's user has handed over
          taken    \* taken[s]: the pieces that have come out at the other end

Init == given = [s \in Station |-> 0] /\ taken = [s \in Station |-> <<>>]

Give(s) == given' = [given EXCEPT ![s] = @ + 1] /\ UNCHANGED taken

\* One step may hand up several pieces, always the next ones.
Take(s) ==
    /\ \E n \in 1..(given[s] - Len(taken[s])) :
          taken' = [taken EXCEPT ![s] = @ \o [i \in 1..n |-> Len(@) + i]]
    /\ UNCHANGED given

Next == \E s \in Station : Give(s) \/ Take(s)

Spec == Init /\ [][Next]_<<given, taken>>
============================================================================

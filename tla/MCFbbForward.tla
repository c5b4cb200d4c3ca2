---------------------------- MODULE MCFbbForward ----------------------------
(* Three messages one way, in two blocks, and one the other way. *)
EXTENDS FbbForward

MCMail == [b \in Box |-> IF b = Caller THEN <<"m1", "m2", "m3">> ELSE <<"r1">>]
=============================================================================

----------------------------- MODULE MCNetromNet -----------------------------
(* Two nodes; B has had one circuit already, so the numbers of a circuit's *)
(* two ends differ.                                                        *)
EXTENDS NetromNet

MCFirst == [n \in Node |-> IF n = A THEN 1 ELSE 2]
=============================================================================

---------------------------- MODULE MCKissServer ----------------------------
(* The clients and the radio ports of the KISS server are interchangeable. *)
EXTENDS KissServer

Symmetry == Permutations(Clients) \cup Permutations(Ports)
============================================================================

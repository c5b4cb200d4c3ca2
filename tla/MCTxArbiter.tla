----------------------------- MODULE MCTxArbiter -----------------------------
(***************************************************************************)
(* TxArbiter for TLC.  Clients and ports are interchangeable: nothing in   *)
(* the arbiter compares them except for equality.                          *)
(***************************************************************************)
EXTENDS TxArbiter

Symmetry == Permutations(Clients) \cup Permutations(Ports)
============================================================================

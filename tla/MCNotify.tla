------------------------------ MODULE MCNotify ------------------------------
(* An instance of Notify for TLC: two agreements and a request for a user   *)
(* who comes back to either server.                                         *)
EXTENDS Notify, TLC

Symmetry == Permutations(Agreements) \cup Permutations(Servers)
=============================================================================

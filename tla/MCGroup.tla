------------------------------ MODULE MCGroup ------------------------------
(* An instance of Group for TLC: two groups, so that a statement without a  *)
(* condition on the group shows.                                            *)
EXTENDS Group, TLC

Symmetry == Permutations(Users) \cup Permutations(Requests)
=============================================================================

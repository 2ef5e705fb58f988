------------------------------ MODULE MCFriend ------------------------------
(* An instance of Friend for TLC: who asks whom is not fixed, so users,     *)
(* requests and checks are interchangeable.                                 *)
EXTENDS Friend, TLC

Symmetry == Permutations(Users) \cup Permutations(Requests)
            \cup Permutations(Checks)
=============================================================================

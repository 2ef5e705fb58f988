-------------------------- MODULE MCGroupDelivery --------------------------
(***************************************************************************)
(* An instance of GroupDelivery for TLC: a message to two members, of whom  *)
(* one may come back, to either server.                                     *)
(***************************************************************************)
EXTENDS GroupDelivery, TLC

CONSTANTS S1, S2

TwoServers == {S1, S2}
Symmetry == Permutations(Receivers)

(* Bound: three logins together, two in a behaviour with a crash.           *)
FewLogins ==
    \A u, v \in Receivers : u # v => login[u] + login[v] + crashes <= 3
=============================================================================

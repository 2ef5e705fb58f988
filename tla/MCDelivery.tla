----------------------------- MODULE MCDelivery -----------------------------
(***************************************************************************)
(* Instances of Delivery for TLC: a sender on the first server and one      *)
(* receiver who connects twice, first to the other server and then to the   *)
(* sender's.                                                                *)
(***************************************************************************)
EXTENDS Delivery

CONSTANTS U, S1, S2, C1, C2

MCUsers == {U}
MCServers == {S1, S2}
MCConns == {C1, C2}
MCReceiver == [m \in Msgs |-> U]
MCOwner == [c \in Conns |-> U]
MCOrigin == [m \in Msgs |-> S1]
Moves == [c \in Conns |-> IF c = C1 THEN S2 ELSE S1]

(* Bound: a behaviour has a crash or a second connection.                   *)
CrashOrMove == crashes > 0 => \E c \in Conns : link[c] = "new"
=============================================================================

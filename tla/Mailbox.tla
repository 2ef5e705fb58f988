------------------------------ MODULE Mailbox ------------------------------
(***************************************************************************)
(* What the comit servers together promise about a chat message between    *)
(* two users: it is confirmed to its sender only after it was stored, it is *)
(* delivered only if it was stored, and it leaves the store only after the  *)
(* receiver has it.  So a confirmed message is never lost, and however      *)
(* often it is sent, the receiver ends up with it once.                     *)
(***************************************************************************)
EXTENDS FiniteSets

CONSTANT Msgs

VARIABLES
    stored,     \* the rows of the table onemessage
    received,   \* the messages in the receivers' own databases
    confirmed   \* the messages whose sender got a successful ack

mailVars == <<stored, received, confirmed>>

Init ==
    /\ stored = {}
    /\ received = {}
    /\ confirmed = {}

Store(m) ==
    /\ m \notin stored \cup received
    /\ stored' = stored \cup {m}
    /\ UNCHANGED <<received, confirmed>>

Confirm(m) ==
    /\ m \in stored \cup received
    /\ confirmed' = confirmed \cup {m}
    /\ UNCHANGED <<stored, received>>

Receive(ms) ==
    /\ ms \subseteq stored \cup received
    /\ received' = received \cup ms
    /\ UNCHANGED <<stored, confirmed>>

Forget(ms) ==
    /\ ms \subseteq received
    /\ stored' = stored \ ms
    /\ UNCHANGED <<received, confirmed>>

Next ==
    \/ \E m \in Msgs : Store(m) \/ Confirm(m)
    \/ \E ms \in SUBSET Msgs : Receive(ms) \/ Forget(ms)

Spec == Init /\ [][Next]_mailVars
=============================================================================

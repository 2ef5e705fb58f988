----------------------------- MODULE RetryQueue -----------------------------
(***************************************************************************)
(* What the acknowledgement manager promises about every message that was  *)
(* pushed to it: the message is sent again at most RetryLimit times, only   *)
(* while it is tracked, and once it is settled - acknowledged, or given up  *)
(* because nobody answers or nobody is there - it is never sent again.      *)
(***************************************************************************)
EXTENDS Naturals

CONSTANTS Msgs, RetryLimit

VARIABLES
    status,     \* "new", "tracked" or "settled"
    resent      \* how often the message was sent again

retryVars == <<status, resent>>

Init ==
    /\ status = [m \in Msgs |-> "new"]
    /\ resent = [m \in Msgs |-> 0]

Track(m) ==
    /\ status[m] = "new"
    /\ status' = [status EXCEPT ![m] = "tracked"]
    /\ UNCHANGED resent

Resend(m) ==
    /\ status[m] = "tracked"
    /\ resent[m] < RetryLimit
    /\ resent' = [resent EXCEPT ![m] = @ + 1]
    /\ UNCHANGED status

Settle(m) ==
    /\ status[m] = "tracked"
    /\ status' = [status EXCEPT ![m] = "settled"]
    /\ UNCHANGED resent

Next == \E m \in Msgs : Track(m) \/ Resend(m) \/ Settle(m)

Spec == Init /\ [][Next]_retryVars
=============================================================================

---------------------------- MODULE FrameStream ----------------------------
(***************************************************************************)
(* What one client connection of the comit server promises to the code     *)
(* that pushes requests to it: the requests whose Write returned nil go     *)
(* out on the socket one at a time, in the order in which they were         *)
(* accepted, none of them twice and none of them skipped, until the stream  *)
(* breaks.  A broken stream sends nothing more; requests accepted before    *)
(* the break, or while it happens, may be lost.                             *)
(***************************************************************************)
EXTENDS Naturals, Sequences

CONSTANT Requests

VARIABLES
    accepted,   \* the requests Write has accepted, in order
    wire,       \* the requests handed to the socket, in order
    broken      \* the loop that feeds the socket has ended

streamVars == <<accepted, wire, broken>>

Init ==
    /\ accepted = <<>>
    /\ wire = <<>>
    /\ broken = FALSE

Accept(r) ==
    /\ accepted' = Append(accepted, r)
    /\ UNCHANGED <<wire, broken>>

Emit ==
    /\ ~broken
    /\ Len(wire) < Len(accepted)
    /\ wire' = Append(wire, accepted[Len(wire) + 1])
    /\ UNCHANGED <<accepted, broken>>

Break ==
    /\ broken' = TRUE
    /\ UNCHANGED <<accepted, wire>>

Next == Emit \/ Break \/ \E r \in Requests : Accept(r)

Spec == Init /\ [][Next]_streamVars
=============================================================================

---------------------------- MODULE MCAckManage ----------------------------
(***************************************************************************)
(* Instances of AckManage for TLC.  Two messages for one user who connects  *)
(* twice is where a stale connection, a stale index and a full channel      *)
(* meet.  The array of the heap is checked beside, over every heap of up to *)
(* six messages and three times.                                            *)
(***************************************************************************)
EXTENDS AckManage, TLC

CONSTANT U

MCUsers == {U}
MCReceiver == [m \in Msgs |-> U]
MCOwner == [c \in Conns |-> U]

MsgConnSymmetry == Permutations(Msgs) \cup Permutations(Conns)

Heap == INSTANCE MinHeap WITH Msgs <- 1 .. 6, Times <- 1 .. 3

(***************************************************************************)
(* The set that AckManage has for its heap is what the array of             *)
(* container/heap amounts to: each operation on any heap is the one on the  *)
(* set (ackmessage.go:40-150).  It is a fact about MinHeap, evaluated once. *)
(***************************************************************************)
HeapSpec == Init => Heap!HeapSpec
=============================================================================

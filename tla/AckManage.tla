----------------------------- MODULE AckManage -----------------------------
(***************************************************************************)
(* The acknowledgement manager of a comit server (comit/manage): the heap   *)
(* of messages that wait for the receiver's acknowledgement, the goroutine  *)
(* TimeLoop that alone touches the heap, the channels through which the     *)
(* handlers reach it, and the table ConManage of the users' connections,    *)
(* which it shares with the handlers that register and remove them.         *)
(*                                                                          *)
(* A message here is one AckMessage: a message identifier together with one *)
(* receiver.  The heap is the set of its members; MinHeap models the array. *)
(* Time is relative: left[m] is how long m is not due yet.                  *)
(***************************************************************************)
EXTENDS Integers, Sequences, FiniteSets

CONSTANTS
    Msgs,        \* messages with their receiver
    Users,
    Conns,       \* connections
    Receiver,    \* the user a message is for
    Owner,       \* the user that logs in on a connection
    NoConn,      \* the table has no connection for the user
    NoMsg,
    RetryDelay,  \* what push adds to the time (5)
    RetryLimit,  \* times a message is sent again (3)
    PushCap,     \* capacity of pushCh (100)
    DelCap,      \* capacity of delCh (100)
    MaxAcks      \* bound: acknowledgements of one message

ASSUME AckAssumption ==
    /\ Receiver \in [Msgs -> Users]
    /\ Owner \in [Conns -> Users]
    /\ NoConn \notin Conns
    /\ NoMsg \notin Msgs
    /\ RetryDelay \in Nat
    /\ RetryLimit \in Nat
    /\ PushCap \in Nat \ {0}
    /\ DelCap \in Nat \ {0}
    /\ MaxAcks \in Nat

VARIABLES
    cons,        \* ConManage: the connection of each user
    stage,       \* each connection: "new", "on", "closed", "gone"
    ctx,         \* con.Ctx: the messages recorded with each connection
    heap,        \* the messages in msgheap
    left,        \* time until Timeout < now
    index,       \* the index field: "in" the heap, "out" (-1), or 0 by default
    ntime,       \* the ntime field
    pushCh,
    delCh,
    tick,        \* the ticker's channel holds a tick
    loop,        \* where TimeLoop is
    rounds,      \* iterations left of its scan
    cur,         \* the message of this iteration
    curCon,      \* the connection this iteration found
    step,        \* where the handler of each message is
    target,      \* the connection that handler found
    sent,        \* history: a Write has accepted the message
    acks,        \* history: acknowledgements of the message that arrived
    resent       \* history: times TimeLoop sent the message again

loopVars == <<tick, loop, rounds, cur, curCon>>
heapVars == <<heap, left, index, ntime>>
handlerVars == <<step, target>>
histVars == <<sent, acks, resent>>
vars == <<cons, stage, ctx, heapVars, pushCh, delCh, loopVars, handlerVars,
          histVars>>

TypeOK ==
    /\ cons \in [Users -> Conns \cup {NoConn}]
    /\ stage \in [Conns -> {"new", "on", "closed", "gone"}]
    /\ ctx \in [Conns -> SUBSET Msgs]
    /\ heap \subseteq Msgs
    /\ left \in [Msgs -> 0 .. RetryDelay + 1]
    /\ index \in [Msgs -> {"in", "out", "zero"}]
    /\ ntime \in [Msgs -> 0 .. RetryLimit + 1]
    /\ pushCh \in Seq(Msgs) /\ Len(pushCh) <= PushCap
    /\ delCh \in Seq(Msgs) /\ Len(delCh) <= DelCap
    /\ tick \in BOOLEAN
    /\ loop \in {"select", "scan", "drop", "write", "push"}
    /\ rounds \in Nat
    /\ cur \in Msgs \cup {NoMsg}
    /\ curCon \in Conns \cup {NoConn}
    /\ step \in [Msgs -> {"new", "push write", "write", "write push", "push", "done"}]
    /\ target \in [Msgs -> Conns \cup {NoConn}]
    /\ sent \in [Msgs -> BOOLEAN]
    /\ acks \in [Msgs -> 0 .. MaxAcks]
    /\ resent \in [Msgs -> 0 .. RetryLimit]

Init ==
    /\ cons = [u \in Users |-> NoConn]
    /\ stage = [c \in Conns |-> "new"]
    /\ ctx = [c \in Conns |-> {}]
    /\ heap = {}
    /\ left = [m \in Msgs |-> 0]
    /\ index = [m \in Msgs |-> "zero"]
    /\ ntime = [m \in Msgs |-> 0]
    /\ pushCh = <<>>
    /\ delCh = <<>>
    /\ tick = FALSE
    /\ loop = "select"
    /\ rounds = 0
    /\ cur = NoMsg
    /\ curCon = NoConn
    /\ step = [m \in Msgs |-> "new"]
    /\ target = [m \in Msgs |-> NoConn]
    /\ sent = [m \in Msgs |-> FALSE]
    /\ acks = [m \in Msgs |-> 0]
    /\ resent = [m \in Msgs |-> 0]

-----------------------------------------------------------------------------
(* Connections.  The client logs in once on each connection; AuthHandle    *)
(* registers it over any earlier one of the user.                           *)

AddConnect(c) ==
    /\ stage[c] = "new"
    /\ stage' = [stage EXCEPT ![c] = "on"]
    /\ cons' = [cons EXCEPT ![Owner[c]] = c]
    /\ UNCHANGED <<ctx, heapVars, pushCh, delCh, loopVars, handlerVars, histVars>>

(* From here on a Write to the connection fails.                            *)
Close(c) ==
    /\ stage[c] = "on"
    /\ stage' = [stage EXCEPT ![c] = "closed"]
    /\ UNCHANGED <<cons, ctx, heapVars, pushCh, delCh, loopVars, handlerVars,
                   histVars>>

(* CloseHandle removes whatever connection the user has in the table.       *)
DeleteConnect(c) ==
    /\ stage[c] = "closed"
    /\ stage' = [stage EXCEPT ![c] = "gone"]
    /\ cons' = [cons EXCEPT ![Owner[c]] = NoConn]
    /\ UNCHANGED <<ctx, heapVars, pushCh, delCh, loopVars, handlerVars, histVars>>

-----------------------------------------------------------------------------
(* The handlers of a message.  OneMessageHandle pushes and then writes,    *)
(* Transfer, for a message from another server, writes and then pushes; a   *)
(* receiver without a connection here is not their concern.                 *)

GetConnect(m) ==
    /\ step[m] = "new"
    /\ cons[Receiver[m]] # NoConn
    /\ target' = [target EXCEPT ![m] = cons[Receiver[m]]]
    /\ \E s \in {"push write", "write push"} : step' = [step EXCEPT ![m] = s]
    /\ UNCHANGED <<cons, stage, ctx, heapVars, pushCh, delCh, loopVars, histVars>>

(* A send to pushCh blocks while it is full.                                *)
Push(m) ==
    /\ step[m] \in {"push write", "push"}
    /\ Len(pushCh) < PushCap
    /\ pushCh' = Append(pushCh, m)
    /\ step' = [step EXCEPT ![m] = IF @ = "push" THEN "done" ELSE "write"]
    /\ UNCHANGED <<cons, stage, ctx, heapVars, delCh, loopVars, target, histVars>>

(* The handlers ignore the error of Write: the connection is closed, or     *)
(* its writeChan is full.                                                   *)
Write(m) ==
    /\ step[m] \in {"write push", "write"}
    /\ step' = [step EXCEPT ![m] = IF @ = "write" THEN "done" ELSE "push"]
    /\ target' = [target EXCEPT ![m] = NoConn]
    /\ \/ stage[target[m]] = "on" /\ sent' = [sent EXCEPT ![m] = TRUE]
       \/ UNCHANGED sent
    /\ UNCHANGED <<cons, stage, ctx, heapVars, pushCh, delCh, loopVars, acks,
                   resent>>

(* The client acknowledges the copies it gets, as often as it likes;        *)
(* AckMesageHandle forwards each acknowledgement to TimeLoop.               *)
Delete(m) ==
    /\ sent[m]
    /\ acks[m] < MaxAcks
    /\ Len(delCh) < DelCap
    /\ acks' = [acks EXCEPT ![m] = @ + 1]
    /\ delCh' = Append(delCh, m)
    /\ UNCHANGED <<cons, stage, ctx, heapVars, pushCh, loopVars, handlerVars,
                   sent, resent>>

-----------------------------------------------------------------------------
(* TimeLoop                                                                *)

Clock ==
    /\ left' = [m \in Msgs |-> IF left[m] = 0 THEN 0 ELSE left[m] - 1]
    /\ tick' = TRUE
    /\ UNCHANGED <<cons, stage, ctx, heap, index, ntime, pushCh, delCh, loop,
                   rounds, cur, curCon, handlerVars, histVars>>

(* push: without a connection of the receiver the message is dropped, but  *)
(* its index has become 0.                                                  *)
PushMsg(m) ==
    LET c == cons[Receiver[m]]
    IN  /\ ntime' = [ntime EXCEPT ![m] = @ + 1]
        /\ left' = [left EXCEPT ![m] = RetryDelay + 1]
        /\ IF c = NoConn
           THEN /\ index' = [index EXCEPT ![m] = "zero"]
                /\ UNCHANGED <<ctx, heap>>
           ELSE /\ index' = [index EXCEPT ![m] = "in"]
                /\ heap' = heap \cup {m}
                /\ ctx' = [ctx EXCEPT ![c] = @ \cup {m}]

Top == {m \in heap : \A k \in heap : left[m] <= left[k]}

(* MinHeap.Delete removes the element at the message's index.  Index -1    *)
(* removes nothing; a 0 that push left on a message outside the heap would  *)
(* remove the top of the heap, or panic when the heap is empty.             *)
Removal(m) ==
    CASE index[m] = "out" -> {{}}
      [] index[m] = "in" -> {{m}}
      [] index[m] = "zero" -> {{t} : t \in Top}

(* Mutant: the index of a removed message is not set to -1.                 *)
RemoveKeepsIndex(m) ==
    \E removed \in Removal(m) :
        /\ heap' = heap \ removed
        /\ UNCHANGED index

(* Mutant: the acknowledgement removes the top of the heap.                 *)
RemoveTop(m) ==
    \E removed \in {{t} : t \in Top} :
        /\ heap' = heap \ removed
        /\ index' = [k \in Msgs |-> IF k \in removed THEN "out" ELSE index[k]]

Remove(m) ==
    \E removed \in Removal(m) :
        /\ heap' = heap \ removed
        /\ index' = [k \in Msgs |-> IF k \in removed THEN "out" ELSE index[k]]

(* delete: only a message recorded with the receiver's present connection   *)
(* is found.                                                                *)
Found(m) ==
    LET c == cons[Receiver[m]] IN c # NoConn /\ m \in ctx[c]

DeleteMsg(m) ==
    IF Found(m)
    THEN /\ ctx' = [ctx EXCEPT ![cons[Receiver[m]]] = @ \ {m}]
         /\ Remove(m)
    ELSE UNCHANGED <<ctx, heap, index>>

(* Mutant: TimeLoop takes nothing from pushCh while it waits for an         *)
(* acknowledgement.                                                         *)
RecvPushWaits ==
    /\ loop = "select"
    /\ heap = {}
    /\ delCh # <<>>
    /\ pushCh # <<>>
    /\ pushCh' = Tail(pushCh)
    /\ PushMsg(Head(pushCh))
    /\ UNCHANGED <<cons, stage, delCh, loopVars, handlerVars, histVars>>

RecvPush ==
    /\ loop = "select"
    /\ pushCh # <<>>
    /\ pushCh' = Tail(pushCh)
    /\ PushMsg(Head(pushCh))
    /\ UNCHANGED <<cons, stage, delCh, loopVars, handlerVars, histVars>>

RecvDelete ==
    /\ loop = "select"
    /\ delCh # <<>>
    /\ delCh' = Tail(delCh)
    /\ DeleteMsg(Head(delCh))
    /\ UNCHANGED <<cons, stage, left, ntime, pushCh, loopVars, handlerVars,
                   histVars>>

(* Mutant: a tick starts no scan.                                           *)
RecvTickIgnored ==
    /\ loop = "select"
    /\ tick
    /\ tick' = FALSE
    /\ UNCHANGED <<cons, stage, ctx, heapVars, pushCh, delCh, loop, rounds, cur,
                   curCon, handlerVars, histVars>>

(* Mutant: the scan counts one round too many (i <= n).                     *)
RecvTickOneMore ==
    /\ loop = "select"
    /\ tick
    /\ tick' = FALSE
    /\ rounds' = Cardinality(heap) + 1
    /\ loop' = "scan"
    /\ UNCHANGED <<cons, stage, ctx, heapVars, pushCh, delCh, cur, curCon,
                   handlerVars, histVars>>

RecvTick ==
    /\ loop = "select"
    /\ tick
    /\ tick' = FALSE
    /\ rounds' = Cardinality(heap)
    /\ loop' = "scan"
    /\ UNCHANGED <<cons, stage, ctx, heapVars, pushCh, delCh, cur, curCon,
                   handlerVars, histVars>>

(* The scan ends after its n rounds, or at the first message not yet due.   *)
ScanEnd ==
    /\ loop = "scan"
    /\ rounds = 0 \/ \E m \in Top : left[m] > 0
    /\ loop' = "select"
    /\ rounds' = 0
    /\ UNCHANGED <<cons, stage, ctx, heapVars, pushCh, delCh, tick, cur, curCon,
                   handlerVars, histVars>>

(* Mutant: the limit on ntime is off by one (ntime > 4 for ntime > 3).      *)
ScanPopOneMore ==
    /\ loop = "scan"
    /\ rounds > 0
    /\ \E m \in Top :
          /\ left[m] = 0
          /\ cur' = m
          /\ heap' = heap \ {m}
          /\ index' = [index EXCEPT ![m] = "out"]
          /\ curCon' = cons[Receiver[m]]
          /\ loop' = IF curCon' = NoConn \/ ntime[m] > RetryLimit + 1
                     THEN "drop" ELSE "write"
    /\ UNCHANGED <<cons, stage, ctx, left, ntime, pushCh, delCh, tick, rounds,
                   handlerVars, histVars>>

ScanPop ==
    /\ loop = "scan"
    /\ rounds > 0
    /\ \E m \in Top :
          /\ left[m] = 0
          /\ cur' = m
          /\ heap' = heap \ {m}
          /\ index' = [index EXCEPT ![m] = "out"]
          /\ curCon' = cons[Receiver[m]]
          /\ loop' = IF curCon' = NoConn \/ ntime[m] > RetryLimit
                     THEN "drop" ELSE "write"
    /\ UNCHANGED <<cons, stage, ctx, left, ntime, pushCh, delCh, tick, rounds,
                   handlerVars, histVars>>

NextRound ==
    /\ loop' = "scan"
    /\ rounds' = rounds - 1
    /\ cur' = NoMsg
    /\ curCon' = NoConn
    /\ UNCHANGED tick

ScanDrop ==
    /\ loop = "drop"
    /\ DeleteMsg(cur)
    /\ NextRound
    /\ UNCHANGED <<cons, stage, left, ntime, pushCh, delCh, handlerVars,
                   histVars>>

(* The message is sent again and will be pushed again; after an error of    *)
(* Write it is not.                                                         *)
ScanWrite ==
    /\ loop = "write"
    /\ \/ /\ stage[curCon] = "on"
          /\ sent' = [sent EXCEPT ![cur] = TRUE]
          /\ resent' = [resent EXCEPT ![cur] = @ + 1]
          /\ loop' = "push"
          /\ UNCHANGED <<tick, rounds, cur, curCon>>
       \/ NextRound /\ UNCHANGED <<sent, resent>>
    /\ UNCHANGED <<cons, stage, ctx, heapVars, pushCh, delCh, handlerVars, acks>>

ScanPush ==
    /\ loop = "push"
    /\ PushMsg(cur)
    /\ NextRound
    /\ UNCHANGED <<cons, stage, pushCh, delCh, handlerVars, histVars>>

-----------------------------------------------------------------------------
Scanning == ScanEnd \/ ScanPop \/ ScanDrop \/ ScanWrite \/ ScanPush

Next ==
    \/ \E c \in Conns : AddConnect(c) \/ Close(c) \/ DeleteConnect(c)
    \/ \E m \in Msgs : GetConnect(m) \/ Push(m) \/ Write(m) \/ Delete(m)
    \/ Clock
    \/ RecvPush \/ RecvDelete \/ RecvTick
    \/ Scanning

Spec == Init /\ [][Next]_vars

(***************************************************************************)
(* Go's select takes a case that stays ready sooner or later; a handler     *)
(* that can go on does.  Clients owe nothing.                               *)
(***************************************************************************)
Fairness ==
    /\ WF_vars(Clock)
    /\ WF_vars(Scanning)
    /\ SF_vars(RecvPush)
    /\ SF_vars(RecvDelete)
    /\ SF_vars(RecvTick)
    /\ \A m \in Msgs : SF_vars(Push(m)) /\ WF_vars(Write(m))

FairSpec == Spec /\ Fairness

-----------------------------------------------------------------------------
(* Properties                                                              *)

Queued(m) == \E i \in DOMAIN pushCh : pushCh[i] = m
Pushed(m) == step[m] \in {"write", "done"}
Tracked(m) == Queued(m) \/ m \in heap \/ (cur = m /\ loop \in {"write", "push"})

(* The index field tells the truth about membership in the heap, and the   *)
(* misleading 0 that push leaves on a message without a connection is never *)
(* found again through the connection its user has now.                     *)
HeapIndexed == \A m \in Msgs : m \in heap <=> index[m] = "in"

ConsTrue ==
    \A u \in Users : cons[u] # NoConn =>
        Owner[cons[u]] = u /\ stage[cons[u]] # "new"

CtxTrue ==
    \A c \in Conns :
        /\ stage[c] = "new" => ctx[c] = {}
        /\ \A m \in ctx[c] : Receiver[m] = Owner[c]

FoundTrue ==
    \A u \in Users : cons[u] # NoConn =>
        \A m \in ctx[cons[u]] : index[m] # "zero"

IndexTrue == HeapIndexed /\ ConsTrue /\ CtxTrue /\ FoundTrue

(* A message is in one place only, and ntime counts what was sent of it.    *)
QueueTrue ==
    /\ \A i, j \in DOMAIN pushCh : pushCh[i] = pushCh[j] => i = j
    /\ \A m \in Msgs : Queued(m) => Pushed(m) /\ m \notin heap /\ cur # m

Untouched ==
    \A m \in Msgs : Queued(m) \/ ~Pushed(m) =>
        ntime[m] = 0 /\ resent[m] = 0 /\ index[m] = "zero"

HeapTrue ==
    \A m \in heap : Pushed(m) /\ cur # m /\ ntime[m] = resent[m] + 1

CurTrue ==
    /\ loop \in {"drop", "write", "push"} <=> cur # NoMsg
    /\ cur # NoMsg => Pushed(cur) /\ index[cur] = "out" /\ rounds > 0
    /\ loop = "write" => /\ curCon # NoConn
                         /\ ntime[cur] = resent[cur] + 1
                         /\ ntime[cur] <= RetryLimit
    /\ loop = "push" => ntime[cur] = resent[cur] /\ ntime[cur] <= RetryLimit

OnePlace == QueueTrue /\ Untouched /\ HeapTrue /\ CurTrue

(* The scan never asks for more messages than the heap holds.               *)
RoundsLeft ==
    /\ IsFiniteSet(heap)
    /\ rounds <= Cardinality(heap) + IF cur = NoMsg THEN 0 ELSE 1
    /\ loop = "select" => rounds = 0

(* What TimeLoop is to delete was acknowledged.                             *)
AcksCounted == \A i \in DOMAIN delCh : acks[delCh[i]] > 0

AckInv == TypeOK /\ IndexTrue /\ OnePlace /\ RoundsLeft /\ AcksCounted

(* No acknowledgement ever takes another message out of the heap, and      *)
(* neither a deletion nor the scan reaches into an empty heap, which would  *)
(* panic and end the server.                                                *)
HeapInBounds ==
    /\ \A m \in Msgs : Found(m) => index[m] # "zero"
    /\ loop = "scan" /\ rounds > 0 => heap # {}

(* TimeLoop stops waiting for a message only if its acknowledgement came,  *)
(* its receiver has no connection, it was sent RetryLimit times again, or   *)
(* Write refused it.                                                        *)
DroppedForCause ==
    [][\A m \in Msgs : Tracked(m) /\ ~Tracked(m)' =>
          \/ acks[m] > 0
          \/ cons[Receiver[m]] = NoConn
          \/ ntime[m] > RetryLimit
          \/ loop = "write" /\ cur = m]_vars

(* An acknowledgement that finds its message through the receiver's        *)
(* connection ends the retries of that message: it is then in the heap, not *)
(* in pushCh or between two places.  One that comes before the message is   *)
(* out of pushCh, or after the receiver has reconnected, finds nothing and  *)
(* is lost.                                                                 *)
AckEndsRetries ==
    [][\A m \in Msgs :
          RecvDelete /\ Head(delCh) = m /\ Found(m) => ~Tracked(m)']_vars

(* TimeLoop does not retry for ever: every message it tracks it gives up   *)
(* or finds acknowledged (and by RetrySpec never takes up again).           *)
RetriesEnd == \A m \in Msgs : Tracked(m) ~> ~Tracked(m)

(* A handler that pushes is never blocked for ever by a full pushCh.        *)
HandlersReturn == \A m \in Msgs : step[m] # "new" ~> step[m] = "done"

(* The manager implements RetryQueue.                                       *)
Status(m) ==
    IF ~Pushed(m) THEN "new" ELSE IF Tracked(m) THEN "tracked" ELSE "settled"

Retry == INSTANCE RetryQueue WITH status <- [m \in Msgs |-> Status(m)]
RetrySpec == Retry!Spec
=============================================================================

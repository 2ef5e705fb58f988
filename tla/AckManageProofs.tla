-------------------------- MODULE AckManageProofs --------------------------
(***************************************************************************)
(* Proofs about AckManage, for every number of messages, users and          *)
(* connections, every capacity and every limit of retries.  The invariant   *)
(* is AckInv; each of its parts has a lemma that goes through the actions   *)
(* one by one.  The last theorem is that the manager implements RetryQueue. *)
(***************************************************************************)
EXTENDS AckManage, SequenceTheorems, FiniteSetTheorems, TLAPS

(* What a channel holds, and that it holds nothing twice.                   *)
Holds(s, x) == \E i \in DOMAIN s : s[i] = x
NoTwice(s) == \A i, j \in DOMAIN s : s[i] = s[j] => i = j

LEMMA ChanSend ==
    ASSUME NEW S, NEW s \in Seq(S), NEW x \in S
    PROVE  /\ Append(s, x) \in Seq(S)
           /\ Len(Append(s, x)) = Len(s) + 1
           /\ \A y : Holds(Append(s, x), y) <=> Holds(s, y) \/ y = x
           /\ NoTwice(s) /\ ~Holds(s, x) => NoTwice(Append(s, x))
<1>1. /\ Append(s, x) \in Seq(S) /\ Len(Append(s, x)) = Len(s) + 1
      /\ \A i \in 1 .. Len(s) : Append(s, x)[i] = s[i]
      /\ Append(s, x)[Len(s) + 1] = x
    BY AppendProperties
<1>2. /\ Len(s) \in Nat /\ DOMAIN s = 1 .. Len(s)
      /\ DOMAIN Append(s, x) = 1 .. Len(s) + 1
    BY <1>1, LenProperties
<1>3. \A y : Holds(Append(s, x), y) <=> Holds(s, y) \/ y = x
    BY <1>1, <1>2 DEF Holds
<1>4. NoTwice(s) /\ ~Holds(s, x) => NoTwice(Append(s, x))
    BY <1>1, <1>2 DEF Holds, NoTwice
<1> QED
    BY <1>1, <1>3, <1>4

LEMMA ChanReceive ==
    ASSUME NEW S, NEW s \in Seq(S), s # <<>>
    PROVE  /\ Head(s) \in S /\ Holds(s, Head(s))
           /\ Tail(s) \in Seq(S)
           /\ Len(Tail(s)) = Len(s) - 1
           /\ \A y : Holds(s, y) <=> Holds(Tail(s), y) \/ y = Head(s)
           /\ NoTwice(s) => NoTwice(Tail(s)) /\ ~Holds(Tail(s), Head(s))
<1>1. /\ Len(s) \in Nat /\ Len(s) > 0 /\ Head(s) = s[1] /\ Head(s) \in S
      /\ DOMAIN s = 1 .. Len(s)
    BY EmptySeq, LenProperties, ElementOfSeq
<1>2. /\ Tail(s) \in Seq(S) /\ Len(Tail(s)) = Len(s) - 1
      /\ \A i \in 1 .. Len(Tail(s)) : Tail(s)[i] = s[i + 1]
      /\ DOMAIN Tail(s) = 1 .. Len(s) - 1
    BY HeadTailProperties, LenProperties
<1>3. ASSUME NEW i \in 1 .. Len(s), i # 1
      PROVE  i - 1 \in 1 .. Len(s) - 1 /\ s[i] = Tail(s)[i - 1]
    BY <1>1, <1>2, <1>3
<1>4. ASSUME NEW y PROVE Holds(s, y) <=> Holds(Tail(s), y) \/ y = Head(s)
  <2>1. Holds(s, y) => Holds(Tail(s), y) \/ y = Head(s)
    BY <1>1, <1>2, <1>3 DEF Holds
  <2>2. Holds(Tail(s), y) => Holds(s, y)
    BY <1>1, <1>2 DEF Holds
  <2>3. Holds(s, Head(s))
    BY <1>1 DEF Holds
  <2> QED
    BY <2>1, <2>2, <2>3
<1>5. NoTwice(s) => NoTwice(Tail(s)) /\ ~Holds(Tail(s), Head(s))
    BY <1>1, <1>2 DEF Holds, NoTwice
<1> QED
    BY <1>1, <1>2, <1>4, <1>5

(* What TimeLoop takes out of its channels, and what the handlers put in.   *)
LEMMA PoppedQueue ==
    ASSUME TypeOK, QueueTrue, pushCh # <<>>, pushCh' = Tail(pushCh)
    PROVE  /\ Head(pushCh) \in Msgs /\ Queued(Head(pushCh))
           /\ pushCh' \in Seq(Msgs) /\ Len(pushCh') <= PushCap
           /\ NoTwice(pushCh')
           /\ \A m \in Msgs : Queued(m)' <=> Queued(m) /\ m # Head(pushCh)
<1>1. pushCh \in Seq(Msgs) /\ Len(pushCh) <= PushCap
    BY DEF TypeOK
<1>2. Len(pushCh) \in Nat /\ PushCap \in Nat
    BY <1>1, LenProperties, AckAssumption
<1>3. NoTwice(pushCh)
    BY DEF QueueTrue, NoTwice
<1>4. \A m : Queued(m) <=> Holds(pushCh, m)
    BY DEF Queued, Holds
<1>5. \A m : Queued(m)' <=> Holds(Tail(pushCh), m)
    BY DEF Queued, Holds
<1> QED
    BY <1>1, <1>2, <1>3, <1>4, <1>5, ChanReceive

LEMMA PushedQueue ==
    ASSUME TypeOK, QueueTrue, NEW n \in Msgs, ~Queued(n),
           Len(pushCh) < PushCap, pushCh' = Append(pushCh, n)
    PROVE  /\ pushCh' \in Seq(Msgs) /\ Len(pushCh') <= PushCap
           /\ NoTwice(pushCh')
           /\ \A m \in Msgs : Queued(m)' <=> Queued(m) \/ m = n
<1>1. pushCh \in Seq(Msgs)
    BY DEF TypeOK
<1>2. Len(pushCh) \in Nat /\ PushCap \in Nat
    BY <1>1, LenProperties, AckAssumption
<1>3. NoTwice(pushCh)
    BY DEF QueueTrue, NoTwice
<1>4. \A m : Queued(m) <=> Holds(pushCh, m)
    BY DEF Queued, Holds
<1>5. \A m : Queued(m)' <=> Holds(Append(pushCh, n), m)
    BY DEF Queued, Holds
<1> QED
    BY <1>1, <1>2, <1>3, <1>4, <1>5, ChanSend

LEMMA HeadAcked ==
    ASSUME TypeOK, AcksCounted, delCh # <<>>
    PROVE  /\ Head(delCh) \in Msgs /\ acks[Head(delCh)] > 0
           /\ Tail(delCh) \in Seq(Msgs) /\ Len(Tail(delCh)) <= DelCap
           /\ \A m : Holds(Tail(delCh), m) => Holds(delCh, m)
<1>1. delCh \in Seq(Msgs) /\ Len(delCh) <= DelCap
    BY DEF TypeOK
<1>2. Len(delCh) \in Nat /\ DelCap \in Nat
    BY <1>1, LenProperties, AckAssumption
<1>3. Holds(delCh, Head(delCh))
    BY <1>1, ChanReceive
<1>4. acks[Head(delCh)] > 0
    BY <1>3 DEF AcksCounted, Holds
<1> QED
    BY <1>1, <1>2, <1>4, ChanReceive

(* A connection in the table, and the user it is for.                       *)
LEMMA ConOf ==
    ASSUME TypeOK, ConsTrue, NEW m \in Msgs, cons[Receiver[m]] # NoConn
    PROVE  /\ Receiver[m] \in Users /\ cons[Receiver[m]] \in Conns
           /\ Owner[cons[Receiver[m]]] = Receiver[m]
           /\ stage[cons[Receiver[m]]] # "new"
<1>1. Receiver[m] \in Users
    BY AckAssumption
<1>2. cons[Receiver[m]] \in Conns
    BY <1>1 DEF TypeOK
<1> QED
    BY <1>1, <1>2 DEF ConsTrue

(* A deletion removes its own message from the heap, or nothing.            *)
LEMMA DeleteEffect ==
    ASSUME TypeOK, IndexTrue, NEW m \in Msgs, DeleteMsg(m)
    PROVE  /\ ctx' \in [Conns -> SUBSET Msgs]
           /\ \A c \in Conns : ctx'[c] \subseteq ctx[c]
           /\ \/ heap' = heap /\ index' = index
              \/ /\ m \in heap /\ heap' = heap \ {m}
                 /\ index' = [index EXCEPT ![m] = "out"]
           /\ Found(m) => m \notin heap' /\ index[m] # "zero"
<1>1. /\ ctx \in [Conns -> SUBSET Msgs] /\ heap \subseteq Msgs
      /\ index \in [Msgs -> {"in", "out", "zero"}]
    BY DEF TypeOK
<1>2. CASE ~Found(m)
    BY <1>1, <1>2 DEF DeleteMsg
<1>3. CASE Found(m)
  <2>1. cons[Receiver[m]] \in Conns /\ index[m] # "zero"
    BY <1>3, ConOf DEF Found, IndexTrue, FoundTrue
  <2>2. /\ ctx' \in [Conns -> SUBSET Msgs]
        /\ \A c \in Conns : ctx'[c] \subseteq ctx[c]
    BY <1>1, <1>3, <2>1 DEF DeleteMsg
  <2>3. PICK removed \in Removal(m) :
          /\ heap' = heap \ removed
          /\ index' = [k \in Msgs |-> IF k \in removed THEN "out" ELSE index[k]]
    BY <1>3 DEF DeleteMsg, Remove
  <2>4. m \in heap <=> index[m] = "in"
    BY DEF IndexTrue, HeapIndexed
  <2>5. CASE index[m] = "out"
    <3>1. removed = {}
      BY <2>3, <2>5 DEF Removal
    <3>2. heap' = heap
      BY <2>3, <3>1
    <3>3. index' = index
      BY <1>1, <2>3, <3>1
    <3> QED
      BY <2>1, <2>2, <2>4, <2>5, <3>2, <3>3
  <2>6. CASE index[m] = "in"
    <3>1. removed = {m}
      BY <2>3, <2>6 DEF Removal
    <3>2. index' = [index EXCEPT ![m] = "out"]
      BY <1>1, <2>3, <3>1
    <3>3. heap' = heap \ {m} /\ m \notin heap'
      BY <2>3, <3>1
    <3> QED
      BY <2>1, <2>2, <2>4, <2>6, <3>2, <3>3
  <2> QED
    BY <1>1, <2>1, <2>5, <2>6
<1> QED
    BY <1>2, <1>3

(* What a push does to the heap, the index and the connections.             *)
LEMMA PushEffect ==
    ASSUME TypeOK, ConsTrue, NEW m \in Msgs, PushMsg(m)
    PROVE  \/ /\ cons[Receiver[m]] = NoConn /\ heap' = heap /\ ctx' = ctx
              /\ index' = [index EXCEPT ![m] = "zero"]
           \/ /\ cons[Receiver[m]] \in Conns /\ heap' = heap \cup {m}
              /\ index' = [index EXCEPT ![m] = "in"]
              /\ ctx' = [ctx EXCEPT ![cons[Receiver[m]]] =
                            ctx[cons[Receiver[m]]] \cup {m}]
BY ConOf DEF PushMsg

LEMMA PushTypes ==
    ASSUME TypeOK, ConsTrue, NEW m \in Msgs, PushMsg(m), ntime[m] <= RetryLimit
    PROVE  /\ heap' \subseteq Msgs /\ ctx' \in [Conns -> SUBSET Msgs]
           /\ index' \in [Msgs -> {"in", "out", "zero"}]
           /\ ntime' \in [Msgs -> 0 .. RetryLimit + 1]
           /\ left' \in [Msgs -> 0 .. RetryDelay + 1]
<1>1. /\ ctx \in [Conns -> SUBSET Msgs] /\ heap \subseteq Msgs
      /\ index \in [Msgs -> {"in", "out", "zero"}]
    BY DEF TypeOK
<1>2. ntime' \in [Msgs -> 0 .. RetryLimit + 1]
  <2>1. ntime \in [Msgs -> 0 .. RetryLimit + 1] /\ RetryLimit \in Nat
    BY AckAssumption DEF TypeOK
  <2>2. ntime' = [ntime EXCEPT ![m] = ntime[m] + 1]
    BY DEF PushMsg
  <2> QED
    BY <2>1, <2>2
<1>3. left' \in [Msgs -> 0 .. RetryDelay + 1]
  <2>1. left \in [Msgs -> 0 .. RetryDelay + 1] /\ RetryDelay \in Nat
    BY AckAssumption DEF TypeOK
  <2>2. left' = [left EXCEPT ![m] = RetryDelay + 1]
    BY DEF PushMsg
  <2> QED
    BY <2>1, <2>2
<1>4. /\ heap' \subseteq Msgs /\ ctx' \in [Conns -> SUBSET Msgs]
      /\ index' \in [Msgs -> {"in", "out", "zero"}]
    BY <1>1, PushEffect
<1> QED
    BY <1>2, <1>3, <1>4

LEMMA RoundsPositive ==
    ASSUME TypeOK, rounds > 0, NextRound
    PROVE  rounds' \in Nat /\ rounds' = rounds - 1
<1>1. rounds \in Nat /\ rounds' = rounds - 1
    BY DEF TypeOK, NextRound
<1> QED
    BY <1>1

LEMMA CtxPush ==
    ASSUME TypeOK, ConsTrue, CtxTrue, NEW m \in Msgs, PushMsg(m), UNCHANGED stage
    PROVE  CtxTrue'
<1>1. ctx \in [Conns -> SUBSET Msgs]
    BY DEF TypeOK
<1>2. CASE ctx' = ctx
    BY <1>2 DEF CtxTrue
<1>3. CASE cons[Receiver[m]] # NoConn /\ ctx' # ctx
  <2> DEFINE c == cons[Receiver[m]]
  <2>1. c \in Conns /\ Owner[c] = Receiver[m] /\ stage[c] # "new"
    BY <1>3, ConOf
  <2>2. ctx' = [ctx EXCEPT ![c] = ctx[c] \cup {m}]
    BY <1>3, PushEffect
  <2> QED
    BY <1>1, <2>1, <2>2 DEF CtxTrue
<1> QED
    BY <1>2, <1>3, PushEffect, AckAssumption

(* A push without a connection leaves an index of zero, but on a message    *)
(* no connection in the table has: all of them have another owner.          *)
LEMMA FoundPush ==
    ASSUME TypeOK, ConsTrue, CtxTrue, FoundTrue, NEW m \in Msgs, PushMsg(m),
           UNCHANGED cons
    PROVE  FoundTrue'
<1>1. /\ ctx \in [Conns -> SUBSET Msgs] /\ NoConn \notin Conns
      /\ cons \in [Users -> Conns \cup {NoConn}]
      /\ index \in [Msgs -> {"in", "out", "zero"}]
    BY AckAssumption DEF TypeOK
<1> SUFFICES ASSUME NEW u \in Users, cons[u] # NoConn, NEW k \in ctx'[cons[u]]
             PROVE  index'[k] # "zero"
    BY DEF FoundTrue
<1>2. cons[u] \in Conns
    BY <1>1
<1>3. CASE ctx' = ctx /\ index' = [index EXCEPT ![m] = "zero"] /\ cons[Receiver[m]] = NoConn
  <2>1. k \in ctx[cons[u]] /\ k \in Msgs
    BY <1>1, <1>2, <1>3
  <2>2. Receiver[k] = u
    BY <1>2, <2>1 DEF CtxTrue, ConsTrue
  <2>3. k # m
    BY <1>3, <2>2
  <2> QED
    BY <1>1, <1>3, <2>1, <2>3 DEF FoundTrue
<1>4. CASE /\ index' = [index EXCEPT ![m] = "in"] /\ cons[Receiver[m]] \in Conns
           /\ ctx' = [ctx EXCEPT ![cons[Receiver[m]]] =
                         ctx[cons[Receiver[m]]] \cup {m}]
  <2>1. k = m \/ k \in ctx[cons[u]]
    BY <1>1, <1>2, <1>4
  <2> QED
    BY <1>1, <1>2, <1>4, <2>1 DEF FoundTrue
<1> QED
    BY <1>3, <1>4, PushEffect

LEMMA FoundDelete ==
    ASSUME TypeOK, IndexTrue, NEW m \in Msgs, DeleteMsg(m), UNCHANGED cons
    PROVE  FoundTrue'
<1>1. /\ NoConn \notin Conns /\ cons \in [Users -> Conns \cup {NoConn}]
      /\ index \in [Msgs -> {"in", "out", "zero"}]
      /\ ctx \in [Conns -> SUBSET Msgs]
    BY AckAssumption DEF TypeOK
<1>2. /\ \A c \in Conns : ctx'[c] \subseteq ctx[c]
      /\ \A k \in Msgs : index'[k] = index[k] \/ index'[k] = "out"
    BY <1>1, DeleteEffect
<1> QED
    BY <1>1, <1>2 DEF FoundTrue, IndexTrue

(* The types.                                                               *)
LEMMA TypeStep ==
    ASSUME TypeOK, IndexTrue, OnePlace, RoundsLeft, AcksCounted, [Next]_vars
    PROVE  TypeOK'
<1>1. ASSUME NEW c \in Conns, AddConnect(c) PROVE TypeOK'
    BY <1>1, AckAssumption DEF AddConnect, TypeOK, heapVars, loopVars,
       handlerVars, histVars
<1>2. ASSUME NEW c \in Conns, Close(c) PROVE TypeOK'
    BY <1>2, AckAssumption DEF Close, TypeOK, heapVars, loopVars, handlerVars,
       histVars
<1>3. ASSUME NEW c \in Conns, DeleteConnect(c) PROVE TypeOK'
    BY <1>3, AckAssumption DEF DeleteConnect, TypeOK, heapVars, loopVars,
       handlerVars, histVars
<1>4. ASSUME NEW m \in Msgs, GetConnect(m) PROVE TypeOK'
  <2>1. /\ target' \in [Msgs -> Conns \cup {NoConn}]
        /\ step' \in [Msgs -> {"new", "push write", "write", "write push", "push", "done"}]
    <3>1. cons[Receiver[m]] \in Conns
      BY <1>4, ConOf DEF GetConnect, IndexTrue
    <3>2. target' \in [Msgs -> Conns \cup {NoConn}]
      BY <1>4, <3>1 DEF GetConnect, TypeOK
    <3>3. PICK s \in {"push write", "write push"} : step' = [step EXCEPT ![m] = s]
      BY <1>4 DEF GetConnect
    <3> QED
      BY <3>2, <3>3 DEF TypeOK
  <2> QED
    BY <1>4, <2>1 DEF GetConnect, TypeOK, heapVars, loopVars, histVars
<1>5. ASSUME NEW m \in Msgs, Push(m) PROVE TypeOK'
  <2>1. ~Queued(m)
    BY <1>5 DEF Push, OnePlace, QueueTrue, Pushed
  <2>2. pushCh' \in Seq(Msgs) /\ Len(pushCh') <= PushCap
    BY <1>5, <2>1, PushedQueue DEF Push, OnePlace
  <2>3. step' \in [Msgs -> {"new", "push write", "write", "write push", "push", "done"}]
    BY <1>5 DEF Push, TypeOK
  <2> QED
    BY <1>5, <2>2, <2>3 DEF Push, TypeOK, heapVars, loopVars, histVars
<1>6. ASSUME NEW m \in Msgs, Write(m) PROVE TypeOK'
    BY <1>6, AckAssumption DEF Write, TypeOK, heapVars, loopVars, handlerVars,
       histVars
<1>7. ASSUME NEW m \in Msgs, Delete(m) PROVE TypeOK'
  <2>1. delCh \in Seq(Msgs) /\ Len(delCh) \in Nat /\ DelCap \in Nat
    BY LenProperties, AckAssumption DEF TypeOK
  <2>2. delCh' \in Seq(Msgs) /\ Len(delCh') <= DelCap
    BY <1>7, <2>1, ChanSend DEF Delete
  <2>3. acks' \in [Msgs -> 0 .. MaxAcks]
    <3>1. /\ acks \in [Msgs -> 0 .. MaxAcks] /\ MaxAcks \in Nat
          /\ acks[m] < MaxAcks /\ acks' = [acks EXCEPT ![m] = acks[m] + 1]
      BY <1>7, AckAssumption DEF Delete, TypeOK
    <3> QED
      BY <3>1
  <2> QED
    BY <1>7, <2>2, <2>3 DEF Delete, TypeOK, heapVars, loopVars, handlerVars
<1>8. CASE Clock
  <2>1. left' \in [Msgs -> 0 .. RetryDelay + 1]
    <3>1. /\ left \in [Msgs -> 0 .. RetryDelay + 1] /\ RetryDelay \in Nat
          /\ left' = [m \in Msgs |-> IF left[m] = 0 THEN 0 ELSE left[m] - 1]
      BY <1>8, AckAssumption DEF Clock, TypeOK
    <3> QED
      BY <3>1
  <2>2. tick' \in BOOLEAN
    BY <1>8 DEF Clock
  <2> QED
    BY <1>8, <2>1, <2>2 DEF Clock, TypeOK, handlerVars, histVars
<1>9. CASE RecvPush
  <2>1. /\ Head(pushCh) \in Msgs /\ Queued(Head(pushCh))
        /\ pushCh' \in Seq(Msgs) /\ Len(pushCh') <= PushCap
    BY <1>9, PoppedQueue DEF RecvPush, OnePlace
  <2>2. ntime[Head(pushCh)] <= RetryLimit
    BY <2>1, AckAssumption DEF OnePlace, Untouched
  <2>3. PushMsg(Head(pushCh))
    BY <1>9 DEF RecvPush
  <2> QED
    BY <1>9, <2>1, <2>2, <2>3, PushTypes DEF RecvPush, TypeOK, IndexTrue,
       loopVars, handlerVars, histVars
<1>10. CASE RecvDelete
  <2>1. /\ Head(delCh) \in Msgs
        /\ delCh' \in Seq(Msgs) /\ Len(delCh') <= DelCap
    BY <1>10, HeadAcked DEF RecvDelete
  <2>2. DeleteMsg(Head(delCh))
    BY <1>10 DEF RecvDelete
  <2>3. /\ ctx' \in [Conns -> SUBSET Msgs] /\ heap' \subseteq Msgs
        /\ index' \in [Msgs -> {"in", "out", "zero"}]
    BY <2>1, <2>2, DeleteEffect DEF TypeOK
  <2> QED
    BY <1>10, <2>1, <2>3 DEF RecvDelete, TypeOK, loopVars, handlerVars,
       histVars
<1>11. CASE RecvTick
  <2>1. rounds' \in Nat
    BY <1>11, FS_CardinalityType DEF RecvTick, RoundsLeft
  <2> QED
    BY <1>11, <2>1 DEF RecvTick, TypeOK, heapVars, handlerVars, histVars
<1>12. CASE ScanEnd
    BY <1>12, AckAssumption DEF ScanEnd, TypeOK, heapVars, loopVars,
       handlerVars, histVars
<1>13. CASE ScanPop
  <2>1. PICK m \in Top : /\ cur' = m /\ heap' = heap \ {m}
                         /\ index' = [index EXCEPT ![m] = "out"]
                         /\ curCon' = cons[Receiver[m]]
    BY <1>13 DEF ScanPop
  <2>2. m \in Msgs /\ Receiver[m] \in Users
    BY AckAssumption DEF Top, TypeOK
  <2>3. /\ heap' \subseteq Msgs /\ cur' \in Msgs
        /\ index' \in [Msgs -> {"in", "out", "zero"}]
        /\ curCon' \in Conns \cup {NoConn}
    BY <2>1, <2>2 DEF TypeOK
  <2>4. loop' \in {"drop", "write"}
    BY <1>13 DEF ScanPop
  <2> QED
    BY <1>13, <2>3, <2>4 DEF ScanPop, TypeOK, handlerVars, histVars
<1>14. CASE ScanDrop
  <2>1. cur \in Msgs /\ rounds > 0 /\ DeleteMsg(cur)
    BY <1>14 DEF ScanDrop, TypeOK, OnePlace, CurTrue
  <2>2. /\ ctx' \in [Conns -> SUBSET Msgs] /\ heap' \subseteq Msgs
        /\ index' \in [Msgs -> {"in", "out", "zero"}]
    BY <2>1, DeleteEffect DEF TypeOK
  <2>3. rounds' \in Nat
    BY <1>14, <2>1, RoundsPositive DEF ScanDrop
  <2> QED
    BY <1>14, <2>2, <2>3 DEF ScanDrop, NextRound, TypeOK, handlerVars,
       histVars
<1>15. CASE ScanWrite
  <2>1. cur \in Msgs /\ rounds > 0 /\ resent[cur] + 1 <= RetryLimit
    BY <1>15 DEF ScanWrite, TypeOK, OnePlace, CurTrue
  <2>2. CASE NextRound /\ UNCHANGED <<sent, resent>>
    <3>1. rounds' \in Nat
      BY <2>1, <2>2, RoundsPositive
    <3> QED
      BY <1>15, <2>2, <3>1 DEF ScanWrite, NextRound, TypeOK, heapVars,
         handlerVars
  <2>3. CASE ~(NextRound /\ UNCHANGED <<sent, resent>>)
    <3>1. /\ sent' = [sent EXCEPT ![cur] = TRUE]
          /\ resent' = [resent EXCEPT ![cur] = resent[cur] + 1]
          /\ loop' = "push" /\ UNCHANGED <<tick, rounds, cur, curCon>>
      BY <1>15, <2>3 DEF ScanWrite
    <3>2. resent \in [Msgs -> 0 .. RetryLimit] /\ RetryLimit \in Nat
      BY AckAssumption DEF TypeOK
    <3>3. resent' \in [Msgs -> 0 .. RetryLimit]
      BY <2>1, <3>1, <3>2
    <3>4. sent' \in [Msgs -> BOOLEAN]
      BY <3>1 DEF TypeOK
    <3> QED
      BY <1>15, <3>1, <3>3, <3>4 DEF ScanWrite, TypeOK, heapVars, handlerVars
  <2> QED
    BY <2>2, <2>3
<1>16. CASE ScanPush
  <2>1. /\ cur \in Msgs /\ rounds > 0 /\ ntime[cur] <= RetryLimit
        /\ PushMsg(cur)
    BY <1>16 DEF ScanPush, TypeOK, OnePlace, CurTrue
  <2>2. rounds' \in Nat
    BY <1>16, <2>1, RoundsPositive DEF ScanPush
  <2> QED
    BY <1>16, <2>1, <2>2, PushTypes DEF ScanPush, NextRound, TypeOK,
       IndexTrue, handlerVars, histVars
<1>17. CASE UNCHANGED vars
    BY <1>17 DEF vars, TypeOK, heapVars, loopVars, handlerVars, histVars
<1> QED
    BY <1>1, <1>2, <1>3, <1>4, <1>5, <1>6, <1>7, <1>8, <1>9, <1>10, <1>11,
       <1>12, <1>13, <1>14, <1>15, <1>16, <1>17 DEF Next, Scanning

(* The index tells who is in the heap.                                      *)
LEMMA HeapIndexedStep ==
    ASSUME TypeOK, IndexTrue, OnePlace, RoundsLeft, AcksCounted, [Next]_vars
    PROVE  HeapIndexed'
<1>a. heap \subseteq Msgs /\ index \in [Msgs -> {"in", "out", "zero"}]
    BY DEF TypeOK
<1>1. ASSUME NEW c \in Conns, AddConnect(c) PROVE HeapIndexed'
    BY <1>1 DEF AddConnect, IndexTrue, HeapIndexed, heapVars
<1>2. ASSUME NEW c \in Conns, Close(c) PROVE HeapIndexed'
    BY <1>2 DEF Close, IndexTrue, HeapIndexed, heapVars
<1>3. ASSUME NEW c \in Conns, DeleteConnect(c) PROVE HeapIndexed'
    BY <1>3 DEF DeleteConnect, IndexTrue, HeapIndexed, heapVars
<1>4. ASSUME NEW m \in Msgs, GetConnect(m) PROVE HeapIndexed'
    BY <1>4 DEF GetConnect, IndexTrue, HeapIndexed, heapVars
<1>5. ASSUME NEW m \in Msgs, Push(m) PROVE HeapIndexed'
    BY <1>5 DEF Push, IndexTrue, HeapIndexed, heapVars
<1>6. ASSUME NEW m \in Msgs, Write(m) PROVE HeapIndexed'
    BY <1>6 DEF Write, IndexTrue, HeapIndexed, heapVars
<1>7. ASSUME NEW m \in Msgs, Delete(m) PROVE HeapIndexed'
    BY <1>7 DEF Delete, IndexTrue, HeapIndexed, heapVars
<1>8. CASE Clock
    BY <1>8 DEF Clock, IndexTrue, HeapIndexed, heapVars
<1>9. CASE RecvPush
  <2>1. Head(pushCh) \in Msgs /\ Head(pushCh) \notin heap
    BY <1>9, PoppedQueue DEF RecvPush, OnePlace, QueueTrue
  <2> QED
    BY <1>9, <1>a, <2>1, PushEffect DEF RecvPush, HeapIndexed, IndexTrue
<1>10. CASE RecvDelete
  <2>1. Head(delCh) \in Msgs /\ DeleteMsg(Head(delCh))
    BY <1>10, HeadAcked DEF RecvDelete
  <2> QED
    BY <1>a, <2>1, DeleteEffect DEF HeapIndexed, IndexTrue
<1>11. CASE RecvTick
    BY <1>11 DEF RecvTick, IndexTrue, HeapIndexed, heapVars
<1>12. CASE ScanEnd
    BY <1>12 DEF ScanEnd, IndexTrue, HeapIndexed, heapVars
<1>13. CASE ScanPop
    BY <1>13, <1>a DEF ScanPop, Top, HeapIndexed, IndexTrue
<1>14. CASE ScanDrop
  <2>1. cur \in Msgs /\ DeleteMsg(cur)
    BY <1>14 DEF ScanDrop, TypeOK, OnePlace, CurTrue
  <2> QED
    BY <1>a, <2>1, DeleteEffect DEF HeapIndexed, IndexTrue
<1>15. CASE ScanWrite
    BY <1>15 DEF ScanWrite, IndexTrue, HeapIndexed, heapVars
<1>16. CASE ScanPush
  <2>1. cur \in Msgs /\ cur \notin heap /\ PushMsg(cur)
    BY <1>16 DEF ScanPush, TypeOK, OnePlace, CurTrue, HeapTrue
  <2> QED
    BY <1>a, <2>1, PushEffect DEF HeapIndexed, IndexTrue
<1>17. CASE UNCHANGED vars
    BY <1>17 DEF vars, IndexTrue, HeapIndexed, heapVars
<1> QED
    BY <1>1, <1>2, <1>3, <1>4, <1>5, <1>6, <1>7, <1>8, <1>9, <1>10, <1>11,
       <1>12, <1>13, <1>14, <1>15, <1>16, <1>17 DEF Next, Scanning

(* The table has connections of their own users, which logged in.           *)
LEMMA ConsStep ==
    ASSUME TypeOK, IndexTrue, OnePlace, RoundsLeft, AcksCounted, [Next]_vars
    PROVE  ConsTrue'
<1>a. /\ cons \in [Users -> Conns \cup {NoConn}] /\ Owner \in [Conns -> Users]
      /\ stage \in [Conns -> {"new", "on", "closed", "gone"}] /\ ConsTrue
    BY AckAssumption DEF TypeOK, IndexTrue
<1>1. ASSUME NEW c \in Conns, AddConnect(c) PROVE ConsTrue'
    BY <1>1, <1>a DEF AddConnect, ConsTrue
<1>2. ASSUME NEW c \in Conns, Close(c) PROVE ConsTrue'
    BY <1>2, <1>a DEF Close, ConsTrue
<1>3. ASSUME NEW c \in Conns, DeleteConnect(c) PROVE ConsTrue'
    BY <1>3, <1>a DEF DeleteConnect, ConsTrue
<1>4. ASSUME NEW m \in Msgs, GetConnect(m) PROVE ConsTrue'
    BY <1>4, <1>a DEF GetConnect, ConsTrue
<1>5. ASSUME NEW m \in Msgs, Push(m) PROVE ConsTrue'
    BY <1>5, <1>a DEF Push, ConsTrue
<1>6. ASSUME NEW m \in Msgs, Write(m) PROVE ConsTrue'
    BY <1>6, <1>a DEF Write, ConsTrue
<1>7. ASSUME NEW m \in Msgs, Delete(m) PROVE ConsTrue'
    BY <1>7, <1>a DEF Delete, ConsTrue
<1>8. CASE Clock
    BY <1>8, <1>a DEF Clock, ConsTrue
<1>9. CASE RecvPush
    BY <1>9, <1>a DEF RecvPush, ConsTrue
<1>10. CASE RecvDelete
    BY <1>10, <1>a DEF RecvDelete, ConsTrue
<1>11. CASE RecvTick
    BY <1>11, <1>a DEF RecvTick, ConsTrue
<1>12. CASE ScanEnd
    BY <1>12, <1>a DEF ScanEnd, ConsTrue
<1>13. CASE ScanPop
    BY <1>13, <1>a DEF ScanPop, ConsTrue
<1>14. CASE ScanDrop
    BY <1>14, <1>a DEF ScanDrop, ConsTrue
<1>15. CASE ScanWrite
    BY <1>15, <1>a DEF ScanWrite, ConsTrue
<1>16. CASE ScanPush
    BY <1>16, <1>a DEF ScanPush, ConsTrue
<1>17. CASE UNCHANGED vars
    BY <1>17, <1>a DEF vars, ConsTrue
<1> QED
    BY <1>1, <1>2, <1>3, <1>4, <1>5, <1>6, <1>7, <1>8, <1>9, <1>10, <1>11,
       <1>12, <1>13, <1>14, <1>15, <1>16, <1>17 DEF Next, Scanning

(* A message is recorded with connections of its receiver only.             *)
LEMMA CtxStep ==
    ASSUME TypeOK, IndexTrue, OnePlace, RoundsLeft, AcksCounted, [Next]_vars
    PROVE  CtxTrue'
<1>a. /\ ctx \in [Conns -> SUBSET Msgs] /\ Owner \in [Conns -> Users]
      /\ stage \in [Conns -> {"new", "on", "closed", "gone"}] /\ CtxTrue
    BY AckAssumption DEF TypeOK, IndexTrue
<1>1. ASSUME NEW c \in Conns, AddConnect(c) PROVE CtxTrue'
    BY <1>1, <1>a DEF AddConnect, CtxTrue
<1>2. ASSUME NEW c \in Conns, Close(c) PROVE CtxTrue'
    BY <1>2, <1>a DEF Close, CtxTrue
<1>3. ASSUME NEW c \in Conns, DeleteConnect(c) PROVE CtxTrue'
    BY <1>3, <1>a DEF DeleteConnect, CtxTrue
<1>4. ASSUME NEW m \in Msgs, GetConnect(m) PROVE CtxTrue'
    BY <1>4, <1>a DEF GetConnect, CtxTrue
<1>5. ASSUME NEW m \in Msgs, Push(m) PROVE CtxTrue'
    BY <1>5, <1>a DEF Push, CtxTrue
<1>6. ASSUME NEW m \in Msgs, Write(m) PROVE CtxTrue'
    BY <1>6, <1>a DEF Write, CtxTrue
<1>7. ASSUME NEW m \in Msgs, Delete(m) PROVE CtxTrue'
    BY <1>7, <1>a DEF Delete, CtxTrue
<1>8. CASE Clock
    BY <1>8, <1>a DEF Clock, CtxTrue
<1>9. CASE RecvPush
  <2>1. Head(pushCh) \in Msgs /\ PushMsg(Head(pushCh))
    BY <1>9, PoppedQueue DEF RecvPush, OnePlace
  <2> QED
    BY <1>9, <1>a, <2>1, CtxPush DEF RecvPush, IndexTrue
<1>10. CASE RecvDelete
  <2>1. Head(delCh) \in Msgs /\ DeleteMsg(Head(delCh))
    BY <1>10, HeadAcked DEF RecvDelete
  <2> QED
    BY <1>10, <1>a, <2>1, DeleteEffect DEF RecvDelete, CtxTrue
<1>11. CASE RecvTick
    BY <1>11, <1>a DEF RecvTick, CtxTrue
<1>12. CASE ScanEnd
    BY <1>12, <1>a DEF ScanEnd, CtxTrue
<1>13. CASE ScanPop
    BY <1>13, <1>a DEF ScanPop, CtxTrue
<1>14. CASE ScanDrop
  <2>1. cur \in Msgs /\ DeleteMsg(cur)
    BY <1>14 DEF ScanDrop, TypeOK, OnePlace, CurTrue
  <2> QED
    BY <1>14, <1>a, <2>1, DeleteEffect DEF ScanDrop, CtxTrue
<1>15. CASE ScanWrite
    BY <1>15, <1>a DEF ScanWrite, CtxTrue
<1>16. CASE ScanPush
  <2>1. cur \in Msgs /\ PushMsg(cur)
    BY <1>16 DEF ScanPush, TypeOK, OnePlace, CurTrue
  <2> QED
    BY <1>16, <1>a, <2>1, CtxPush DEF ScanPush, IndexTrue
<1>17. CASE UNCHANGED vars
    BY <1>17, <1>a DEF vars, CtxTrue
<1> QED
    BY <1>1, <1>2, <1>3, <1>4, <1>5, <1>6, <1>7, <1>8, <1>9, <1>10, <1>11,
       <1>12, <1>13, <1>14, <1>15, <1>16, <1>17 DEF Next, Scanning

(* An index of zero is never found through the table.                       *)
LEMMA FoundStep ==
    ASSUME TypeOK, IndexTrue, OnePlace, RoundsLeft, AcksCounted, [Next]_vars
    PROVE  FoundTrue'
<1>a. /\ cons \in [Users -> Conns \cup {NoConn}] /\ Owner \in [Conns -> Users]
      /\ ctx \in [Conns -> SUBSET Msgs] /\ NoConn \notin Conns
      /\ index \in [Msgs -> {"in", "out", "zero"}]
      /\ ConsTrue /\ CtxTrue /\ FoundTrue
    BY AckAssumption DEF TypeOK, IndexTrue
<1>1. ASSUME NEW c \in Conns, AddConnect(c) PROVE FoundTrue'
    BY <1>1, <1>a DEF AddConnect, FoundTrue, CtxTrue, heapVars
<1>2. ASSUME NEW c \in Conns, Close(c) PROVE FoundTrue'
    BY <1>2, <1>a DEF Close, FoundTrue, heapVars
<1>3. ASSUME NEW c \in Conns, DeleteConnect(c) PROVE FoundTrue'
    BY <1>3, <1>a DEF DeleteConnect, FoundTrue, heapVars
<1>4. ASSUME NEW m \in Msgs, GetConnect(m) PROVE FoundTrue'
    BY <1>4, <1>a DEF GetConnect, FoundTrue, heapVars
<1>5. ASSUME NEW m \in Msgs, Push(m) PROVE FoundTrue'
    BY <1>5, <1>a DEF Push, FoundTrue, heapVars
<1>6. ASSUME NEW m \in Msgs, Write(m) PROVE FoundTrue'
    BY <1>6, <1>a DEF Write, FoundTrue, heapVars
<1>7. ASSUME NEW m \in Msgs, Delete(m) PROVE FoundTrue'
    BY <1>7, <1>a DEF Delete, FoundTrue, heapVars
<1>8. CASE Clock
    BY <1>8, <1>a DEF Clock, FoundTrue, heapVars
<1>9. CASE RecvPush
  <2>1. Head(pushCh) \in Msgs /\ PushMsg(Head(pushCh))
    BY <1>9, PoppedQueue DEF RecvPush, OnePlace
  <2> QED
    BY <1>9, <2>1, FoundPush DEF RecvPush, IndexTrue
<1>10. CASE RecvDelete
  <2>1. Head(delCh) \in Msgs /\ DeleteMsg(Head(delCh))
    BY <1>10, HeadAcked DEF RecvDelete
  <2> QED
    BY <1>10, <2>1, FoundDelete DEF RecvDelete
<1>11. CASE RecvTick
    BY <1>11, <1>a DEF RecvTick, FoundTrue, heapVars
<1>12. CASE ScanEnd
    BY <1>12, <1>a DEF ScanEnd, FoundTrue, heapVars
<1>13. CASE ScanPop
    BY <1>13, <1>a DEF ScanPop, Top, FoundTrue
<1>14. CASE ScanDrop
  <2>1. cur \in Msgs /\ DeleteMsg(cur)
    BY <1>14 DEF ScanDrop, TypeOK, OnePlace, CurTrue
  <2> QED
    BY <1>14, <2>1, FoundDelete DEF ScanDrop
<1>15. CASE ScanWrite
    BY <1>15, <1>a DEF ScanWrite, FoundTrue, heapVars
<1>16. CASE ScanPush
  <2>1. cur \in Msgs /\ PushMsg(cur)
    BY <1>16 DEF ScanPush, TypeOK, OnePlace, CurTrue
  <2> QED
    BY <1>16, <2>1, FoundPush DEF ScanPush, IndexTrue
<1>17. CASE UNCHANGED vars
    BY <1>17, <1>a DEF vars, FoundTrue, heapVars
<1> QED
    BY <1>1, <1>2, <1>3, <1>4, <1>5, <1>6, <1>7, <1>8, <1>9, <1>10, <1>11,
       <1>12, <1>13, <1>14, <1>15, <1>16, <1>17 DEF Next, Scanning

(* What waits in pushCh is nowhere else.                                    *)
LEMMA QueueStep ==
    ASSUME TypeOK, IndexTrue, OnePlace, RoundsLeft, AcksCounted, [Next]_vars
    PROVE  QueueTrue'
<1>a. /\ step \in [Msgs -> {"new", "push write", "write", "write push", "push", "done"}]
      /\ heap \subseteq Msgs /\ NoMsg \notin Msgs /\ QueueTrue
    BY AckAssumption DEF TypeOK, OnePlace
<1>1. ASSUME NEW c \in Conns, AddConnect(c) PROVE QueueTrue'
    BY <1>1, <1>a DEF AddConnect, QueueTrue, Queued, Pushed, heapVars,
       loopVars, handlerVars, histVars
<1>2. ASSUME NEW c \in Conns, Close(c) PROVE QueueTrue'
    BY <1>2, <1>a DEF Close, QueueTrue, Queued, Pushed, heapVars, loopVars,
       handlerVars, histVars
<1>3. ASSUME NEW c \in Conns, DeleteConnect(c) PROVE QueueTrue'
    BY <1>3, <1>a DEF DeleteConnect, QueueTrue, Queued, Pushed, heapVars,
       loopVars, handlerVars, histVars
<1>4. ASSUME NEW m \in Msgs, GetConnect(m) PROVE QueueTrue'
    BY <1>4, <1>a DEF GetConnect, QueueTrue, Queued, Pushed, heapVars,
       loopVars
<1>5. ASSUME NEW m \in Msgs, Push(m) PROVE QueueTrue'
  <2>1. ~Queued(m) /\ m \in Msgs
    BY <1>5 DEF Push, OnePlace, QueueTrue, Pushed
  <2>2. /\ NoTwice(pushCh') /\ \A k \in Msgs : Queued(k)' <=> Queued(k) \/ k = m
    BY <1>5, <2>1, PushedQueue DEF Push, OnePlace
  <2>3. /\ Pushed(m)' /\ m \notin heap /\ cur # m
        /\ \A k \in Msgs : Pushed(k) => Pushed(k)'
    BY <1>5, <1>a DEF Push, Pushed, OnePlace, HeapTrue, CurTrue
  <2>4. heap' = heap /\ cur' = cur
    BY <1>5 DEF Push, heapVars, loopVars
  <2> QED
    BY <1>a, <2>2, <2>3, <2>4 DEF QueueTrue, NoTwice
<1>6. ASSUME NEW m \in Msgs, Write(m) PROVE QueueTrue'
    BY <1>6, <1>a DEF Write, QueueTrue, Queued, Pushed, heapVars, loopVars,
       handlerVars, histVars
<1>7. ASSUME NEW m \in Msgs, Delete(m) PROVE QueueTrue'
    BY <1>7, <1>a DEF Delete, QueueTrue, Queued, Pushed, heapVars, loopVars,
       handlerVars, histVars
<1>8. CASE Clock
    BY <1>8, <1>a DEF Clock, QueueTrue, Queued, Pushed, heapVars, loopVars,
       handlerVars, histVars
<1>9. CASE RecvPush
  <2>1. /\ NoTwice(pushCh') /\ Head(pushCh) \in Msgs /\ Queued(Head(pushCh))
        /\ \A k \in Msgs : Queued(k)' <=> Queued(k) /\ k # Head(pushCh)
    BY <1>9, PoppedQueue DEF RecvPush, OnePlace
  <2>2. /\ cur' = cur /\ UNCHANGED step
        /\ \A k \in heap' : k \in heap \/ k = Head(pushCh)
    BY <1>9, <2>1, PushEffect DEF RecvPush, IndexTrue, loopVars, handlerVars
  <2> QED
    BY <1>a, <2>1, <2>2 DEF QueueTrue, NoTwice, Pushed
<1>10. CASE RecvDelete
  <2>1. Head(delCh) \in Msgs /\ DeleteMsg(Head(delCh))
    BY <1>10, HeadAcked DEF RecvDelete
  <2>2. heap' \subseteq heap
    BY <2>1, DeleteEffect
  <2> QED
    BY <1>10, <1>a, <2>2 DEF RecvDelete, QueueTrue, Queued, Pushed, loopVars,
       handlerVars
<1>11. CASE RecvTick
    BY <1>11, <1>a DEF RecvTick, QueueTrue, Queued, Pushed, heapVars,
       loopVars, handlerVars, histVars
<1>12. CASE ScanEnd
    BY <1>12, <1>a DEF ScanEnd, QueueTrue, Queued, Pushed, heapVars, loopVars,
       handlerVars, histVars
<1>13. CASE ScanPop
  <2>1. PICK m \in Top : cur' = m /\ heap' = heap \ {m}
    BY <1>13 DEF ScanPop
  <2>2. m \in heap /\ ~Queued(m)
    BY <1>a, <2>1 DEF Top, QueueTrue
  <2>3. UNCHANGED <<pushCh, step>>
    BY <1>13 DEF ScanPop, handlerVars
  <2> QED
    BY <1>a, <2>1, <2>2, <2>3 DEF QueueTrue, Queued, Pushed
<1>14. CASE ScanDrop
  <2>1. cur \in Msgs /\ DeleteMsg(cur)
    BY <1>14 DEF ScanDrop, TypeOK, OnePlace, CurTrue
  <2>2. heap' \subseteq heap
    BY <2>1, DeleteEffect
  <2> QED
    BY <1>14, <1>a, <2>2 DEF ScanDrop, NextRound, QueueTrue, Queued, Pushed,
       handlerVars
<1>15. CASE ScanWrite
    BY <1>15, <1>a DEF ScanWrite, NextRound, QueueTrue, Queued, Pushed,
       heapVars, handlerVars
<1>16. CASE ScanPush
  <2>1. cur \in Msgs /\ PushMsg(cur)
    BY <1>16 DEF ScanPush, TypeOK, OnePlace, CurTrue
  <2>2. heap' \subseteq heap \cup {cur}
    BY <2>1, PushEffect DEF IndexTrue
  <2> QED
    BY <1>16, <1>a, <2>2 DEF ScanPush, NextRound, QueueTrue, Queued, Pushed,
       handlerVars
<1>17. CASE UNCHANGED vars
    BY <1>17, <1>a DEF vars, QueueTrue, Queued, Pushed, heapVars, loopVars,
       handlerVars, histVars
<1> QED
    BY <1>1, <1>2, <1>3, <1>4, <1>5, <1>6, <1>7, <1>8, <1>9, <1>10, <1>11,
       <1>12, <1>13, <1>14, <1>15, <1>16, <1>17 DEF Next, Scanning

(* What was not taken out of pushCh yet is as it was created.               *)
LEMMA UntouchedStep ==
    ASSUME TypeOK, IndexTrue, OnePlace, RoundsLeft, AcksCounted, [Next]_vars
    PROVE  Untouched'
<1>a. /\ step \in [Msgs -> {"new", "push write", "write", "write push", "push", "done"}]
      /\ ntime \in [Msgs -> 0 .. RetryLimit + 1]
      /\ resent \in [Msgs -> 0 .. RetryLimit]
      /\ index \in [Msgs -> {"in", "out", "zero"}]
      /\ heap \subseteq Msgs /\ Untouched /\ QueueTrue
    BY DEF TypeOK, OnePlace
<1>1. ASSUME NEW c \in Conns, AddConnect(c) PROVE Untouched'
    BY <1>1, <1>a DEF AddConnect, Untouched, Queued, Pushed, heapVars,
       loopVars, handlerVars, histVars
<1>2. ASSUME NEW c \in Conns, Close(c) PROVE Untouched'
    BY <1>2, <1>a DEF Close, Untouched, Queued, Pushed, heapVars, loopVars,
       handlerVars, histVars
<1>3. ASSUME NEW c \in Conns, DeleteConnect(c) PROVE Untouched'
    BY <1>3, <1>a DEF DeleteConnect, Untouched, Queued, Pushed, heapVars,
       loopVars, handlerVars, histVars
<1>4. ASSUME NEW m \in Msgs, GetConnect(m) PROVE Untouched'
    BY <1>4, <1>a DEF GetConnect, Untouched, Queued, Pushed, heapVars,
       histVars
<1>5. ASSUME NEW m \in Msgs, Push(m) PROVE Untouched'
  <2>1. ~Queued(m) /\ m \in Msgs
    BY <1>5 DEF Push, OnePlace, QueueTrue, Pushed
  <2>2. /\ NoTwice(pushCh') /\ \A k \in Msgs : Queued(k)' <=> Queued(k) \/ k = m
    BY <1>5, <2>1, PushedQueue DEF Push, OnePlace
  <2>3. /\ \A k \in Msgs : Pushed(k) => Pushed(k)'
        /\ ~Pushed(m)
    BY <1>5, <1>a DEF Push, Pushed
  <2>4. UNCHANGED <<ntime, resent, index>>
    BY <1>5 DEF Push, heapVars, histVars
  <2> QED
    BY <1>a, <2>1, <2>2, <2>3, <2>4 DEF Untouched
<1>6. ASSUME NEW m \in Msgs, Write(m) PROVE Untouched'
    BY <1>6, <1>a DEF Write, Untouched, Queued, Pushed, heapVars, loopVars,
       handlerVars, histVars
<1>7. ASSUME NEW m \in Msgs, Delete(m) PROVE Untouched'
    BY <1>7, <1>a DEF Delete, Untouched, Queued, Pushed, heapVars, loopVars,
       handlerVars, histVars
<1>8. CASE Clock
    BY <1>8, <1>a DEF Clock, Untouched, Queued, Pushed, heapVars, loopVars,
       handlerVars, histVars
<1>9. CASE RecvPush
  <2>1. /\ NoTwice(pushCh') /\ Head(pushCh) \in Msgs /\ Queued(Head(pushCh))
        /\ \A k \in Msgs : Queued(k)' <=> Queued(k) /\ k # Head(pushCh)
    BY <1>9, PoppedQueue DEF RecvPush, OnePlace
  <2>2. /\ UNCHANGED <<step, resent>>
        /\ \A k \in Msgs \ {Head(pushCh)} : index'[k] = index[k] /\ ntime'[k] = ntime[k]
    BY <1>9, <1>a, <2>1 DEF RecvPush, PushMsg, handlerVars, histVars
  <2>3. Pushed(Head(pushCh))
    BY <1>a, <2>1 DEF QueueTrue
  <2> QED
    BY <1>a, <2>1, <2>2, <2>3 DEF Untouched, Pushed
<1>10. CASE RecvDelete
  <2>1. Head(delCh) \in Msgs /\ DeleteMsg(Head(delCh))
    BY <1>10, HeadAcked DEF RecvDelete
  <2>2. \A k \in Msgs : index[k] = "zero" => index'[k] = "zero"
    BY <1>a, <2>1, DeleteEffect DEF IndexTrue, HeapIndexed
  <2> QED
    BY <1>10, <1>a, <2>2 DEF RecvDelete, Untouched, Queued, Pushed,
       handlerVars, histVars
<1>11. CASE RecvTick
    BY <1>11, <1>a DEF RecvTick, Untouched, Queued, Pushed, heapVars,
       loopVars, handlerVars, histVars
<1>12. CASE ScanEnd
    BY <1>12, <1>a DEF ScanEnd, Untouched, Queued, Pushed, heapVars, loopVars,
       handlerVars, histVars
<1>13. CASE ScanPop
  <2>1. PICK m \in Top : index' = [index EXCEPT ![m] = "out"]
    BY <1>13 DEF ScanPop
  <2>2. m \in Msgs /\ index[m] = "in"
    BY <1>a, <2>1 DEF Top, IndexTrue, HeapIndexed
  <2> QED
    BY <1>13, <1>a, <2>1, <2>2 DEF ScanPop, Untouched, Queued, Pushed,
       handlerVars, histVars
<1>14. CASE ScanDrop
  <2>1. cur \in Msgs /\ DeleteMsg(cur)
    BY <1>14 DEF ScanDrop, TypeOK, OnePlace, CurTrue
  <2>2. \A k \in Msgs : index[k] = "zero" => index'[k] = "zero"
    BY <1>a, <2>1, DeleteEffect DEF IndexTrue, HeapIndexed
  <2> QED
    BY <1>14, <1>a, <2>2 DEF ScanDrop, NextRound, Untouched, Queued, Pushed,
       handlerVars, histVars
<1>15. CASE ScanWrite
  <2>1. cur \in Msgs /\ Pushed(cur) /\ ~Queued(cur)
    BY <1>15 DEF ScanWrite, TypeOK, OnePlace, CurTrue, QueueTrue
  <2>2. \A k \in Msgs \ {cur} : resent'[k] = resent[k]
    BY <1>15, <1>a DEF ScanWrite
  <2> QED
    BY <1>15, <1>a, <2>1, <2>2 DEF ScanWrite, NextRound, Untouched, Queued,
       Pushed, heapVars, handlerVars
<1>16. CASE ScanPush
  <2>1. cur \in Msgs /\ Pushed(cur) /\ ~Queued(cur)
    BY <1>16 DEF ScanPush, TypeOK, OnePlace, CurTrue, QueueTrue
  <2>2. \A k \in Msgs \ {cur} : index'[k] = index[k] /\ ntime'[k] = ntime[k]
    BY <1>16, <1>a DEF ScanPush, PushMsg
  <2> QED
    BY <1>16, <1>a, <2>1, <2>2 DEF ScanPush, NextRound, Untouched, Queued,
       Pushed, handlerVars, histVars
<1>17. CASE UNCHANGED vars
    BY <1>17, <1>a DEF vars, Untouched, Queued, Pushed, heapVars, loopVars,
       handlerVars, histVars
<1> QED
    BY <1>1, <1>2, <1>3, <1>4, <1>5, <1>6, <1>7, <1>8, <1>9, <1>10, <1>11,
       <1>12, <1>13, <1>14, <1>15, <1>16, <1>17 DEF Next, Scanning

(* A message in the heap was sent again once less than it was pushed.       *)
LEMMA HeapStep ==
    ASSUME TypeOK, IndexTrue, OnePlace, RoundsLeft, AcksCounted, [Next]_vars
    PROVE  HeapTrue'
<1>a. /\ step \in [Msgs -> {"new", "push write", "write", "write push", "push", "done"}]
      /\ ntime \in [Msgs -> 0 .. RetryLimit + 1]
      /\ resent \in [Msgs -> 0 .. RetryLimit]
      /\ heap \subseteq Msgs /\ NoMsg \notin Msgs /\ HeapTrue
    BY AckAssumption DEF TypeOK, OnePlace
<1>1. ASSUME NEW c \in Conns, AddConnect(c) PROVE HeapTrue'
    BY <1>1, <1>a DEF AddConnect, HeapTrue, Pushed, heapVars, loopVars,
       handlerVars, histVars
<1>2. ASSUME NEW c \in Conns, Close(c) PROVE HeapTrue'
    BY <1>2, <1>a DEF Close, HeapTrue, Pushed, heapVars, loopVars,
       handlerVars, histVars
<1>3. ASSUME NEW c \in Conns, DeleteConnect(c) PROVE HeapTrue'
    BY <1>3, <1>a DEF DeleteConnect, HeapTrue, Pushed, heapVars, loopVars,
       handlerVars, histVars
<1>4. ASSUME NEW m \in Msgs, GetConnect(m) PROVE HeapTrue'
    BY <1>4, <1>a DEF GetConnect, HeapTrue, Pushed, heapVars, loopVars,
       handlerVars, histVars
<1>5. ASSUME NEW m \in Msgs, Push(m) PROVE HeapTrue'
    BY <1>5, <1>a DEF Push, HeapTrue, Pushed, heapVars, loopVars, handlerVars,
       histVars
<1>6. ASSUME NEW m \in Msgs, Write(m) PROVE HeapTrue'
    BY <1>6, <1>a DEF Write, HeapTrue, Pushed, heapVars, loopVars,
       handlerVars, histVars
<1>7. ASSUME NEW m \in Msgs, Delete(m) PROVE HeapTrue'
    BY <1>7, <1>a DEF Delete, HeapTrue, Pushed, heapVars, loopVars,
       handlerVars, histVars
<1>8. CASE Clock
    BY <1>8, <1>a DEF Clock, HeapTrue, Pushed, heapVars, loopVars,
       handlerVars, histVars
<1>9. CASE RecvPush
  <2>1. /\ NoTwice(pushCh') /\ Head(pushCh) \in Msgs /\ Queued(Head(pushCh))
        /\ \A k \in Msgs : Queued(k)' <=> Queued(k) /\ k # Head(pushCh)
    BY <1>9, PoppedQueue DEF RecvPush, OnePlace
  <2>2. /\ Pushed(Head(pushCh)) /\ cur # Head(pushCh)
        /\ ntime[Head(pushCh)] = 0 /\ resent[Head(pushCh)] = 0
    BY <2>1 DEF OnePlace, QueueTrue, Untouched
  <2>3. heap' \subseteq heap \cup {Head(pushCh)}
    BY <1>9, <2>1, PushEffect DEF RecvPush, IndexTrue
  <2>4. /\ UNCHANGED <<step, resent, cur>>
        /\ ntime' = [ntime EXCEPT ![Head(pushCh)] = ntime[Head(pushCh)] + 1]
    BY <1>9 DEF RecvPush, PushMsg, loopVars, handlerVars, histVars
  <2> QED
    BY <1>a, <2>1, <2>2, <2>3, <2>4 DEF HeapTrue, Pushed
<1>10. CASE RecvDelete
  <2>1. Head(delCh) \in Msgs /\ DeleteMsg(Head(delCh))
    BY <1>10, HeadAcked DEF RecvDelete
  <2>2. heap' \subseteq heap
    BY <2>1, DeleteEffect
  <2> QED
    BY <1>10, <1>a, <2>2 DEF RecvDelete, HeapTrue, Pushed, loopVars,
       handlerVars, histVars
<1>11. CASE RecvTick
    BY <1>11, <1>a DEF RecvTick, HeapTrue, Pushed, heapVars, loopVars,
       handlerVars, histVars
<1>12. CASE ScanEnd
    BY <1>12, <1>a DEF ScanEnd, HeapTrue, Pushed, heapVars, loopVars,
       handlerVars, histVars
<1>13. CASE ScanPop
  <2>1. PICK m \in Top : cur' = m /\ heap' = heap \ {m}
    BY <1>13 DEF ScanPop
  <2> QED
    BY <1>13, <1>a, <2>1 DEF ScanPop, HeapTrue, Pushed, handlerVars, histVars
<1>14. CASE ScanDrop
  <2>1. cur \in Msgs /\ DeleteMsg(cur)
    BY <1>14 DEF ScanDrop, TypeOK, OnePlace, CurTrue
  <2>2. heap' \subseteq heap
    BY <2>1, DeleteEffect
  <2> QED
    BY <1>14, <1>a, <2>2 DEF ScanDrop, NextRound, HeapTrue, Pushed,
       handlerVars, histVars
<1>15. CASE ScanWrite
  <2>1. cur \in Msgs /\ cur \notin heap
    BY <1>15 DEF ScanWrite, TypeOK, OnePlace, CurTrue, HeapTrue
  <2>2. \A k \in heap : resent'[k] = resent[k]
    BY <1>15, <1>a, <2>1 DEF ScanWrite
  <2>3. /\ UNCHANGED <<heap, ntime, step>> /\ cur' \in {cur, NoMsg}
    BY <1>15 DEF ScanWrite, NextRound, heapVars, handlerVars
  <2> QED
    BY <1>a, <2>2, <2>3 DEF HeapTrue, Pushed
<1>16. CASE ScanPush
  <2>1. cur \in Msgs /\ Pushed(cur) /\ PushMsg(cur) /\ ntime[cur] = resent[cur]
    BY <1>16 DEF ScanPush, TypeOK, OnePlace, CurTrue
  <2>2. heap' \subseteq heap \cup {cur}
    BY <2>1, PushEffect DEF IndexTrue
  <2>3. /\ UNCHANGED <<step, resent>> /\ cur' = NoMsg
        /\ ntime' = [ntime EXCEPT ![cur] = ntime[cur] + 1]
    BY <1>16 DEF ScanPush, PushMsg, NextRound, handlerVars, histVars
  <2> QED
    BY <1>a, <2>1, <2>2, <2>3 DEF HeapTrue, Pushed
<1>17. CASE UNCHANGED vars
    BY <1>17, <1>a DEF vars, HeapTrue, Pushed, heapVars, loopVars,
       handlerVars, histVars
<1> QED
    BY <1>1, <1>2, <1>3, <1>4, <1>5, <1>6, <1>7, <1>8, <1>9, <1>10, <1>11,
       <1>12, <1>13, <1>14, <1>15, <1>16, <1>17 DEF Next, Scanning

(* The message of an iteration may be sent once more.                       *)
LEMMA CurStep ==
    ASSUME TypeOK, IndexTrue, OnePlace, RoundsLeft, AcksCounted, [Next]_vars
    PROVE  CurTrue'
<1>a. /\ step \in [Msgs -> {"new", "push write", "write", "write push", "push", "done"}]
      /\ ntime \in [Msgs -> 0 .. RetryLimit + 1]
      /\ resent \in [Msgs -> 0 .. RetryLimit] /\ rounds \in Nat
      /\ index \in [Msgs -> {"in", "out", "zero"}]
      /\ heap \subseteq Msgs /\ NoMsg \notin Msgs /\ CurTrue
      /\ cur \in Msgs \cup {NoMsg}
    BY AckAssumption DEF TypeOK, OnePlace
<1>1. ASSUME NEW c \in Conns, AddConnect(c) PROVE CurTrue'
    BY <1>1, <1>a DEF AddConnect, CurTrue, Pushed, heapVars, loopVars,
       handlerVars, histVars
<1>2. ASSUME NEW c \in Conns, Close(c) PROVE CurTrue'
    BY <1>2, <1>a DEF Close, CurTrue, Pushed, heapVars, loopVars, handlerVars,
       histVars
<1>3. ASSUME NEW c \in Conns, DeleteConnect(c) PROVE CurTrue'
    BY <1>3, <1>a DEF DeleteConnect, CurTrue, Pushed, heapVars, loopVars,
       handlerVars, histVars
<1>4. ASSUME NEW m \in Msgs, GetConnect(m) PROVE CurTrue'
    BY <1>4, <1>a DEF GetConnect, CurTrue, Pushed, heapVars, loopVars,
       handlerVars, histVars
<1>5. ASSUME NEW m \in Msgs, Push(m) PROVE CurTrue'
    BY <1>5, <1>a DEF Push, CurTrue, Pushed, heapVars, loopVars, handlerVars,
       histVars
<1>6. ASSUME NEW m \in Msgs, Write(m) PROVE CurTrue'
    BY <1>6, <1>a DEF Write, CurTrue, Pushed, heapVars, loopVars, handlerVars,
       histVars
<1>7. ASSUME NEW m \in Msgs, Delete(m) PROVE CurTrue'
    BY <1>7, <1>a DEF Delete, CurTrue, Pushed, heapVars, loopVars,
       handlerVars, histVars
<1>8. CASE Clock
    BY <1>8, <1>a DEF Clock, CurTrue, Pushed, heapVars, loopVars, handlerVars,
       histVars
<1>9. CASE RecvPush
    BY <1>9, <1>a DEF RecvPush, CurTrue, Pushed, loopVars
<1>10. CASE RecvDelete
    BY <1>10, <1>a DEF RecvDelete, CurTrue, Pushed, loopVars
<1>11. CASE RecvTick
    BY <1>11, <1>a DEF RecvTick, CurTrue, Pushed, heapVars, loopVars,
       handlerVars, histVars
<1>12. CASE ScanEnd
    BY <1>12, <1>a DEF ScanEnd, CurTrue, Pushed, heapVars, loopVars,
       handlerVars, histVars
<1>13. CASE ScanPop
  <2>1. PICK m \in Top :
          /\ cur' = m /\ heap' = heap \ {m}
          /\ index' = [index EXCEPT ![m] = "out"]
          /\ curCon' = cons[Receiver[m]]
          /\ loop' = IF curCon' = NoConn \/ ntime[m] > RetryLimit
                     THEN "drop" ELSE "write"
    BY <1>13 DEF ScanPop
  <2>2. m \in heap /\ m \in Msgs /\ Pushed(m) /\ ntime[m] = resent[m] + 1
    BY <1>a, <2>1 DEF Top, OnePlace, HeapTrue
  <2>3. UNCHANGED <<rounds, ntime, resent, step>> /\ rounds > 0
    BY <1>13 DEF ScanPop, handlerVars, histVars
  <2>4. RetryLimit \in Nat /\ ntime[m] \in Nat
    <3>1. ntime[m] \in 0 .. RetryLimit + 1 /\ RetryLimit \in Nat
      BY <1>a, <2>2, AckAssumption
    <3> QED
      BY <3>1
  <2>5. loop' = "write" => curCon' # NoConn /\ ntime[m] <= RetryLimit
    BY <2>1, <2>4
  <2> QED
    BY <1>a, <2>1, <2>2, <2>3, <2>5 DEF CurTrue, Pushed
<1>14. CASE ScanDrop
    BY <1>14, <1>a DEF ScanDrop, NextRound, CurTrue
<1>15. CASE ScanWrite
  <2>1. CASE NextRound
    BY <1>15, <1>a, <2>1 DEF NextRound, CurTrue
  <2>2. CASE ~NextRound
    <3>1. /\ loop' = "push" /\ UNCHANGED <<rounds, cur, curCon, step, index, ntime>>
          /\ resent' = [resent EXCEPT ![cur] = resent[cur] + 1]
      BY <1>15, <2>2 DEF ScanWrite, heapVars, handlerVars
    <3> QED
      BY <1>15, <1>a, <3>1 DEF ScanWrite, CurTrue, Pushed
  <2> QED
    BY <2>1, <2>2
<1>16. CASE ScanPush
    BY <1>16, <1>a DEF ScanPush, NextRound, CurTrue
<1>17. CASE UNCHANGED vars
    BY <1>17, <1>a DEF vars, CurTrue, Pushed, heapVars, loopVars, handlerVars,
       histVars
<1> QED
    BY <1>1, <1>2, <1>3, <1>4, <1>5, <1>6, <1>7, <1>8, <1>9, <1>10, <1>11,
       <1>12, <1>13, <1>14, <1>15, <1>16, <1>17 DEF Next, Scanning

(* The scan asks for no more than there is.                                 *)
LEMMA RoundsStep ==
    ASSUME TypeOK, IndexTrue, OnePlace, RoundsLeft, AcksCounted, [Next]_vars
    PROVE  RoundsLeft'
<1>a. /\ rounds \in Nat /\ IsFiniteSet(heap) /\ Cardinality(heap) \in Nat
      /\ heap \subseteq Msgs /\ NoMsg \notin Msgs /\ cur \in Msgs \cup {NoMsg}
      /\ RoundsLeft
    BY AckAssumption, FS_CardinalityType DEF TypeOK, RoundsLeft
<1>1. ASSUME NEW c \in Conns, AddConnect(c) PROVE RoundsLeft'
    BY <1>1, <1>a DEF AddConnect, RoundsLeft, heapVars, loopVars
<1>2. ASSUME NEW c \in Conns, Close(c) PROVE RoundsLeft'
    BY <1>2, <1>a DEF Close, RoundsLeft, heapVars, loopVars
<1>3. ASSUME NEW c \in Conns, DeleteConnect(c) PROVE RoundsLeft'
    BY <1>3, <1>a DEF DeleteConnect, RoundsLeft, heapVars, loopVars
<1>4. ASSUME NEW m \in Msgs, GetConnect(m) PROVE RoundsLeft'
    BY <1>4, <1>a DEF GetConnect, RoundsLeft, heapVars, loopVars
<1>5. ASSUME NEW m \in Msgs, Push(m) PROVE RoundsLeft'
    BY <1>5, <1>a DEF Push, RoundsLeft, heapVars, loopVars
<1>6. ASSUME NEW m \in Msgs, Write(m) PROVE RoundsLeft'
    BY <1>6, <1>a DEF Write, RoundsLeft, heapVars, loopVars
<1>7. ASSUME NEW m \in Msgs, Delete(m) PROVE RoundsLeft'
    BY <1>7, <1>a DEF Delete, RoundsLeft, heapVars, loopVars
<1>8. CASE Clock
    BY <1>8, <1>a DEF Clock, RoundsLeft, heapVars, loopVars
<1>9. CASE RecvPush
  <2>1. Head(pushCh) \in Msgs /\ PushMsg(Head(pushCh))
    BY <1>9, PoppedQueue DEF RecvPush, OnePlace
  <2>2. heap' = heap \/ heap' = heap \cup {Head(pushCh)}
    BY <2>1, PushEffect DEF IndexTrue
  <2>3. IsFiniteSet(heap') /\ Cardinality(heap') \in Nat
    <3>1. IsFiniteSet(heap \cup {Head(pushCh)})
      BY <1>a, FS_AddElement
    <3>2. IsFiniteSet(heap')
      BY <1>a, <2>2, <3>1
    <3> QED
      BY <3>2, FS_CardinalityType
  <2>4. rounds' = 0
    BY <1>9 DEF RecvPush, RoundsLeft, loopVars
  <2> QED
    BY <2>3, <2>4 DEF RoundsLeft
<1>10. CASE RecvDelete
  <2>1. Head(delCh) \in Msgs /\ DeleteMsg(Head(delCh))
    BY <1>10, HeadAcked DEF RecvDelete
  <2>2. heap' \subseteq heap
    BY <2>1, DeleteEffect
  <2>3. IsFiniteSet(heap') /\ Cardinality(heap') \in Nat
    BY <1>a, <2>2, FS_Subset, FS_CardinalityType
  <2>4. rounds' = 0
    BY <1>10 DEF RecvDelete, RoundsLeft, loopVars
  <2> QED
    BY <2>3, <2>4 DEF RoundsLeft
<1>11. CASE RecvTick
  <2>1. heap' = heap /\ rounds' = Cardinality(heap) /\ loop' = "scan" /\ cur' = cur
    BY <1>11 DEF RecvTick, heapVars
  <2> QED
    BY <1>a, <2>1 DEF RoundsLeft
<1>12. CASE ScanEnd
    BY <1>12, <1>a DEF ScanEnd, RoundsLeft, heapVars, loopVars
<1>13. CASE ScanPop
  <2>1. PICK m \in Top : cur' = m /\ heap' = heap \ {m}
    BY <1>13 DEF ScanPop
  <2>2. m \in heap /\ m # NoMsg
    BY <1>a, <2>1 DEF Top
  <2>3. IsFiniteSet(heap') /\ Cardinality(heap') = Cardinality(heap) - 1
    BY <1>a, <2>1, <2>2, FS_RemoveElement
  <2>4. rounds' = rounds /\ loop' # "select" /\ cur = NoMsg
    BY <1>13 DEF ScanPop, OnePlace, CurTrue
  <2> QED
    BY <1>a, <2>1, <2>2, <2>3, <2>4 DEF RoundsLeft
<1>14. CASE ScanDrop
  <2>1. cur \in Msgs /\ DeleteMsg(cur)
    BY <1>14 DEF ScanDrop, TypeOK, OnePlace, CurTrue
  <2>2. cur # NoMsg /\ rounds > 0 /\ index[cur] = "out" /\ cur \notin heap
    BY <1>14 DEF ScanDrop, OnePlace, CurTrue, HeapTrue
  <2>3. heap' = heap
    BY <2>1, <2>2, DeleteEffect
  <2>4. rounds' = rounds - 1 /\ cur' = NoMsg /\ loop' = "scan"
    BY <1>14 DEF ScanDrop, NextRound
  <2> QED
    BY <1>a, <2>2, <2>3, <2>4 DEF RoundsLeft
<1>15. CASE ScanWrite
  <2>1. cur # NoMsg /\ rounds > 0 /\ heap' = heap
    BY <1>15 DEF ScanWrite, OnePlace, CurTrue, heapVars
  <2>2. CASE NextRound
    <3>1. rounds' = rounds - 1 /\ cur' = NoMsg /\ loop' = "scan"
      BY <2>2 DEF NextRound
    <3> QED
      BY <1>a, <2>1, <3>1 DEF RoundsLeft
  <2>3. CASE ~NextRound
    <3>1. rounds' = rounds /\ cur' = cur /\ loop' = "push"
      BY <1>15, <2>3 DEF ScanWrite
    <3> QED
      BY <1>a, <2>1, <3>1 DEF RoundsLeft
  <2> QED
    BY <2>2, <2>3
<1>16. CASE ScanPush
  <2>1. /\ cur # NoMsg /\ cur \in Msgs /\ rounds > 0 /\ cur \notin heap
        /\ PushMsg(cur)
    BY <1>16, <1>a DEF ScanPush, OnePlace, CurTrue, HeapTrue
  <2>2. heap' = heap \/ heap' = heap \cup {cur}
    BY <2>1, PushEffect DEF IndexTrue
  <2>3. /\ IsFiniteSet(heap') /\ Cardinality(heap') \in Nat
        /\ Cardinality(heap') >= Cardinality(heap)
    BY <1>a, <2>1, <2>2, FS_AddElement
  <2>4. rounds' = rounds - 1 /\ cur' = NoMsg /\ loop' = "scan"
    BY <1>16 DEF ScanPush, NextRound
  <2> QED
    BY <1>a, <2>1, <2>3, <2>4 DEF RoundsLeft
<1>17. CASE UNCHANGED vars
    BY <1>17, <1>a DEF vars, RoundsLeft, heapVars, loopVars
<1> QED
    BY <1>1, <1>2, <1>3, <1>4, <1>5, <1>6, <1>7, <1>8, <1>9, <1>10, <1>11,
       <1>12, <1>13, <1>14, <1>15, <1>16, <1>17 DEF Next, Scanning

(* What is to be deleted was acknowledged.                                  *)
LEMMA AcksStep ==
    ASSUME TypeOK, IndexTrue, OnePlace, RoundsLeft, AcksCounted, [Next]_vars
    PROVE  AcksCounted'
<1>a. /\ acks \in [Msgs -> 0 .. MaxAcks] /\ MaxAcks \in Nat
      /\ \A k : Holds(delCh, k) => k \in Msgs /\ acks[k] > 0
  <2>1. delCh \in Seq(Msgs)
    BY DEF TypeOK
  <2>2. \A i \in DOMAIN delCh : delCh[i] \in Msgs
    BY <2>1, ElementOfSeq, LenProperties
  <2> QED
    BY <2>2, AckAssumption DEF TypeOK, AcksCounted, Holds
<1>1. ASSUME NEW c \in Conns, AddConnect(c) PROVE AcksCounted'
    BY <1>1 DEF AddConnect, AcksCounted, histVars
<1>2. ASSUME NEW c \in Conns, Close(c) PROVE AcksCounted'
    BY <1>2 DEF Close, AcksCounted, histVars
<1>3. ASSUME NEW c \in Conns, DeleteConnect(c) PROVE AcksCounted'
    BY <1>3 DEF DeleteConnect, AcksCounted, histVars
<1>4. ASSUME NEW m \in Msgs, GetConnect(m) PROVE AcksCounted'
    BY <1>4 DEF GetConnect, AcksCounted, histVars
<1>5. ASSUME NEW m \in Msgs, Push(m) PROVE AcksCounted'
    BY <1>5 DEF Push, AcksCounted, histVars
<1>6. ASSUME NEW m \in Msgs, Write(m) PROVE AcksCounted'
    BY <1>6 DEF Write, AcksCounted, histVars
<1>7. ASSUME NEW m \in Msgs, Delete(m) PROVE AcksCounted'
  <2>1. /\ acks' = [acks EXCEPT ![m] = acks[m] + 1]
        /\ delCh' = Append(delCh, m) /\ delCh \in Seq(Msgs)
    BY <1>7 DEF Delete, TypeOK
  <2>2. acks'[m] > 0 /\ \A k \in Msgs : acks[k] > 0 => acks'[k] > 0
    BY <1>a, <2>1
  <2>3. \A k : Holds(delCh', k) => acks'[k] > 0
    BY <1>a, <2>1, <2>2, ChanSend
  <2> QED
    BY <2>3 DEF AcksCounted, Holds
<1>8. CASE Clock
    BY <1>8 DEF Clock, AcksCounted, histVars
<1>9. CASE RecvPush
    BY <1>9 DEF RecvPush, AcksCounted, histVars
<1>10. CASE RecvDelete
  <2>1. acks' = acks /\ \A k : Holds(delCh', k) => Holds(delCh, k)
    BY <1>10, HeadAcked DEF RecvDelete, histVars
  <2> QED
    BY <1>a, <2>1 DEF AcksCounted, Holds
<1>11. CASE RecvTick
    BY <1>11 DEF RecvTick, AcksCounted, histVars
<1>12. CASE ScanEnd
    BY <1>12 DEF ScanEnd, AcksCounted, histVars
<1>13. CASE ScanPop
    BY <1>13 DEF ScanPop, AcksCounted, histVars
<1>14. CASE ScanDrop
    BY <1>14 DEF ScanDrop, AcksCounted, histVars
<1>15. CASE ScanWrite
    BY <1>15 DEF ScanWrite, AcksCounted, histVars
<1>16. CASE ScanPush
    BY <1>16 DEF ScanPush, AcksCounted, histVars
<1>17. CASE UNCHANGED vars
    BY <1>17 DEF vars, AcksCounted, histVars
<1> QED
    BY <1>1, <1>2, <1>3, <1>4, <1>5, <1>6, <1>7, <1>8, <1>9, <1>10, <1>11,
       <1>12, <1>13, <1>14, <1>15, <1>16, <1>17 DEF Next, Scanning

LEMMA InitInv == Init => AckInv
<1> SUFFICES ASSUME Init PROVE AckInv
    OBVIOUS
<1> USE AckAssumption DEF Init
<1>1. TypeOK
  <2>1. <<>> \in Seq(Msgs) /\ Len(<<>>) = 0
    OBVIOUS
  <2>2. Len(<<>>) <= PushCap /\ Len(<<>>) <= DelCap
    BY <2>1
  <2>3. /\ left \in [Msgs -> 0 .. RetryDelay + 1]
        /\ ntime \in [Msgs -> 0 .. RetryLimit + 1]
        /\ acks \in [Msgs -> 0 .. MaxAcks]
        /\ resent \in [Msgs -> 0 .. RetryLimit]
    OBVIOUS
  <2> QED
    BY <2>1, <2>2, <2>3 DEF TypeOK
<1>2. IndexTrue
    BY DEF IndexTrue, HeapIndexed, ConsTrue, CtxTrue, FoundTrue
<1>3. DOMAIN pushCh = {} /\ DOMAIN delCh = {}
    OBVIOUS
<1>4. OnePlace
    BY <1>3 DEF OnePlace, QueueTrue, Untouched, HeapTrue, CurTrue, Queued,
       Pushed
<1>5. RoundsLeft
    BY FS_EmptySet DEF RoundsLeft
<1>6. AcksCounted
    BY <1>3 DEF AcksCounted
<1> QED
    BY <1>1, <1>2, <1>4, <1>5, <1>6 DEF AckInv

LEMMA StepInv == AckInv /\ [Next]_vars => AckInv'
<1> SUFFICES ASSUME AckInv, [Next]_vars PROVE AckInv'
    OBVIOUS
<1> USE DEF AckInv
<1>1. TypeOK'
    BY TypeStep
<1>2. IndexTrue'
    BY HeapIndexedStep, ConsStep, CtxStep, FoundStep DEF IndexTrue
<1>3. OnePlace'
    BY QueueStep, UntouchedStep, HeapStep, CurStep DEF OnePlace
<1>4. RoundsLeft'
    BY RoundsStep
<1>5. AcksCounted'
    BY AcksStep
<1> QED
    BY <1>1, <1>2, <1>3, <1>4, <1>5

(* The index of a message tells the truth, a message is in one place, and   *)
(* the scan asks for no more than there is (AckMessageManage, TimeLoop).    *)
THEOREM AckCorrect == Spec => []AckInv
BY InitInv, StepInv, PTL DEF Spec

(* No acknowledgement takes another message out of the heap, and nobody     *)
(* reaches into an empty one (MinHeap.Delete, TimeLoop).                    *)
THEOREM HeapStaysInBounds == Spec => []HeapInBounds
<1>1. ASSUME AckInv PROVE HeapInBounds
  <2> USE DEF AckInv
  <2>1. ASSUME NEW m \in Msgs, Found(m) PROVE index[m] # "zero"
    BY <1>1, <2>1, AckAssumption DEF Found, IndexTrue, FoundTrue, TypeOK
  <2>2. ASSUME loop = "scan", rounds > 0, heap = {} PROVE FALSE
    <3>1. Cardinality(heap) = 0 /\ cur = NoMsg
      BY <1>1, <2>2, FS_EmptySet DEF OnePlace, CurTrue
    <3>2. rounds \in Nat /\ rounds <= Cardinality(heap) + 0
      BY <1>1, <3>1 DEF RoundsLeft, TypeOK
    <3> QED
      BY ONLY <2>2, <3>1, <3>2
  <2> QED
    BY <2>1, <2>2 DEF HeapInBounds
<1> QED
    BY AckCorrect, <1>1, PTL
(* TimeLoop stops waiting for a message only for one of the four causes:   *)
(* its acknowledgement, no connection, no retries left, a refused Write     *)
(* (TimeLoop, AckMesageHandle).                                             *)
LEMMA DropStep ==
    ASSUME AckInv, [Next]_vars, NEW m \in Msgs, Tracked(m), ~Tracked(m)'
    PROVE  \/ acks[m] > 0
           \/ cons[Receiver[m]] = NoConn
           \/ ntime[m] > RetryLimit
           \/ loop = "write" /\ cur = m
<1> USE DEF AckInv
<1>a. heap \subseteq Msgs /\ NoMsg \notin Msgs
    BY AckAssumption DEF TypeOK
<1>1. ASSUME NEW n \in Msgs, Push(n) PROVE FALSE
  <2>1. ~Queued(n)
    BY <1>1 DEF Push, OnePlace, QueueTrue, Pushed
  <2>2. \A k \in Msgs : Queued(k)' <=> Queued(k) \/ k = n
    BY <1>1, <2>1, PushedQueue DEF Push, OnePlace
  <2> QED
    BY <1>1, <2>2 DEF Push, Tracked, heapVars, loopVars
<1>2. CASE RecvPush
  <2>1. /\ Head(pushCh) \in Msgs /\ PushMsg(Head(pushCh))
        /\ \A k \in Msgs : Queued(k)' <=> Queued(k) /\ k # Head(pushCh)
    BY <1>2, PoppedQueue DEF RecvPush, OnePlace
  <2>2. heap \subseteq heap'
    BY <2>1, PushEffect DEF IndexTrue
  <2>3. UNCHANGED <<cur, loop>>
    BY <1>2 DEF RecvPush, loopVars
  <2>4. m = Head(pushCh) /\ m \notin heap'
    BY <2>1, <2>2, <2>3 DEF Tracked
  <2> QED
    BY <2>1, <2>4, PushEffect DEF IndexTrue
<1>3. CASE RecvDelete
  <2>1. /\ Head(delCh) \in Msgs /\ acks[Head(delCh)] > 0
        /\ DeleteMsg(Head(delCh))
    BY <1>3, HeadAcked DEF RecvDelete
  <2>2. \A k \in heap \ heap' : k = Head(delCh)
    BY <2>1, DeleteEffect
  <2>3. UNCHANGED <<cur, loop, pushCh>>
    BY <1>3 DEF RecvDelete, loopVars
  <2> QED
    BY <2>1, <2>2, <2>3 DEF Tracked, Queued
<1>4. CASE ScanPop
  <2>1. PICK k \in Top : /\ cur' = k /\ heap' = heap \ {k}
                         /\ curCon' = cons[Receiver[k]]
                         /\ loop' = IF curCon' = NoConn \/ ntime[k] > RetryLimit
                                    THEN "drop" ELSE "write"
    BY <1>4 DEF ScanPop
  <2>2. UNCHANGED pushCh /\ cur = NoMsg
    BY <1>4 DEF ScanPop, OnePlace, CurTrue
  <2> QED
    BY <1>a, <2>1, <2>2 DEF Tracked, Queued
<1>5. CASE ScanDrop
  <2>1. /\ cur \in Msgs /\ cur \notin heap /\ DeleteMsg(cur)
    BY <1>5 DEF ScanDrop, TypeOK, OnePlace, CurTrue, HeapTrue
  <2>2. heap' = heap
    BY <2>1, DeleteEffect
  <2>3. UNCHANGED pushCh /\ loop = "drop"
    BY <1>5 DEF ScanDrop
  <2> QED
    BY <2>2, <2>3 DEF Tracked, Queued
<1>6. CASE ScanWrite
    BY <1>6 DEF ScanWrite, Tracked, Queued, heapVars
<1>7. CASE ScanPush
  <2>1. cur \in Msgs /\ PushMsg(cur)
    BY <1>7 DEF ScanPush, TypeOK, OnePlace, CurTrue
  <2>2. heap \subseteq heap' /\ UNCHANGED pushCh
    BY <1>7, <2>1, PushEffect DEF IndexTrue, ScanPush
  <2>3. m = cur /\ m \notin heap'
    BY <2>2 DEF Tracked, Queued
  <2> QED
    BY <2>1, <2>3, PushEffect DEF IndexTrue
<1>8. CASE UNCHANGED <<pushCh, heap, cur, loop>>
    BY <1>8 DEF Tracked, Queued
<1>9. ASSUME NEW c \in Conns, AddConnect(c) \/ Close(c) \/ DeleteConnect(c)
      PROVE  UNCHANGED <<pushCh, heap, cur, loop>>
    BY <1>9 DEF AddConnect, Close, DeleteConnect, heapVars, loopVars
<1>10. ASSUME NEW n \in Msgs, GetConnect(n) \/ Write(n) \/ Delete(n)
       PROVE  UNCHANGED <<pushCh, heap, cur, loop>>
    BY <1>10 DEF GetConnect, Write, Delete, heapVars, loopVars
<1>11. CASE Clock
    BY <1>11 DEF Clock, Tracked, Queued
<1>12. CASE RecvTick \/ ScanEnd
  <2>1. UNCHANGED <<pushCh, heap, cur>> /\ loop' \in {"scan", "select"}
    BY <1>12 DEF RecvTick, ScanEnd, heapVars
  <2>2. loop \in {"scan", "select"}
    BY <1>12 DEF RecvTick, ScanEnd
  <2> QED
    BY <2>1, <2>2 DEF Tracked, Queued
<1>13. CASE UNCHANGED vars
    BY <1>13 DEF vars, Tracked, Queued, heapVars, loopVars
<1> QED
    BY <1>1, <1>2, <1>3, <1>4, <1>5, <1>6, <1>7, <1>8, <1>9, <1>10, <1>11,
       <1>12, <1>13 DEF Next, Scanning

(* TimeLoop gives a message up for a cause only (TimeLoop).                 *)
THEOREM NoneDroppedWithoutCause == Spec => DroppedForCause
<1>1. AckInv /\ [Next]_vars =>
        [\A m \in Msgs : Tracked(m) /\ ~Tracked(m)' =>
            \/ acks[m] > 0
            \/ cons[Receiver[m]] = NoConn
            \/ ntime[m] > RetryLimit
            \/ loop = "write" /\ cur = m]_vars
    BY DropStep
<1> QED
    BY AckCorrect, <1>1, PTL DEF Spec, DroppedForCause

(* An acknowledgement that finds its message ends its retries (TimeLoop,    *)
(* AckMesageHandle).                                                        *)
THEOREM AcksEndRetries == Spec => AckEndsRetries
<1>1. ASSUME AckInv, NEW m \in Msgs, RecvDelete, Head(delCh) = m, Found(m)
      PROVE  ~Tracked(m)'
  <2> USE DEF AckInv
  <2>1. DeleteMsg(m) /\ UNCHANGED <<cur, loop, pushCh>> /\ loop = "select"
    BY <1>1 DEF RecvDelete, loopVars
  <2>2. m \notin heap' /\ index[m] # "zero"
    BY <1>1, <2>1, DeleteEffect
  <2>3. ~Queued(m)
    BY <1>1, <2>2 DEF OnePlace, Untouched
  <2> QED
    BY <2>1, <2>2, <2>3 DEF Tracked, Queued
<1>2. AckInv /\ [Next]_vars =>
        [\A m \in Msgs :
            RecvDelete /\ Head(delCh) = m /\ Found(m) => ~Tracked(m)']_vars
    BY <1>1
<1> QED
    BY AckCorrect, <1>2, PTL DEF Spec, AckEndsRetries

(* The steps of RetryQueue, in terms of this module.                        *)
LEMMA RetryStutter ==
    ASSUME \A m \in Msgs : Status(m)' = Status(m), resent' = resent
    PROVE  [Retry!Next]_(Retry!retryVars)
<1>1. [m \in Msgs |-> Status(m)]' = [m \in Msgs |-> Status(m)]
    OBVIOUS
<1> QED
    BY <1>1 DEF Retry!retryVars

LEMMA RetryTrack ==
    ASSUME NEW k \in Msgs, \A m \in Msgs \ {k} : Status(m)' = Status(m),
           resent' = resent, Status(k) = "new", Status(k)' = "tracked"
    PROVE  [Retry!Next]_(Retry!retryVars)
<1>1. [m \in Msgs |-> Status(m)]' =
          [[m \in Msgs |-> Status(m)] EXCEPT ![k] = "tracked"]
    OBVIOUS
<1> QED
    BY <1>1 DEF Retry!Next, Retry!Track

LEMMA RetrySettle ==
    ASSUME NEW k \in Msgs, \A m \in Msgs \ {k} : Status(m)' = Status(m),
           resent' = resent,
           Status(k) = "tracked", Status(k)' \in {"tracked", "settled"}
    PROVE  [Retry!Next]_(Retry!retryVars)
<1>1. CASE Status(k)' = "tracked"
  <2>1. \A m \in Msgs : Status(m)' = Status(m)
    BY <1>1
  <2> QED
    BY <2>1, RetryStutter
<1>2. CASE Status(k)' = "settled"
  <2>1. [m \in Msgs |-> Status(m)]' =
            [[m \in Msgs |-> Status(m)] EXCEPT ![k] = "settled"]
    BY <1>2
  <2> QED
    BY <2>1 DEF Retry!Next, Retry!Settle
<1> QED
    BY <1>1, <1>2

LEMMA RetryResend ==
    ASSUME NEW k \in Msgs, \A m \in Msgs : Status(m)' = Status(m),
           Status(k) = "tracked", resent[k] < RetryLimit,
           resent' = [resent EXCEPT ![k] = resent[k] + 1]
    PROVE  [Retry!Next]_(Retry!retryVars)
<1>1. [m \in Msgs |-> Status(m)]' = [m \in Msgs |-> Status(m)]
    OBVIOUS
<1> QED
    BY <1>1 DEF Retry!Next, Retry!Resend

(* What is tracked was pushed.                                              *)
LEMMA TrackedPushed == OnePlace => \A m \in Msgs : Tracked(m) => Pushed(m)
BY DEF OnePlace, QueueTrue, HeapTrue, CurTrue, Tracked

(* Every step is one of RetryQueue, of the message it is about, or none.    *)
LEMMA RefinementStep ==
    ASSUME AckInv, [Next]_vars
    PROVE  [Retry!Next]_(Retry!retryVars)
<1> USE DEF AckInv
<1>a. heap \subseteq Msgs /\ NoMsg \notin Msgs
    BY AckAssumption DEF TypeOK
<1>1. CASE UNCHANGED <<pushCh, heap, cur, loop, step, resent>>
  <2>1. \A m \in Msgs : Status(m)' = Status(m)
    BY <1>1 DEF Status, Pushed, Tracked, Queued
  <2> QED
    BY <1>1, <2>1, RetryStutter
<1>2. ASSUME NEW c \in Conns, AddConnect(c) \/ Close(c) \/ DeleteConnect(c)
      PROVE  UNCHANGED <<pushCh, heap, cur, loop, step, resent>>
    BY <1>2 DEF AddConnect, Close, DeleteConnect, heapVars, loopVars,
       handlerVars, histVars
<1>3. ASSUME NEW n \in Msgs, GetConnect(n) \/ Write(n)
      PROVE  [Retry!Next]_(Retry!retryVars)
  <2>1. UNCHANGED <<pushCh, heap, cur, loop, resent>>
    BY <1>3 DEF GetConnect, Write, heapVars, loopVars, histVars
  <2>2. \A m \in Msgs : Pushed(m)' <=> Pushed(m)
    BY <1>3, ZenonT(30) DEF GetConnect, Write, Pushed, TypeOK
  <2>3. \A m \in Msgs : Status(m)' = Status(m)
    BY <2>1, <2>2 DEF Status, Tracked, Queued
  <2> QED
    BY <2>1, <2>3, RetryStutter
<1>4. ASSUME NEW n \in Msgs, Delete(n)
      PROVE  UNCHANGED <<pushCh, heap, cur, loop, step, resent>>
    BY <1>4 DEF Delete, heapVars, loopVars, handlerVars
<1>5. ASSUME NEW n \in Msgs, Push(n) PROVE [Retry!Next]_(Retry!retryVars)
  <2>1. ~Queued(n) /\ ~Pushed(n) /\ Pushed(n)'
    BY <1>5 DEF Push, OnePlace, QueueTrue, Pushed, TypeOK
  <2>2. \A m \in Msgs : Queued(m)' <=> Queued(m) \/ m = n
    BY <1>5, <2>1, PushedQueue DEF Push, OnePlace
  <2>3. UNCHANGED <<heap, cur, loop, resent>>
    BY <1>5 DEF Push, heapVars, loopVars, histVars
  <2>4. \A m \in Msgs \ {n} : Pushed(m)' <=> Pushed(m)
    BY <1>5 DEF Push, Pushed, TypeOK
  <2>5. Status(n) = "new" /\ Status(n)' = "tracked"
    BY <2>1, <2>2 DEF Status, Tracked
  <2>6. \A m \in Msgs \ {n} : Status(m)' = Status(m)
    BY <2>2, <2>3, <2>4 DEF Status, Tracked
  <2> QED
    BY <2>3, <2>5, <2>6, RetryTrack
<1>6. CASE Clock
  <2>1. UNCHANGED <<pushCh, heap, cur, loop, step, resent>>
    BY <1>6 DEF Clock, handlerVars, histVars
  <2> QED
    BY <1>1, <2>1
<1>7. CASE RecvPush
  <2>1. PICK k \in Msgs : /\ Queued(k) /\ PushMsg(k)
                         /\ \A m \in Msgs : Queued(m)' <=> Queued(m) /\ m # k
    BY <1>7, PoppedQueue DEF RecvPush, OnePlace
  <2>2. UNCHANGED <<cur, loop, step, resent>>
    BY <1>7 DEF RecvPush, loopVars, handlerVars, histVars
  <2>3. \A m \in Msgs \ {k} : m \in heap' <=> m \in heap
    BY <2>1, PushEffect DEF IndexTrue
  <2>4. Pushed(k)
    BY <2>1 DEF OnePlace, QueueTrue
  <2>5. \A m \in Msgs \ {k} : Status(m)' = Status(m)
    BY <2>1, <2>2, <2>3 DEF Status, Tracked, Pushed
  <2>6. Status(k) = "tracked"
    BY <2>1, <2>4 DEF Status, Tracked
  <2>7. Status(k)' \in {"tracked", "settled"}
    BY <2>2, <2>4 DEF Status, Pushed
  <2> QED
    BY <2>2, <2>5, <2>6, <2>7, RetrySettle
<1>8. CASE RecvDelete
  <2>1. PICK k \in Msgs : DeleteMsg(k)
    BY <1>8, HeadAcked DEF RecvDelete
  <2>2. UNCHANGED <<pushCh, cur, loop, step, resent>>
    BY <1>8 DEF RecvDelete, loopVars, handlerVars, histVars
  <2>3. heap' = heap \/ (k \in heap /\ heap' = heap \ {k})
    BY <2>1, DeleteEffect
  <2>4. CASE heap' = heap
    BY <1>1, <2>2, <2>4
  <2>5. CASE k \in heap /\ heap' = heap \ {k}
    <3>1. Pushed(k)
      BY <2>5 DEF OnePlace, HeapTrue
    <3>2. Status(k) = "tracked"
      BY <2>5, <3>1 DEF Status, Tracked
    <3>4. Status(k)' \in {"tracked", "settled"}
      BY <2>2, <3>1 DEF Status, Pushed
    <3>3. \A m \in Msgs \ {k} : Status(m)' = Status(m)
      BY <2>2, <2>5 DEF Status, Tracked, Pushed, Queued
    <3> QED
      BY <2>2, <3>2, <3>3, <3>4, RetrySettle
  <2> QED
    BY <2>3, <2>4, <2>5
<1>9. CASE RecvTick \/ ScanEnd
  <2>1. /\ UNCHANGED <<pushCh, heap, cur, step, resent>>
        /\ loop \in {"scan", "select"} /\ loop' \in {"scan", "select"}
    BY <1>9 DEF RecvTick, ScanEnd, heapVars, handlerVars, histVars
  <2>2. \A m \in Msgs : Status(m)' = Status(m)
    BY <2>1 DEF Status, Pushed, Tracked, Queued
  <2> QED
    BY <2>1, <2>2, RetryStutter
<1>10. CASE ScanPop
  <2>1. PICK k \in Top : cur' = k /\ heap' = heap \ {k}
    BY <1>10 DEF ScanPop
  <2>2. UNCHANGED <<pushCh, step, resent>> /\ cur = NoMsg
    BY <1>10 DEF ScanPop, OnePlace, CurTrue, handlerVars, histVars
  <2>3. k \in heap /\ k \in Msgs /\ Pushed(k)
    BY <1>a, <2>1 DEF Top, OnePlace, HeapTrue
  <2>4. \A m \in Msgs \ {k} : Status(m)' = Status(m)
    BY <1>a, <2>1, <2>2 DEF Status, Tracked, Pushed, Queued
  <2>5. Status(k) = "tracked" /\ Status(k)' \in {"tracked", "settled"}
    BY <2>2, <2>3 DEF Status, Tracked, Pushed
  <2> QED
    BY <2>2, <2>3, <2>4, <2>5, RetrySettle
<1>11. CASE ScanDrop
  <2>1. /\ cur \in Msgs /\ cur \notin heap /\ DeleteMsg(cur)
        /\ index[cur] = "out" /\ loop = "drop"
    BY <1>11 DEF ScanDrop, TypeOK, OnePlace, CurTrue, HeapTrue
  <2>2. heap' = heap
    BY <2>1, DeleteEffect
  <2>3. UNCHANGED <<pushCh, step, resent>> /\ loop' = "scan"
    BY <1>11 DEF ScanDrop, NextRound, handlerVars, histVars
  <2>4. \A m \in Msgs : Status(m)' = Status(m)
    BY <2>1, <2>2, <2>3 DEF Status, Tracked, Pushed, Queued
  <2> QED
    BY <2>3, <2>4, RetryStutter
<1>12. CASE ScanWrite
  <2>1. PICK k \in Msgs : k = cur
    BY <1>12 DEF ScanWrite, TypeOK, OnePlace, CurTrue
  <2>2. /\ Pushed(k) /\ loop = "write" /\ resent[k] + 1 <= RetryLimit
        /\ UNCHANGED <<pushCh, step, heap>>
    BY <1>12, <2>1 DEF ScanWrite, OnePlace, CurTrue, heapVars, handlerVars
  <2>3. Status(k) = "tracked"
    BY <2>1, <2>2 DEF Status, Tracked
  <2>4. CASE NextRound /\ resent' = resent
    <3>1. loop' = "scan"
      BY <2>4 DEF NextRound
    <3>2. \A m \in Msgs \ {k} : Status(m)' = Status(m)
      BY <2>1, <2>2, <3>1 DEF Status, Tracked, Pushed, Queued
    <3>3. Status(k)' \in {"tracked", "settled"}
      BY <2>2 DEF Status, Pushed
    <3> QED
      BY <2>3, <2>4, <3>2, <3>3, RetrySettle
  <2>5. CASE /\ resent' = [resent EXCEPT ![cur] = resent[cur] + 1]
             /\ loop' = "push" /\ cur' = cur
    <3>1. \A m \in Msgs : Status(m)' = Status(m)
      BY <2>1, <2>2, <2>5 DEF Status, Tracked, Pushed, Queued
    <3>2. resent[k] \in 0 .. RetryLimit /\ RetryLimit \in Nat
      BY AckAssumption DEF TypeOK
    <3>3. resent[k] < RetryLimit
      BY <2>2, <3>2
    <3>4. resent' = [resent EXCEPT ![k] = resent[k] + 1]
      BY <2>1, <2>5
    <3> QED
      BY <2>3, <3>1, <3>3, <3>4, RetryResend
  <2> QED
    BY <1>12, <2>4, <2>5 DEF ScanWrite
<1>13. CASE ScanPush
  <2>1. PICK k \in Msgs : k = cur
    BY <1>13 DEF ScanPush, TypeOK, OnePlace, CurTrue
  <2>2. /\ Pushed(k) /\ loop = "push" /\ PushMsg(k)
        /\ UNCHANGED <<pushCh, step, resent>> /\ loop' = "scan"
    BY <1>13, <2>1 DEF ScanPush, NextRound, OnePlace, CurTrue, handlerVars,
       histVars
  <2>3. \A m \in Msgs \ {k} : m \in heap' <=> m \in heap
    BY <2>2, PushEffect DEF IndexTrue
  <2>4. \A m \in Msgs \ {k} : Status(m)' = Status(m)
    BY <2>1, <2>2, <2>3 DEF Status, Tracked, Pushed, Queued
  <2>5. Status(k)' \in {"tracked", "settled"}
    BY <2>2 DEF Status, Pushed
  <2>6. Status(k) = "tracked"
    BY <2>1, <2>2 DEF Status, Tracked
  <2> QED
    BY <2>2, <2>4, <2>5, <2>6, RetrySettle
<1>14. CASE UNCHANGED vars
    BY <1>1, <1>14 DEF vars, heapVars, loopVars, handlerVars, histVars
<1> QED
    BY <1>1, <1>2, <1>3, <1>4, <1>5, <1>6, <1>7, <1>8, <1>9, <1>10, <1>11,
       <1>12,
       <1>13, <1>14 DEF Next, Scanning

(* The manager implements RetryQueue: a message is sent again at most       *)
(* RetryLimit times and only while it is tracked, and what is settled is    *)
(* never taken up again (TimeLoop, AckMesageHandle).                        *)
THEOREM ImplementsRetryQueue == Spec => RetrySpec
<1>1. Init => Retry!Init
    BY DEF Init, Retry!Init, Status, Pushed
<1>2. AckInv /\ [Next]_vars => [Retry!Next]_(Retry!retryVars)
    BY RefinementStep
<1> QED
    BY AckCorrect, <1>1, <1>2, PTL DEF Spec, RetrySpec, Retry!Spec
=============================================================================

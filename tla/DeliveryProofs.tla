--------------------------- MODULE DeliveryProofs ---------------------------
(***************************************************************************)
(* Proofs about Delivery for any numbers of messages, users, servers and    *)
(* connections: its invariant, the refinement of Mailbox, and that a clean  *)
(* session is registered and misses no message.                             *)
(***************************************************************************)
EXTENDS Delivery, TLAPS

(* A Write puts at most its message under way.                              *)
LEMMA WriteKeeps ==
    ASSUME push \in [Conns -> SUBSET Msgs], UNCHANGED <<db, received>>,
           \A d \in Conns : Kept(push[d]),
           NEW m, Kept({m}), NEW k \in Conns, WriteTo(k, m)
    PROVE  \A d \in Conns : Kept(push[d])'
<1>1. CASE UNCHANGED push
  BY <1>1 DEF Kept
<1>2. CASE push' = [push EXCEPT ![k] = @ \cup {m}]
  <2>1. \A d \in Conns : push'[d] = IF d = k THEN push[d] \cup {m} ELSE push[d]
    BY <1>2
  <2>2. QED
    BY <2>1 DEF Kept
<1>3. QED
  BY <1>1, <1>2 DEF WriteTo

(* Every step keeps the type invariant.                                    *)
LEMMA TypeStep ==
    ASSUME TypeOK, FoundUsable, [Next]_vars
    PROVE  TypeOK'
<1> USE DeliveryAssumption DEF TypeOK, FoundUsable, SetStep, Mail
<1>1. ASSUME NEW c \in Conns, Open(c) PROVE TypeOK'
  BY <1>1 DEF Open, vars, sessionVars, pullVars, handlerVars, clientVars
<1>2. ASSUME NEW c \in Conns, Lose(c) PROVE TypeOK'
  BY <1>2 DEF Lose, vars, sessionVars, pullVars, handlerVars, clientVars
<1>3. ASSUME NEW c \in Conns, Close(c) PROVE TypeOK'
  BY <1>3 DEF Close, vars, sessionVars, pullVars, handlerVars, clientVars
<1>4. ASSUME NEW c \in Conns, DeleteConnect(c) PROVE TypeOK'
  BY <1>4 DEF DeleteConnect, vars, sessionVars, pullVars, handlerVars,
     clientVars
<1>5. ASSUME NEW c \in Conns, DeleteUser(c) PROVE TypeOK'
  <2>1. CASE redis' = IF id[c] = None THEN redis ELSE SetStep(redis, id[c], None)
    BY <1>5, <2>1 DEF DeleteUser, vars, sessionVars, pullVars, handlerVars,
       clientVars
  <2>2. CASE UNCHANGED redis
    BY <1>5, <2>2 DEF DeleteUser, vars, sessionVars, pullVars, handlerVars,
       clientVars
  <2>3. QED
    BY <1>5, <2>1, <2>2 DEF DeleteUser, vars, sessionVars, pullVars,
       handlerVars, clientVars
<1>6. ASSUME NEW c \in Conns, AddConnect(c) PROVE TypeOK'
  BY <1>6 DEF AddConnect, vars, sessionVars, pullVars, handlerVars, clientVars
<1>7. ASSUME NEW c \in Conns, AuthFails(c) PROVE TypeOK'
  BY <1>7 DEF AuthFails, vars, sessionVars, pullVars, handlerVars, clientVars
<1>8. ASSUME NEW c \in Conns, SetUser(c) PROVE TypeOK'
  BY <1>8 DEF SetUser, vars, sessionVars, pullVars, handlerVars, clientVars
<1>9. ASSUME NEW c \in Conns, SetId(c) PROVE TypeOK'
  BY <1>9 DEF SetId, vars, sessionVars, pullVars, handlerVars, clientVars
<1>10. ASSUME NEW c \in Conns, PullQuery(c) PROVE TypeOK'
  <2>1. pulled' \in [Conns -> SUBSET Msgs]
    <3>1. CASE UNCHANGED pulled
      BY <3>1
    <3>2. CASE pulled' = SetStep(pulled, c, IF id[c] = None THEN {} ELSE Mail(id[c]))
      BY <3>2
    <3>3. QED
      BY <1>10, <3>1, <3>2 DEF PullQuery
  <2>2. given' \subseteq Msgs
    BY <1>10, <2>1 DEF PullQuery
  <2>3. QED
    BY <1>10, <2>1, <2>2 DEF PullQuery, vars, sessionVars, pullVars,
       handlerVars, clientVars
<1>11. ASSUME NEW c \in Conns, PullReply(c) PROVE TypeOK'
  <2>1. CASE link[c] = "open" /\ pull' = SetStep(pull, c, pulled[c]) /\ UNCHANGED given
    BY <1>11, <2>1 DEF PullReply, vars, sessionVars, pullVars, handlerVars,
       clientVars
  <2>2. CASE UNCHANGED pull /\ given' = given \cup pulled[c]
    BY <1>11, <2>2 DEF PullReply, vars, sessionVars, pullVars, handlerVars,
       clientVars
  <2>3. QED
    BY <1>11, <2>1, <2>2 DEF PullReply, vars, sessionVars, pullVars,
       handlerVars, clientVars
<1>12. ASSUME NEW c \in Conns, PullOneMessages(c) PROVE TypeOK'
  BY <1>12 DEF PullOneMessages, vars, sessionVars, pullVars, handlerVars,
     clientVars
<1>13. ASSUME NEW m \in Msgs, AddOnemessage(m) PROVE TypeOK'
  <2>1. CASE db' = db \cup {m} /\ handler' = SetStep(handler, m, "ack")
    BY <1>13, <2>1 DEF AddOnemessage, vars, sessionVars, pullVars,
       handlerVars, clientVars
  <2>2. CASE UNCHANGED db /\ handler' = SetStep(handler, m, "failed")
    BY <1>13, <2>2 DEF AddOnemessage, vars, sessionVars, pullVars,
       handlerVars, clientVars
  <2>3. QED
    BY <1>13, <2>1, <2>2 DEF AddOnemessage, vars, sessionVars, pullVars,
       handlerVars, clientVars
<1>14. ASSUME NEW m \in Msgs, SendAck(m) PROVE TypeOK'
  BY <1>14 DEF SendAck, vars, sessionVars, pullVars, handlerVars, clientVars
<1>15. ASSUME NEW m \in Msgs, GetConnect(m) PROVE TypeOK'
  BY <1>15 DEF GetConnect, vars, sessionVars, pullVars, handlerVars,
     clientVars
<1>16. ASSUME NEW m \in Msgs, Push(m) PROVE TypeOK'
  BY <1>16 DEF Push, vars, sessionVars, pullVars, handlerVars, clientVars
<1>17. ASSUME NEW m \in Msgs, Write(m) PROVE TypeOK'
  BY <1>17 DEF Write, vars, sessionVars, pullVars, handlerVars, clientVars,
     WriteTo
<1>18. ASSUME NEW m \in Msgs, GetUser(m) PROVE TypeOK'
  <2>1. CASE /\ handler' = SetStep(handler, m, "rpc")
             /\ found' = SetStep(found, m, redis[Receiver[m]])
             /\ redis[Receiver[m]] \notin {None, Origin[m]} /\ UNCHANGED given
    BY <1>18, <2>1 DEF GetUser, vars, sessionVars, pullVars, handlerVars,
       clientVars
  <2>2. CASE /\ handler' = SetStep(handler, m, "done")
             /\ redis[Receiver[m]] \in {None, Origin[m]}
             /\ UNCHANGED <<found, given>>
    BY <1>18, <2>2 DEF GetUser, vars, sessionVars, pullVars, handlerVars,
       clientVars
  <2>3. CASE /\ handler' = SetStep(handler, m, "done")
             /\ given' = given \cup {m} /\ UNCHANGED found
    BY <1>18, <2>3 DEF GetUser, vars, sessionVars, pullVars, handlerVars,
       clientVars
  <2>4. QED
    BY <1>18, <2>1, <2>2, <2>3 DEF GetUser, vars, sessionVars, pullVars,
       handlerVars, clientVars
<1>19. ASSUME NEW m \in Msgs, TransferFails(m) PROVE TypeOK'
  BY <1>19 DEF TransferFails, vars, sessionVars, pullVars, handlerVars,
     clientVars
<1>20. ASSUME NEW m \in Msgs, Transfer(m) PROVE TypeOK'
  BY <1>20 DEF Transfer, vars, sessionVars, pullVars, handlerVars, clientVars
<1>21. ASSUME NEW m \in Msgs, TransferWrite(m) PROVE TypeOK'
  <2>1. CASE /\ link[found[m]] = "open" /\ UNCHANGED given
             /\ push' = [push EXCEPT ![found[m]] = @ \cup {m}]
    BY <1>21, <2>1 DEF TransferWrite, vars, sessionVars, pullVars,
       handlerVars, clientVars, WriteTo
  <2>2. CASE UNCHANGED push /\ given' = given \cup {m}
    BY <1>21, <2>2 DEF TransferWrite, vars, sessionVars, pullVars,
       handlerVars, clientVars, WriteTo
  <2>3. QED
    BY <1>21, <2>1, <2>2 DEF TransferWrite, vars, sessionVars, pullVars,
       handlerVars, clientVars, WriteTo
<1>22. ASSUME NEW m \in Msgs, TransferPush(m) PROVE TypeOK'
  BY <1>22 DEF TransferPush, vars, sessionVars, pullVars, handlerVars,
     clientVars
<1>23. ASSUME NEW c \in Conns, NEW m \in Msgs, OneMessages(c, m) PROVE TypeOK'
  BY <1>23 DEF OneMessages, vars, sessionVars, pullVars, handlerVars,
     clientVars
<1>24. ASSUME NEW c \in Conns, NEW m \in Msgs, ClientAck(c, m) PROVE TypeOK'
  BY <1>24 DEF ClientAck, vars, sessionVars, pullVars, handlerVars, clientVars
<1>25. ASSUME NEW c \in Conns, NEW m \in Msgs, DeleteOnemessage(c, m)
       PROVE  TypeOK'
  BY <1>25 DEF DeleteOnemessage, vars, sessionVars, pullVars, handlerVars,
     clientVars
<1>26. ASSUME NEW s \in Servers, NEW m \in Msgs, Resend(s, m) PROVE TypeOK'
  BY <1>26 DEF Resend, vars, sessionVars, pullVars, handlerVars, clientVars
<1>27. ASSUME NEW s \in Servers, NEW m \in Msgs, Settle(s, m) PROVE TypeOK'
  BY <1>27 DEF Settle, vars, sessionVars, pullVars, handlerVars,
            clientVars
<1>28. ASSUME NEW s \in Servers, Crash(s) PROVE TypeOK'
  BY <1>28 DEF Crash, vars, sessionVars, pullVars, handlerVars, clientVars
<1>29. CASE UNCHANGED vars
  BY <1>29 DEF vars, sessionVars, pullVars, handlerVars, clientVars
<1>30. QED
  BY <1>1, <1>2, <1>3, <1>4, <1>5, <1>6, <1>7, <1>8, <1>9, <1>10, <1>11,
     <1>12, <1>13, <1>14, <1>15, <1>16, <1>17, <1>18, <1>19, <1>20, <1>21,
     <1>22, <1>23, <1>24, <1>25, <1>26, <1>27, <1>28, <1>29 DEF Next, Session,
     Auth, Pulling, Handling, Acking

(* A handler holds a connection where it is about to use one.               *)
LEMMA FoundStep ==
    ASSUME TypeOK, FoundUsable, [Next]_vars
    PROVE  FoundUsable'
<1> USE DeliveryAssumption DEF TypeOK, FoundUsable, SetStep
<1>1. ASSUME NEW c \in Conns, Open(c) PROVE FoundUsable'
  BY <1>1 DEF Open, vars, sessionVars, pullVars, handlerVars, clientVars
<1>2. ASSUME NEW c \in Conns, Lose(c) PROVE FoundUsable'
  BY <1>2 DEF Lose, vars, sessionVars, pullVars, handlerVars, clientVars
<1>3. ASSUME NEW c \in Conns, Close(c) PROVE FoundUsable'
  BY <1>3 DEF Close, vars, sessionVars, pullVars, handlerVars, clientVars
<1>4. ASSUME NEW c \in Conns, DeleteConnect(c) PROVE FoundUsable'
  BY <1>4 DEF DeleteConnect, vars, sessionVars, pullVars, handlerVars,
     clientVars
<1>5. ASSUME NEW c \in Conns, DeleteUser(c) PROVE FoundUsable'
  BY <1>5 DEF DeleteUser, vars, sessionVars, pullVars, handlerVars, clientVars
<1>6. ASSUME NEW c \in Conns, AddConnect(c) PROVE FoundUsable'
  BY <1>6 DEF AddConnect, vars, sessionVars, pullVars, handlerVars, clientVars
<1>7. ASSUME NEW c \in Conns, AuthFails(c) PROVE FoundUsable'
  BY <1>7 DEF AuthFails, vars, sessionVars, pullVars, handlerVars, clientVars
<1>8. ASSUME NEW c \in Conns, SetUser(c) PROVE FoundUsable'
  BY <1>8 DEF SetUser, vars, sessionVars, pullVars, handlerVars, clientVars
<1>9. ASSUME NEW c \in Conns, SetId(c) PROVE FoundUsable'
  BY <1>9 DEF SetId, vars, sessionVars, pullVars, handlerVars, clientVars
<1>10. ASSUME NEW c \in Conns, PullQuery(c) PROVE FoundUsable'
  BY <1>10 DEF PullQuery, vars, sessionVars, pullVars, handlerVars, clientVars
<1>11. ASSUME NEW c \in Conns, PullReply(c) PROVE FoundUsable'
  BY <1>11 DEF PullReply, vars, sessionVars, pullVars, handlerVars, clientVars
<1>12. ASSUME NEW c \in Conns, PullOneMessages(c) PROVE FoundUsable'
  BY <1>12 DEF PullOneMessages, vars, sessionVars, pullVars, handlerVars,
     clientVars
<1>13. ASSUME NEW m \in Msgs, AddOnemessage(m) PROVE FoundUsable'
  BY <1>13 DEF AddOnemessage, vars, sessionVars, pullVars, handlerVars,
     clientVars
<1>14. ASSUME NEW m \in Msgs, SendAck(m) PROVE FoundUsable'
  BY <1>14 DEF SendAck, vars, sessionVars, pullVars, handlerVars, clientVars
<1>15. ASSUME NEW m \in Msgs, GetConnect(m) PROVE FoundUsable'
  BY <1>15 DEF GetConnect, vars, sessionVars, pullVars, handlerVars,
     clientVars
<1>16. ASSUME NEW m \in Msgs, Push(m) PROVE FoundUsable'
  BY <1>16 DEF Push, vars, sessionVars, pullVars, handlerVars, clientVars
<1>17. ASSUME NEW m \in Msgs, Write(m) PROVE FoundUsable'
  BY <1>17 DEF Write, vars, sessionVars, pullVars, handlerVars, clientVars,
     WriteTo
<1>18. ASSUME NEW m \in Msgs, GetUser(m) PROVE FoundUsable'
  BY <1>18 DEF GetUser, vars, sessionVars, pullVars, handlerVars, clientVars
<1>19. ASSUME NEW m \in Msgs, TransferFails(m) PROVE FoundUsable'
  BY <1>19 DEF TransferFails, vars, sessionVars, pullVars, handlerVars,
     clientVars
<1>20. ASSUME NEW m \in Msgs, Transfer(m) PROVE FoundUsable'
  BY <1>20 DEF Transfer, vars, sessionVars, pullVars, handlerVars, clientVars
<1>21. ASSUME NEW m \in Msgs, TransferWrite(m) PROVE FoundUsable'
  BY <1>21 DEF TransferWrite, vars, sessionVars, pullVars, handlerVars,
     clientVars, WriteTo
<1>22. ASSUME NEW m \in Msgs, TransferPush(m) PROVE FoundUsable'
  BY <1>22 DEF TransferPush, vars, sessionVars, pullVars, handlerVars,
     clientVars
<1>23. ASSUME NEW c \in Conns, NEW m \in Msgs, OneMessages(c, m)
       PROVE  FoundUsable'
  BY <1>23 DEF OneMessages, vars, sessionVars, pullVars, handlerVars,
     clientVars
<1>24. ASSUME NEW c \in Conns, NEW m \in Msgs, ClientAck(c, m)
       PROVE  FoundUsable'
  BY <1>24 DEF ClientAck, vars, sessionVars, pullVars, handlerVars, clientVars
<1>25. ASSUME NEW c \in Conns, NEW m \in Msgs, DeleteOnemessage(c, m)
       PROVE  FoundUsable'
  BY <1>25 DEF DeleteOnemessage, vars, sessionVars, pullVars, handlerVars,
     clientVars
<1>26. ASSUME NEW s \in Servers, NEW m \in Msgs, Resend(s, m)
       PROVE  FoundUsable'
  BY <1>26 DEF Resend, vars, sessionVars, pullVars, handlerVars, clientVars
<1>27. ASSUME NEW s \in Servers, NEW m \in Msgs, Settle(s, m)
       PROVE  FoundUsable'
  BY <1>27 DEF Settle, vars, sessionVars, pullVars, handlerVars,
            clientVars
<1>28. ASSUME NEW s \in Servers, Crash(s) PROVE FoundUsable'
  BY <1>28 DEF Crash, vars, sessionVars, pullVars, handlerVars, clientVars
<1>29. CASE UNCHANGED vars
  BY <1>29 DEF vars, sessionVars, pullVars, handlerVars, clientVars
<1>30. QED
  BY <1>1, <1>2, <1>3, <1>4, <1>5, <1>6, <1>7, <1>8, <1>9, <1>10, <1>11,
     <1>12, <1>13, <1>14, <1>15, <1>16, <1>17, <1>18, <1>19, <1>20, <1>21,
     <1>22, <1>23, <1>24, <1>25, <1>26, <1>27, <1>28, <1>29 DEF Next, Session,
     Auth, Pulling, Handling, Acking

(* What is under way stays stored or received: rows go only when they have *)
(* been received, and nothing is sent that is not a row.                    *)
LEMMA KeptStep ==
    ASSUME TypeOK, FoundUsable, UnderWayKept, AckedReceived, [Next]_vars
    PROVE  UnderWayKept'
<1> USE DeliveryAssumption DEF TypeOK, FoundUsable, AckedReceived,
   UnderWayKept, Kept, SetStep, Mail
<1>1. ASSUME NEW c \in Conns, Open(c) PROVE UnderWayKept'
  BY <1>1 DEF Open, vars, sessionVars, pullVars, handlerVars, clientVars
<1>2. ASSUME NEW c \in Conns, Lose(c) PROVE UnderWayKept'
  BY <1>2 DEF Lose, vars, sessionVars, pullVars, handlerVars, clientVars
<1>3. ASSUME NEW c \in Conns, Close(c) PROVE UnderWayKept'
  BY <1>3 DEF Close, vars, sessionVars, pullVars, handlerVars, clientVars
<1>4. ASSUME NEW c \in Conns, DeleteConnect(c) PROVE UnderWayKept'
  BY <1>4 DEF DeleteConnect, vars, sessionVars, pullVars, handlerVars,
     clientVars
<1>5. ASSUME NEW c \in Conns, DeleteUser(c) PROVE UnderWayKept'
  BY <1>5 DEF DeleteUser, vars, sessionVars, pullVars, handlerVars, clientVars
<1>6. ASSUME NEW c \in Conns, AddConnect(c) PROVE UnderWayKept'
  BY <1>6 DEF AddConnect, vars, sessionVars, pullVars, handlerVars, clientVars
<1>7. ASSUME NEW c \in Conns, AuthFails(c) PROVE UnderWayKept'
  BY <1>7 DEF AuthFails, vars, sessionVars, pullVars, handlerVars, clientVars
<1>8. ASSUME NEW c \in Conns, SetUser(c) PROVE UnderWayKept'
  BY <1>8 DEF SetUser, vars, sessionVars, pullVars, handlerVars, clientVars
<1>9. ASSUME NEW c \in Conns, SetId(c) PROVE UnderWayKept'
  BY <1>9 DEF SetId, vars, sessionVars, pullVars, handlerVars, clientVars
<1>10. ASSUME NEW c \in Conns, PullQuery(c) PROVE UnderWayKept'
  <2>1. CASE pulled' = SetStep(pulled, c, IF id[c] = None THEN {} ELSE Mail(id[c]))
             /\ given' = IF link[c] = "open" THEN given \ pulled'[c] ELSE given
    BY <1>10, <2>1 DEF PullQuery, vars, sessionVars, pullVars, handlerVars,
       clientVars
  <2>2. CASE UNCHANGED pulled /\ given' = given \cup Mail(Owner[c])
    BY <1>10, <2>2 DEF PullQuery, vars, sessionVars, pullVars, handlerVars,
       clientVars
  <2>3. QED
    BY <1>10, <2>1, <2>2 DEF PullQuery, vars, sessionVars, pullVars,
       handlerVars, clientVars
<1>11. ASSUME NEW c \in Conns, PullReply(c) PROVE UnderWayKept'
  <2>1. CASE link[c] = "open" /\ pull' = SetStep(pull, c, pulled[c]) /\ UNCHANGED given
    BY <1>11, <2>1 DEF PullReply, vars, sessionVars, pullVars, handlerVars,
       clientVars
  <2>2. CASE UNCHANGED pull /\ given' = given \cup pulled[c]
    BY <1>11, <2>2 DEF PullReply, vars, sessionVars, pullVars, handlerVars,
       clientVars
  <2>3. QED
    BY <1>11, <2>1, <2>2 DEF PullReply, vars, sessionVars, pullVars,
       handlerVars, clientVars
<1>12. ASSUME NEW c \in Conns, PullOneMessages(c) PROVE UnderWayKept'
  BY <1>12 DEF PullOneMessages, vars, sessionVars, pullVars, handlerVars,
     clientVars
<1>13. ASSUME NEW m \in Msgs, AddOnemessage(m) PROVE UnderWayKept'
  <2>1. CASE db' = db \cup {m} /\ handler' = SetStep(handler, m, "ack")
    BY <1>13, <2>1 DEF AddOnemessage, vars, sessionVars, pullVars,
       handlerVars, clientVars
  <2>2. CASE UNCHANGED db /\ handler' = SetStep(handler, m, "failed")
    BY <1>13, <2>2 DEF AddOnemessage, vars, sessionVars, pullVars,
       handlerVars, clientVars
  <2>3. QED
    BY <1>13, <2>1, <2>2, ZenonT(30) DEF AddOnemessage
<1>14. ASSUME NEW m \in Msgs, SendAck(m) PROVE UnderWayKept'
  BY <1>14 DEF SendAck, vars, sessionVars, pullVars, handlerVars, clientVars
<1>15. ASSUME NEW m \in Msgs, GetConnect(m) PROVE UnderWayKept'
  BY <1>15 DEF GetConnect, vars, sessionVars, pullVars, handlerVars,
     clientVars
<1>16. ASSUME NEW m \in Msgs, Push(m) PROVE UnderWayKept'
  BY <1>16, ZenonT(30) DEF Push, vars, sessionVars, pullVars, handlerVars, clientVars
<1>17. ASSUME NEW m \in Msgs, Write(m) PROVE UnderWayKept'
  <2>1. Kept({m}) /\ found[m] \in Conns
    BY <1>17 DEF Write
  <2>2. UNCHANGED <<db, received, retry, pull, pulled, confirmed>>
    BY <1>17 DEF Write, clientVars, pullVars
  <2>3. \A d \in Conns : Kept(push[d])'
    BY <1>17, <2>1, <2>2, WriteKeeps DEF Write
  <2>4. \A n \in Msgs : handler'[n] \notin {"new", "failed"} => Kept({n})'
    BY <1>17, <2>1, <2>2 DEF Write
  <2>5. QED
    BY <2>2, <2>3, <2>4
<1>18. ASSUME NEW m \in Msgs, GetUser(m) PROVE UnderWayKept'
  <2>1. CASE /\ handler' = SetStep(handler, m, "rpc")
             /\ found' = SetStep(found, m, redis[Receiver[m]])
             /\ redis[Receiver[m]] \notin {None, Origin[m]} /\ UNCHANGED given
    BY <1>18, <2>1 DEF GetUser, vars, sessionVars, pullVars, handlerVars,
       clientVars
  <2>2. CASE /\ handler' = SetStep(handler, m, "done")
             /\ redis[Receiver[m]] \in {None, Origin[m]}
             /\ UNCHANGED <<found, given>>
    BY <1>18, <2>2 DEF GetUser, vars, sessionVars, pullVars, handlerVars,
       clientVars
  <2>3. CASE /\ handler' = SetStep(handler, m, "done")
             /\ given' = given \cup {m} /\ UNCHANGED found
    BY <1>18, <2>3 DEF GetUser, vars, sessionVars, pullVars, handlerVars,
       clientVars
  <2>4. QED
    BY <1>18, <2>1, <2>2, <2>3 DEF GetUser, vars, sessionVars, pullVars,
       handlerVars, clientVars
<1>19. ASSUME NEW m \in Msgs, TransferFails(m) PROVE UnderWayKept'
  BY <1>19 DEF TransferFails, vars, sessionVars, pullVars, handlerVars,
     clientVars
<1>20. ASSUME NEW m \in Msgs, Transfer(m) PROVE UnderWayKept'
  BY <1>20 DEF Transfer, vars, sessionVars, pullVars, handlerVars, clientVars
<1>21. ASSUME NEW m \in Msgs, TransferWrite(m) PROVE UnderWayKept'
  <2>1. Kept({m}) /\ found[m] \in Conns
    BY <1>21 DEF TransferWrite
  <2>2. UNCHANGED <<db, received, retry, pull, pulled, confirmed>>
    BY <1>21 DEF TransferWrite, clientVars, pullVars
  <2>3. \A d \in Conns : Kept(push[d])'
    BY <1>21, <2>1, <2>2, WriteKeeps DEF TransferWrite
  <2>4. \A n \in Msgs : handler'[n] \notin {"new", "failed"} => Kept({n})'
    BY <1>21, <2>1, <2>2 DEF TransferWrite
  <2>5. QED
    BY <2>2, <2>3, <2>4
<1>22. ASSUME NEW m \in Msgs, TransferPush(m) PROVE UnderWayKept'
  BY <1>22, ZenonT(30) DEF TransferPush, vars, sessionVars, pullVars, handlerVars,
     clientVars
<1>23. ASSUME NEW c \in Conns, NEW m \in Msgs, OneMessages(c, m)
       PROVE  UnderWayKept'
  BY <1>23 DEF OneMessages, vars, sessionVars, pullVars, handlerVars,
     clientVars
<1>24. ASSUME NEW c \in Conns, NEW m \in Msgs, ClientAck(c, m)
       PROVE  UnderWayKept'
  BY <1>24 DEF ClientAck, vars, sessionVars, pullVars, handlerVars, clientVars
<1>25. ASSUME NEW c \in Conns, NEW m \in Msgs, DeleteOnemessage(c, m)
       PROVE  UnderWayKept'
  BY <1>25 DEF DeleteOnemessage, vars, sessionVars, pullVars, handlerVars,
     clientVars
<1>26. ASSUME NEW s \in Servers, NEW m \in Msgs, Resend(s, m)
       PROVE  UnderWayKept'
  BY <1>26 DEF Resend, vars, sessionVars, pullVars, handlerVars, clientVars
<1>27. ASSUME NEW s \in Servers, NEW m \in Msgs, Settle(s, m)
       PROVE  UnderWayKept'
  BY <1>27 DEF Settle, vars, sessionVars, pullVars, handlerVars,
            clientVars
<1>28. ASSUME NEW s \in Servers, Crash(s) PROVE UnderWayKept'
  BY <1>28 DEF Crash, vars, sessionVars, pullVars, handlerVars, clientVars
<1>29. CASE UNCHANGED vars
  BY <1>29 DEF vars, sessionVars, pullVars, handlerVars, clientVars
<1>30. QED
  BY <1>1, <1>2, <1>3, <1>4, <1>5, <1>6, <1>7, <1>8, <1>9, <1>10, <1>11,
     <1>12, <1>13, <1>14, <1>15, <1>16, <1>17, <1>18, <1>19, <1>20, <1>21,
     <1>22, <1>23, <1>24, <1>25, <1>26, <1>27, <1>28, <1>29 DEF Next, Session,
     Auth, Pulling, Handling, Acking

(* Only what was received is acknowledged.                                  *)
LEMMA AckedStep ==
    ASSUME TypeOK, AckedReceived, [Next]_vars
    PROVE  AckedReceived'
<1> USE DeliveryAssumption DEF TypeOK, AckedReceived, SetStep
<1>1. ASSUME NEW c \in Conns, Open(c) PROVE AckedReceived'
  BY <1>1 DEF Open, vars, sessionVars, pullVars, handlerVars, clientVars
<1>2. ASSUME NEW c \in Conns, Lose(c) PROVE AckedReceived'
  BY <1>2 DEF Lose, vars, sessionVars, pullVars, handlerVars, clientVars
<1>3. ASSUME NEW c \in Conns, Close(c) PROVE AckedReceived'
  BY <1>3 DEF Close, vars, sessionVars, pullVars, handlerVars, clientVars
<1>4. ASSUME NEW c \in Conns, DeleteConnect(c) PROVE AckedReceived'
  BY <1>4 DEF DeleteConnect, vars, sessionVars, pullVars, handlerVars,
     clientVars
<1>5. ASSUME NEW c \in Conns, DeleteUser(c) PROVE AckedReceived'
  BY <1>5 DEF DeleteUser, vars, sessionVars, pullVars, handlerVars, clientVars
<1>6. ASSUME NEW c \in Conns, AddConnect(c) PROVE AckedReceived'
  BY <1>6 DEF AddConnect, vars, sessionVars, pullVars, handlerVars, clientVars
<1>7. ASSUME NEW c \in Conns, AuthFails(c) PROVE AckedReceived'
  BY <1>7 DEF AuthFails, vars, sessionVars, pullVars, handlerVars, clientVars
<1>8. ASSUME NEW c \in Conns, SetUser(c) PROVE AckedReceived'
  BY <1>8 DEF SetUser, vars, sessionVars, pullVars, handlerVars, clientVars
<1>9. ASSUME NEW c \in Conns, SetId(c) PROVE AckedReceived'
  BY <1>9 DEF SetId, vars, sessionVars, pullVars, handlerVars, clientVars
<1>10. ASSUME NEW c \in Conns, PullQuery(c) PROVE AckedReceived'
  BY <1>10 DEF PullQuery, vars, sessionVars, pullVars, handlerVars, clientVars
<1>11. ASSUME NEW c \in Conns, PullReply(c) PROVE AckedReceived'
  BY <1>11 DEF PullReply, vars, sessionVars, pullVars, handlerVars, clientVars
<1>12. ASSUME NEW c \in Conns, PullOneMessages(c) PROVE AckedReceived'
  BY <1>12 DEF PullOneMessages, vars, sessionVars, pullVars, handlerVars,
     clientVars
<1>13. ASSUME NEW m \in Msgs, AddOnemessage(m) PROVE AckedReceived'
  BY <1>13 DEF AddOnemessage, vars, sessionVars, pullVars, handlerVars,
     clientVars
<1>14. ASSUME NEW m \in Msgs, SendAck(m) PROVE AckedReceived'
  BY <1>14 DEF SendAck, vars, sessionVars, pullVars, handlerVars, clientVars
<1>15. ASSUME NEW m \in Msgs, GetConnect(m) PROVE AckedReceived'
  BY <1>15 DEF GetConnect, vars, sessionVars, pullVars, handlerVars,
     clientVars
<1>16. ASSUME NEW m \in Msgs, Push(m) PROVE AckedReceived'
  BY <1>16 DEF Push, vars, sessionVars, pullVars, handlerVars, clientVars
<1>17. ASSUME NEW m \in Msgs, Write(m) PROVE AckedReceived'
  BY <1>17 DEF Write, vars, sessionVars, pullVars, handlerVars, clientVars,
     WriteTo
<1>18. ASSUME NEW m \in Msgs, GetUser(m) PROVE AckedReceived'
  BY <1>18 DEF GetUser, vars, sessionVars, pullVars, handlerVars, clientVars
<1>19. ASSUME NEW m \in Msgs, TransferFails(m) PROVE AckedReceived'
  BY <1>19 DEF TransferFails, vars, sessionVars, pullVars, handlerVars,
     clientVars
<1>20. ASSUME NEW m \in Msgs, Transfer(m) PROVE AckedReceived'
  BY <1>20 DEF Transfer, vars, sessionVars, pullVars, handlerVars, clientVars
<1>21. ASSUME NEW m \in Msgs, TransferWrite(m) PROVE AckedReceived'
  BY <1>21 DEF TransferWrite, vars, sessionVars, pullVars, handlerVars,
     clientVars, WriteTo
<1>22. ASSUME NEW m \in Msgs, TransferPush(m) PROVE AckedReceived'
  BY <1>22 DEF TransferPush, vars, sessionVars, pullVars, handlerVars,
     clientVars
<1>23. ASSUME NEW c \in Conns, NEW m \in Msgs, OneMessages(c, m)
       PROVE  AckedReceived'
  BY <1>23 DEF OneMessages, vars, sessionVars, pullVars, handlerVars,
     clientVars
<1>24. ASSUME NEW c \in Conns, NEW m \in Msgs, ClientAck(c, m)
       PROVE  AckedReceived'
  BY <1>24 DEF ClientAck, vars, sessionVars, pullVars, handlerVars, clientVars
<1>25. ASSUME NEW c \in Conns, NEW m \in Msgs, DeleteOnemessage(c, m)
       PROVE  AckedReceived'
  BY <1>25 DEF DeleteOnemessage, vars, sessionVars, pullVars, handlerVars,
     clientVars
<1>26. ASSUME NEW s \in Servers, NEW m \in Msgs, Resend(s, m)
       PROVE  AckedReceived'
  BY <1>26 DEF Resend, vars, sessionVars, pullVars, handlerVars, clientVars
<1>27. ASSUME NEW s \in Servers, NEW m \in Msgs, Settle(s, m)
       PROVE  AckedReceived'
  BY <1>27 DEF Settle, vars, sessionVars, pullVars, handlerVars,
            clientVars
<1>28. ASSUME NEW s \in Servers, Crash(s) PROVE AckedReceived'
  BY <1>28 DEF Crash, vars, sessionVars, pullVars, handlerVars, clientVars
<1>29. CASE UNCHANGED vars
  BY <1>29 DEF vars, sessionVars, pullVars, handlerVars, clientVars
<1>30. QED
  BY <1>1, <1>2, <1>3, <1>4, <1>5, <1>6, <1>7, <1>8, <1>9, <1>10, <1>11,
     <1>12, <1>13, <1>14, <1>15, <1>16, <1>17, <1>18, <1>19, <1>20, <1>21,
     <1>22, <1>23, <1>24, <1>25, <1>26, <1>27, <1>28, <1>29 DEF Next, Session,
     Auth, Pulling, Handling, Acking

(* A message whose handler has not stored it is nowhere.                    *)
LEMMA NewStep ==
    ASSUME TypeOK, FoundUsable, UnderWayKept, NewUnseen, AckedReceived, [Next]_vars
    PROVE  NewUnseen'
<1> USE DeliveryAssumption DEF TypeOK, NewUnseen, AckedReceived, FoundUsable,
   UnderWayKept, Kept, SetStep
<1>1. ASSUME NEW c \in Conns, Open(c) PROVE NewUnseen'
  BY <1>1 DEF Open, vars, sessionVars, pullVars, handlerVars, clientVars
<1>2. ASSUME NEW c \in Conns, Lose(c) PROVE NewUnseen'
  BY <1>2 DEF Lose, vars, sessionVars, pullVars, handlerVars, clientVars
<1>3. ASSUME NEW c \in Conns, Close(c) PROVE NewUnseen'
  BY <1>3 DEF Close, vars, sessionVars, pullVars, handlerVars, clientVars
<1>4. ASSUME NEW c \in Conns, DeleteConnect(c) PROVE NewUnseen'
  BY <1>4 DEF DeleteConnect, vars, sessionVars, pullVars, handlerVars,
     clientVars
<1>5. ASSUME NEW c \in Conns, DeleteUser(c) PROVE NewUnseen'
  BY <1>5 DEF DeleteUser, vars, sessionVars, pullVars, handlerVars, clientVars
<1>6. ASSUME NEW c \in Conns, AddConnect(c) PROVE NewUnseen'
  BY <1>6 DEF AddConnect, vars, sessionVars, pullVars, handlerVars, clientVars
<1>7. ASSUME NEW c \in Conns, AuthFails(c) PROVE NewUnseen'
  BY <1>7 DEF AuthFails, vars, sessionVars, pullVars, handlerVars, clientVars
<1>8. ASSUME NEW c \in Conns, SetUser(c) PROVE NewUnseen'
  BY <1>8 DEF SetUser, vars, sessionVars, pullVars, handlerVars, clientVars
<1>9. ASSUME NEW c \in Conns, SetId(c) PROVE NewUnseen'
  BY <1>9 DEF SetId, vars, sessionVars, pullVars, handlerVars, clientVars
<1>10. ASSUME NEW c \in Conns, PullQuery(c) PROVE NewUnseen'
  BY <1>10 DEF PullQuery, vars, sessionVars, pullVars, handlerVars, clientVars
<1>11. ASSUME NEW c \in Conns, PullReply(c) PROVE NewUnseen'
  <2>1. CASE link[c] = "open" /\ pull' = SetStep(pull, c, pulled[c]) /\ UNCHANGED given
    BY <1>11, <2>1 DEF PullReply, vars, sessionVars, pullVars, handlerVars,
       clientVars
  <2>2. CASE UNCHANGED pull /\ given' = given \cup pulled[c]
    BY <1>11, <2>2 DEF PullReply, vars, sessionVars, pullVars, handlerVars,
       clientVars
  <2>3. QED
    BY <1>11, <2>1, <2>2 DEF PullReply, vars, sessionVars, pullVars,
       handlerVars, clientVars
<1>12. ASSUME NEW c \in Conns, PullOneMessages(c) PROVE NewUnseen'
  BY <1>12 DEF PullOneMessages, vars, sessionVars, pullVars, handlerVars,
     clientVars
<1>13. ASSUME NEW m \in Msgs, AddOnemessage(m) PROVE NewUnseen'
  <2>1. CASE db' = db \cup {m} /\ handler' = SetStep(handler, m, "ack")
    BY <1>13, <2>1 DEF AddOnemessage, vars, sessionVars, pullVars,
       handlerVars, clientVars
  <2>2. CASE UNCHANGED db /\ handler' = SetStep(handler, m, "failed")
    BY <1>13, <2>2 DEF AddOnemessage, vars, sessionVars, pullVars,
       handlerVars, clientVars
  <2>3. QED
    BY <1>13, <2>1, <2>2 DEF AddOnemessage, vars, sessionVars, pullVars,
       handlerVars, clientVars
<1>14. ASSUME NEW m \in Msgs, SendAck(m) PROVE NewUnseen'
  BY <1>14 DEF SendAck, vars, sessionVars, pullVars, handlerVars, clientVars
<1>15. ASSUME NEW m \in Msgs, GetConnect(m) PROVE NewUnseen'
  BY <1>15 DEF GetConnect, vars, sessionVars, pullVars, handlerVars,
     clientVars
<1>16. ASSUME NEW m \in Msgs, Push(m) PROVE NewUnseen'
  BY <1>16 DEF Push, vars, sessionVars, pullVars, handlerVars, clientVars
<1>17. ASSUME NEW m \in Msgs, Write(m) PROVE NewUnseen'
  BY <1>17 DEF Write, vars, sessionVars, pullVars, handlerVars, clientVars,
     WriteTo
<1>18. ASSUME NEW m \in Msgs, GetUser(m) PROVE NewUnseen'
  BY <1>18 DEF GetUser, vars, sessionVars, pullVars, handlerVars, clientVars
<1>19. ASSUME NEW m \in Msgs, TransferFails(m) PROVE NewUnseen'
  BY <1>19 DEF TransferFails, vars, sessionVars, pullVars, handlerVars,
     clientVars
<1>20. ASSUME NEW m \in Msgs, Transfer(m) PROVE NewUnseen'
  BY <1>20 DEF Transfer, vars, sessionVars, pullVars, handlerVars, clientVars
<1>21. ASSUME NEW m \in Msgs, TransferWrite(m) PROVE NewUnseen'
  BY <1>21 DEF TransferWrite, vars, sessionVars, pullVars, handlerVars,
     clientVars, WriteTo
<1>22. ASSUME NEW m \in Msgs, TransferPush(m) PROVE NewUnseen'
  BY <1>22 DEF TransferPush, vars, sessionVars, pullVars, handlerVars,
     clientVars
<1>23. ASSUME NEW c \in Conns, NEW m \in Msgs, OneMessages(c, m)
       PROVE  NewUnseen'
  BY <1>23 DEF OneMessages, vars, sessionVars, pullVars, handlerVars,
     clientVars
<1>24. ASSUME NEW c \in Conns, NEW m \in Msgs, ClientAck(c, m)
       PROVE  NewUnseen'
  BY <1>24 DEF ClientAck, vars, sessionVars, pullVars, handlerVars, clientVars
<1>25. ASSUME NEW c \in Conns, NEW m \in Msgs, DeleteOnemessage(c, m)
       PROVE  NewUnseen'
  BY <1>25 DEF DeleteOnemessage, vars, sessionVars, pullVars, handlerVars,
     clientVars
<1>26. ASSUME NEW s \in Servers, NEW m \in Msgs, Resend(s, m) PROVE NewUnseen'
  BY <1>26 DEF Resend, vars, sessionVars, pullVars, handlerVars, clientVars
<1>27. ASSUME NEW s \in Servers, NEW m \in Msgs, Settle(s, m) PROVE NewUnseen'
  BY <1>27 DEF Settle, vars, sessionVars, pullVars, handlerVars,
            clientVars
<1>28. ASSUME NEW s \in Servers, Crash(s) PROVE NewUnseen'
  BY <1>28 DEF Crash, vars, sessionVars, pullVars, handlerVars, clientVars
<1>29. CASE UNCHANGED vars
  BY <1>29 DEF vars, sessionVars, pullVars, handlerVars, clientVars
<1>30. QED
  BY <1>1, <1>2, <1>3, <1>4, <1>5, <1>6, <1>7, <1>8, <1>9, <1>10, <1>11,
     <1>12, <1>13, <1>14, <1>15, <1>16, <1>17, <1>18, <1>19, <1>20, <1>21,
     <1>22, <1>23, <1>24, <1>25, <1>26, <1>27, <1>28, <1>29 DEF Next, Session,
     Auth, Pulling, Handling, Acking

(* The order of the steps of one connection.                                *)
LEMMA StepsStep ==
    ASSUME TypeOK, StepsInOrder, [Next]_vars
    PROVE  StepsInOrder'
<1> USE DeliveryAssumption DEF TypeOK, StepsInOrder, SetStep
<1>1. ASSUME NEW c \in Conns, Open(c) PROVE StepsInOrder'
  BY <1>1 DEF Open, vars, sessionVars, pullVars, handlerVars, clientVars
<1>2. ASSUME NEW c \in Conns, Lose(c) PROVE StepsInOrder'
  BY <1>2 DEF Lose, vars, sessionVars, pullVars, handlerVars, clientVars
<1>3. ASSUME NEW c \in Conns, Close(c) PROVE StepsInOrder'
  BY <1>3 DEF Close, vars, sessionVars, pullVars, handlerVars, clientVars
<1>4. ASSUME NEW c \in Conns, DeleteConnect(c) PROVE StepsInOrder'
  BY <1>4 DEF DeleteConnect, vars, sessionVars, pullVars, handlerVars,
     clientVars
<1>5. ASSUME NEW c \in Conns, DeleteUser(c) PROVE StepsInOrder'
  <2>1. CASE redis' = IF id[c] = None THEN redis ELSE SetStep(redis, id[c], None)
    BY <1>5, <2>1 DEF DeleteUser, vars, sessionVars, pullVars, handlerVars,
       clientVars
  <2>2. CASE UNCHANGED redis
    BY <1>5, <2>2 DEF DeleteUser, vars, sessionVars, pullVars, handlerVars,
       clientVars
  <2>3. QED
    BY <1>5, <2>1, <2>2 DEF DeleteUser, vars, sessionVars, pullVars,
       handlerVars, clientVars
<1>6. ASSUME NEW c \in Conns, AddConnect(c) PROVE StepsInOrder'
  BY <1>6 DEF AddConnect, vars, sessionVars, pullVars, handlerVars, clientVars
<1>7. ASSUME NEW c \in Conns, AuthFails(c) PROVE StepsInOrder'
  BY <1>7 DEF AuthFails, vars, sessionVars, pullVars, handlerVars, clientVars
<1>8. ASSUME NEW c \in Conns, SetUser(c) PROVE StepsInOrder'
  BY <1>8 DEF SetUser, vars, sessionVars, pullVars, handlerVars, clientVars
<1>9. ASSUME NEW c \in Conns, SetId(c) PROVE StepsInOrder'
  BY <1>9 DEF SetId, vars, sessionVars, pullVars, handlerVars, clientVars
<1>10. ASSUME NEW c \in Conns, PullQuery(c) PROVE StepsInOrder'
  BY <1>10 DEF PullQuery, vars, sessionVars, pullVars, handlerVars, clientVars
<1>11. ASSUME NEW c \in Conns, PullReply(c) PROVE StepsInOrder'
  BY <1>11 DEF PullReply, vars, sessionVars, pullVars, handlerVars, clientVars
<1>12. ASSUME NEW c \in Conns, PullOneMessages(c) PROVE StepsInOrder'
  BY <1>12 DEF PullOneMessages, vars, sessionVars, pullVars, handlerVars,
     clientVars
<1>13. ASSUME NEW m \in Msgs, AddOnemessage(m) PROVE StepsInOrder'
  BY <1>13 DEF AddOnemessage, vars, sessionVars, pullVars, handlerVars,
     clientVars
<1>14. ASSUME NEW m \in Msgs, SendAck(m) PROVE StepsInOrder'
  BY <1>14 DEF SendAck, vars, sessionVars, pullVars, handlerVars, clientVars
<1>15. ASSUME NEW m \in Msgs, GetConnect(m) PROVE StepsInOrder'
  BY <1>15 DEF GetConnect, vars, sessionVars, pullVars, handlerVars,
     clientVars
<1>16. ASSUME NEW m \in Msgs, Push(m) PROVE StepsInOrder'
  BY <1>16 DEF Push, vars, sessionVars, pullVars, handlerVars, clientVars
<1>17. ASSUME NEW m \in Msgs, Write(m) PROVE StepsInOrder'
  BY <1>17 DEF Write, vars, sessionVars, pullVars, handlerVars, clientVars,
     WriteTo
<1>18. ASSUME NEW m \in Msgs, GetUser(m) PROVE StepsInOrder'
  BY <1>18 DEF GetUser, vars, sessionVars, pullVars, handlerVars, clientVars
<1>19. ASSUME NEW m \in Msgs, TransferFails(m) PROVE StepsInOrder'
  BY <1>19 DEF TransferFails, vars, sessionVars, pullVars, handlerVars,
     clientVars
<1>20. ASSUME NEW m \in Msgs, Transfer(m) PROVE StepsInOrder'
  BY <1>20 DEF Transfer, vars, sessionVars, pullVars, handlerVars, clientVars
<1>21. ASSUME NEW m \in Msgs, TransferWrite(m) PROVE StepsInOrder'
  BY <1>21 DEF TransferWrite, vars, sessionVars, pullVars, handlerVars,
     clientVars, WriteTo
<1>22. ASSUME NEW m \in Msgs, TransferPush(m) PROVE StepsInOrder'
  BY <1>22 DEF TransferPush, vars, sessionVars, pullVars, handlerVars,
     clientVars
<1>23. ASSUME NEW c \in Conns, NEW m \in Msgs, OneMessages(c, m)
       PROVE  StepsInOrder'
  BY <1>23 DEF OneMessages, vars, sessionVars, pullVars, handlerVars,
     clientVars
<1>24. ASSUME NEW c \in Conns, NEW m \in Msgs, ClientAck(c, m)
       PROVE  StepsInOrder'
  BY <1>24 DEF ClientAck, vars, sessionVars, pullVars, handlerVars, clientVars
<1>25. ASSUME NEW c \in Conns, NEW m \in Msgs, DeleteOnemessage(c, m)
       PROVE  StepsInOrder'
  BY <1>25 DEF DeleteOnemessage, vars, sessionVars, pullVars, handlerVars,
     clientVars
<1>26. ASSUME NEW s \in Servers, NEW m \in Msgs, Resend(s, m)
       PROVE  StepsInOrder'
  BY <1>26 DEF Resend, vars, sessionVars, pullVars, handlerVars, clientVars
<1>27. ASSUME NEW s \in Servers, NEW m \in Msgs, Settle(s, m)
       PROVE  StepsInOrder'
  BY <1>27 DEF Settle, vars, sessionVars, pullVars, handlerVars,
            clientVars
<1>28. ASSUME NEW s \in Servers, Crash(s) PROVE StepsInOrder'
  BY <1>28 DEF Crash, vars, sessionVars, pullVars, handlerVars, clientVars
<1>29. CASE UNCHANGED vars
  BY <1>29 DEF vars, sessionVars, pullVars, handlerVars, clientVars
<1>30. QED
  BY <1>1, <1>2, <1>3, <1>4, <1>5, <1>6, <1>7, <1>8, <1>9, <1>10, <1>11,
     <1>12, <1>13, <1>14, <1>15, <1>16, <1>17, <1>18, <1>19, <1>20, <1>21,
     <1>22, <1>23, <1>24, <1>25, <1>26, <1>27, <1>28, <1>29 DEF Next, Session,
     Auth, Pulling, Handling, Acking

(* A clean session's entries stay as AuthHandle leaves them.               *)
LEMMA CleanStep ==
    ASSUME TypeOK, StepsInOrder, CleanStays, [Next]_vars
    PROVE  CleanStays'
<1> USE DeliveryAssumption DEF TypeOK, StepsInOrder, CleanStays, Settled,
   SetStep
<1>1. ASSUME NEW c \in Conns, Open(c) PROVE CleanStays'
  BY <1>1 DEF Open, vars, sessionVars, pullVars, handlerVars, clientVars
<1>2. ASSUME NEW c \in Conns, Lose(c) PROVE CleanStays'
  BY <1>2 DEF Lose, vars, sessionVars, pullVars, handlerVars, clientVars
<1>3. ASSUME NEW c \in Conns, Close(c) PROVE CleanStays'
  BY <1>3 DEF Close, vars, sessionVars, pullVars, handlerVars, clientVars
<1>4. ASSUME NEW c \in Conns, DeleteConnect(c) PROVE CleanStays'
  <2>1. \A d \in clean : link[d] = "open" => d # c /\ Owner[d] # Owner[c]
    BY <1>4 DEF DeleteConnect, vars, sessionVars, pullVars, handlerVars,
       clientVars
  <2>2. QED
    BY <1>4, <2>1 DEF DeleteConnect, vars, sessionVars, pullVars, handlerVars,
       clientVars
<1>5. ASSUME NEW c \in Conns, DeleteUser(c) PROVE CleanStays'
  <2>1. \A d \in clean : link[d] = "open" => d # c /\ Owner[d] # Owner[c]
    BY <1>5 DEF DeleteUser, vars, sessionVars, pullVars, handlerVars,
       clientVars
  <2>2. QED
    BY <1>5, <2>1 DEF DeleteUser, vars, sessionVars, pullVars, handlerVars,
       clientVars
<1>6. ASSUME NEW c \in Conns, AddConnect(c) PROVE CleanStays'
  BY <1>6 DEF AddConnect, vars, sessionVars, pullVars, handlerVars, clientVars
<1>7. ASSUME NEW c \in Conns, AuthFails(c) PROVE CleanStays'
  BY <1>7 DEF AuthFails, vars, sessionVars, pullVars, handlerVars, clientVars
<1>8. ASSUME NEW c \in Conns, SetUser(c) PROVE CleanStays'
  <2>1. CASE redis' = SetStep(redis, Owner[c], Home[c]) /\ UNCHANGED clean
    BY <1>8, <2>1 DEF SetUser, vars, sessionVars, pullVars, handlerVars,
       clientVars
  <2>2. CASE clean' = clean \ {c} /\ UNCHANGED redis
    BY <1>8, <2>2 DEF SetUser, vars, sessionVars, pullVars, handlerVars,
       clientVars
  <2>3. QED
    BY <1>8, <2>1, <2>2 DEF SetUser, vars, sessionVars, pullVars, handlerVars,
       clientVars
<1>9. ASSUME NEW c \in Conns, SetId(c) PROVE CleanStays'
  BY <1>9 DEF SetId, vars, sessionVars, pullVars, handlerVars, clientVars
<1>10. ASSUME NEW c \in Conns, PullQuery(c) PROVE CleanStays'
  BY <1>10 DEF PullQuery, vars, sessionVars, pullVars, handlerVars, clientVars
<1>11. ASSUME NEW c \in Conns, PullReply(c) PROVE CleanStays'
  BY <1>11 DEF PullReply, vars, sessionVars, pullVars, handlerVars, clientVars
<1>12. ASSUME NEW c \in Conns, PullOneMessages(c) PROVE CleanStays'
  BY <1>12 DEF PullOneMessages, vars, sessionVars, pullVars, handlerVars,
     clientVars
<1>13. ASSUME NEW m \in Msgs, AddOnemessage(m) PROVE CleanStays'
  BY <1>13 DEF AddOnemessage, vars, sessionVars, pullVars, handlerVars,
     clientVars
<1>14. ASSUME NEW m \in Msgs, SendAck(m) PROVE CleanStays'
  BY <1>14 DEF SendAck, vars, sessionVars, pullVars, handlerVars, clientVars
<1>15. ASSUME NEW m \in Msgs, GetConnect(m) PROVE CleanStays'
  BY <1>15 DEF GetConnect, vars, sessionVars, pullVars, handlerVars,
     clientVars
<1>16. ASSUME NEW m \in Msgs, Push(m) PROVE CleanStays'
  BY <1>16 DEF Push, vars, sessionVars, pullVars, handlerVars, clientVars
<1>17. ASSUME NEW m \in Msgs, Write(m) PROVE CleanStays'
  BY <1>17 DEF Write, vars, sessionVars, pullVars, handlerVars, clientVars,
     WriteTo
<1>18. ASSUME NEW m \in Msgs, GetUser(m) PROVE CleanStays'
  BY <1>18 DEF GetUser, vars, sessionVars, pullVars, handlerVars, clientVars
<1>19. ASSUME NEW m \in Msgs, TransferFails(m) PROVE CleanStays'
  BY <1>19 DEF TransferFails, vars, sessionVars, pullVars, handlerVars,
     clientVars
<1>20. ASSUME NEW m \in Msgs, Transfer(m) PROVE CleanStays'
  BY <1>20 DEF Transfer, vars, sessionVars, pullVars, handlerVars, clientVars
<1>21. ASSUME NEW m \in Msgs, TransferWrite(m) PROVE CleanStays'
  BY <1>21 DEF TransferWrite, vars, sessionVars, pullVars, handlerVars,
     clientVars, WriteTo
<1>22. ASSUME NEW m \in Msgs, TransferPush(m) PROVE CleanStays'
  BY <1>22 DEF TransferPush, vars, sessionVars, pullVars, handlerVars,
     clientVars
<1>23. ASSUME NEW c \in Conns, NEW m \in Msgs, OneMessages(c, m)
       PROVE  CleanStays'
  BY <1>23 DEF OneMessages, vars, sessionVars, pullVars, handlerVars,
     clientVars
<1>24. ASSUME NEW c \in Conns, NEW m \in Msgs, ClientAck(c, m)
       PROVE  CleanStays'
  BY <1>24 DEF ClientAck, vars, sessionVars, pullVars, handlerVars, clientVars
<1>25. ASSUME NEW c \in Conns, NEW m \in Msgs, DeleteOnemessage(c, m)
       PROVE  CleanStays'
  BY <1>25 DEF DeleteOnemessage, vars, sessionVars, pullVars, handlerVars,
     clientVars
<1>26. ASSUME NEW s \in Servers, NEW m \in Msgs, Resend(s, m)
       PROVE  CleanStays'
  BY <1>26 DEF Resend, vars, sessionVars, pullVars, handlerVars, clientVars
<1>27. ASSUME NEW s \in Servers, NEW m \in Msgs, Settle(s, m)
       PROVE  CleanStays'
  BY <1>27 DEF Settle, vars, sessionVars, pullVars, handlerVars,
            clientVars
<1>28. ASSUME NEW s \in Servers, Crash(s) PROVE CleanStays'
  BY <1>28 DEF Crash, vars, sessionVars, pullVars, handlerVars, clientVars
<1>29. CASE UNCHANGED vars
  BY <1>29 DEF vars, sessionVars, pullVars, handlerVars, clientVars
<1>30. QED
  BY <1>1, <1>2, <1>3, <1>4, <1>5, <1>6, <1>7, <1>8, <1>9, <1>10, <1>11,
     <1>12, <1>13, <1>14, <1>15, <1>16, <1>17, <1>18, <1>19, <1>20, <1>21,
     <1>22, <1>23, <1>24, <1>25, <1>26, <1>27, <1>28, <1>29, ZenonT(30) DEF Next, Session,
     Auth, Pulling, Handling, Acking

(* A pull has one reply.                                                    *)
LEMMA PulledStep ==
    ASSUME TypeOK, StepsInOrder, PulledWhileReplying, [Next]_vars
    PROVE  PulledWhileReplying'
<1> USE DeliveryAssumption DEF TypeOK, StepsInOrder, PulledWhileReplying,
   SetStep
<1>1. ASSUME NEW c \in Conns, Open(c) PROVE PulledWhileReplying'
  BY <1>1 DEF Open, vars, sessionVars, pullVars, handlerVars, clientVars
<1>2. ASSUME NEW c \in Conns, Lose(c) PROVE PulledWhileReplying'
  BY <1>2 DEF Lose, vars, sessionVars, pullVars, handlerVars, clientVars
<1>3. ASSUME NEW c \in Conns, Close(c) PROVE PulledWhileReplying'
  BY <1>3 DEF Close, vars, sessionVars, pullVars, handlerVars, clientVars
<1>4. ASSUME NEW c \in Conns, DeleteConnect(c) PROVE PulledWhileReplying'
  BY <1>4 DEF DeleteConnect, vars, sessionVars, pullVars, handlerVars,
     clientVars
<1>5. ASSUME NEW c \in Conns, DeleteUser(c) PROVE PulledWhileReplying'
  BY <1>5 DEF DeleteUser, vars, sessionVars, pullVars, handlerVars, clientVars
<1>6. ASSUME NEW c \in Conns, AddConnect(c) PROVE PulledWhileReplying'
  BY <1>6 DEF AddConnect, vars, sessionVars, pullVars, handlerVars, clientVars
<1>7. ASSUME NEW c \in Conns, AuthFails(c) PROVE PulledWhileReplying'
  BY <1>7 DEF AuthFails, vars, sessionVars, pullVars, handlerVars, clientVars
<1>8. ASSUME NEW c \in Conns, SetUser(c) PROVE PulledWhileReplying'
  BY <1>8 DEF SetUser, vars, sessionVars, pullVars, handlerVars, clientVars
<1>9. ASSUME NEW c \in Conns, SetId(c) PROVE PulledWhileReplying'
  BY <1>9 DEF SetId, vars, sessionVars, pullVars, handlerVars, clientVars
<1>10. ASSUME NEW c \in Conns, PullQuery(c) PROVE PulledWhileReplying'
  BY <1>10 DEF PullQuery, vars, sessionVars, pullVars, handlerVars, clientVars
<1>11. ASSUME NEW c \in Conns, PullReply(c) PROVE PulledWhileReplying'
  BY <1>11 DEF PullReply, vars, sessionVars, pullVars, handlerVars, clientVars
<1>12. ASSUME NEW c \in Conns, PullOneMessages(c) PROVE PulledWhileReplying'
  BY <1>12 DEF PullOneMessages, vars, sessionVars, pullVars, handlerVars,
     clientVars
<1>13. ASSUME NEW m \in Msgs, AddOnemessage(m) PROVE PulledWhileReplying'
  BY <1>13 DEF AddOnemessage, vars, sessionVars, pullVars, handlerVars,
     clientVars
<1>14. ASSUME NEW m \in Msgs, SendAck(m) PROVE PulledWhileReplying'
  BY <1>14 DEF SendAck, vars, sessionVars, pullVars, handlerVars, clientVars
<1>15. ASSUME NEW m \in Msgs, GetConnect(m) PROVE PulledWhileReplying'
  BY <1>15 DEF GetConnect, vars, sessionVars, pullVars, handlerVars,
     clientVars
<1>16. ASSUME NEW m \in Msgs, Push(m) PROVE PulledWhileReplying'
  BY <1>16 DEF Push, vars, sessionVars, pullVars, handlerVars, clientVars
<1>17. ASSUME NEW m \in Msgs, Write(m) PROVE PulledWhileReplying'
  BY <1>17 DEF Write, vars, sessionVars, pullVars, handlerVars, clientVars,
     WriteTo
<1>18. ASSUME NEW m \in Msgs, GetUser(m) PROVE PulledWhileReplying'
  BY <1>18 DEF GetUser, vars, sessionVars, pullVars, handlerVars, clientVars
<1>19. ASSUME NEW m \in Msgs, TransferFails(m) PROVE PulledWhileReplying'
  BY <1>19 DEF TransferFails, vars, sessionVars, pullVars, handlerVars,
     clientVars
<1>20. ASSUME NEW m \in Msgs, Transfer(m) PROVE PulledWhileReplying'
  BY <1>20 DEF Transfer, vars, sessionVars, pullVars, handlerVars, clientVars
<1>21. ASSUME NEW m \in Msgs, TransferWrite(m) PROVE PulledWhileReplying'
  BY <1>21 DEF TransferWrite, vars, sessionVars, pullVars, handlerVars,
     clientVars, WriteTo
<1>22. ASSUME NEW m \in Msgs, TransferPush(m) PROVE PulledWhileReplying'
  BY <1>22 DEF TransferPush, vars, sessionVars, pullVars, handlerVars,
     clientVars
<1>23. ASSUME NEW c \in Conns, NEW m \in Msgs, OneMessages(c, m)
       PROVE  PulledWhileReplying'
  BY <1>23 DEF OneMessages, vars, sessionVars, pullVars, handlerVars,
     clientVars
<1>24. ASSUME NEW c \in Conns, NEW m \in Msgs, ClientAck(c, m)
       PROVE  PulledWhileReplying'
  BY <1>24 DEF ClientAck, vars, sessionVars, pullVars, handlerVars, clientVars
<1>25. ASSUME NEW c \in Conns, NEW m \in Msgs, DeleteOnemessage(c, m)
       PROVE  PulledWhileReplying'
  BY <1>25 DEF DeleteOnemessage, vars, sessionVars, pullVars, handlerVars,
     clientVars
<1>26. ASSUME NEW s \in Servers, NEW m \in Msgs, Resend(s, m)
       PROVE  PulledWhileReplying'
  BY <1>26 DEF Resend, vars, sessionVars, pullVars, handlerVars, clientVars
<1>27. ASSUME NEW s \in Servers, NEW m \in Msgs, Settle(s, m)
       PROVE  PulledWhileReplying'
  BY <1>27 DEF Settle, vars, sessionVars, pullVars, handlerVars,
            clientVars
<1>28. ASSUME NEW s \in Servers, Crash(s) PROVE PulledWhileReplying'
  BY <1>28 DEF Crash, vars, sessionVars, pullVars, handlerVars, clientVars
<1>29. CASE UNCHANGED vars
  BY <1>29 DEF vars, sessionVars, pullVars, handlerVars, clientVars
<1>30. QED
  BY <1>1, <1>2, <1>3, <1>4, <1>5, <1>6, <1>7, <1>8, <1>9, <1>10, <1>11,
     <1>12, <1>13, <1>14, <1>15, <1>16, <1>17, <1>18, <1>19, <1>20, <1>21,
     <1>22, <1>23, <1>24, <1>25, <1>26, <1>27, <1>28, <1>29 DEF Next, Session,
     Auth, Pulling, Handling, Acking

(* What a row is headed by is part of these variables.                      *)
LEMMA RowsKept ==
    ASSUME RowsHeadForClient,
           UNCHANGED <<db, push, link, pullStep, pulled, pull, handler, found,
                       received, given, clean>>
    PROVE  RowsHeadForClient'
<1>1. ASSUME NEW c \in clean', link'[c] = "open",
             pullStep'[c] \in {"reply", "done"},
             NEW m \in Mail(Owner[c])' \ (received \cup given)'
      PROVE  HeadsFor(m, c)'
  <2>1. c \in clean /\ link[c] = "open" /\ pullStep[c] \in {"reply", "done"}
    BY ONLY <1>1, UNCHANGED <<link, pullStep, clean>>
  <2>2. m \in Mail(Owner[c]) \ (received \cup given)
    BY ONLY <1>1, UNCHANGED <<db, received, given>> DEF Mail
  <2>3. HeadsFor(m, c)
    BY ONLY <2>1, <2>2, RowsHeadForClient DEF RowsHeadForClient
  <2> QED
    BY ONLY <2>3, UNCHANGED <<push, pulled, pull, handler, found>> DEF HeadsFor
<1> QED
  BY ONLY <1>1 DEF RowsHeadForClient

(* A row that a clean session has not received stays headed for it.         *)
LEMMA RowsStep ==
    ASSUME TypeOK, FoundUsable, UnderWayKept, NewUnseen, StepsInOrder, CleanStays, PulledWhileReplying, RowsHeadForClient, [Next]_vars
    PROVE  RowsHeadForClient'
<1> USE DeliveryAssumption DEF TypeOK, FoundUsable, StepsInOrder, CleanStays,
   PulledWhileReplying, RowsHeadForClient, HeadsFor, Mail, SetStep
<1>1. ASSUME NEW c \in Conns, Open(c) PROVE RowsHeadForClient'
  BY <1>1 DEF Open, vars, sessionVars, pullVars, handlerVars, clientVars
<1>2. ASSUME NEW c \in Conns, Lose(c) PROVE RowsHeadForClient'
  BY <1>2 DEF Lose, vars, sessionVars, pullVars, handlerVars, clientVars
<1>3. ASSUME NEW c \in Conns, Close(c) PROVE RowsHeadForClient'
  BY <1>3 DEF Close, vars, sessionVars, pullVars, handlerVars, clientVars
<1>4. ASSUME NEW c \in Conns, DeleteConnect(c) PROVE RowsHeadForClient'
  BY <1>4 DEF DeleteConnect, vars, sessionVars, pullVars, handlerVars,
     clientVars
<1>5. ASSUME NEW c \in Conns, DeleteUser(c) PROVE RowsHeadForClient'
  <2>1. CASE redis' = IF id[c] = None THEN redis ELSE SetStep(redis, id[c], None)
    BY <1>5, <2>1 DEF DeleteUser, vars, sessionVars, pullVars, handlerVars,
       clientVars
  <2>2. CASE UNCHANGED redis
    BY <1>5, <2>2 DEF DeleteUser, vars, sessionVars, pullVars, handlerVars,
       clientVars
  <2>3. QED
    BY <1>5, <2>1, <2>2 DEF DeleteUser, vars, sessionVars, pullVars,
       handlerVars, clientVars
<1>6. ASSUME NEW c \in Conns, AddConnect(c) PROVE RowsHeadForClient'
  BY <1>6 DEF AddConnect, vars, sessionVars, pullVars, handlerVars, clientVars
<1>7. ASSUME NEW c \in Conns, AuthFails(c) PROVE RowsHeadForClient'
  BY <1>7 DEF AuthFails, vars, sessionVars, pullVars, handlerVars, clientVars
<1>8. ASSUME NEW c \in Conns, SetUser(c) PROVE RowsHeadForClient'
  <2>1. CASE redis' = SetStep(redis, Owner[c], Home[c]) /\ UNCHANGED clean
    BY <1>8, <2>1 DEF SetUser, vars, sessionVars, pullVars, handlerVars,
       clientVars
  <2>2. CASE clean' = clean \ {c} /\ UNCHANGED redis
    BY <1>8, <2>2 DEF SetUser, vars, sessionVars, pullVars, handlerVars,
       clientVars
  <2>3. QED
    BY <1>8, <2>1, <2>2 DEF SetUser, vars, sessionVars, pullVars, handlerVars,
       clientVars
<1>9. ASSUME NEW c \in Conns, SetId(c) PROVE RowsHeadForClient'
  BY <1>9 DEF SetId, vars, sessionVars, pullVars, handlerVars, clientVars
<1>10. ASSUME NEW c \in Conns, PullQuery(c) PROVE RowsHeadForClient'
  <2>1. CASE /\ pulled' = SetStep(pulled, c,
                                IF id[c] = None THEN {} ELSE Mail(id[c]))
             /\ given' = IF link[c] = "open" THEN given \ pulled'[c] ELSE given
    <3>1. SUFFICES ASSUME NEW d \in clean, link[d] = "open",
                          pullStep'[d] \in {"reply", "done"},
                          NEW m \in Mail(Owner[d]), m \notin received \cup given'
                   PROVE  HeadsFor(m, d)'
      BY <1>10, <2>1 DEF PullQuery, sessionVars, clientVars
    <3>2. CASE d = c
      BY <1>10, <2>1, <3>1, <3>2 DEF PullQuery
    <3>3. CASE d # c
      <4>1. m \notin given
        BY <1>10, <2>1, <3>1, <3>3 DEF PullQuery, Settled
      <4>2. HeadsFor(m, d)
        BY <1>10, <3>1, <3>3, <4>1 DEF PullQuery
      <4>3. QED
        BY <1>10, <2>1, <3>1, <3>3, <4>2 DEF PullQuery, handlerVars
    <3>4. QED
      BY <3>2, <3>3
  <2>2. CASE UNCHANGED pulled /\ given' = given \cup Mail(Owner[c])
    BY <1>10, <2>2 DEF PullQuery, vars, sessionVars, pullVars, handlerVars,
       clientVars
  <2>3. QED
    BY <1>10, <2>1, <2>2 DEF PullQuery
<1>11. ASSUME NEW c \in Conns, PullReply(c) PROVE RowsHeadForClient'
  <2>1. CASE link[c] = "open" /\ pull' = SetStep(pull, c, pulled[c]) /\ UNCHANGED given
    BY <1>11, <2>1 DEF PullReply, vars, sessionVars, pullVars, handlerVars,
       clientVars
  <2>2. CASE UNCHANGED pull /\ given' = given \cup pulled[c]
    BY <1>11, <2>2 DEF PullReply, vars, sessionVars, pullVars, handlerVars,
       clientVars
  <2>3. QED
    BY <1>11, <2>1, <2>2 DEF PullReply, vars, sessionVars, pullVars,
       handlerVars, clientVars
<1>12. ASSUME NEW c \in Conns, PullOneMessages(c) PROVE RowsHeadForClient'
  BY <1>12 DEF PullOneMessages, vars, sessionVars, pullVars, handlerVars,
     clientVars
<1>13. ASSUME NEW m \in Msgs, AddOnemessage(m) PROVE RowsHeadForClient'
  <2>1. CASE db' = db \cup {m} /\ handler' = SetStep(handler, m, "ack")
    BY <1>13, <2>1 DEF AddOnemessage, vars, sessionVars, pullVars,
       handlerVars, clientVars
  <2>2. CASE UNCHANGED db /\ handler' = SetStep(handler, m, "failed")
    BY <1>13, <2>2 DEF AddOnemessage, vars, sessionVars, pullVars,
       handlerVars, clientVars
  <2>3. QED
    BY <1>13, <2>1, <2>2 DEF AddOnemessage, vars, sessionVars, pullVars,
       handlerVars, clientVars
<1>14. ASSUME NEW m \in Msgs, SendAck(m) PROVE RowsHeadForClient'
  BY <1>14 DEF SendAck, vars, sessionVars, pullVars, handlerVars, clientVars
<1>15. ASSUME NEW m \in Msgs, GetConnect(m) PROVE RowsHeadForClient'
  BY <1>15 DEF GetConnect, vars, sessionVars, pullVars, handlerVars,
     clientVars
<1>16. ASSUME NEW m \in Msgs, Push(m) PROVE RowsHeadForClient'
  BY <1>16 DEF Push, vars, sessionVars, pullVars, handlerVars, clientVars
<1>17. ASSUME NEW m \in Msgs, Write(m) PROVE RowsHeadForClient'
  <2>1. CASE /\ link[found[m]] = "open" /\ UNCHANGED given
             /\ push' = [push EXCEPT ![found[m]] = @ \cup {m}]
    BY <1>17, <2>1 DEF Write, vars, sessionVars, pullVars, handlerVars,
       clientVars, WriteTo
  <2>2. CASE UNCHANGED push /\ given' = given \cup {m}
    BY <1>17, <2>2 DEF Write, vars, sessionVars, pullVars, handlerVars,
       clientVars, WriteTo
  <2>3. QED
    BY <1>17, <2>1, <2>2 DEF Write, vars, sessionVars, pullVars, handlerVars,
       clientVars, WriteTo
<1>18. ASSUME NEW m \in Msgs, GetUser(m) PROVE RowsHeadForClient'
  <2>1. CASE /\ handler' = SetStep(handler, m, "rpc")
             /\ found' = SetStep(found, m, redis[Receiver[m]])
             /\ redis[Receiver[m]] \notin {None, Origin[m]} /\ UNCHANGED given
    BY <1>18, <2>1 DEF GetUser, vars, sessionVars, pullVars, handlerVars,
       clientVars
  <2>2. CASE /\ handler' = SetStep(handler, m, "done")
             /\ redis[Receiver[m]] \in {None, Origin[m]}
             /\ UNCHANGED <<found, given>>
    BY <1>18, <2>2 DEF GetUser, vars, sessionVars, pullVars, handlerVars,
       clientVars
  <2>3. CASE /\ handler' = SetStep(handler, m, "done")
             /\ given' = given \cup {m} /\ UNCHANGED found
    BY <1>18, <2>3 DEF GetUser, vars, sessionVars, pullVars, handlerVars,
       clientVars
  <2>4. QED
    BY <1>18, <2>1, <2>2, <2>3 DEF GetUser, vars, sessionVars, pullVars,
       handlerVars, clientVars
<1>19. ASSUME NEW m \in Msgs, TransferFails(m) PROVE RowsHeadForClient'
  BY <1>19 DEF TransferFails, vars, sessionVars, pullVars, handlerVars,
     clientVars
<1>20. ASSUME NEW m \in Msgs, Transfer(m) PROVE RowsHeadForClient'
  BY <1>20 DEF Transfer, vars, sessionVars, pullVars, handlerVars, clientVars
<1>21. ASSUME NEW m \in Msgs, TransferWrite(m) PROVE RowsHeadForClient'
  <2>1. CASE /\ link[found[m]] = "open" /\ UNCHANGED given
             /\ push' = [push EXCEPT ![found[m]] = @ \cup {m}]
    BY <1>21, <2>1 DEF TransferWrite, vars, sessionVars, pullVars,
       handlerVars, clientVars, WriteTo
  <2>2. CASE UNCHANGED push /\ given' = given \cup {m}
    BY <1>21, <2>2 DEF TransferWrite, vars, sessionVars, pullVars,
       handlerVars, clientVars, WriteTo
  <2>3. QED
    BY <1>21, <2>1, <2>2 DEF TransferWrite, vars, sessionVars, pullVars,
       handlerVars, clientVars, WriteTo
<1>22. ASSUME NEW m \in Msgs, TransferPush(m) PROVE RowsHeadForClient'
  BY <1>22 DEF TransferPush, vars, sessionVars, pullVars, handlerVars,
     clientVars
<1>23. ASSUME NEW c \in Conns, NEW m \in Msgs, OneMessages(c, m)
       PROVE  RowsHeadForClient'
  BY <1>23 DEF OneMessages, vars, sessionVars, pullVars, handlerVars,
     clientVars
<1>24. ASSUME NEW c \in Conns, NEW m \in Msgs, ClientAck(c, m)
       PROVE  RowsHeadForClient'
  BY <1>24 DEF ClientAck, vars, sessionVars, pullVars, handlerVars, clientVars
<1>25. ASSUME NEW c \in Conns, NEW m \in Msgs, DeleteOnemessage(c, m)
       PROVE  RowsHeadForClient'
  <2>1. CASE db' = IF id[c] = Receiver[m] THEN db \ {m} ELSE db
    BY <1>25, <2>1 DEF DeleteOnemessage, vars, sessionVars, pullVars,
       handlerVars, clientVars
  <2>2. CASE UNCHANGED db
    BY <1>25, <2>2 DEF DeleteOnemessage, vars, sessionVars, pullVars,
       handlerVars, clientVars
  <2>3. QED
    BY <1>25, <2>1, <2>2 DEF DeleteOnemessage, vars, sessionVars, pullVars,
       handlerVars, clientVars
<1>26. ASSUME NEW s \in Servers, NEW m \in Msgs, Resend(s, m)
       PROVE  RowsHeadForClient'
  BY <1>26 DEF Resend, vars, sessionVars, pullVars, handlerVars, clientVars
<1>27. ASSUME NEW s \in Servers, NEW m \in Msgs, Settle(s, m)
       PROVE  RowsHeadForClient'
  <2>1. UNCHANGED <<db, push, link, pullStep, pulled, pull, handler,
                   found, received, given, clean>>
    BY ONLY <1>27 DEF Settle, vars, sessionVars, pullVars, handlerVars,
            clientVars
  <2>2. QED
    BY ONLY RowsHeadForClient, <2>1, RowsKept
<1>28. ASSUME NEW s \in Servers, Crash(s) PROVE RowsHeadForClient'
  <2>1. /\ UNCHANGED <<db, received, clean>>
        /\ given \subseteq given'
        /\ \A c \in Conns : link'[c] = "open" =>
              /\ link[c] = "open"
              /\ pullStep'[c] = pullStep[c] /\ pulled'[c] = pulled[c]
              /\ push'[c] = push[c] /\ pull'[c] = pull[c]
        /\ \A m \in Msgs \ given' : handler'[m] = handler[m] /\ found'[m] = found[m]
    BY <1>28 DEF Crash
  <2>2. ASSUME NEW c \in clean, link'[c] = "open",
               pullStep'[c] \in {"reply", "done"},
               NEW m \in Mail(Owner[c]) \ (received \cup given')
        PROVE  HeadsFor(m, c)'
    <3>1. c \in Conns /\ m \in Msgs \ given'
      BY <2>2
    <3>2. HeadsFor(m, c)
      BY ONLY <2>1, <2>2, <3>1, RowsHeadForClient DEF RowsHeadForClient
    <3> QED
      BY ONLY <2>1, <2>2, <3>1, <3>2 DEF HeadsFor
  <2> QED
    BY ONLY <2>1, <2>2 DEF RowsHeadForClient, Mail
<1>29. CASE UNCHANGED vars
  <2>1. UNCHANGED <<db, push, link, pullStep, pulled, pull, handler,
                   found, received, given, clean>>
    BY ONLY <1>29 DEF vars, sessionVars, pullVars, handlerVars, clientVars
  <2>2. QED
    BY ONLY RowsHeadForClient, <2>1, RowsKept
<1>30. QED
  BY <1>1, <1>2, <1>3, <1>4, <1>5, <1>6, <1>7, <1>8, <1>9, <1>10, <1>11,
     <1>12, <1>13, <1>14, <1>15, <1>16, <1>17, <1>18, <1>19, <1>20, <1>21,
     <1>22, <1>23, <1>24, <1>25, <1>26, <1>27, <1>28, <1>29, ZenonT(30)
     DEF Next, Session, Auth, Pulling, Handling, Acking

-----------------------------------------------------------------------------
(* CleanInv is inductive; so the system never leaves it.                    *)
THEOREM Invariant == Spec => []CleanInv
<1>1. Init => CleanInv
  BY DeliveryAssumption
     DEF Init, CleanInv, DeliveryInv, TypeOK, UnderWayKept, Kept, AckedReceived,
         NewUnseen, FoundUsable, StepsInOrder, CleanStays, RowsHeadForClient,
         PulledWhileReplying
<1>2. CleanInv /\ [Next]_vars => CleanInv'
  BY TypeStep, FoundStep, KeptStep, AckedStep, NewStep, StepsStep, CleanStep,
     PulledStep, RowsStep DEF CleanInv, DeliveryInv
<1>3. QED
  BY <1>1, <1>2, PTL DEF Spec

(* A session that met no other connection of its user is registered once   *)
(* AuthHandle is done, in ConManage and in redis.                           *)
THEOREM CleanRegistered == Spec => []CleanIsRegistered
<1>1. CleanInv => CleanIsRegistered
  BY DEF CleanInv, CleanStays, CleanIsRegistered, LoggedIn, Registered
<1>2. QED
  BY <1>1, Invariant, PTL

(* Such a session has received every row of its user when nothing is under *)
(* way any more and no failure was swallowed.                               *)
THEOREM CleanDelivered == Spec => []CleanLoginDelivers
<1>1. CleanInv => CleanLoginDelivers
  <2>1. SUFFICES ASSUME CleanInv, NEW c \in clean, Quiet(c), pullStep[c] = "done",
                        NEW m \in Mail(Owner[c]), m \notin received \cup given
                 PROVE  FALSE
    BY DEF CleanLoginDelivers, Delivered
  <2>2. c \in Conns /\ m \in Msgs
    BY <2>1 DEF CleanInv, DeliveryInv, TypeOK, Mail
  <2>3. HeadsFor(m, c)
    BY <2>1 DEF CleanInv, RowsHeadForClient, Quiet, LoggedIn
  <2>4. pulled[c] = {} /\ pull[c] = {} /\ push[c] = {}
    BY <2>1, <2>2 DEF CleanInv, PulledWhileReplying, Quiet
  <2>5. QED
    BY <2>1, <2>2, <2>3, <2>4 DEF HeadsFor, Quiet
<1>2. QED
  BY <1>1, Invariant, PTL

-----------------------------------------------------------------------------
(* Each step is a step of Mailbox or leaves it alone.                       *)
LEMMA MailboxStep ==
    ASSUME CleanInv, [Next]_vars
    PROVE  [Box!Next]_(Box!mailVars)
<1> USE DEF Box!mailVars
<1>1. ASSUME NEW c \in Conns, Open(c) PROVE [Box!Next]_(Box!mailVars)
  BY <1>1 DEF Open, handlerVars, clientVars
<1>2. ASSUME NEW c \in Conns, Lose(c) PROVE [Box!Next]_(Box!mailVars)
  BY <1>2 DEF Lose, handlerVars, clientVars
<1>3. ASSUME NEW c \in Conns, Close(c) PROVE [Box!Next]_(Box!mailVars)
  BY <1>3 DEF Close, handlerVars, clientVars
<1>4. ASSUME NEW c \in Conns, DeleteConnect(c) PROVE [Box!Next]_(Box!mailVars)
  BY <1>4 DEF DeleteConnect, handlerVars, clientVars
<1>5. ASSUME NEW c \in Conns, DeleteUser(c) PROVE [Box!Next]_(Box!mailVars)
  BY <1>5 DEF DeleteUser, handlerVars, clientVars
<1>6. ASSUME NEW c \in Conns, AddConnect(c) PROVE [Box!Next]_(Box!mailVars)
  BY <1>6 DEF AddConnect, handlerVars, clientVars
<1>7. ASSUME NEW c \in Conns, AuthFails(c) PROVE [Box!Next]_(Box!mailVars)
  BY <1>7 DEF AuthFails, handlerVars, clientVars
<1>8. ASSUME NEW c \in Conns, SetUser(c) PROVE [Box!Next]_(Box!mailVars)
  BY <1>8 DEF SetUser, handlerVars, clientVars
<1>9. ASSUME NEW c \in Conns, SetId(c) PROVE [Box!Next]_(Box!mailVars)
  BY <1>9 DEF SetId, handlerVars, clientVars
<1>10. ASSUME NEW c \in Conns, PullQuery(c) PROVE [Box!Next]_(Box!mailVars)
  BY <1>10 DEF PullQuery, handlerVars, clientVars
<1>11. ASSUME NEW c \in Conns, PullReply(c) PROVE [Box!Next]_(Box!mailVars)
  BY <1>11 DEF PullReply, handlerVars, clientVars
<1>12. ASSUME NEW c \in Conns, PullOneMessages(c)
       PROVE  [Box!Next]_(Box!mailVars)
  <2>1. pull[c] \in SUBSET Msgs
    BY <1>12 DEF CleanInv, DeliveryInv, TypeOK
  <2>2. Box!Receive(pull[c])
    BY <1>12 DEF PullOneMessages, handlerVars, CleanInv, DeliveryInv,
       UnderWayKept, Kept, Box!Receive
  <2>3. QED
    BY <2>1, <2>2 DEF Box!Next
<1>13. ASSUME NEW m \in Msgs, AddOnemessage(m) PROVE [Box!Next]_(Box!mailVars)
  BY <1>13 DEF AddOnemessage, handlerVars, clientVars, CleanInv, DeliveryInv,
     NewUnseen, Box!Next, Box!Store
<1>14. ASSUME NEW m \in Msgs, SendAck(m) PROVE [Box!Next]_(Box!mailVars)
  BY <1>14 DEF SendAck, clientVars, CleanInv, DeliveryInv, UnderWayKept, Kept,
     Box!Next, Box!Confirm
<1>15. ASSUME NEW m \in Msgs, GetConnect(m) PROVE [Box!Next]_(Box!mailVars)
  BY <1>15 DEF GetConnect, handlerVars, clientVars
<1>16. ASSUME NEW m \in Msgs, Push(m) PROVE [Box!Next]_(Box!mailVars)
  BY <1>16 DEF Push, handlerVars, clientVars
<1>17. ASSUME NEW m \in Msgs, Write(m) PROVE [Box!Next]_(Box!mailVars)
  BY <1>17 DEF Write, handlerVars, clientVars
<1>18. ASSUME NEW m \in Msgs, GetUser(m) PROVE [Box!Next]_(Box!mailVars)
  BY <1>18 DEF GetUser, handlerVars, clientVars
<1>19. ASSUME NEW m \in Msgs, TransferFails(m) PROVE [Box!Next]_(Box!mailVars)
  BY <1>19 DEF TransferFails, handlerVars, clientVars
<1>20. ASSUME NEW m \in Msgs, Transfer(m) PROVE [Box!Next]_(Box!mailVars)
  BY <1>20 DEF Transfer, handlerVars, clientVars
<1>21. ASSUME NEW m \in Msgs, TransferWrite(m) PROVE [Box!Next]_(Box!mailVars)
  BY <1>21 DEF TransferWrite, handlerVars, clientVars
<1>22. ASSUME NEW m \in Msgs, TransferPush(m) PROVE [Box!Next]_(Box!mailVars)
  BY <1>22 DEF TransferPush, handlerVars, clientVars
<1>23. ASSUME NEW c \in Conns, NEW m \in Msgs, OneMessages(c, m)
       PROVE  [Box!Next]_(Box!mailVars)
  <2>1. {m} \in SUBSET Msgs
    BY <1>23 DEF CleanInv, DeliveryInv, TypeOK
  <2>2. Box!Receive({m})
    BY <1>23 DEF OneMessages, handlerVars, CleanInv, DeliveryInv,
       UnderWayKept, Kept, Box!Receive
  <2>3. QED
    BY <2>1, <2>2 DEF Box!Next
<1>24. ASSUME NEW c \in Conns, NEW m \in Msgs, ClientAck(c, m)
       PROVE  [Box!Next]_(Box!mailVars)
  BY <1>24 DEF ClientAck, handlerVars, clientVars
<1>25. ASSUME NEW c \in Conns, NEW m \in Msgs, DeleteOnemessage(c, m)
       PROVE  [Box!Next]_(Box!mailVars)
  <2>1. {} \in SUBSET Msgs /\ {m} \in SUBSET Msgs
    OBVIOUS
  <2>2. m \in received
    BY <1>25 DEF DeleteOnemessage, CleanInv, DeliveryInv, AckedReceived
  <2>3. Box!Forget({}) \/ Box!Forget({m})
    BY <1>25, <2>2 DEF DeleteOnemessage, handlerVars, Box!Forget
  <2>4. QED
    BY <2>1, <2>3 DEF Box!Next
<1>26. ASSUME NEW s \in Servers, NEW m \in Msgs, Resend(s, m)
       PROVE  [Box!Next]_(Box!mailVars)
  BY <1>26 DEF Resend, handlerVars, clientVars
<1>27. ASSUME NEW s \in Servers, NEW m \in Msgs, Settle(s, m)
       PROVE  [Box!Next]_(Box!mailVars)
  BY <1>27 DEF Settle, handlerVars, clientVars
<1>28. ASSUME NEW s \in Servers, Crash(s) PROVE [Box!Next]_(Box!mailVars)
  BY <1>28 DEF Crash, handlerVars, clientVars
<1>29. CASE UNCHANGED vars
  BY <1>29 DEF vars, handlerVars, clientVars
<1>30. QED
  BY <1>1, <1>2, <1>3, <1>4, <1>5, <1>6, <1>7, <1>8, <1>9, <1>10, <1>11,
     <1>12, <1>13, <1>14, <1>15, <1>16, <1>17, <1>18, <1>19, <1>20, <1>21,
     <1>22, <1>23, <1>24, <1>25, <1>26, <1>27, <1>28, <1>29 DEF Next, Session,
     Auth, Pulling, Handling, Acking

(* The servers and the clients implement Mailbox: a confirmed message is   *)
(* stored or received, and leaves the table only once it was received.      *)
THEOREM MailboxImplemented == Spec => MailboxSpec
<1>1. Init => Box!Init
  BY DEF Init, Box!Init
<1>2. CleanInv /\ [Next]_vars => [Box!Next]_(Box!mailVars)
  BY MailboxStep
<1>3. QED
  BY <1>1, <1>2, Invariant, PTL DEF Spec, MailboxSpec, Box!Spec
=============================================================================

------------------------- MODULE GroupDeliveryProofs -------------------------
(***************************************************************************)
(* Proofs about GroupDelivery, for every number of messages, receivers and  *)
(* servers, whichever calls fail and however often servers crash and        *)
(* clients log in.  The invariant is GroupDeliveryInv; each of its parts    *)
(* has a lemma that goes through the actions one by one.                    *)
(***************************************************************************)
EXTENDS GroupDelivery, TLAPS

(* The types.                                                               *)
LEMMA TypeStep ==
    ASSUME TypeOK, [Next]_vars
    PROVE  TypeOK'
<1> USE GroupDeliveryAssumption DEF TypeOK, Mail, Types, SetStep,
        handlerVars, sessionVars, clientVars, historyVars
<1>1. ASSUME NEW m \in Msgs, GetGroupUsers(m) PROVE TypeOK'
    BY <1>1 DEF GetGroupUsers
<1>2. ASSUME NEW m \in Msgs, GroupMebersCheck(m) PROVE TypeOK'
    BY <1>2 DEF GroupMebersCheck, Refuse
<1>3. ASSUME NEW m \in Msgs, CreateGroupMessage(m) PROVE TypeOK'
    BY <1>3, SMTT(30) DEF CreateGroupMessage, Refuse
<1>4. ASSUME NEW m \in Msgs, GetConnect(m) PROVE TypeOK'
    BY <1>4 DEF GetConnect
<1>5. ASSUME NEW m \in Msgs, CreateGroupUserMessage(m) PROVE TypeOK'
    BY <1>5 DEF CreateGroupUserMessage, Refuse, RowsFor
<1>6. ASSUME NEW m \in Msgs, SendAck(m) PROVE TypeOK'
    BY <1>6 DEF SendAck
<1>7. ASSUME NEW m \in Msgs, Push(m) PROVE TypeOK'
    BY <1>7, SMTT(30) DEF Push, WriteTo
<1>8. ASSUME NEW m \in Msgs, Grouptranfer(m) PROVE TypeOK'
    BY <1>8, SMTT(30) DEF Grouptranfer, WriteTo
<1>9. ASSUME NEW t \in retry, Resend(t) PROVE TypeOK'
    BY <1>9 DEF Resend, WriteTo
<1>10. ASSUME NEW u \in Receivers, Login(u) PROVE TypeOK'
    BY <1>10 DEF Login
<1>11. ASSUME NEW u \in Receivers, PullGroupMessage(u) PROVE TypeOK'
    BY <1>11 DEF PullGroupMessage, To
<1>12. ASSUME NEW u \in Receivers, Lose(u) PROVE TypeOK'
    BY <1>12 DEF Lose
<1>13. ASSUME NEW u \in Receivers, GorupMessage(u) PROVE TypeOK'
    BY <1>13 DEF GorupMessage
<1>14. ASSUME NEW u \in Receivers, AckMesageHandle(u) PROVE TypeOK'
    BY <1>14 DEF AckMesageHandle, To
<1>15. ASSUME NEW u \in Receivers, NEW s \in Servers, CloseHandle(u, s)
      PROVE  TypeOK'
    BY <1>15 DEF CloseHandle
<1>16. ASSUME NEW s \in Servers, Crash(s) PROVE TypeOK'
    BY <1>16 DEF Crash
<1>17. CASE GrouperDelete
    BY <1>17 DEF GrouperDelete
<1>18. CASE UNCHANGED vars
    BY <1>18 DEF vars
<1> QED
    BY <1>1, <1>2, <1>3, <1>4, <1>5, <1>6, <1>7, <1>8, <1>9, <1>10, <1>11,
       <1>12, <1>13, <1>14, <1>15, <1>16, <1>17, <1>18 DEF Next, Handle,
       Session

(* The handler reads all members or none, and works on those.               *)
LEMMA ListsStep ==
    ASSUME TypeOK, ListsRead, [Next]_vars
    PROVE  ListsRead'
<1> USE GroupDeliveryAssumption DEF TypeOK, ListsRead, Early, Mail, SetStep,
        handlerVars, sessionVars, clientVars, historyVars
<1>1. ASSUME NEW m \in Msgs, GetGroupUsers(m) PROVE ListsRead'
    BY <1>1 DEF GetGroupUsers
<1>2. ASSUME NEW m \in Msgs, GroupMebersCheck(m) PROVE ListsRead'
  <2>1. /\ UNCHANGED <<list, todo, local, remote>>
        /\ at' = [at EXCEPT ![m] = "create"] \/ at' = [at EXCEPT ![m] = "failed"]
        /\ at[m] = "check"
    BY <1>2 DEF GroupMebersCheck, Refuse
  <2>2. \A n \in Msgs : Early(n)' => Early(n)
    BY <2>1
  <2> QED
    BY ONLY ListsRead, <2>1, <2>2 DEF ListsRead
<1>3. ASSUME NEW m \in Msgs, CreateGroupMessage(m) PROVE ListsRead'
    BY <1>3 DEF CreateGroupMessage, Refuse
<1>4. ASSUME NEW m \in Msgs, GetConnect(m) PROVE ListsRead'
  <2>1. /\ at[m] = "member" /\ UNCHANGED <<at, list>>
        /\ \E u \in todo[m] :
              /\ todo' = SetStep(todo, m, todo[m] \ {u})
              /\ \/ /\ local' = [local EXCEPT ![m] = @ \cup {<<u, login[u]>>}]
                    /\ remote' = remote
                 \/ /\ remote' = [remote EXCEPT ![m] = @ \cup
                                      ({u} \X ({redis[u]} \ {None}))]
                    /\ local' = local
                 \/ UNCHANGED <<local, remote>>
    BY <1>4, ZenonT(30) DEF GetConnect
  <2>2. PICK u \in todo[m] :
              /\ todo' = SetStep(todo, m, todo[m] \ {u})
              /\ \/ /\ local' = [local EXCEPT ![m] = @ \cup {<<u, login[u]>>}]
                    /\ remote' = remote
                 \/ /\ remote' = [remote EXCEPT ![m] = @ \cup
                                      ({u} \X ({redis[u]} \ {None}))]
                    /\ local' = local
                 \/ UNCHANGED <<local, remote>>
    BY <2>1
  <2>3. u \in list[m]
    BY ONLY <2>2, ListsRead DEF ListsRead
  <2>4. ASSUME NEW n \in Msgs
        PROVE  /\ todo'[n] \subseteq todo[n]
               /\ \A c \in local'[n] \cup remote'[n] :
                     c \in local[n] \cup remote[n] \/ (n = m /\ c[1] = u)
    BY <2>2
  <2> QED
    BY ONLY ListsRead, <2>1, <2>3, <2>4 DEF ListsRead, Early
<1>5. ASSUME NEW m \in Msgs, CreateGroupUserMessage(m) PROVE ListsRead'
    BY <1>5 DEF CreateGroupUserMessage, Refuse, RowsFor
<1>6. ASSUME NEW m \in Msgs, SendAck(m) PROVE ListsRead'
    BY <1>6 DEF SendAck
<1>7. ASSUME NEW m \in Msgs, Push(m) PROVE ListsRead'
    BY <1>7 DEF Push, WriteTo
<1>8. ASSUME NEW m \in Msgs, Grouptranfer(m) PROVE ListsRead'
    BY <1>8 DEF Grouptranfer, WriteTo
<1>9. ASSUME NEW t \in retry, Resend(t) PROVE ListsRead'
    BY <1>9 DEF Resend, WriteTo
<1>10. ASSUME NEW u \in Receivers, Login(u) PROVE ListsRead'
    BY <1>10 DEF Login
<1>11. ASSUME NEW u \in Receivers, PullGroupMessage(u) PROVE ListsRead'
    BY <1>11 DEF PullGroupMessage, To
<1>12. ASSUME NEW u \in Receivers, Lose(u) PROVE ListsRead'
    BY <1>12 DEF Lose
<1>13. ASSUME NEW u \in Receivers, GorupMessage(u) PROVE ListsRead'
    BY <1>13 DEF GorupMessage
<1>14. ASSUME NEW u \in Receivers, AckMesageHandle(u) PROVE ListsRead'
    BY <1>14 DEF AckMesageHandle, To
<1>15. ASSUME NEW u \in Receivers, NEW s \in Servers, CloseHandle(u, s)
      PROVE  ListsRead'
    BY <1>15 DEF CloseHandle
<1>16. ASSUME NEW s \in Servers, Crash(s) PROVE ListsRead'
    BY <1>16 DEF Crash
<1>17. CASE GrouperDelete
    BY <1>17 DEF GrouperDelete
<1>18. CASE UNCHANGED vars
    BY <1>18 DEF vars
<1> QED
    BY <1>1, <1>2, <1>3, <1>4, <1>5, <1>6, <1>7, <1>8, <1>9, <1>10, <1>11,
       <1>12, <1>13, <1>14, <1>15, <1>16, <1>17, <1>18 DEF Next, Handle,
       Session

(* What is in the table or was received stays so.                           *)
LEMMA KeptStep ==
    ASSUME TypeOK, SendsKept, NEW n \in Msgs, NEW v \in Receivers, Kept(n, v), [Next]_vars
    PROVE  Kept(n, v)'
<1> USE GroupDeliveryAssumption DEF TypeOK, SendsKept, Kept, Mail, SetStep,
        handlerVars, sessionVars, clientVars, historyVars
<1>1. ASSUME NEW m \in Msgs, GetGroupUsers(m) PROVE Kept(n, v)'
    BY <1>1 DEF GetGroupUsers
<1>2. ASSUME NEW m \in Msgs, GroupMebersCheck(m) PROVE Kept(n, v)'
    BY <1>2 DEF GroupMebersCheck, Refuse
<1>3. ASSUME NEW m \in Msgs, CreateGroupMessage(m) PROVE Kept(n, v)'
    BY <1>3 DEF CreateGroupMessage, Refuse
<1>4. ASSUME NEW m \in Msgs, GetConnect(m) PROVE Kept(n, v)'
    BY <1>4 DEF GetConnect
<1>5. ASSUME NEW m \in Msgs, CreateGroupUserMessage(m) PROVE Kept(n, v)'
    BY <1>5 DEF CreateGroupUserMessage, Refuse, RowsFor
<1>6. ASSUME NEW m \in Msgs, SendAck(m) PROVE Kept(n, v)'
    BY <1>6 DEF SendAck
<1>7. ASSUME NEW m \in Msgs, Push(m) PROVE Kept(n, v)'
    BY <1>7 DEF Push, WriteTo
<1>8. ASSUME NEW m \in Msgs, Grouptranfer(m) PROVE Kept(n, v)'
    BY <1>8 DEF Grouptranfer, WriteTo
<1>9. ASSUME NEW t \in retry, Resend(t) PROVE Kept(n, v)'
    BY <1>9 DEF Resend, WriteTo
<1>10. ASSUME NEW u \in Receivers, Login(u) PROVE Kept(n, v)'
    BY <1>10 DEF Login
<1>11. ASSUME NEW u \in Receivers, PullGroupMessage(u) PROVE Kept(n, v)'
    BY <1>11 DEF PullGroupMessage, To
<1>12. ASSUME NEW u \in Receivers, Lose(u) PROVE Kept(n, v)'
    BY <1>12 DEF Lose
<1>13. ASSUME NEW u \in Receivers, GorupMessage(u) PROVE Kept(n, v)'
    BY <1>13 DEF GorupMessage
<1>14. ASSUME NEW u \in Receivers, AckMesageHandle(u) PROVE Kept(n, v)'
    BY <1>14 DEF AckMesageHandle, To
<1>15. ASSUME NEW u \in Receivers, NEW s \in Servers, CloseHandle(u, s)
      PROVE  Kept(n, v)'
    BY <1>15 DEF CloseHandle
<1>16. ASSUME NEW s \in Servers, Crash(s) PROVE Kept(n, v)'
    BY <1>16 DEF Crash
<1>17. CASE GrouperDelete
    BY <1>17 DEF GrouperDelete
<1>18. CASE UNCHANGED vars
    BY <1>18 DEF vars
<1> QED
    BY <1>1, <1>2, <1>3, <1>4, <1>5, <1>6, <1>7, <1>8, <1>9, <1>10, <1>11,
       <1>12, <1>13, <1>14, <1>15, <1>16, <1>17, <1>18 DEF Next, Handle,
       Session

(* Nothing is confirmed or sent before the rows of all are inserted.        *)
LEMMA AnswersStep ==
    ASSUME TypeOK, ListsRead, AnswersKept, SendsKept, [Next]_vars
    PROVE  AnswersKept'
<1> USE GroupDeliveryAssumption DEF TypeOK, ListsRead, AnswersKept, Early,
        Kept, Mail, SetStep, handlerVars, sessionVars, clientVars,
        historyVars
<1>1. ASSUME NEW m \in Msgs, GetGroupUsers(m) PROVE AnswersKept'
    BY <1>1 DEF GetGroupUsers
<1>2. ASSUME NEW m \in Msgs, GroupMebersCheck(m) PROVE AnswersKept'
  <2>1. CASE at' = [at EXCEPT ![m] = "create"] /\ UNCHANGED answer
    BY <1>2, <2>1 DEF GroupMebersCheck
  <2>2. CASE Refuse(m)
    BY <1>2, <2>2 DEF GroupMebersCheck, Refuse
  <2> QED
    BY <1>2, <2>1, <2>2 DEF GroupMebersCheck
<1>3. ASSUME NEW m \in Msgs, CreateGroupMessage(m) PROVE AnswersKept'
    BY <1>3 DEF CreateGroupMessage, Refuse
<1>4. ASSUME NEW m \in Msgs, GetConnect(m) PROVE AnswersKept'
    BY <1>4 DEF GetConnect
<1>5. ASSUME NEW m \in Msgs, CreateGroupUserMessage(m) PROVE AnswersKept'
    BY <1>5 DEF CreateGroupUserMessage, Refuse, RowsFor
<1>6. ASSUME NEW m \in Msgs, SendAck(m) PROVE AnswersKept'
    BY <1>6 DEF SendAck
<1>7. ASSUME NEW m \in Msgs, Push(m) PROVE AnswersKept'
    BY <1>7 DEF Push, WriteTo
<1>8. ASSUME NEW m \in Msgs, Grouptranfer(m) PROVE AnswersKept'
    BY <1>8 DEF Grouptranfer, WriteTo
<1>9. ASSUME NEW t \in retry, Resend(t) PROVE AnswersKept'
    BY <1>9 DEF Resend, WriteTo
<1>10. ASSUME NEW u \in Receivers, Login(u) PROVE AnswersKept'
    BY <1>10 DEF Login
<1>11. ASSUME NEW u \in Receivers, PullGroupMessage(u) PROVE AnswersKept'
    BY <1>11 DEF PullGroupMessage, To
<1>12. ASSUME NEW u \in Receivers, Lose(u) PROVE AnswersKept'
    BY <1>12 DEF Lose
<1>13. ASSUME NEW u \in Receivers, GorupMessage(u) PROVE AnswersKept'
    BY <1>13 DEF GorupMessage
<1>14. ASSUME NEW u \in Receivers, AckMesageHandle(u) PROVE AnswersKept'
    BY <1>14, KeptStep DEF AckMesageHandle, SendsKept
<1>15. ASSUME NEW u \in Receivers, NEW s \in Servers, CloseHandle(u, s)
      PROVE  AnswersKept'
    BY <1>15 DEF CloseHandle
<1>16. ASSUME NEW s \in Servers, Crash(s) PROVE AnswersKept'
    BY <1>16 DEF Crash
<1>17. CASE GrouperDelete
    BY <1>17 DEF GrouperDelete
<1>18. CASE UNCHANGED vars
    BY <1>18 DEF vars
<1> QED
    BY <1>1, <1>2, <1>3, <1>4, <1>5, <1>6, <1>7, <1>8, <1>9, <1>10, <1>11,
       <1>12, <1>13, <1>14, <1>15, <1>16, <1>17, <1>18 DEF Next, Handle,
       Session

(* Nothing is sent or acknowledged that has no row and was not received.    *)
LEMMA SendsStep ==
    ASSUME TypeOK, ListsRead, AnswersKept, SendsKept, [Next]_vars
    PROVE  SendsKept'
<1> USE GroupDeliveryAssumption DEF TypeOK, ListsRead, AnswersKept,
        SendsKept, Kept, Mail, Types, SetStep, handlerVars, sessionVars,
        clientVars, historyVars
<1>1. ASSUME NEW m \in Msgs, GetGroupUsers(m) PROVE SendsKept'
    BY <1>1 DEF GetGroupUsers
<1>2. ASSUME NEW m \in Msgs, GroupMebersCheck(m) PROVE SendsKept'
    BY <1>2 DEF GroupMebersCheck, Refuse
<1>3. ASSUME NEW m \in Msgs, CreateGroupMessage(m) PROVE SendsKept'
    BY <1>3 DEF CreateGroupMessage, Refuse
<1>4. ASSUME NEW m \in Msgs, GetConnect(m) PROVE SendsKept'
    BY <1>4 DEF GetConnect
<1>5. ASSUME NEW m \in Msgs, CreateGroupUserMessage(m) PROVE SendsKept'
    BY <1>5 DEF CreateGroupUserMessage, Refuse, RowsFor
<1>6. ASSUME NEW m \in Msgs, SendAck(m) PROVE SendsKept'
    BY <1>6 DEF SendAck
<1>7. ASSUME NEW m \in Msgs, Push(m) PROVE SendsKept'
  <2>1. CASE local[m] = {}
    BY <1>7, <2>1 DEF Push
  <2>2. ASSUME NEW c \in local[m], retry' = retry \cup {<<Origin, m, c[1], "group">>},
               WriteTo(c[1], c[2], m, "group")
        PROVE  SendsKept'
    <3>1. c[1] \in Receivers /\ Kept(m, c[1]) /\ UNCHANGED <<rows, received, toAck>>
      BY <1>7, <2>2 DEF Push
    <3>2. \A v \in Receivers : \A f \in wire'[v] : f \in wire[v] \/ (v = c[1] /\ f[1] = m)
      BY <1>7, <2>2, <3>1 DEF WriteTo
    <3>3. \A t \in retry' : t \in retry \/ (t[2] = m /\ t[3] = c[1])
      BY <2>2
    <3>4. \A v \in Receivers : \A f \in wire'[v] : Kept(f[1], v)
      <4>1. ASSUME NEW v \in Receivers, NEW f \in wire'[v] PROVE Kept(f[1], v)
        <5>1. CASE f \in wire[v]
          BY <5>1
        <5>2. CASE v = c[1] /\ f[1] = m
          BY ONLY <3>1, <5>2
        <5> QED
          BY <3>2, <5>1, <5>2
      <4> QED
        BY <4>1
    <3>5. \A t \in retry' : Kept(t[2], t[3])
      BY <3>1, <3>3
    <3>6. toAck' \subseteq received' /\ \A n, v : Kept(n, v)' <=> Kept(n, v)
      BY <3>1
    <3> QED
      BY ONLY <3>4, <3>5, <3>6 DEF SendsKept
  <2> QED
    BY <1>7, <2>1, <2>2 DEF Push
<1>8. ASSUME NEW m \in Msgs, Grouptranfer(m) PROVE SendsKept'
    BY <1>8 DEF Grouptranfer, WriteTo
<1>9. ASSUME NEW t \in retry, Resend(t) PROVE SendsKept'
    BY <1>9 DEF Resend, WriteTo
<1>10. ASSUME NEW u \in Receivers, Login(u) PROVE SendsKept'
    BY <1>10 DEF Login
<1>11. ASSUME NEW u \in Receivers, PullGroupMessage(u) PROVE SendsKept'
  <2>1. UNCHANGED <<rows, received, toAck, retry>>
    BY <1>11 DEF PullGroupMessage
  <2>2. ASSUME NEW v \in Receivers, NEW f \in wire'[v] PROVE Kept(f[1], v)
    <3>1. CASE f \in wire[v]
      BY <3>1
    <3>2. CASE f \notin wire[v]
      <4>1. PICK p \in rows \cap To(u) : v = u /\ f = <<p[1], "group">>
        <5>1. wire' = [wire EXCEPT ![u] = wire[u] \cup
                          {<<p[1], "group">> : p \in rows \cap To(u)}]
          BY <1>11 DEF PullGroupMessage
        <5>2. wire'[v] = IF v = u
                         THEN wire[v] \cup {<<p[1], "group">> :
                                            p \in rows \cap To(u)}
                         ELSE wire[v]
          BY ONLY TypeOK, <5>1, <2>2 DEF TypeOK
        <5> QED
          BY ONLY <5>2, <2>2, <3>2
      <4>2. p = <<p[1], v>> /\ f[1] = p[1]
        BY <4>1 DEF To
      <4> QED
        BY <4>1, <4>2
    <3> QED
      BY <3>1, <3>2
  <2> QED
    BY <2>1, <2>2
<1>12. ASSUME NEW u \in Receivers, Lose(u) PROVE SendsKept'
    BY <1>12 DEF Lose
<1>13. ASSUME NEW u \in Receivers, GorupMessage(u) PROVE SendsKept'
    BY <1>13 DEF GorupMessage
<1>14. ASSUME NEW u \in Receivers, AckMesageHandle(u) PROVE SendsKept'
    BY <1>14 DEF AckMesageHandle, To
<1>15. ASSUME NEW u \in Receivers, NEW s \in Servers, CloseHandle(u, s)
      PROVE  SendsKept'
    BY <1>15 DEF CloseHandle
<1>16. ASSUME NEW s \in Servers, Crash(s) PROVE SendsKept'
    BY <1>16 DEF Crash
<1>17. CASE GrouperDelete
    BY <1>17 DEF GrouperDelete
<1>18. CASE UNCHANGED vars
    BY <1>18 DEF vars
<1> QED
    BY <1>1, <1>2, <1>3, <1>4, <1>5, <1>6, <1>7, <1>8, <1>9, <1>10, <1>11,
       <1>12, <1>13, <1>14, <1>15, <1>16, <1>17, <1>18 DEF Next, Handle,
       Session

(* Servers and redis know who is logged in.                                 *)
LEMMA SessionsStep ==
    ASSUME TypeOK, SessionsKnown, [Next]_vars
    PROVE  SessionsKnown'
<1> USE GroupDeliveryAssumption DEF TypeOK, SessionsKnown, SetStep,
        handlerVars, sessionVars, clientVars, historyVars
<1>1. ASSUME NEW m \in Msgs, GetGroupUsers(m) PROVE SessionsKnown'
    BY <1>1 DEF GetGroupUsers
<1>2. ASSUME NEW m \in Msgs, GroupMebersCheck(m) PROVE SessionsKnown'
    BY <1>2 DEF GroupMebersCheck, Refuse
<1>3. ASSUME NEW m \in Msgs, CreateGroupMessage(m) PROVE SessionsKnown'
    BY <1>3 DEF CreateGroupMessage, Refuse
<1>4. ASSUME NEW m \in Msgs, GetConnect(m) PROVE SessionsKnown'
    BY <1>4 DEF GetConnect
<1>5. ASSUME NEW m \in Msgs, CreateGroupUserMessage(m) PROVE SessionsKnown'
    BY <1>5 DEF CreateGroupUserMessage, Refuse, RowsFor
<1>6. ASSUME NEW m \in Msgs, SendAck(m) PROVE SessionsKnown'
    BY <1>6 DEF SendAck
<1>7. ASSUME NEW m \in Msgs, Push(m) PROVE SessionsKnown'
    BY <1>7 DEF Push, WriteTo
<1>8. ASSUME NEW m \in Msgs, Grouptranfer(m) PROVE SessionsKnown'
    BY <1>8 DEF Grouptranfer, WriteTo
<1>9. ASSUME NEW t \in retry, Resend(t) PROVE SessionsKnown'
    BY <1>9 DEF Resend, WriteTo
<1>10. ASSUME NEW u \in Receivers, Login(u) PROVE SessionsKnown'
    BY <1>10 DEF Login
<1>11. ASSUME NEW u \in Receivers, PullGroupMessage(u) PROVE SessionsKnown'
    BY <1>11 DEF PullGroupMessage, To
<1>12. ASSUME NEW u \in Receivers, Lose(u) PROVE SessionsKnown'
    BY <1>12 DEF Lose
<1>13. ASSUME NEW u \in Receivers, GorupMessage(u) PROVE SessionsKnown'
    BY <1>13 DEF GorupMessage
<1>14. ASSUME NEW u \in Receivers, AckMesageHandle(u) PROVE SessionsKnown'
    BY <1>14 DEF AckMesageHandle, To
<1>15. ASSUME NEW u \in Receivers, NEW s \in Servers, CloseHandle(u, s)
      PROVE  SessionsKnown'
    BY <1>15 DEF CloseHandle
<1>16. ASSUME NEW s \in Servers, Crash(s) PROVE SessionsKnown'
    BY <1>16 DEF Crash
<1>17. CASE GrouperDelete
    BY <1>17 DEF GrouperDelete
<1>18. CASE UNCHANGED vars
    BY <1>18 DEF vars
<1> QED
    BY <1>1, <1>2, <1>3, <1>4, <1>5, <1>6, <1>7, <1>8, <1>9, <1>10, <1>11,
       <1>12, <1>13, <1>14, <1>15, <1>16, <1>17, <1>18 DEF Next, Handle,
       Session

(* A row of a user who is logged in is on its way.                          *)
LEMMA RowsReachStep ==
    ASSUME TypeOK, ListsRead, AnswersKept, SessionsKnown,
           RowsReach, [Next]_vars
    PROVE  RowsReach'
<1> USE GroupDeliveryAssumption DEF TypeOK, ListsRead, AnswersKept,
        SessionsKnown, RowsReach, OnTheWay, Excused, Early, Mail, Types,
        SetStep, handlerVars, sessionVars, clientVars, historyVars
<1>1. ASSUME NEW m \in Msgs, GetGroupUsers(m) PROVE RowsReach'
    BY <1>1 DEF GetGroupUsers
<1>2. ASSUME NEW m \in Msgs, GroupMebersCheck(m) PROVE RowsReach'
  <2>1. CASE at' = [at EXCEPT ![m] = "create"] /\ UNCHANGED answer
    BY <1>2, <2>1 DEF GroupMebersCheck
  <2>2. CASE Refuse(m)
    BY <1>2, <2>2 DEF GroupMebersCheck, Refuse
  <2> QED
    BY <1>2, <2>1, <2>2 DEF GroupMebersCheck
<1>3. ASSUME NEW m \in Msgs, CreateGroupMessage(m) PROVE RowsReach'
    BY <1>3 DEF CreateGroupMessage, Refuse
<1>4. ASSUME NEW m \in Msgs, GetConnect(m) PROVE RowsReach'
    BY <1>4 DEF GetConnect
<1>5. ASSUME NEW m \in Msgs, CreateGroupUserMessage(m) PROVE RowsReach'
    BY <1>5 DEF CreateGroupUserMessage, Refuse, RowsFor
<1>6. ASSUME NEW m \in Msgs, SendAck(m) PROVE RowsReach'
    BY <1>6 DEF SendAck
<1>7. ASSUME NEW m \in Msgs, Push(m) PROVE RowsReach'
    BY <1>7, SMTT(30) DEF Push, WriteTo
<1>8. ASSUME NEW m \in Msgs, Grouptranfer(m) PROVE RowsReach'
  <2> DEFINE rest(p) == {q \in remote[m] \ {p} : q[2] = p[2]}
  <2>1. CASE remote[m] = {}
    BY <1>8, <2>1 DEF Grouptranfer
  <2>2. ASSUME NEW p \in remote[m], p[1] \in conman[p[2]],
               remote' = SetStep(remote, m, remote[m] \ {p}),
               WriteTo(p[1], login[p[1]], m, "group"), UNCHANGED <<at, skipped>>
        PROVE  RowsReach'
    BY <1>8, <2>2 DEF Grouptranfer, WriteTo
  <2>3. ASSUME NEW p \in remote[m],
               p[1] \notin conman[p[2]],
               remote' = SetStep(remote, m, remote[m] \ (rest(p) \cup {p})),
               skipped' = skipped \cup {<<m, q[1]>> : q \in rest(p)},
               UNCHANGED <<at, retry, wire, given>>
        PROVE  RowsReach'
    <3>1. UNCHANGED <<rows, list, todo, local, received, late, wire, given, at,
                      on, login, pulling>>
      BY <1>8, <2>3 DEF Grouptranfer
    <3>2. ASSUME NEW n \in Msgs, NEW u \in Receivers, on[u] # None,
                 <<u, on[u]>> \in remote[n], <<u, on[u]>> \notin remote'[n]
          PROVE  <<n, u>> \in skipped'
      <4>1. n = m /\ <<u, on[u]>> \in rest(p) \cup {p}
        BY <2>3, <3>2
      <4> QED
        BY <2>3, <3>2, <4>1
    <3>3. ASSUME NEW n \in Msgs, NEW u \in Receivers, on[u] # None,
                 OnTheWay(n, u)
          PROVE  OnTheWay(n, u)' \/ <<n, u>> \in skipped'
      BY ONLY <3>1, <3>2, <3>3 DEF OnTheWay
    <3>4. \A n \in Msgs, u \in Receivers : Excused(n, u) => Excused(n, u)'
      BY ONLY <2>3, <3>1 DEF Excused
    <3> QED
      BY ONLY RowsReach, <3>1, <3>3, <3>4 DEF RowsReach, Excused
  <2>4. ASSUME NEW p \in remote[m],
               remote' = SetStep(remote, m, remote[m] \ (rest(p) \cup {p})),
               given' = given \cup {<<m, q[1]>> : q \in rest(p) \cup {p}},
               UNCHANGED <<at, retry, wire, skipped>>
        PROVE  RowsReach'
    <3>1. UNCHANGED <<rows, list, todo, local, received, late, wire, skipped, at,
                      on, login, pulling>>
      BY <1>8, <2>4 DEF Grouptranfer
    <3>2. ASSUME NEW n \in Msgs, NEW u \in Receivers, on[u] # None,
                 <<u, on[u]>> \in remote[n], <<u, on[u]>> \notin remote'[n]
          PROVE  <<n, u>> \in given'
      <4>1. n = m /\ <<u, on[u]>> \in rest(p) \cup {p}
        BY <2>4, <3>2
      <4> QED
        BY <2>4, <3>2, <4>1
    <3>3. ASSUME NEW n \in Msgs, NEW u \in Receivers, on[u] # None,
                 OnTheWay(n, u)
          PROVE  OnTheWay(n, u)' \/ <<n, u>> \in given'
      BY ONLY <3>1, <3>2, <3>3 DEF OnTheWay
    <3>4. \A n \in Msgs, u \in Receivers : Excused(n, u) => Excused(n, u)'
      BY ONLY <2>4, <3>1 DEF Excused
    <3> QED
      BY ONLY RowsReach, <3>1, <3>3, <3>4 DEF RowsReach, Excused
  <2>5. QED
    BY <1>8, <2>1, <2>2, <2>3, <2>4, ZenonT(30) DEF Grouptranfer
<1>9. ASSUME NEW t \in retry, Resend(t) PROVE RowsReach'
    BY <1>9 DEF Resend, WriteTo
<1>10. ASSUME NEW u \in Receivers, Login(u) PROVE RowsReach'
    BY <1>10 DEF Login
<1>11. ASSUME NEW u \in Receivers, PullGroupMessage(u) PROVE RowsReach'
    BY <1>11 DEF PullGroupMessage, To
<1>12. ASSUME NEW u \in Receivers, Lose(u) PROVE RowsReach'
    BY <1>12 DEF Lose
<1>13. ASSUME NEW u \in Receivers, GorupMessage(u) PROVE RowsReach'
    BY <1>13 DEF GorupMessage
<1>14. ASSUME NEW u \in Receivers, AckMesageHandle(u) PROVE RowsReach'
    BY <1>14 DEF AckMesageHandle, To
<1>15. ASSUME NEW u \in Receivers, NEW s \in Servers, CloseHandle(u, s)
      PROVE  RowsReach'
    BY <1>15 DEF CloseHandle
<1>16. ASSUME NEW s \in Servers, Crash(s) PROVE RowsReach'
    BY <1>16 DEF Crash
<1>17. CASE GrouperDelete
    BY <1>17 DEF GrouperDelete
<1>18. CASE UNCHANGED vars
    BY <1>18 DEF vars
<1> QED
    BY <1>1, <1>2, <1>3, <1>4, <1>5, <1>6, <1>7, <1>8, <1>9, <1>10, <1>11,
       <1>12, <1>13, <1>14, <1>15, <1>16, <1>17, <1>18, ZenonT(30) DEF Next, Handle,
       Session

LEMMA InitInv == Init => GroupDeliveryInv
<1> SUFFICES ASSUME Init PROVE GroupDeliveryInv
    OBVIOUS
<1> USE GroupDeliveryAssumption DEF Init
<1>1. TypeOK
    BY DEF TypeOK, Mail
<1>2. ListsRead
    BY DEF ListsRead
<1>3. AnswersKept
    BY DEF AnswersKept
<1>4. SendsKept /\ SessionsKnown /\ RowsReach
    BY DEF SendsKept, SessionsKnown, RowsReach
<1> QED
    BY <1>1, <1>2, <1>3, <1>4 DEF GroupDeliveryInv

LEMMA StepInv == GroupDeliveryInv /\ [Next]_vars => GroupDeliveryInv'
<1> SUFFICES ASSUME GroupDeliveryInv, [Next]_vars PROVE GroupDeliveryInv'
    OBVIOUS
<1> USE DEF GroupDeliveryInv
<1>1. TypeOK'
    BY TypeStep
<1>2. ListsRead'
    BY ListsStep
<1>3. AnswersKept'
    BY AnswersStep
<1>4. SendsKept'
    BY SendsStep
<1>5. SessionsKnown'
    BY SessionsStep
<1>6. RowsReach'
    BY RowsReachStep
<1> QED
    BY <1>1, <1>2, <1>3, <1>4, <1>5, <1>6

(* Rows are inserted before anything is sent or confirmed, leave when they  *)
(* were received, and are on their way to whoever is logged in              *)
(* (GorupMessageHandle, Grouptranfer, PullGroupMessage).                    *)
THEOREM GroupDeliveryCorrect == Spec => []GroupDeliveryInv
BY InitInv, StepInv, PTL DEF Spec

(* A confirmed message is in the table or the database of every member      *)
(* (CreateGroupUserMessage, SendAck, AckMesageHandle).                      *)
THEOREM ConfirmedStaysKept == Spec => []ConfirmedKept
<1>1. GroupDeliveryInv => ConfirmedKept
    BY DEF GroupDeliveryInv, AnswersKept, ConfirmedKept, Kept
<1> QED
    BY GroupDeliveryCorrect, <1>1, PTL

(* When nothing is under way, whoever is logged in has its rows, but for    *)
(* failed calls and the two gaps (Grouptranfer, PullGroupMessage).          *)
THEOREM OnlineReceiversReached == Spec => []OnlineReceives
<1>1. ASSUME GroupDeliveryInv, NEW u \in Receivers, Quiet(u),
             NEW p \in rows \cap To(u)
      PROVE  p \in received \cup given \cup skipped \cup late
  <2>1. PICK m \in Msgs : p = <<m, u>>
    BY <1>1 DEF GroupDeliveryInv, TypeOK, Mail, To
  <2>2. ~OnTheWay(m, u)
    BY <1>1 DEF Quiet, OnTheWay
  <2>3. Excused(m, u)
    BY <1>1, <2>1, <2>2 DEF GroupDeliveryInv, RowsReach, Quiet
  <2> QED
    BY <2>1, <2>3 DEF Excused
<1>2. GroupDeliveryInv => OnlineReceives
    BY <1>1 DEF OnlineReceives
<1> QED
    BY GroupDeliveryCorrect, <1>2, PTL

(* A row leaves the table only when its receiver has the message            *)
(* (DeleteGroupUserMessage, PullGroupMessage).                              *)
THEOREM RowsLeaveWhenReceived == Spec => RowsLeaveReceived
<1>1. ASSUME GroupDeliveryInv, [Next]_vars
      PROVE  rows \ rows' \subseteq received
  <2> USE DEF GroupDeliveryInv, TypeOK, Mail
  <2>1. ASSUME NEW p \in rows, p \notin rows' PROVE p \in received
    <3>1. PICK n \in Msgs, v \in Receivers : p = <<n, v>>
      BY <1>1, <2>1
    <3>2. CASE \E u \in Receivers : AckMesageHandle(u)
      BY <1>1, <2>1, <3>1, <3>2 DEF AckMesageHandle, SendsKept
    <3>3. CASE ~\E u \in Receivers : AckMesageHandle(u)
      BY <1>1, <2>1, <3>3 DEF Next, Handle, Session, vars, GetGroupUsers,
         GroupMebersCheck, CreateGroupMessage, GetConnect,
         CreateGroupUserMessage, SendAck, Push, Grouptranfer, Resend, Login,
         PullGroupMessage, Lose, GorupMessage, CloseHandle, Crash,
         GrouperDelete
    <3> QED
      BY <3>2, <3>3
  <2> QED
    BY <2>1
<1>2. GroupDeliveryInv /\ [Next]_vars => [rows \ rows' \subseteq received]_vars
    BY <1>1
<1> QED
    BY GroupDeliveryCorrect, <1>2, PTL DEF Spec, RowsLeaveReceived
=============================================================================

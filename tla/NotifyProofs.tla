---------------------------- MODULE NotifyProofs ----------------------------
(***************************************************************************)
(* Proofs about Notify, for every number of notifications, servers and      *)
(* logins and whichever calls fail.  NotifyInv is inductive: what must be   *)
(* known beyond NotifyKept is what became of the notifications that         *)
(* PullNotifie has read and is about to delete.                             *)
(***************************************************************************)
EXTENDS Notify, TLAPS

(* NotifyKept in terms of Arrived.                                          *)
LEMMA KeptOrLost ==
    ASSUME NEW n
    PROVE  Kept(n) \/ n \in lost \cup unsent
              <=> Arrived(n) \/ n \in table \cup unsent
BY DEF Kept, Arrived

(* The types.                                                               *)
LEMMA TypeStep ==
    ASSUME TypeOK, [Next]_vars
    PROVE  TypeOK'
<1> USE NotifyAssumption DEF TypeOK, Notes, SetStep, logicVars, sessionVars,
        clientVars
<1>1. ASSUME NEW n \in Notes, GetUserFromRedis(n) PROVE TypeOK'
    BY <1>1 DEF GetUserFromRedis
<1>2. ASSUME NEW n \in Notes, GetComitServer(n) PROVE TypeOK'
    BY <1>2 DEF GetComitServer, RandComitServer
<1>3. ASSUME NEW n \in Notes, RpcFails(n) PROVE TypeOK'
    BY <1>3 DEF RpcFails
<1>4. ASSUME NEW n \in Notes, FriendNotify(n) PROVE TypeOK'
  <2>1. /\ {<<n, "push">>} \subseteq Notes \X {"push", "pull"}
        /\ {f[1] : f \in {<<n, "push">>}} \subseteq Notes
    OBVIOUS
  <2> QED
    BY <1>4, <2>1 DEF FriendNotify, Write
<1>5. ASSUME NEW n \in Notes, FriendAgree(n) PROVE TypeOK'
  <2>1. /\ {<<n, "push">>} \subseteq Notes \X {"push", "pull"}
        /\ {f[1] : f \in {<<n, "push">>}} \subseteq Notes
    OBVIOUS
  <2> QED
    BY <1>5, <2>1 DEF FriendAgree, Write
<1>6. CASE ComitsChange
    BY <1>6 DEF ComitsChange
<1>7. CASE Login
    BY <1>7 DEF Login
<1>8. CASE Lose
  <2>1. {f[1] : f \in wire} \subseteq Notes
    OBVIOUS
  <2> QED
    BY <1>8, <2>1 DEF Lose
<1>9. CASE CloseHandle
    BY <1>9 DEF CloseHandle
<1>10. CASE NotifieList
    BY <1>10 DEF NotifieList
<1>11. CASE PullReply
  <2>1. pulled \X {"pull"} \subseteq Notes \X {"push", "pull"}
    OBVIOUS
  <2>2. {f[1] : f \in pulled \X {"pull"}} \subseteq Notes
    OBVIOUS
  <2> QED
    BY <1>11, <2>1, <2>2 DEF PullReply, Write
<1>12. CASE DeleteNotifieList
    BY <1>12 DEF DeleteNotifieList
<1>13. CASE Route
    BY <1>13 DEF Route
<1>14. CASE UNCHANGED vars
    BY <1>14 DEF vars
<1> QED
    BY <1>1, <1>2, <1>3, <1>4, <1>5, <1>6, <1>7, <1>8, <1>9, <1>10, <1>11,
       <1>12, <1>13, <1>14 DEF Next

(* Every notification of the frames of a Write arrives or is lost with it.  *)
LEMMA WriteArrives ==
    ASSUME NEW s, NEW frames, NEW n, Write(s, frames),
           Arrived(n) \/ \E f \in frames : f[1] = n,
           UNCHANGED <<taken, garbled>>
    PROVE  Arrived(n)'
BY DEF Write, Arrived

(* No step takes back what has arrived.                                     *)
LEMMA ArrivedStays ==
    ASSUME NEW k \in Notes, TypeOK, Arrived(k), [Next]_vars
    PROVE  Arrived(k)'
<1> USE NotifyAssumption DEF Notes, SetStep, logicVars, sessionVars,
        clientVars
<1>1. ASSUME NEW n \in Notes, GetUserFromRedis(n) PROVE Arrived(k)'
    BY <1>1 DEF GetUserFromRedis, Arrived
<1>2. ASSUME NEW n \in Notes, GetComitServer(n) PROVE Arrived(k)'
    BY <1>2 DEF GetComitServer, Arrived, RandComitServer
<1>3. ASSUME NEW n \in Notes, RpcFails(n) PROVE Arrived(k)'
    BY <1>3 DEF RpcFails, Arrived
<1>4. ASSUME NEW n \in Notes, FriendNotify(n) PROVE Arrived(k)'
  <2>1. CASE UNCHANGED <<wire, lost>>
    BY <1>4, <2>1 DEF FriendNotify, Arrived
  <2>2. CASE Write(srv[n], {<<n, "push">>})
    BY <1>4, <2>2, WriteArrives DEF FriendNotify
  <2> QED
    BY <1>4, <2>1, <2>2 DEF FriendNotify
<1>5. ASSUME NEW n \in Notes, FriendAgree(n) PROVE Arrived(k)'
  <2>1. CASE wire' = wire /\ lost \subseteq lost'
    BY <1>5, <2>1 DEF FriendAgree, Arrived
  <2>2. CASE Write(srv[n], {<<n, "push">>})
    BY <1>5, <2>2, WriteArrives DEF FriendAgree
  <2> QED
    BY <1>5, <2>1, <2>2 DEF FriendAgree
<1>6. CASE ComitsChange
    BY <1>6 DEF ComitsChange, Arrived
<1>7. CASE Login
    BY <1>7 DEF Login, Arrived
<1>8. CASE Lose
    BY <1>8 DEF Lose, Arrived
<1>9. CASE CloseHandle
    BY <1>9 DEF CloseHandle, Arrived
<1>10. CASE NotifieList
    BY <1>10 DEF NotifieList, Arrived
<1>11. CASE PullReply
    BY <1>11, WriteArrives DEF PullReply
<1>12. CASE DeleteNotifieList
    BY <1>12 DEF DeleteNotifieList, Arrived
<1>13. CASE Route
    BY <1>13 DEF Route, Arrived
<1>14. CASE UNCHANGED vars
    BY <1>14 DEF vars, clientVars, Arrived
<1> QED
    BY <1>1, <1>2, <1>3, <1>4, <1>5, <1>6, <1>7, <1>8, <1>9, <1>10, <1>11,
       <1>12, <1>13, <1>14 DEF Next

(* A notification whose handler is done has arrived, is stored, or was not  *)
(* sent.                                                                    *)
(* What PullNotifie has read and is about to delete has arrived.            *)
LEMMA PulledStep ==
    ASSUME TypeOK, PulledArrived, [Next]_vars
    PROVE  PulledArrived'
<1> USE NotifyAssumption DEF TypeOK, PulledArrived, Notes, SetStep,
        logicVars, sessionVars, clientVars
<1>1. ASSUME NEW n \in Notes, GetUserFromRedis(n) PROVE PulledArrived'
    BY <1>1, ArrivedStays DEF GetUserFromRedis
<1>2. ASSUME NEW n \in Notes, GetComitServer(n) PROVE PulledArrived'
    BY <1>2, ArrivedStays DEF GetComitServer, RandComitServer
<1>3. ASSUME NEW n \in Notes, RpcFails(n) PROVE PulledArrived'
    BY <1>3, ArrivedStays DEF RpcFails
<1>4. ASSUME NEW n \in Notes, FriendNotify(n) PROVE PulledArrived'
    BY <1>4, ArrivedStays DEF FriendNotify
<1>5. ASSUME NEW n \in Notes, FriendAgree(n) PROVE PulledArrived'
    BY <1>5, ArrivedStays DEF FriendAgree
<1>6. CASE ComitsChange
    BY <1>6, ArrivedStays DEF ComitsChange
<1>7. CASE Login
    BY <1>7, ArrivedStays DEF Login
<1>8. CASE Lose
    BY <1>8, ArrivedStays DEF Lose
<1>9. CASE CloseHandle
    BY <1>9, ArrivedStays DEF CloseHandle
<1>10. CASE NotifieList
    BY <1>10, ArrivedStays DEF NotifieList
<1>11. CASE PullReply
  <2>1. ASSUME NEW k \in pulled PROVE Arrived(k)'
    <3>1. <<k, "pull">> \in pulled \X {"pull"} /\ <<k, "pull">>[1] = k
      OBVIOUS
    <3> QED
      BY <1>11, <3>1, WriteArrives DEF PullReply
  <2> QED
    BY <1>11, <2>1 DEF PullReply
<1>12. CASE DeleteNotifieList
    BY <1>12, ArrivedStays DEF DeleteNotifieList
<1>13. CASE Route
    BY <1>13, ArrivedStays DEF Route
<1>14. CASE UNCHANGED vars
    BY <1>14, ArrivedStays DEF vars
<1> QED
    BY <1>1, <1>2, <1>3, <1>4, <1>5, <1>6, <1>7, <1>8, <1>9, <1>10, <1>11,
       <1>12, <1>13, <1>14 DEF Next

LEMMA KeptStep ==
    ASSUME TypeOK, PulledArrived, NEW k \in Notes,
           at[k] = "done" => Arrived(k) \/ k \in table \cup unsent, [Next]_vars
    PROVE  at'[k] = "done" => Arrived(k)' \/ k \in table' \cup unsent'
<1> USE NotifyAssumption DEF TypeOK, Notes, SetStep, logicVars, sessionVars,
        clientVars
<1>1. ASSUME NEW n \in Notes, GetUserFromRedis(n)
      PROVE  at'[k] = "done" => Arrived(k)' \/ k \in table' \cup unsent'
    BY <1>1, ArrivedStays DEF GetUserFromRedis
<1>2. ASSUME NEW n \in Notes, GetComitServer(n)
      PROVE  at'[k] = "done" => Arrived(k)' \/ k \in table' \cup unsent'
    BY <1>2, ArrivedStays DEF GetComitServer, RandComitServer
<1>3. ASSUME NEW n \in Notes, RpcFails(n)
      PROVE  at'[k] = "done" => Arrived(k)' \/ k \in table' \cup unsent'
  <2>1. k = n => Arrived(k)'
    BY <1>3 DEF RpcFails, Arrived
  <2> QED
    BY <1>3, <2>1, ArrivedStays DEF RpcFails
<1>4. ASSUME NEW n \in Notes, FriendNotify(n)
      PROVE  at'[k] = "done" => Arrived(k)' \/ k \in table' \cup unsent'
  <2>1. k = n => Arrived(k)' \/ k \in unsent'
    <3>1. \E f \in {<<n, "push">>} : f[1] = n
      OBVIOUS
    <3>2. Write(srv[n], {<<n, "push">>}) => Arrived(n)'
      BY <1>4, <3>1, WriteArrives DEF FriendNotify
    <3> QED
      BY <1>4, <3>2 DEF FriendNotify
  <2> QED
    BY <1>4, <2>1, ArrivedStays DEF FriendNotify
<1>5. ASSUME NEW n \in Notes, FriendAgree(n)
      PROVE  at'[k] = "done" => Arrived(k)' \/ k \in table' \cup unsent'
  <2>1. k = n => Arrived(k)' \/ k \in table'
    <3>0. \E f \in {<<n, "push">>} : f[1] = n
      OBVIOUS
    <3>1. CASE Write(srv[n], {<<n, "push">>})
      BY <1>5, <3>0, <3>1, WriteArrives DEF FriendAgree
    <3>2. CASE n \in table' \/ n \in lost'
      BY <3>2 DEF Arrived
    <3> QED
      BY <1>5, <3>1, <3>2 DEF FriendAgree
  <2>2. k # n => at'[k] = at[k]
    BY <1>5 DEF FriendAgree
  <2>3. table \subseteq table' /\ unsent' = unsent
    BY <1>5 DEF FriendAgree
  <2> QED
    BY <2>1, <2>2, <2>3, ArrivedStays
<1>6. CASE ComitsChange
    BY <1>6, ArrivedStays DEF ComitsChange
<1>7. CASE Login
    BY <1>7, ArrivedStays DEF Login
<1>8. CASE Lose
    BY <1>8, ArrivedStays DEF Lose
<1>9. CASE CloseHandle
    BY <1>9, ArrivedStays DEF CloseHandle
<1>10. CASE NotifieList
    BY <1>10, ArrivedStays DEF NotifieList
<1>11. CASE PullReply
    BY <1>11, ArrivedStays DEF PullReply
<1>12. CASE DeleteNotifieList
  <2>1. k \in pulled => Arrived(k)
    BY <1>12 DEF DeleteNotifieList, PulledArrived
  <2> QED
    BY <1>12, <2>1, ArrivedStays DEF DeleteNotifieList
<1>13. CASE Route
    BY <1>13, ArrivedStays DEF Route
<1>14. CASE UNCHANGED vars
    BY <1>14, ArrivedStays DEF vars
<1> QED
    BY <1>1, <1>2, <1>3, <1>4, <1>5, <1>6, <1>7, <1>8, <1>9, <1>10, <1>11,
       <1>12, <1>13, <1>14 DEF Next

LEMMA InvParts ==
    NotifyInv <=> TypeOK /\ PulledArrived /\
        \A n \in Notes : at[n] = "done" => Arrived(n) \/ n \in table \cup unsent
BY KeptOrLost DEF NotifyInv, NotifyKept

LEMMA InvInit == Init => NotifyInv
BY NotifyAssumption DEF Init, NotifyInv, NotifyKept, PulledArrived, TypeOK,
   Notes

LEMMA InvStep == NotifyInv /\ [Next]_vars => NotifyInv'
<1> SUFFICES ASSUME NotifyInv, [Next]_vars PROVE NotifyInv'
    OBVIOUS
<1>1. TypeOK /\ PulledArrived
    BY InvParts
<1>2. TypeOK' /\ PulledArrived'
    BY <1>1, TypeStep, PulledStep
<1>3. \A n \in Notes :
        at'[n] = "done" => Arrived(n)' \/ n \in table' \cup unsent'
    BY <1>1, InvParts, KeptStep
<1>4. \A n \in Notes : at'[n] = "done" => (Kept(n) \/ n \in lost \cup unsent)'
    BY <1>3 DEF Kept, Arrived
<1> QED
    BY <1>2, <1>4 DEF NotifyInv, NotifyKept

(* What PullNotifie deletes has reached the client, is on its way to it or  *)
(* went with a broken connection or a refused Write; and NotifyKept         *)
(* (PullNotifie, FriendAgree).                                              *)
THEOREM NotifyCorrect == Spec => []NotifyInv
BY InvInit, InvStep, PTL DEF Spec

(* A notification whose handler is done is with the client, under way or    *)
(* stored, unless it was lost with a connection or a call, or nobody was    *)
(* there to be told: a pull deletes no row stored while it runs             *)
(* (FriendAgree, FriendNotify, PullNotifie).                                *)
THEOREM NoneDeletedUnread == Spec => []NotifyKept
<1>1. NotifyInv => NotifyKept
    BY DEF NotifyInv
<1> QED
    BY NotifyCorrect, <1>1, PTL
=============================================================================

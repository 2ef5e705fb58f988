---------------------------- MODULE GroupProofs ----------------------------
(***************************************************************************)
(* Proofs about Group, for every number of groups, users, requests and      *)
(* checks and whichever calls fail.  The invariant is GroupInv; each of its *)
(* parts has a lemma that goes through the actions one by one.              *)
(***************************************************************************)
EXTENDS Group, TLAPS

(* The types, and the parameters and groups that requests have.             *)
LEMMA TypeStep ==
    ASSUME TypeOK, RequestsBound, QuittersHold, [Next]_vars
    PROVE  TypeOK' /\ RequestsBound'
<1> USE GroupAssumption, NoneAssumption DEF TypeOK, SetStep, Op, Gid, Uid,
   Them,
        groupVars, requestVars, checkVars, RequestsBound, QuittersHold, Parameters
<1>1. ASSUME NEW r \in Requests, Bind(r) PROVE TypeOK' /\ RequestsBound'
    BY <1>1 DEF Bind
<1>2. ASSUME NEW r \in Requests, GrouperDelete(r)
      PROVE  TypeOK' /\ RequestsBound'
    BY <1>2 DEF GrouperDelete
<1>3. ASSUME NEW r \in Requests, RequestFails(r)
      PROVE  TypeOK' /\ RequestsBound'
    BY <1>3 DEF RequestFails
<1>4. ASSUME NEW r \in Requests, GroupCreate(r)
      PROVE  TypeOK' /\ RequestsBound'
    BY <1>4 DEF GroupCreate
<1>5. ASSUME NEW r \in Requests, GetGroup(r) PROVE TypeOK' /\ RequestsBound'
    BY <1>5 DEF GetGroup
<1>6. ASSUME NEW r \in Requests, Invitation(r) PROVE TypeOK' /\ RequestsBound'
    BY <1>6 DEF Invitation
<1>7. ASSUME NEW r \in Requests, Removemembers(r)
      PROVE  TypeOK' /\ RequestsBound'
    BY <1>7 DEF Removemembers
<1>8. ASSUME NEW r \in Requests, QuitDelete(r) PROVE TypeOK' /\ RequestsBound'
    BY <1>8 DEF QuitDelete
<1>9. ASSUME NEW r \in Requests, QuitOwner(r) PROVE TypeOK' /\ RequestsBound'
    BY <1>9 DEF QuitOwner
<1>10. ASSUME NEW r \in Requests, QuitCommit(r)
      PROVE  TypeOK' /\ RequestsBound'
    BY <1>10 DEF QuitCommit
<1>11. ASSUME NEW c \in Checks, CacheMiss(c) PROVE TypeOK' /\ RequestsBound'
    BY <1>11 DEF CacheMiss
<1>12. ASSUME NEW c \in Checks, GetGroupchatUser(c)
      PROVE  TypeOK' /\ RequestsBound'
    BY <1>12 DEF GetGroupchatUser
<1>13. ASSUME NEW c \in Checks, GroupAddMembers(c)
      PROVE  TypeOK' /\ RequestsBound'
  <2>1. check[c] \in Groups /\ read[c] \in SUBSET Users
    BY <1>13 DEF GroupAddMembers
  <2>2. cache' \in [Groups -> SUBSET Users]
    BY <1>13, <2>1 DEF GroupAddMembers
  <2> QED
    BY <1>13, <2>2 DEF GroupAddMembers
<1>14. CASE UNCHANGED vars
    BY <1>14 DEF vars
<1> QED
    BY <1>1, <1>2, <1>3, <1>4, <1>5, <1>6, <1>7, <1>8, <1>9, <1>10, <1>11,
       <1>12, <1>13, <1>14 DEF Next, Request, Check

(* A group without an owner is empty everywhere.                            *)
LEMMA NotYetCreatedStep ==
    ASSUME TypeOK, RequestsBound, QuittersHold, NotYetCreated, [Next]_vars
    PROVE  NotYetCreated'
<1> USE GroupAssumption, NoneAssumption DEF TypeOK, SetStep, Op, Gid, Uid,
   Them,
        groupVars, requestVars, checkVars, RequestsBound, QuittersHold, NotYetCreated, Parameters
<1>1. ASSUME NEW r \in Requests, Bind(r) PROVE NotYetCreated'
    BY <1>1 DEF Bind
<1>2. ASSUME NEW r \in Requests, GrouperDelete(r) PROVE NotYetCreated'
    BY <1>2 DEF GrouperDelete
<1>3. ASSUME NEW r \in Requests, RequestFails(r) PROVE NotYetCreated'
    BY <1>3 DEF RequestFails
<1>4. ASSUME NEW r \in Requests, GroupCreate(r) PROVE NotYetCreated'
    BY <1>4 DEF GroupCreate
<1>5. ASSUME NEW r \in Requests, GetGroup(r) PROVE NotYetCreated'
    BY <1>5 DEF GetGroup
<1>6. ASSUME NEW r \in Requests, Invitation(r) PROVE NotYetCreated'
    BY <1>6 DEF Invitation
<1>7. ASSUME NEW r \in Requests, Removemembers(r) PROVE NotYetCreated'
    BY <1>7 DEF Removemembers
<1>8. ASSUME NEW r \in Requests, QuitDelete(r) PROVE NotYetCreated'
    BY <1>8 DEF QuitDelete
<1>9. ASSUME NEW r \in Requests, QuitOwner(r) PROVE NotYetCreated'
    BY <1>9 DEF QuitOwner
<1>10. ASSUME NEW r \in Requests, QuitCommit(r) PROVE NotYetCreated'
    BY <1>10 DEF QuitCommit
<1>11. ASSUME NEW c \in Checks, CacheMiss(c) PROVE NotYetCreated'
    BY <1>11 DEF CacheMiss
<1>12. ASSUME NEW c \in Checks, GetGroupchatUser(c) PROVE NotYetCreated'
    BY <1>12 DEF GetGroupchatUser
<1>13. ASSUME NEW c \in Checks, GroupAddMembers(c) PROVE NotYetCreated'
    BY <1>13 DEF GroupAddMembers
<1>14. CASE UNCHANGED vars
    BY <1>14 DEF vars
<1> QED
    BY <1>1, <1>2, <1>3, <1>4, <1>5, <1>6, <1>7, <1>8, <1>9, <1>10, <1>11,
       <1>12, <1>13, <1>14 DEF Next, Request, Check

(* A changing group has no key and nobody fills it.                         *)
LEMMA NoKeyStep ==
    ASSUME TypeOK, RequestsBound, QuittersHold, NoKeyWhileChanging, [Next]_vars
    PROVE  NoKeyWhileChanging'
<1> USE GroupAssumption, NoneAssumption DEF TypeOK, SetStep, Op, Gid, Uid,
   Them,
        groupVars, requestVars, checkVars, RequestsBound, QuittersHold, NoKeyWhileChanging, Changing, Filling, Parameters
<1>1. ASSUME NEW r \in Requests, Bind(r) PROVE NoKeyWhileChanging'
    BY <1>1 DEF Bind
<1>2. ASSUME NEW r \in Requests, GrouperDelete(r) PROVE NoKeyWhileChanging'
    BY <1>2 DEF GrouperDelete
<1>3. ASSUME NEW r \in Requests, RequestFails(r) PROVE NoKeyWhileChanging'
    BY <1>3 DEF RequestFails
<1>4. ASSUME NEW r \in Requests, GroupCreate(r) PROVE NoKeyWhileChanging'
    BY <1>4 DEF GroupCreate
<1>5. ASSUME NEW r \in Requests, GetGroup(r) PROVE NoKeyWhileChanging'
    BY <1>5 DEF GetGroup
<1>6. ASSUME NEW r \in Requests, Invitation(r) PROVE NoKeyWhileChanging'
    BY <1>6 DEF Invitation
<1>7. ASSUME NEW r \in Requests, Removemembers(r) PROVE NoKeyWhileChanging'
    BY <1>7 DEF Removemembers
<1>8. ASSUME NEW r \in Requests, QuitDelete(r) PROVE NoKeyWhileChanging'
    BY <1>8 DEF QuitDelete
<1>9. ASSUME NEW r \in Requests, QuitOwner(r) PROVE NoKeyWhileChanging'
    BY <1>9 DEF QuitOwner
<1>10. ASSUME NEW r \in Requests, QuitCommit(r) PROVE NoKeyWhileChanging'
    BY <1>10 DEF QuitCommit
<1>11. ASSUME NEW c \in Checks, CacheMiss(c) PROVE NoKeyWhileChanging'
    BY <1>11 DEF CacheMiss
<1>12. ASSUME NEW c \in Checks, GetGroupchatUser(c) PROVE NoKeyWhileChanging'
    BY <1>12 DEF GetGroupchatUser
<1>13. ASSUME NEW c \in Checks, GroupAddMembers(c) PROVE NoKeyWhileChanging'
    BY <1>13 DEF GroupAddMembers
<1>14. CASE UNCHANGED vars
    BY <1>14 DEF vars
<1> QED
    BY <1>1, <1>2, <1>3, <1>4, <1>5, <1>6, <1>7, <1>8, <1>9, <1>10, <1>11,
       <1>12, <1>13, <1>14 DEF Next, Request, Check

(* Who is about to fill a key has read what the table says.                 *)
LEMMA FillsMatchStep ==
    ASSUME TypeOK, RequestsBound, QuittersHold, NotYetCreated, NoKeyWhileChanging,
           FillsMatch, [Next]_vars
    PROVE  FillsMatch'
<1> USE GroupAssumption, NoneAssumption DEF TypeOK, SetStep, Op, Gid, Uid,
   Them,
        groupVars, requestVars, checkVars, RequestsBound, QuittersHold, NotYetCreated,
        NoKeyWhileChanging, FillsMatch, Changing, Filling
<1>1. ASSUME NEW r \in Requests, Bind(r) PROVE FillsMatch'
    BY <1>1 DEF Bind
<1>2. ASSUME NEW r \in Requests, GrouperDelete(r) PROVE FillsMatch'
    BY <1>2 DEF GrouperDelete
<1>3. ASSUME NEW r \in Requests, RequestFails(r) PROVE FillsMatch'
    BY <1>3 DEF RequestFails
<1>4. ASSUME NEW r \in Requests, GroupCreate(r) PROVE FillsMatch'
    BY <1>4 DEF GroupCreate
<1>5. ASSUME NEW r \in Requests, GetGroup(r) PROVE FillsMatch'
    BY <1>5 DEF GetGroup
<1>6. ASSUME NEW r \in Requests, Invitation(r) PROVE FillsMatch'
    BY <1>6 DEF Invitation
<1>7. ASSUME NEW r \in Requests, Removemembers(r) PROVE FillsMatch'
    BY <1>7 DEF Removemembers
<1>8. ASSUME NEW r \in Requests, QuitDelete(r) PROVE FillsMatch'
    BY <1>8 DEF QuitDelete
<1>9. ASSUME NEW r \in Requests, QuitOwner(r) PROVE FillsMatch'
    BY <1>9 DEF QuitOwner
<1>10. ASSUME NEW r \in Requests, QuitCommit(r) PROVE FillsMatch'
    BY <1>10 DEF QuitCommit
<1>11. ASSUME NEW c \in Checks, CacheMiss(c) PROVE FillsMatch'
    BY <1>11 DEF CacheMiss
<1>12. ASSUME NEW c \in Checks, GetGroupchatUser(c) PROVE FillsMatch'
    BY <1>12 DEF GetGroupchatUser
<1>13. ASSUME NEW c \in Checks, GroupAddMembers(c) PROVE FillsMatch'
    BY <1>13 DEF GroupAddMembers
<1>14. CASE UNCHANGED vars
    BY <1>14 DEF vars
<1> QED
    BY <1>1, <1>2, <1>3, <1>4, <1>5, <1>6, <1>7, <1>8, <1>9, <1>10, <1>11,
       <1>12, <1>13, <1>14 DEF Next, Request, Check

(* So a key that nobody filled during a change is what the table says.      *)
LEMMA CacheFreshStep ==
    ASSUME TypeOK, RequestsBound, QuittersHold, NotYetCreated, NoKeyWhileChanging,
           FillsMatch, CacheFresh, [Next]_vars
    PROVE  CacheFresh'
<1> USE GroupAssumption, NoneAssumption DEF TypeOK, SetStep, Op, Gid, Uid,
   Them,
        groupVars, requestVars, checkVars, RequestsBound, QuittersHold, NotYetCreated,
        NoKeyWhileChanging, FillsMatch, CacheFresh, Changing, Filling
<1>1. ASSUME NEW r \in Requests, Bind(r) PROVE CacheFresh'
    BY <1>1 DEF Bind
<1>2. ASSUME NEW r \in Requests, GrouperDelete(r) PROVE CacheFresh'
    BY <1>2 DEF GrouperDelete
<1>3. ASSUME NEW r \in Requests, RequestFails(r) PROVE CacheFresh'
    BY <1>3 DEF RequestFails
<1>4. ASSUME NEW r \in Requests, GroupCreate(r) PROVE CacheFresh'
    BY <1>4 DEF GroupCreate
<1>5. ASSUME NEW r \in Requests, GetGroup(r) PROVE CacheFresh'
    BY <1>5 DEF GetGroup
<1>6. ASSUME NEW r \in Requests, Invitation(r) PROVE CacheFresh'
    BY <1>6 DEF Invitation
<1>7. ASSUME NEW r \in Requests, Removemembers(r) PROVE CacheFresh'
    BY <1>7 DEF Removemembers
<1>8. ASSUME NEW r \in Requests, QuitDelete(r) PROVE CacheFresh'
    BY <1>8 DEF QuitDelete
<1>9. ASSUME NEW r \in Requests, QuitOwner(r) PROVE CacheFresh'
    BY <1>9 DEF QuitOwner
<1>10. ASSUME NEW r \in Requests, QuitCommit(r) PROVE CacheFresh'
    BY <1>10 DEF QuitCommit
<1>11. ASSUME NEW c \in Checks, CacheMiss(c) PROVE CacheFresh'
    BY <1>11 DEF CacheMiss
<1>12. ASSUME NEW c \in Checks, GetGroupchatUser(c) PROVE CacheFresh'
    BY <1>12 DEF GetGroupchatUser
<1>13. ASSUME NEW c \in Checks, GroupAddMembers(c) PROVE CacheFresh'
    BY <1>13 DEF GroupAddMembers
<1>14. CASE UNCHANGED vars
    BY <1>14 DEF vars
<1> QED
    BY <1>1, <1>2, <1>3, <1>4, <1>5, <1>6, <1>7, <1>8, <1>9, <1>10, <1>11,
       <1>12, <1>13, <1>14 DEF Next, Request, Check

(* Transactions that quit hold the table, and their heirs stay members.     *)
LEMMA QuitStep ==
    ASSUME TypeOK, RequestsBound, QuittersHold, HeirFits, [Next]_vars
    PROVE  QuittersHold' /\ HeirFits'
<1> USE GroupAssumption, NoneAssumption DEF TypeOK, SetStep, Op, Gid, Uid,
   Them,
        groupVars, requestVars, checkVars, RequestsBound, QuittersHold, HeirFits, Parameters
<1>1. ASSUME NEW r \in Requests, Bind(r) PROVE QuittersHold' /\ HeirFits'
    BY <1>1 DEF Bind
<1>2. ASSUME NEW r \in Requests, GrouperDelete(r)
      PROVE  QuittersHold' /\ HeirFits'
    BY <1>2 DEF GrouperDelete
<1>3. ASSUME NEW r \in Requests, RequestFails(r)
      PROVE  QuittersHold' /\ HeirFits'
    BY <1>3 DEF RequestFails
<1>4. ASSUME NEW r \in Requests, GroupCreate(r)
      PROVE  QuittersHold' /\ HeirFits'
    BY <1>4 DEF GroupCreate
<1>5. ASSUME NEW r \in Requests, GetGroup(r) PROVE QuittersHold' /\ HeirFits'
    BY <1>5 DEF GetGroup
<1>6. ASSUME NEW r \in Requests, Invitation(r)
      PROVE  QuittersHold' /\ HeirFits'
    BY <1>6 DEF Invitation
<1>7. ASSUME NEW r \in Requests, Removemembers(r)
      PROVE  QuittersHold' /\ HeirFits'
    BY <1>7 DEF Removemembers
<1>8. ASSUME NEW r \in Requests, QuitDelete(r)
      PROVE  QuittersHold' /\ HeirFits'
    BY <1>8 DEF QuitDelete
<1>9. ASSUME NEW r \in Requests, QuitOwner(r) PROVE QuittersHold' /\ HeirFits'
    BY <1>9 DEF QuitOwner
<1>10. ASSUME NEW r \in Requests, QuitCommit(r)
      PROVE  QuittersHold' /\ HeirFits'
    BY <1>10 DEF QuitCommit
<1>11. ASSUME NEW c \in Checks, CacheMiss(c) PROVE QuittersHold' /\ HeirFits'
    BY <1>11 DEF CacheMiss
<1>12. ASSUME NEW c \in Checks, GetGroupchatUser(c)
      PROVE  QuittersHold' /\ HeirFits'
    BY <1>12 DEF GetGroupchatUser
<1>13. ASSUME NEW c \in Checks, GroupAddMembers(c)
      PROVE  QuittersHold' /\ HeirFits'
    BY <1>13 DEF GroupAddMembers
<1>14. CASE UNCHANGED vars
    BY <1>14 DEF vars
<1> QED
    BY <1>1, <1>2, <1>3, <1>4, <1>5, <1>6, <1>7, <1>8, <1>9, <1>10, <1>11,
       <1>12, <1>13, <1>14 DEF Next, Request, Check

(* The owner stays a member, or was let go without a look.                  *)
LEMMA OwnerStep ==
    ASSUME TypeOK, RequestsBound, QuittersHold, HeirFits, OwnerIsMember, [Next]_vars
    PROVE  OwnerIsMember'
<1> USE GroupAssumption, NoneAssumption DEF TypeOK, SetStep, Op, Gid, Uid,
   Them,
        groupVars, requestVars, checkVars, RequestsBound, QuittersHold, HeirFits, OwnerIsMember
<1>1. ASSUME NEW r \in Requests, Bind(r) PROVE OwnerIsMember'
    BY <1>1 DEF Bind
<1>2. ASSUME NEW r \in Requests, GrouperDelete(r) PROVE OwnerIsMember'
    BY <1>2 DEF GrouperDelete
<1>3. ASSUME NEW r \in Requests, RequestFails(r) PROVE OwnerIsMember'
    BY <1>3 DEF RequestFails
<1>4. ASSUME NEW r \in Requests, GroupCreate(r) PROVE OwnerIsMember'
    BY <1>4 DEF GroupCreate
<1>5. ASSUME NEW r \in Requests, GetGroup(r) PROVE OwnerIsMember'
    BY <1>5 DEF GetGroup
<1>6. ASSUME NEW r \in Requests, Invitation(r) PROVE OwnerIsMember'
    BY <1>6 DEF Invitation
<1>7. ASSUME NEW r \in Requests, Removemembers(r) PROVE OwnerIsMember'
    BY <1>7 DEF Removemembers
<1>8. ASSUME NEW r \in Requests, QuitDelete(r) PROVE OwnerIsMember'
    BY <1>8 DEF QuitDelete
<1>9. ASSUME NEW r \in Requests, QuitOwner(r) PROVE OwnerIsMember'
    BY <1>9 DEF QuitOwner
<1>10. ASSUME NEW r \in Requests, QuitCommit(r) PROVE OwnerIsMember'
  <2> DEFINE g == Gid(r)
             given == {h \in Groups : owner[h] # None}
  <2>1. /\ g \in Groups /\ Uid(r) \in Users
        /\ IF heir[r] = None THEN owner[g] # Uid(r) \/ <<g, Uid(r)>> \in careless
           ELSE heir[r] \in members[g] \ {Uid(r)}
    BY <1>10 DEF QuitCommit, Parameters
  <2>2. CASE UNCHANGED <<owner, members, careless>>
    BY <2>2
  <2>3. CASE /\ members' = [members EXCEPT ![g] = members[g] \ {Uid(r)}]
             /\ heir[r] = None
             /\ owner' = owner /\ careless' = careless
    BY <2>1, <2>3
  <2>4. CASE /\ members' = [members EXCEPT ![g] = members[g] \ {Uid(r)}]
             /\ heir[r] # None
             /\ owner' = [h \in Groups |-> IF h \in given THEN heir[r]
                                           ELSE owner[h]]
             /\ careless' = careless \cup ((given \ {g}) \X {heir[r]})
    <3>1. ASSUME NEW h \in Groups
          PROVE  owner'[h] \in members'[h] \cup {None}
                    \/ <<h, owner'[h]>> \in careless'
      BY <2>1, <2>4
    <3> QED
      BY <3>1
  <2>5. CASE /\ heir[r] = None /\ at'[r] = "success"
    <3>1. owner' = [h \in Groups |-> owner[h]]
      BY <1>10, <2>5 DEF QuitCommit
    <3>2. careless' = careless \cup (({} \ {g}) \X {heir[r]})
      BY <1>10, <2>5 DEF QuitCommit
    <3>3. ({} \ {g}) \X {heir[r]} = {}
      OBVIOUS
    <3>4. careless' = careless
      BY <3>2, <3>3
    <3> QED
      BY <1>10, <2>3, <2>5, <3>1, <3>4 DEF QuitCommit
  <2>6. CASE heir[r] # None /\ at'[r] = "success"
    BY <1>10, <2>4, <2>6, ZenonT(30) DEF QuitCommit
  <2>7. at'[r] # "success" => UNCHANGED <<owner, members, careless>>
    BY <1>10 DEF QuitCommit
  <2> QED
    BY <2>2, <2>5, <2>6, <2>7
<1>11. ASSUME NEW c \in Checks, CacheMiss(c) PROVE OwnerIsMember'
    BY <1>11 DEF CacheMiss
<1>12. ASSUME NEW c \in Checks, GetGroupchatUser(c) PROVE OwnerIsMember'
    BY <1>12 DEF GetGroupchatUser
<1>13. ASSUME NEW c \in Checks, GroupAddMembers(c) PROVE OwnerIsMember'
    BY <1>13 DEF GroupAddMembers
<1>14. CASE UNCHANGED vars
    BY <1>14 DEF vars
<1> QED
    BY <1>1, <1>2, <1>3, <1>4, <1>5, <1>6, <1>7, <1>8, <1>9, <1>10, <1>11,
       <1>12, <1>13, <1>14 DEF Next, Request, Check

LEMMA InitInv == Init => GroupInv /\ OwnerIsMember
<1> SUFFICES ASSUME Init PROVE GroupInv /\ OwnerIsMember
    OBVIOUS
<1> USE GroupAssumption, NoneAssumption DEF Init
<1>1. TypeOK
  <2>1. /\ req \in [Requests -> Parameters \cup {None}]
        /\ heir \in [Requests -> Users \cup {None}]
    OBVIOUS
  <2>2. /\ check \in [Checks -> Groups \cup {None}]
        /\ read \in [Checks -> (SUBSET Users) \cup {None}]
    OBVIOUS
  <2>3. cache \in [Groups -> SUBSET Users] /\ careless \subseteq Groups \X Users
    OBVIOUS
  <2> QED
    BY <2>1, <2>2, <2>3 DEF TypeOK
<1>2. RequestsBound /\ NotYetCreated
    BY DEF RequestsBound, NotYetCreated
<1>3. NoKeyWhileChanging /\ FillsMatch /\ CacheFresh
    BY DEF NoKeyWhileChanging, Changing, FillsMatch, CacheFresh
<1>4. QuittersHold /\ HeirFits
    BY DEF QuittersHold, HeirFits
<1>5. OwnerIsMember
    BY DEF OwnerIsMember
<1> QED
    BY <1>1, <1>2, <1>3, <1>4, <1>5 DEF GroupInv

LEMMA StepInv ==
    ASSUME GroupInv, OwnerIsMember, [Next]_vars
    PROVE  GroupInv' /\ OwnerIsMember'
<1> USE DEF GroupInv
<1>1. TypeOK' /\ RequestsBound'
    BY TypeStep
<1>2. NotYetCreated'
    BY NotYetCreatedStep
<1>3. NoKeyWhileChanging'
    BY NoKeyStep
<1>4. FillsMatch'
    BY FillsMatchStep
<1>5. CacheFresh'
    BY CacheFreshStep
<1>6. QuittersHold' /\ HeirFits'
    BY QuitStep
<1>7. OwnerIsMember'
    BY OwnerStep
<1> QED
    BY <1>1, <1>2, <1>3, <1>4, <1>5, <1>6, <1>7

(* Whatever the requests and checks do, the parts of GroupInv hold: every   *)
(* request deletes the key first and holds the table while it changes it    *)
(* (GrouperDelete, GroupMebersCheck, QuitGroup).                            *)
THEOREM GroupCorrect == Spec => []GroupInv
<1>1. GroupInv /\ OwnerIsMember /\ [Next]_vars => (GroupInv /\ OwnerIsMember)'
    BY StepInv
<1> QED
    BY InitInv, <1>1, PTL DEF Spec

(* A set of members that comit did not fill during a change is what the     *)
(* table says (GroupMebersCheck).                                           *)
THEOREM CacheStaysFresh == Spec => []CacheFresh
<1>1. GroupInv => CacheFresh
    BY DEF GroupInv
<1> QED
    BY GroupCorrect, <1>1, PTL

(* However requests interleave and fail, an owner is a member, but for the  *)
(* three gaps that careless records (QuitGroup, Removemembers).             *)
THEOREM OwnerStaysMember == Spec => []OwnerIsMember
<1>1. GroupInv /\ OwnerIsMember /\ [Next]_vars => (GroupInv /\ OwnerIsMember)'
    BY StepInv
<1> QED
    BY InitInv, <1>1, PTL DEF Spec
=============================================================================

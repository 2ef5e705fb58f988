----------------------------- MODULE LogicProofs -----------------------------
(***************************************************************************)
(* Proofs about the state of logic: Friend, for every number of users,      *)
(* requests and checks and whichever calls fail, and Session, for every     *)
(* number of apps, names, passwords and servers and every life of a token.  *)
(*                                                                          *)
(* The invariant of Friend is FriendInv with BothRows; each of its parts    *)
(* has a lemma that goes through the actions one by one.  SessionInv is     *)
(* inductive: rows keep their passwords and what was entered stays entered  *)
(* (Grows), so a token that is an app's own stays so wherever it is kept,   *)
(* and each action only moves tokens of one app or grants a new one for a   *)
(* password entered there.                                                  *)
(***************************************************************************)
EXTENDS Friend, Session, SequenceTheorems, TLAPS

-----------------------------------------------------------------------------
(* Friend. *)

(* What a change of the rows does to the list of each user.                 *)
LEMMA ListAdd ==
    ASSUME NEW rows, NEW v \in Users, NEW w \in Users, NEW r \in Requests,
           NEW u \in Users, u \notin {v, w}
    PROVE  ListOf(rows \cup {<<v, w, r>>, <<w, v, r>>}, u) = ListOf(rows, u)
BY DEF ListOf

LEMMA ListDelete ==
    ASSUME NEW rows, NEW v \in Users, NEW w \in Users,
           NEW u \in Users, u # v
    PROVE  ListOf(rows \ ({v} \X {w} \X Requests), u) = ListOf(rows, u)
BY DEF ListOf

(* A note says yes or no.                                                   *)
LEMMA NoteType ==
    ASSUME TypeOK, NEW rows
    PROVE  Note(rows) \in [Checks -> SUBSET BOOLEAN]
<1>1. ASSUME NEW c \in Checks
      PROVE  {check[c][2] \in ListOf(rows, check[c][1])} \subseteq BOOLEAN
  <2>1. (check[c][2] \in ListOf(rows, check[c][1])) \in BOOLEAN
    OBVIOUS
  <2> QED
    BY ONLY <2>1
<1>2. ASSUME NEW c \in Checks PROVE seen[c] \subseteq BOOLEAN
    BY DEF TypeOK
<1> QED
    BY <1>1, <1>2, Zenon DEF Note

(* Only an agreement or a deletion changes a list, and it Changes its user. *)
LEMMA ListsKept ==
    ASSUME TypeOK, RequestsBound, [Next]_vars, NEW u \in Users,
           ~\E r \in Requests : Changes(r, u)
    PROVE  ListOf(friends', u) = ListOf(friends, u)
<1> USE NoneAssumption DEF TypeOK, RequestsBound, Parameters, Uid, Other, Op,
   Changes
<1>1. ASSUME NEW r \in Requests, FriendAdd(r)
      PROVE  ListOf(friends', u) = ListOf(friends, u)
  <2>1. CASE friends' = friends
    BY <2>1
  <2>2. CASE friends' = friends \cup {<<Uid(r), Other(r), r>>,
                                      <<Other(r), Uid(r), r>>}
    <3>1. u \notin {Uid(r), Other(r)}
      BY <1>1 DEF FriendAdd
    <3>2. Uid(r) \in Users /\ Other(r) \in Users
      BY <1>1 DEF FriendAdd
    <3> QED
      BY ONLY <2>2, <3>1, <3>2, ListAdd
  <2> QED
    BY <1>1, <2>1, <2>2 DEF FriendAdd
<1>2. ASSUME NEW r \in Requests, FriendDelete(r)
      PROVE  ListOf(friends', u) = ListOf(friends, u)
    BY <1>2, ListDelete DEF FriendDelete
<1>3. CASE friends' = friends
    BY <1>3
<1>4. ASSUME NEW r \in Requests, Request(r), ~FriendAdd(r), ~FriendDelete(r)
      PROVE  friends' = friends
    BY <1>4 DEF Request, Bind, FirendQuery, NotifyQuery, NotifyCreate,
       NotifyFirst, RequestFails, ForgetUser, ForgetOther, Forget,
       NotifyUpdateStatus, NotifyClear, tableVars
<1>5. ASSUME NEW c \in Checks, Check(c) PROVE friends' = friends
    BY <1>5 DEF Check, Exists, GetFriends, SAdd, SIsMember, tableVars
<1>6. CASE UNCHANGED vars
    BY <1>6 DEF vars, tableVars
<1> QED
    BY <1>1, <1>2, <1>3, <1>4, <1>5, <1>6 DEF Next

(* The types, and what requests and checks are bound to.                    *)
LEMMA TypeStep ==
    ASSUME TypeOK, RequestsBound, [Next]_vars
    PROVE  TypeOK' /\ RequestsBound'
<1> USE FriendAssumption, NoneAssumption DEF TypeOK, SetStep, Op, Uid,
        Other, Nid, tableVars, requestVars, checkVars, RequestsBound,
        Parameters, Pairs, Changes
<1>1. ASSUME NEW r \in Requests, Bind(r) PROVE TypeOK' /\ RequestsBound'
    BY <1>1 DEF Bind, AllOps
<1>2. ASSUME NEW r \in Requests, FirendQuery(r)
      PROVE  TypeOK' /\ RequestsBound'
    BY <1>2 DEF FirendQuery
<1>3. ASSUME NEW r \in Requests, NotifyQuery(r)
      PROVE  TypeOK' /\ RequestsBound'
    BY <1>3 DEF NotifyQuery
<1>4. ASSUME NEW r \in Requests, NotifyCreate(r)
      PROVE  TypeOK' /\ RequestsBound'
    BY <1>4 DEF NotifyCreate
<1>5. ASSUME NEW r \in Requests, NotifyFirst(r)
      PROVE  TypeOK' /\ RequestsBound'
    BY <1>5 DEF NotifyFirst
<1>6. ASSUME NEW r \in Requests, RequestFails(r)
      PROVE  TypeOK' /\ RequestsBound'
    BY <1>6 DEF RequestFails
<1>7. ASSUME NEW r \in Requests, ForgetUser(r) PROVE TypeOK' /\ RequestsBound'
    BY <1>7 DEF ForgetUser, Forget
<1>8. ASSUME NEW r \in Requests, ForgetOther(r)
      PROVE  TypeOK' /\ RequestsBound'
    BY <1>8 DEF ForgetOther, Forget
<1>9. ASSUME NEW r \in Requests, FriendAdd(r) PROVE TypeOK' /\ RequestsBound'
  <2>1. Uid(r) \in Users /\ Other(r) \in Users
    BY <1>9 DEF FriendAdd
  <2>2. friends' \subseteq Users \X Users \X Requests
    BY <1>9, <2>1 DEF FriendAdd
  <2>3. seen' \in [Checks -> SUBSET BOOLEAN]
    BY <1>9, NoteType DEF FriendAdd
  <2>4. /\ notify' \in [Requests -> {"none", "open", "agreed", "refused", "cleared"}]
        /\ stuck' \subseteq Requests
    BY <1>9 DEF FriendAdd
  <2>5. /\ at' \in [Requests -> {"new", "query", "repeated", "create", "first",
                  "cache1", "cache2", "change", "update", "success", "error"}]
        /\ \A q \in Requests : at'[q] = at[q] \/ at'[q] \in {"success", "error"}
    BY <1>9 DEF FriendAdd
  <2>6. TypeOK'
    BY <1>9, <2>2, <2>3, <2>4, <2>5 DEF FriendAdd
  <2>7. RequestsBound'
    BY <1>9, <2>5 DEF FriendAdd
  <2> QED
    BY <2>6, <2>7
<1>10. ASSUME NEW r \in Requests, FriendDelete(r)
      PROVE  TypeOK' /\ RequestsBound'
  <2>1. Uid(r) \in Users /\ Other(r) \in Users
    BY <1>10 DEF FriendDelete
  <2>2. /\ friends' \subseteq Users \X Users \X Requests
        /\ deleted' \subseteq Users \X Users
    BY <1>10, <2>1 DEF FriendDelete
  <2>3. seen' \in [Checks -> SUBSET BOOLEAN]
    BY <1>10, NoteType DEF FriendDelete
  <2>4. TypeOK'
    BY <1>10, <2>2, <2>3 DEF FriendDelete
  <2>5. RequestsBound'
    BY <1>10 DEF FriendDelete
  <2> QED
    BY <2>4, <2>5
<1>11. ASSUME NEW r \in Requests, NotifyUpdateStatus(r)
      PROVE  TypeOK' /\ RequestsBound'
    BY <1>11, ZenonT(30) DEF NotifyUpdateStatus
<1>12. ASSUME NEW r \in Requests, NotifyClear(r)
      PROVE  TypeOK' /\ RequestsBound'
    BY <1>12 DEF NotifyClear
<1>13. ASSUME NEW c \in Checks, Exists(c) PROVE TypeOK' /\ RequestsBound'
    BY <1>13 DEF Exists
<1>14. ASSUME NEW c \in Checks, GetFriends(c) PROVE TypeOK' /\ RequestsBound'
  <2>1. ListOf(friends, check[c][1]) \subseteq Users
    BY DEF ListOf
  <2> QED
    BY <1>14, <2>1 DEF GetFriends
<1>15. ASSUME NEW c \in Checks, SAdd(c) PROVE TypeOK' /\ RequestsBound'
    BY <1>15 DEF SAdd, Verdict
<1>16. ASSUME NEW c \in Checks, SIsMember(c) PROVE TypeOK' /\ RequestsBound'
    BY <1>16 DEF SIsMember, Verdict
<1>17. CASE UNCHANGED vars
    BY <1>17 DEF vars
<1> QED
    BY <1>1, <1>2, <1>3, <1>4, <1>5, <1>6, <1>7, <1>8, <1>9, <1>10, <1>11,
       <1>12, <1>13, <1>14, <1>15, <1>16, <1>17 DEF Next, Request, Check

(* A user whose rows change has no key, and nobody fills it.                *)
LEMMA NoKeyStep ==
    ASSUME TypeOK, RequestsBound, NoKeyWhileChanging, [Next]_vars
    PROVE  NoKeyWhileChanging'
<1> USE FriendAssumption, NoneAssumption DEF TypeOK, SetStep, Op, Uid,
        Other, Nid, tableVars, requestVars, checkVars, RequestsBound,
        NoKeyWhileChanging, Changes, Filling, Parameters, Pairs
<1>1. ASSUME NEW r \in Requests, Bind(r) PROVE NoKeyWhileChanging'
    BY <1>1 DEF Bind, AllOps
<1>2. ASSUME NEW r \in Requests, FirendQuery(r) PROVE NoKeyWhileChanging'
    BY <1>2 DEF FirendQuery
<1>3. ASSUME NEW r \in Requests, NotifyQuery(r) PROVE NoKeyWhileChanging'
    BY <1>3 DEF NotifyQuery
<1>4. ASSUME NEW r \in Requests, NotifyCreate(r) PROVE NoKeyWhileChanging'
    BY <1>4 DEF NotifyCreate
<1>5. ASSUME NEW r \in Requests, NotifyFirst(r) PROVE NoKeyWhileChanging'
    BY <1>5 DEF NotifyFirst
<1>6. ASSUME NEW r \in Requests, RequestFails(r) PROVE NoKeyWhileChanging'
    BY <1>6 DEF RequestFails
<1>7. ASSUME NEW r \in Requests, ForgetUser(r) PROVE NoKeyWhileChanging'
    BY <1>7 DEF ForgetUser, Forget
<1>8. ASSUME NEW r \in Requests, ForgetOther(r) PROVE NoKeyWhileChanging'
    BY <1>8 DEF ForgetOther, Forget
<1>9. ASSUME NEW r \in Requests, FriendAdd(r) PROVE NoKeyWhileChanging'
    BY <1>9 DEF FriendAdd
<1>10. ASSUME NEW r \in Requests, FriendDelete(r) PROVE NoKeyWhileChanging'
    BY <1>10 DEF FriendDelete
<1>11. ASSUME NEW r \in Requests, NotifyUpdateStatus(r)
      PROVE  NoKeyWhileChanging'
    BY <1>11 DEF NotifyUpdateStatus
<1>12. ASSUME NEW r \in Requests, NotifyClear(r) PROVE NoKeyWhileChanging'
    BY <1>12 DEF NotifyClear
<1>13. ASSUME NEW c \in Checks, Exists(c) PROVE NoKeyWhileChanging'
    BY <1>13 DEF Exists
<1>14. ASSUME NEW c \in Checks, GetFriends(c) PROVE NoKeyWhileChanging'
    BY <1>14 DEF GetFriends
<1>15. ASSUME NEW c \in Checks, SAdd(c) PROVE NoKeyWhileChanging'
    BY <1>15 DEF SAdd, Verdict
<1>16. ASSUME NEW c \in Checks, SIsMember(c) PROVE NoKeyWhileChanging'
    BY <1>16 DEF SIsMember, Verdict
<1>17. CASE UNCHANGED vars
    BY <1>17 DEF vars
<1> QED
    BY <1>1, <1>2, <1>3, <1>4, <1>5, <1>6, <1>7, <1>8, <1>9, <1>10, <1>11,
       <1>12, <1>13, <1>14, <1>15, <1>16, <1>17 DEF Next, Request, Check

(* Who is about to fill a key has read what the table says.                 *)
LEMMA FillsMatchStep ==
    ASSUME TypeOK, RequestsBound, NoKeyWhileChanging, FillsMatch, [Next]_vars
    PROVE  FillsMatch'
<1> USE FriendAssumption, NoneAssumption DEF TypeOK, SetStep, Op, Uid,
        Other, Nid, tableVars, requestVars, checkVars, RequestsBound,
        NoKeyWhileChanging, FillsMatch, Filling, Pairs
<1>1. ASSUME NEW r \in Requests, Bind(r) PROVE FillsMatch'
    BY <1>1 DEF Bind, AllOps
<1>2. ASSUME NEW r \in Requests, FirendQuery(r) PROVE FillsMatch'
    BY <1>2 DEF FirendQuery
<1>3. ASSUME NEW r \in Requests, NotifyQuery(r) PROVE FillsMatch'
    BY <1>3 DEF NotifyQuery
<1>4. ASSUME NEW r \in Requests, NotifyCreate(r) PROVE FillsMatch'
    BY <1>4 DEF NotifyCreate
<1>5. ASSUME NEW r \in Requests, NotifyFirst(r) PROVE FillsMatch'
    BY <1>5 DEF NotifyFirst
<1>6. ASSUME NEW r \in Requests, RequestFails(r) PROVE FillsMatch'
    BY <1>6 DEF RequestFails
<1>7. ASSUME NEW r \in Requests, ForgetUser(r) PROVE FillsMatch'
    BY <1>7 DEF ForgetUser, Forget
<1>8. ASSUME NEW r \in Requests, ForgetOther(r) PROVE FillsMatch'
    BY <1>8 DEF ForgetOther, Forget
<1>9. ASSUME NEW r \in Requests, FriendAdd(r) PROVE FillsMatch'
    BY <1>9, ListsKept DEF FriendAdd
<1>10. ASSUME NEW r \in Requests, FriendDelete(r) PROVE FillsMatch'
  <2>1. ASSUME NEW c \in Checks, checkAt'[c] = "add",
               check'[c][1] \notin mixed'
        PROVE  read'[c] = ListOf(friends', check'[c][1])
    <3>1. UNCHANGED <<checkAt, check, mixed, read>>
      BY <1>10 DEF FriendDelete
    <3>2. read[c] = ListOf(friends, check[c][1])
      BY ONLY <2>1, <3>1, FillsMatch DEF FillsMatch
    <3>3. check[c][1] # Uid(r)
      <4>1. check[c][1] \in Users \ mixed
        BY <2>1, <3>1
      <4>2. Filling(check[c][1])
        BY ONLY <2>1, <3>1 DEF Filling
      <4>3. ~Changes(r, check[c][1])
        BY ONLY <4>1, <4>2, NoKeyWhileChanging
           DEF NoKeyWhileChanging, Changes
      <4> QED
        BY ONLY <1>10, <4>3 DEF FriendDelete, Changes
    <3>4. ListOf(friends', check[c][1]) = ListOf(friends, check[c][1])
      BY ONLY <1>10, <3>3 DEF FriendDelete, ListOf
    <3> QED
      BY ONLY <3>1, <3>2, <3>4
  <2> QED
    BY ONLY <2>1 DEF FillsMatch
<1>11. ASSUME NEW r \in Requests, NotifyUpdateStatus(r) PROVE FillsMatch'
    BY <1>11 DEF NotifyUpdateStatus
<1>12. ASSUME NEW r \in Requests, NotifyClear(r) PROVE FillsMatch'
    BY <1>12 DEF NotifyClear
<1>13. ASSUME NEW c \in Checks, Exists(c) PROVE FillsMatch'
    BY <1>13 DEF Exists
<1>14. ASSUME NEW c \in Checks, GetFriends(c) PROVE FillsMatch'
    BY <1>14 DEF GetFriends
<1>15. ASSUME NEW c \in Checks, SAdd(c) PROVE FillsMatch'
    BY <1>15 DEF SAdd, Verdict
<1>16. ASSUME NEW c \in Checks, SIsMember(c) PROVE FillsMatch'
    BY <1>16 DEF SIsMember, Verdict
<1>17. CASE UNCHANGED vars
    BY <1>17 DEF vars
<1> QED
    BY <1>1, <1>2, <1>3, <1>4, <1>5, <1>6, <1>7, <1>8, <1>9, <1>10, <1>11,
       <1>12, <1>13, <1>14, <1>15, <1>16, <1>17 DEF Next, Request, Check

(* So a key that nobody filled during a change is what the table says.      *)
LEMMA CacheFreshStep ==
    ASSUME TypeOK, RequestsBound, NoKeyWhileChanging,
           FillsMatch, CacheFresh, [Next]_vars
    PROVE  CacheFresh'
<1> USE FriendAssumption, NoneAssumption DEF TypeOK, SetStep, Op, Uid,
        Other, Nid, tableVars, requestVars, checkVars, RequestsBound,
        NoKeyWhileChanging, FillsMatch, CacheFresh, Filling, Pairs
<1>1. ASSUME NEW r \in Requests, Bind(r) PROVE CacheFresh'
    BY <1>1 DEF Bind, AllOps
<1>2. ASSUME NEW r \in Requests, FirendQuery(r) PROVE CacheFresh'
    BY <1>2 DEF FirendQuery
<1>3. ASSUME NEW r \in Requests, NotifyQuery(r) PROVE CacheFresh'
    BY <1>3 DEF NotifyQuery
<1>4. ASSUME NEW r \in Requests, NotifyCreate(r) PROVE CacheFresh'
    BY <1>4 DEF NotifyCreate
<1>5. ASSUME NEW r \in Requests, NotifyFirst(r) PROVE CacheFresh'
    BY <1>5 DEF NotifyFirst
<1>6. ASSUME NEW r \in Requests, RequestFails(r) PROVE CacheFresh'
    BY <1>6 DEF RequestFails
<1>7. ASSUME NEW r \in Requests, ForgetUser(r) PROVE CacheFresh'
    BY <1>7 DEF ForgetUser, Forget
<1>8. ASSUME NEW r \in Requests, ForgetOther(r) PROVE CacheFresh'
    BY <1>8 DEF ForgetOther, Forget
<1>9. ASSUME NEW r \in Requests, FriendAdd(r) PROVE CacheFresh'
    BY <1>9, ListsKept DEF FriendAdd
<1>10. ASSUME NEW r \in Requests, FriendDelete(r) PROVE CacheFresh'
    BY <1>10, ListsKept DEF FriendDelete
<1>11. ASSUME NEW r \in Requests, NotifyUpdateStatus(r) PROVE CacheFresh'
    BY <1>11 DEF NotifyUpdateStatus
<1>12. ASSUME NEW r \in Requests, NotifyClear(r) PROVE CacheFresh'
    BY <1>12 DEF NotifyClear
<1>13. ASSUME NEW c \in Checks, Exists(c) PROVE CacheFresh'
    BY <1>13 DEF Exists
<1>14. ASSUME NEW c \in Checks, GetFriends(c) PROVE CacheFresh'
    BY <1>14 DEF GetFriends
<1>15. ASSUME NEW c \in Checks, SAdd(c) PROVE CacheFresh'
  <2>1. check[c] \in Pairs /\ check[c][1] \in Users
    BY <1>15 DEF SAdd
  <2>2. ASSUME NEW u \in Users \ mixed, cache[u] \in {{}, ListOf(friends, u)}
        PROVE  cache'[u] \in {{}, ListOf(friends, u)}
    <3>1. \/ cache'[u] = cache[u]
          \/ u = check[c][1] /\ cache'[u] = cache[u] \cup read[c]
      BY <1>15, <2>2 DEF SAdd
    <3>2. u = check[c][1] => read[c] = ListOf(friends, u)
      BY <1>15, <2>2 DEF SAdd
    <3>3. read[c] = ListOf(friends, u) => cache[u] \cup read[c] = ListOf(friends, u)
      BY ONLY <2>2
    <3> QED
      BY ONLY <2>2, <3>1, <3>2, <3>3
  <2> QED
    BY <1>15, <2>2 DEF SAdd
<1>16. ASSUME NEW c \in Checks, SIsMember(c) PROVE CacheFresh'
    BY <1>16 DEF SIsMember, Verdict
<1>17. CASE UNCHANGED vars
    BY <1>17 DEF vars
<1> QED
    BY <1>1, <1>2, <1>3, <1>4, <1>5, <1>6, <1>7, <1>8, <1>9, <1>10, <1>11,
       <1>12, <1>13, <1>14, <1>15, <1>16, <1>17 DEF Next, Request, Check

(* A check takes note of every change of the rows.                          *)
LEMMA SeenStep ==
    ASSUME TypeOK, RequestsBound, SeenNow, [Next]_vars
    PROVE  SeenNow'
<1> USE FriendAssumption, NoneAssumption DEF TypeOK, SetStep, Op, Uid,
        Other, Nid, tableVars, requestVars, checkVars, RequestsBound,
        SeenNow, Note, Pairs
<1>1. ASSUME NEW r \in Requests, Bind(r) PROVE SeenNow'
    BY <1>1 DEF Bind, AllOps
<1>2. ASSUME NEW r \in Requests, FirendQuery(r) PROVE SeenNow'
    BY <1>2 DEF FirendQuery
<1>3. ASSUME NEW r \in Requests, NotifyQuery(r) PROVE SeenNow'
    BY <1>3 DEF NotifyQuery
<1>4. ASSUME NEW r \in Requests, NotifyCreate(r) PROVE SeenNow'
    BY <1>4 DEF NotifyCreate
<1>5. ASSUME NEW r \in Requests, NotifyFirst(r) PROVE SeenNow'
    BY <1>5 DEF NotifyFirst
<1>6. ASSUME NEW r \in Requests, RequestFails(r) PROVE SeenNow'
    BY <1>6 DEF RequestFails
<1>7. ASSUME NEW r \in Requests, ForgetUser(r) PROVE SeenNow'
    BY <1>7 DEF ForgetUser, Forget
<1>8. ASSUME NEW r \in Requests, ForgetOther(r) PROVE SeenNow'
    BY <1>8 DEF ForgetOther, Forget
<1>9. ASSUME NEW r \in Requests, FriendAdd(r) PROVE SeenNow'
    BY <1>9 DEF FriendAdd
<1>10. ASSUME NEW r \in Requests, FriendDelete(r) PROVE SeenNow'
    BY <1>10 DEF FriendDelete
<1>11. ASSUME NEW r \in Requests, NotifyUpdateStatus(r) PROVE SeenNow'
    BY <1>11 DEF NotifyUpdateStatus
<1>12. ASSUME NEW r \in Requests, NotifyClear(r) PROVE SeenNow'
    BY <1>12 DEF NotifyClear
<1>13. ASSUME NEW c \in Checks, Exists(c) PROVE SeenNow'
    BY <1>13 DEF Exists
<1>14. ASSUME NEW c \in Checks, GetFriends(c) PROVE SeenNow'
    BY <1>14 DEF GetFriends
<1>15. ASSUME NEW c \in Checks, SAdd(c) PROVE SeenNow'
    BY <1>15 DEF SAdd, Verdict
<1>16. ASSUME NEW c \in Checks, SIsMember(c) PROVE SeenNow'
    BY <1>16 DEF SIsMember, Verdict
<1>17. CASE UNCHANGED vars
    BY <1>17 DEF vars
<1> QED
    BY <1>1, <1>2, <1>3, <1>4, <1>5, <1>6, <1>7, <1>8, <1>9, <1>10, <1>11,
       <1>12, <1>13, <1>14, <1>15, <1>16, <1>17 DEF Next, Request, Check

(* Rows come in twos and go one by one.                                     *)
LEMMA BothRowsStep ==
    ASSUME TypeOK, RequestsBound, BothRows, [Next]_vars
    PROVE  BothRows'
<1> USE FriendAssumption, NoneAssumption DEF TypeOK, SetStep, Op, Uid,
        Other, Nid, tableVars, requestVars, checkVars, RequestsBound,
        BothRows, Parameters
<1>1. ASSUME NEW r \in Requests, Bind(r) PROVE BothRows'
    BY <1>1 DEF Bind, AllOps
<1>2. ASSUME NEW r \in Requests, FirendQuery(r) PROVE BothRows'
    BY <1>2 DEF FirendQuery
<1>3. ASSUME NEW r \in Requests, NotifyQuery(r) PROVE BothRows'
    BY <1>3 DEF NotifyQuery
<1>4. ASSUME NEW r \in Requests, NotifyCreate(r) PROVE BothRows'
    BY <1>4 DEF NotifyCreate
<1>5. ASSUME NEW r \in Requests, NotifyFirst(r) PROVE BothRows'
    BY <1>5 DEF NotifyFirst
<1>6. ASSUME NEW r \in Requests, RequestFails(r) PROVE BothRows'
    BY <1>6 DEF RequestFails
<1>7. ASSUME NEW r \in Requests, ForgetUser(r) PROVE BothRows'
    BY <1>7 DEF ForgetUser, Forget
<1>8. ASSUME NEW r \in Requests, ForgetOther(r) PROVE BothRows'
    BY <1>8 DEF ForgetOther, Forget
<1>9. ASSUME NEW r \in Requests, FriendAdd(r) PROVE BothRows'
    BY <1>9 DEF FriendAdd
<1>10. ASSUME NEW r \in Requests, FriendDelete(r) PROVE BothRows'
    BY <1>10 DEF FriendDelete
<1>11. ASSUME NEW r \in Requests, NotifyUpdateStatus(r) PROVE BothRows'
    BY <1>11 DEF NotifyUpdateStatus
<1>12. ASSUME NEW r \in Requests, NotifyClear(r) PROVE BothRows'
    BY <1>12 DEF NotifyClear
<1>13. ASSUME NEW c \in Checks, Exists(c) PROVE BothRows'
    BY <1>13 DEF Exists
<1>14. ASSUME NEW c \in Checks, GetFriends(c) PROVE BothRows'
    BY <1>14 DEF GetFriends
<1>15. ASSUME NEW c \in Checks, SAdd(c) PROVE BothRows'
    BY <1>15 DEF SAdd, Verdict
<1>16. ASSUME NEW c \in Checks, SIsMember(c) PROVE BothRows'
    BY <1>16 DEF SIsMember, Verdict
<1>17. CASE UNCHANGED vars
    BY <1>17 DEF vars
<1> QED
    BY <1>1, <1>2, <1>3, <1>4, <1>5, <1>6, <1>7, <1>8, <1>9, <1>10, <1>11,
       <1>12, <1>13, <1>14, <1>15, <1>16, <1>17 DEF Next, Request, Check

LEMMA InitInv == Init => FriendInv /\ BothRows
<1> SUFFICES ASSUME Init PROVE FriendInv /\ BothRows
    OBVIOUS
<1> USE FriendAssumption, NoneAssumption DEF Init
<1>1. TypeOK
    BY DEF TypeOK
<1>2. RequestsBound
    BY DEF RequestsBound, Changes
<1>3. NoKeyWhileChanging
    BY DEF NoKeyWhileChanging, Changes
<1>4. FillsMatch /\ CacheFresh /\ SeenNow
    BY DEF FillsMatch, CacheFresh, SeenNow
<1>5. BothRows
    BY DEF BothRows
<1> QED
    BY <1>1, <1>2, <1>3, <1>4, <1>5 DEF FriendInv

LEMMA StepInv ==
    ASSUME FriendInv, BothRows, [Next]_vars
    PROVE  FriendInv' /\ BothRows'
<1> USE DEF FriendInv
<1>1. TypeOK' /\ RequestsBound'
    BY TypeStep
<1>2. NoKeyWhileChanging'
    BY NoKeyStep
<1>3. FillsMatch'
    BY FillsMatchStep
<1>4. CacheFresh'
    BY CacheFreshStep
<1>5. SeenNow'
    BY SeenStep
<1>6. BothRows'
    BY BothRowsStep
<1> QED
    BY <1>1, <1>2, <1>3, <1>4, <1>5, <1>6

LEMMA InvAlways == Spec => [](FriendInv /\ BothRows)
<1>1. FriendInv /\ BothRows /\ [Next]_vars => (FriendInv /\ BothRows)'
    BY StepInv
<1> QED
    BY InitInv, <1>1, PTL DEF Spec

(* Whatever requests and checks do, while rows change their set has no key  *)
(* and nobody is about to write one (FriendAdd, FriendDelete, FriendCheck). *)
THEOREM FriendCorrect == Spec => []FriendInv
BY InvAlways, PTL

(* A set of friends that comit did not fill during a change is what the     *)
(* table says (FriendCheck, config.FriendDelete).                           *)
THEOREM CacheStaysFresh == Spec => []CacheFresh
<1>1. FriendInv => CacheFresh
    BY DEF FriendInv
<1> QED
    BY FriendCorrect, <1>1, PTL

(* Whatever failed, a friendship has both rows until one deletes the other  *)
(* (FriendAdd, FriendDelete).                                               *)
THEOREM FriendshipsWhole == Spec => []BothRows
BY InvAlways, PTL

(* A verdict "yes" comes from a list that has the sender while it is read.   *)
LEMMA VerdictStep ==
    ASSUME FriendInv, [Next]_vars, NEW c \in Verdicts("yes")
    PROVE  TRUE \in seen[c]
<1> USE NoneAssumption DEF FriendInv, TypeOK, RequestsBound
<1>1. /\ c \in Checks /\ checkAt[c] \in {"add", "ismember"}
      /\ checkAt'[c] = "yes" /\ check[c][1] \notin mixed
    BY DEF Verdicts
<1>2. check[c] \in Pairs /\ check[c][1] \in Users
    BY <1>1 DEF Pairs
<1>3. SAdd(c) \/ SIsMember(c)
  <2>1. ASSUME NEW r \in Requests, Request(r) PROVE FALSE
    BY <1>1, <2>1 DEF Request, Bind, FirendQuery, NotifyQuery, NotifyCreate,
       NotifyFirst, RequestFails, ForgetUser, ForgetOther, Forget, FriendAdd,
       FriendDelete, NotifyUpdateStatus, NotifyClear, checkVars
  <2>2. ASSUME NEW d \in Checks, Check(d) PROVE SAdd(c) \/ SIsMember(c)
    <3>1. CASE d = c
      BY <1>1, <2>2, <3>1 DEF Check, Exists, GetFriends
    <3>2. CASE d # c
      BY <1>1, <2>2, <3>2 DEF Check, Exists, GetFriends, SAdd, SIsMember,
         Verdict, SetStep
    <3> QED
      BY <3>1, <3>2
  <2>3. CASE UNCHANGED vars
    BY <1>1, <2>3 DEF vars, checkVars
  <2> QED
    BY <2>1, <2>2, <2>3 DEF Next
<1>4. check[c][2] \in ListOf(friends, check[c][1])
  <2>1. CASE SAdd(c)
    <3>1. check[c][2] \in read[c]
      BY <1>1, <2>1 DEF SAdd, Verdict, SetStep
    <3> QED
      BY <1>1, <2>1, <3>1 DEF SAdd, FillsMatch
  <2>2. CASE SIsMember(c)
    <3>1. check[c][2] \in cache[check[c][1]]
      BY <1>1, <2>2 DEF SIsMember, Verdict, SetStep
    <3> QED
      BY <1>1, <1>2, <3>1 DEF CacheFresh
  <2> QED
    BY <1>3, <2>1, <2>2
<1>5. (check[c][2] \in ListOf(friends, check[c][1])) \in seen[c]
    BY <1>1 DEF SeenNow
<1>6. (check[c][2] \in ListOf(friends, check[c][1])) = TRUE
    BY <1>4
<1> QED
    BY <1>5, <1>6

(* Who was no friend at any time of a check that met no change is refused   *)
(* (FriendCheck, OneMessageHandle).                                         *)
THEOREM StrangersAreRefused == Spec => StrangersRefused
<1>1. FriendInv /\ [Next]_vars =>
        [\A c \in Verdicts("yes") : TRUE \in seen[c]]_vars
    BY VerdictStep
<1> QED
    BY FriendCorrect, <1>1, PTL DEF Spec, StrangersRefused

-----------------------------------------------------------------------------
(* Session. *)

(* The app's request and its reply, by field.                               *)
LEMMA CallFields ==
    ASSUME SessionAssumption, NEW d \in Calls
    PROVE  /\ "token" \in DOMAIN d =>
                 /\ d.op \in {"check", "head"} /\ "reply" \notin DOMAIN d
                 /\ d.token \in Token \cup {NoToken}
           /\ "passwd" \in DOMAIN d =>
                 /\ d.op \in {"login", "register"} /\ "reply" \notin DOMAIN d
                 /\ d.name \in Names /\ d.passwd \in Passwords
           /\ "reply" \in DOMAIN d =>
                 /\ d.op \in {"login", "check"}
                 /\ d.reply \in {Failure} \cup Granting
           /\ d.op \in {"check", "head"} /\ "reply" \notin DOMAIN d =>
                 "token" \in DOMAIN d
           /\ d.op \in {"login", "register"} /\ "reply" \notin DOMAIN d =>
                 "passwd" \in DOMAIN d
<1>1. CASE d = NoCall
  BY <1>1 DEF NoCall
<1>2. CASE d \in [op : {"login", "register"}, name : Names,
                  passwd : Passwords]
  BY <1>2
<1>3. CASE d \in [op : {"check", "head"}, token : Token \cup {NoToken}]
  BY <1>3
<1>4. CASE d \in [op : {"login", "check"}, reply : {Failure} \cup Granting]
  BY <1>4
<1> QED
  BY <1>1, <1>2, <1>3, <1>4 DEF Calls

LEMMA GrantFields ==
    ASSUME NEW r \in {Failure} \cup Granting
    PROVE  r.ok \in BOOLEAN /\ (r.ok => r \in Granting)
<1>1. CASE r = Failure
  BY <1>1 DEF Failure
<1>2. CASE r \in Granting
  BY <1>2 DEF Granting
<1> QED
  BY <1>1, <1>2

LEMMA TokenFields ==
    ASSUME SessionAssumption, NEW t \in Token \cup {NoToken}, t # NoToken
    PROVE  t.name \in Names /\ t.nbf \in Int /\ t.exp \in Int /\ t \in Token
BY DEF Token, NoToken

LEMMA Times ==
    ASSUME SessionAssumption, SessionTypeOK
    PROVE  now \in Int /\ TokenOut \in Int /\ Slack \in Int /\ Behind \in Int
<1>1. TokenOut \in Nat /\ Slack \in Nat /\ Behind \in Nat /\ MaxTime \in Nat
  BY DEF SessionAssumption
<1> QED
  BY <1>1 DEF SessionTypeOK

LEMMA ReplyTyped ==
    ASSUME NEW t \in Token, NEW r \in Granted(t) \cup {Failure},
           NEW op \in {"login", "check"}
    PROVE  [op |-> op, reply |-> r] \in Calls
<1>1. \A s \in Servers : [ok |-> TRUE, token |-> t, ip |-> s] \in Granting
  BY DEF Granting
<1>2. r \in {Failure} \cup Granting
  BY <1>1 DEF Granted
<1> QED
  BY <1>2 DEF Calls

LEMMA FailureTyped ==
    ASSUME NEW op \in {"login", "check"}
    PROVE  [op |-> op, reply |-> Failure] \in Calls
BY DEF Calls

(* What becomes of a connection's record is one.                            *)
LEMMA Closed ==
    ASSUME NEW r \in Connection
    PROVE  /\ [r EXCEPT !.srv = "closed"] \in Connection
           /\ [r EXCEPT !.app = "closed"] \in Connection
           /\ [r EXCEPT !.app = "closed", !.srv = "closed"] \in Connection
           /\ [r EXCEPT !.srv = "closed", !.replies = <<>>] \in Connection
<1>1. <<>> \in Seq({"AuthSuccess", "TokenOvertime"})
  BY EmptySeq
<1>2. [r EXCEPT !.srv = "closed", !.replies = <<>>] \in Connection
  BY <1>1 DEF Connection
<1>3. [r EXCEPT !.app = "closed", !.srv = "closed"] \in Connection
  BY DEF Connection
<1>4. [r EXCEPT !.srv = "closed"] \in Connection
  BY DEF Connection
<1>5. [r EXCEPT !.app = "closed"] \in Connection
  BY DEF Connection
<1> QED
  BY <1>2, <1>3, <1>4, <1>5

LEMMA ReplyTaken ==
    ASSUME NEW r \in Connection, r.replies # <<>>
    PROVE  [r EXCEPT !.replies = Tail(@)] \in Connection
<1>1. Tail(r.replies) \in Seq({"AuthSuccess", "TokenOvertime"})
  BY HeadTailProperties DEF Connection
<1> QED
  BY <1>1 DEF Connection

LEMMA Accepted ==
    ASSUME NEW r \in Connection, r.sent # <<>>, NEW n \in Names
    PROVE  [r EXCEPT !.sent = Tail(@), !.user = n,
                     !.replies = Append(@, "AuthSuccess")] \in Connection
<1>1. Append(r.replies, "AuthSuccess") \in Seq({"AuthSuccess", "TokenOvertime"})
  BY DEF Connection
<1>2. Tail(r.sent) \in Seq(Token \cup {NoToken})
  BY HeadTailProperties DEF Connection
<1> QED
  BY <1>1, <1>2 DEF Connection

LEMMA Refused ==
    ASSUME NEW r \in Connection, r.sent # <<>>
    PROVE  [r EXCEPT !.sent = Tail(@), !.srv = "closed",
                     !.replies = Append(@, "TokenOvertime")] \in Connection
<1>1. Append(r.replies, "TokenOvertime")
          \in Seq({"AuthSuccess", "TokenOvertime"})
  BY DEF Connection
<1>2. Tail(r.sent) \in Seq(Token \cup {NoToken})
  BY HeadTailProperties DEF Connection
<1> QED
  BY <1>1, <1>2 DEF Connection

LEMMA FirstSent ==
    ASSUME NEW r \in Connection, r.sent # <<>>
    PROVE  Head(r.sent) \in Token \cup {NoToken}
BY HeadTailProperties DEF Connection

LEMMA AnsweredTyped ==
    ASSUME SessionAssumption, NEW r \in Connection, r.sent # <<>>
    PROVE  Answered(r) \in Connection
<1>1. CASE Valid(Head(r.sent), now - Behind)
  <2>1. Head(r.sent).name \in Names
    BY <1>1, FirstSent, TokenFields DEF Valid
  <2>2. [r EXCEPT !.sent = Tail(@), !.user = Head(r.sent).name,
                  !.replies = Append(@, "AuthSuccess")] \in Connection
    BY <2>1, Accepted
  <2> QED
    BY <1>1, <2>2 DEF Answered
<1>2. CASE ~Valid(Head(r.sent), now - Behind)
  BY <1>2, Refused DEF Answered
<1> QED
  BY <1>1, <1>2

(* A connection that changes is a connection.                               *)
LEMMA ConnsExcept ==
    ASSUME conns \in Seq(Connection), NEW k \in DOMAIN conns,
           NEW r \in Connection, conns' = [conns EXCEPT ![k] = r]
    PROVE  /\ conns' \in Seq(Connection) /\ Len(conns') = Len(conns)
           /\ DOMAIN conns' = DOMAIN conns /\ conns'[k] = r
           /\ \A j \in DOMAIN conns : j # k => conns'[j] = conns[j]
BY ExceptSeq

LEMMA ConnsMap ==
    ASSUME conns \in Seq(Connection), DOMAIN conns' = DOMAIN conns,
           conns' = [k \in DOMAIN conns |-> conns'[k]],
           \A k \in DOMAIN conns : conns'[k] \in Connection
    PROVE  conns' \in Seq(Connection) /\ Len(conns') = Len(conns)
<1>1. DOMAIN conns = 1 .. Len(conns) /\ Len(conns) \in Nat
  OBVIOUS
<1>2. conns' \in [1 .. Len(conns) -> Connection]
  BY <1>1
<1> QED
  BY <1>1, <1>2

LEMMA SessionTypeStep ==
    ASSUME SessionTypeOK, [SessionNext]_sessionVars
    PROVE  SessionTypeOK'
<1> USE SessionAssumption DEF SessionTypeOK, httpVars, appVars, Registered
<1>1. ASSUME NEW c \in Clients, Splash(c) PROVE SessionTypeOK'
  <2>1. [op |-> "check", token |-> saved[c]] \in Calls
    BY DEF Calls
  <2> QED
    BY <1>1, <2>1 DEF Splash, Post
<1>2. ASSUME NEW c \in Clients, Handle(c), Login(c) PROVE SessionTypeOK'
  <2>1. call[c].op = "login" /\ "reply" \notin DOMAIN call[c]
    BY <1>2 DEF Handle, Login
  <2>2. call[c].name \in Names
    BY <2>1, CallFields
  <2>3. GenerateToken(call[c].name) \in Token
    BY <2>2, Times DEF GenerateToken, Token
  <2>4. ASSUME NEW r \in Granted(GenerateToken(call[c].name)) \cup {Failure}
        PROVE  [op |-> "login", reply |-> r] \in Calls
    BY ONLY <2>3, ReplyTyped
  <2>5. PICK r \in Granted(GenerateToken(call[c].name)) \cup {Failure} :
           call' = [call EXCEPT ![c] = [op |-> "login", reply |-> r]]
    BY <1>2 DEF Login
  <2> QED
    BY <1>2, <2>4, <2>5 DEF Handle, Login
<1>3. ASSUME NEW c \in Clients, Handle(c), Register(c) PROVE SessionTypeOK'
  <2>1. call[c].op = "register" /\ "reply" \notin DOMAIN call[c]
    BY <1>3 DEF Handle, Register
  <2>2. call[c].name \in Names /\ call[c].passwd \in Passwords
    BY <2>1, CallFields
  <2>3. NoCall \in Calls
    BY DEF Calls
  <2>4. [passwd |-> call[c].passwd, head_image |-> c]
            \in [passwd : Passwords, head_image : Clients \cup {Nil}]
    BY <2>2
  <2> QED
    BY <1>3, <2>2, <2>3, <2>4 DEF Handle, Register, UserAdd
<1>4. ASSUME NEW c \in Clients, Handle(c), Checklogin(c) PROVE SessionTypeOK'
  <2>1. call[c].op = "check" /\ "reply" \notin DOMAIN call[c]
    BY <1>4 DEF Handle, Checklogin
  <2>2. call[c].token \in Token \cup {NoToken}
    BY <2>1, CallFields
  <2>3. Valid(call[c].token, now) => RefreshToken(call[c].token) \in Token
    <3>1. now + TokenOut \in Int
      BY Times
    <3> QED
      BY ONLY <2>2, <3>1 DEF Valid, RefreshToken, Token
  <2>4. PICK r \in {Failure} \cup (IF Valid(call[c].token, now)
                         THEN Granted(RefreshToken(call[c].token)) ELSE {}) :
           call' = [call EXCEPT ![c] = [op |-> "check", reply |-> r]]
    BY <1>4 DEF Checklogin
  <2>5. [op |-> "check", reply |-> r] \in Calls
    BY ONLY <2>3, <2>4, ReplyTyped, FailureTyped
  <2> QED
    BY <1>4, <2>4, <2>5 DEF Handle, Checklogin
<1>5. ASSUME NEW c \in Clients, Handle(c), UpdateHeadImage(c)
      PROVE  SessionTypeOK'
  <2>1. NoCall \in Calls
    BY DEF Calls
  <2>2. \/ users' = users
        \/ users' = [users EXCEPT ![call[c].token.name].head_image = c]
    BY <1>5 DEF UpdateHeadImage
  <2>3. /\ DOMAIN users' = DOMAIN users
        /\ users' \in [DOMAIN users -> [passwd : Passwords,
                                        head_image : Clients \cup {Nil}]]
    <3> DEFINE Row == [passwd : Passwords, head_image : Clients \cup {Nil}]
    <3>1. users \in [DOMAIN users -> Row]
      OBVIOUS
    <3>2. \A r \in Row : [r EXCEPT !.head_image = c] \in Row
      OBVIOUS
    <3> HIDE DEF Row
    <3>3. users' \in [DOMAIN users -> Row]
      BY ONLY <2>2, <3>1, <3>2
    <3> QED
      BY <3>3 DEF Row
  <2> QED
    BY <1>5, <2>1, <2>3 DEF Handle, UpdateHeadImage
<1>6. ASSUME NEW c \in Clients, NEW op \in {"login", "register"},
             NEW n \in Names, NEW p \in Passwords, Submit(c, op, n, p)
      PROVE  SessionTypeOK'
  <2>1. [op |-> op, name |-> n, passwd |-> p] \in Calls
    BY DEF Calls
  <2>2. call' \in [Clients -> Calls]
    BY <1>6, <2>1 DEF Submit, Post
  <2>3. typed' \in [Clients -> SUBSET (Names \X Passwords)]
    BY <1>6 DEF Submit
  <2> QED
    BY <1>6, <2>2, <2>3 DEF Submit
<1>7. ASSUME NEW c \in Clients, ChangeHead(c) PROVE SessionTypeOK'
  <2>1. [op |-> "head", token |-> saved[c]] \in Calls
    BY DEF Calls
  <2> QED
    BY <1>7, <2>1 DEF ChangeHead, Post
<1>8. ASSUME NEW c \in Clients, Reply(c) PROVE SessionTypeOK'
  <2>1. call[c].reply \in {Failure} \cup Granting
    BY <1>8, CallFields DEF Reply
  <2>2. call[c].reply.ok =>
            call[c].reply.token \in Token /\ call[c].reply.ip \in Servers
    BY <2>1, GrantFields DEF Granting
  <2>3. NoCall \in Calls
    BY DEF Calls
  <2>4. /\ saved' \in [Clients -> Token \cup {NoToken}]
        /\ token' \in [Clients -> Token \cup {NoToken}]
        /\ ip' \in [Clients -> Servers \cup {Nil}]
        /\ trying' \in [Clients -> SUBSET Kinds]
    <3>1. CASE call[c].reply.ok
      <4>1. /\ saved' = [saved EXCEPT ![c] = call[c].reply.token]
            /\ token' = [token EXCEPT ![c] = call[c].reply.token]
            /\ ip' = [ip EXCEPT ![c] = IF ip[c] = Nil THEN call[c].reply.ip
                                       ELSE ip[c]]
            /\ trying' = [trying EXCEPT ![c] = trying[c] \cup {"init"}]
        BY ONLY <1>8, <3>1 DEF Reply
      <4> QED
        BY ONLY <2>2, <3>1, <4>1, SessionTypeOK DEF SessionTypeOK, Kinds
    <3>2. CASE ~call[c].reply.ok
      BY ONLY <1>8, <3>2, SessionTypeOK DEF SessionTypeOK, Reply
    <3> QED
      BY <3>1, <3>2
  <2>5. page' \in [Clients -> {"splash", "login", "home"}]
    BY <1>8 DEF Reply
  <2> QED
    BY <1>8, <2>3, <2>4, <2>5 DEF Reply
<1>9. ASSUME NEW c \in Clients, Reload(c) PROVE SessionTypeOK'
  BY <1>9 DEF Reload, Kinds
<1>10. ASSUME NEW c \in Clients, NEW why \in Kinds, Connect(c, why)
       PROVE  SessionTypeOK'
  <2>1. [client |-> c, server |-> ip[c], app |-> "open", srv |-> "open",
         sent |-> <<token[c]>>, replies |-> <<>>, user |-> Nil]
            \in Connection
    BY <1>10 DEF Connect, Connection
  <2>2. conns' \in Seq(Connection) /\ Len(conns') = Len(conns) + 1
    BY <1>10, <2>1 DEF Connect
  <2>3. sock' \in [Clients -> 0 .. Len(conns')]
    BY <1>10, <2>2 DEF Connect
  <2>4. Connected(c, why)
    BY <1>10 DEF Connect
  <2> QED
    BY <2>2, <2>3, <2>4 DEF Connected
<1>11. ASSUME NEW c \in Clients, NEW why \in Kinds, ConnectFails(c, why)
       PROVE  SessionTypeOK'
  <2>1. CASE Connected(c, why)
    BY <1>11, <2>1 DEF ConnectFails, Connected
  <2>2. CASE trying' = [trying EXCEPT ![c] = @ \ {why}]
             /\ UNCHANGED <<httpVars, page, isLogin, saved, token, ip,
                            NetStaus, starts, now, up>>
    BY <1>11, <2>2 DEF ConnectFails
  <2> QED
    BY <1>11, <2>1, <2>2 DEF ConnectFails
<1>12. ASSUME NEW c \in Clients, Logout(c) PROVE SessionTypeOK'
  <2>1. sock[c] \in DOMAIN conns
    BY <1>12 DEF Logout
  <2>2. [conns[sock[c]] EXCEPT !.srv = "closed"] \in Connection
    <3>1. conns[sock[c]] \in Connection
      BY <2>1
    <3> QED
      BY ONLY <3>1, Closed
  <2>3. conns' = [conns EXCEPT ![sock[c]] = [conns[sock[c]] EXCEPT
                                                !.srv = "closed"]]
    BY <1>12, <2>1 DEF Logout
  <2>4. conns' \in Seq(Connection) /\ Len(conns') = Len(conns)
    BY <2>1, <2>2, <2>3, ConnsExcept
  <2> QED
    BY <1>12, <2>4 DEF Logout
<1>13. ASSUME NEW c \in Clients, Start(c) PROVE SessionTypeOK'
  <2>1. \A k \in DOMAIN conns : conns[k] \in Connection
    OBVIOUS
  <2>2. /\ DOMAIN conns' = DOMAIN conns
        /\ conns' = [k \in DOMAIN conns |-> conns'[k]]
        /\ \A k \in DOMAIN conns : conns'[k] \in Connection
    BY ONLY <1>13, <2>1, Closed DEF Start
  <2>3. conns' \in Seq(Connection) /\ Len(conns') = Len(conns)
    BY <2>2, ConnsMap
  <2>4. NoCall \in Calls
    BY DEF Calls
  <2>5. sock' \in [Clients -> 0 .. Len(conns')]
    <3>1. 0 \in 0 .. Len(conns')
      BY ONLY <2>3, SessionTypeOK DEF SessionTypeOK
    <3>2. sock' = [sock EXCEPT ![c] = 0] /\ sock \in [Clients -> 0 .. Len(conns')]
      BY <1>13, <2>3 DEF Start
    <3> QED
      BY ONLY <3>1, <3>2
  <2>6. call' \in [Clients -> Calls] /\ starts' \in [Clients -> Nat]
    <3>1. call' = [call EXCEPT ![c] = NoCall]
      BY ONLY <1>13 DEF Start
    <3>2. starts' = [starts EXCEPT ![c] = starts[c] + 1]
      BY ONLY <1>13 DEF Start
    <3> QED
      BY ONLY <2>4, <3>1, <3>2, SessionTypeOK DEF SessionTypeOK
  <2>7. /\ UNCHANGED <<users, typed, saved, now, up>>
        /\ page' \in [Clients -> {"splash", "login", "home"}]
        /\ token' \in [Clients -> Token \cup {NoToken}]
        /\ ip' \in [Clients -> Servers \cup {Nil}]
        /\ isLogin' \in [Clients -> BOOLEAN]
        /\ NetStaus' \in [Clients -> BOOLEAN]
        /\ trying' \in [Clients -> SUBSET Kinds]
    BY <1>13 DEF Start
  <2>8. /\ Registered' \subseteq Names
        /\ users' \in [Registered' -> [passwd : Passwords,
                                      head_image : Clients \cup {Nil}]]
        /\ now' \in 0 .. MaxTime /\ up' \subseteq Servers
        /\ saved' \in [Clients -> Token \cup {NoToken}]
        /\ typed' \in [Clients -> SUBSET (Names \X Passwords)]
    BY <2>7
  <2> QED
    BY ONLY <2>3, <2>5, <2>6, <2>7, <2>8 DEF SessionTypeOK
<1>14. ASSUME NEW k \in DOMAIN conns, AuthHandle(k) PROVE SessionTypeOK'
  <2>1. /\ conns[k] \in Connection /\ conns[k].sent # <<>>
        /\ Head(conns[k].sent) \in Token \cup {NoToken}
    BY <1>14, FirstSent DEF AuthHandle
  <2>2. conns' = [conns EXCEPT ![k] = Answered(conns[k])]
    BY ONLY <1>14 DEF AuthHandle
  <2>3. Answered(conns[k]) \in Connection
    BY <2>1, AnsweredTyped
  <2>4. conns' \in Seq(Connection) /\ Len(conns') = Len(conns)
    BY <2>2, <2>3, ConnsExcept
  <2> QED
    BY <1>14, <2>4 DEF AuthHandle
<1>15. ASSUME NEW k \in DOMAIN conns, AuthReply(k) PROVE SessionTypeOK'
  <2>1. [conns[k] EXCEPT !.replies = Tail(@)] \in Connection
    BY <1>15, ReplyTaken DEF AuthReply
  <2>2. conns' = [conns EXCEPT ![k] = [conns[k] EXCEPT !.replies = Tail(@)]]
    BY <1>15 DEF AuthReply
  <2>3. conns' \in Seq(Connection) /\ Len(conns') = Len(conns)
    BY <2>1, <2>2, ConnsExcept
  <2> QED
    BY <1>15, <2>3 DEF AuthReply
<1>16. ASSUME NEW k \in DOMAIN conns, onDonehandle(k) PROVE SessionTypeOK'
  <2>1. [conns[k] EXCEPT !.app = "closed"] \in Connection
    <3>1. conns[k] \in Connection
      OBVIOUS
    <3> QED
      BY ONLY <3>1, Closed
  <2>2. conns' = [conns EXCEPT ![k] = [conns[k] EXCEPT !.app = "closed"]]
    BY <1>16 DEF onDonehandle
  <2>3. conns' \in Seq(Connection) /\ Len(conns') = Len(conns)
    BY <2>1, <2>2, ConnsExcept
  <2> QED
    BY <1>16, <2>3 DEF onDonehandle
<1>17. ASSUME NEW k \in DOMAIN conns, Lose(k) PROVE SessionTypeOK'
  <2>1. [conns[k] EXCEPT !.srv = "closed", !.replies = <<>>] \in Connection
    <3>1. conns[k] \in Connection
      OBVIOUS
    <3> QED
      BY ONLY <3>1, Closed
  <2>2. conns' = [conns EXCEPT ![k] = [conns[k] EXCEPT !.srv = "closed",
                                                       !.replies = <<>>]]
    BY <1>17 DEF Lose
  <2>3. conns' \in Seq(Connection) /\ Len(conns') = Len(conns)
    BY <2>1, <2>2, ConnsExcept
  <2> QED
    BY <1>17, <2>3 DEF Lose
<1>18. ASSUME NEW s \in Servers, Die(s) PROVE SessionTypeOK'
  <2>1. \A k \in DOMAIN conns : conns[k] \in Connection
    OBVIOUS
  <2>2. /\ DOMAIN conns' = DOMAIN conns
        /\ conns' = [k \in DOMAIN conns |-> conns'[k]]
        /\ \A k \in DOMAIN conns : conns'[k] \in Connection
    BY ONLY <1>18, <2>1, Closed DEF Die
  <2>3. conns' \in Seq(Connection) /\ Len(conns') = Len(conns)
    BY <2>2, ConnsMap
  <2> QED
    BY <1>18, <2>3 DEF Die
<1>19. CASE Clock
  BY <1>19 DEF Clock
<1>20. CASE UNCHANGED sessionVars
  BY <1>20 DEF sessionVars
<1>21. ASSUME NEW c \in Clients, Handle(c) PROVE SessionTypeOK'
  BY ONLY <1>2, <1>3, <1>4, <1>5, <1>21 DEF Handle
<1>22. ASSUME NEW c \in Clients, AppStep(c) PROVE SessionTypeOK'
  BY ONLY <1>8, <1>9, <1>10, <1>11, <1>22, Zenon DEF AppStep
<1>23. ASSUME NEW c \in Clients, UserStep(c) PROVE SessionTypeOK'
  BY ONLY <1>6, <1>7, <1>12, <1>13, <1>23, Zenon DEF UserStep
<1>24. ASSUME NEW k \in DOMAIN conns, ConnStep(k) PROVE SessionTypeOK'
  BY ONLY <1>14, <1>15, <1>16, <1>24, Zenon DEF ConnStep
<1> QED
  BY ONLY <1>1, <1>17, <1>18, <1>19, <1>20, <1>21, <1>22, <1>23, <1>24,
          [SessionNext]_sessionVars, Zenon
     DEF SessionNext

-----------------------------------------------------------------------------
(* Rows stay, with their passwords, and what was entered stays entered.     *)
LEMMA Grows ==
    ASSUME SessionTypeOK, [SessionNext]_sessionVars
    PROVE  /\ Registered \subseteq Registered'
           /\ \A n \in Registered : users'[n].passwd = users[n].passwd
           /\ \A c \in Clients : typed[c] \subseteq typed'[c]
<1> DEFINE Goal == /\ Registered \subseteq Registered'
                   /\ \A n \in Registered : users'[n].passwd = users[n].passwd
                   /\ \A c \in Clients : typed[c] \subseteq typed'[c]
<1>1. ASSUME UNCHANGED <<users, typed>> PROVE Goal
  BY <1>1 DEF Registered
<1>2. ASSUME NEW c \in Clients, Handle(c) PROVE Goal
  <2>1. CASE Register(c)
    BY <1>2, <2>1 DEF Handle, Register, UserAdd, Registered
  <2>2. CASE UpdateHeadImage(c)
    <3>1. \/ users' = users
          \/ users' = [users EXCEPT ![call[c].token.name].head_image = c]
      BY <2>2 DEF UpdateHeadImage
    <3>2. \A n \in Registered :
              users[n] \in [passwd : Passwords, head_image : Clients \cup {Nil}]
      BY DEF SessionTypeOK
    <3>3. typed' = typed
      BY <1>2 DEF Handle
    <3> QED
      BY ONLY <3>1, <3>2, <3>3 DEF Registered
  <2> QED
    BY <1>1, <1>2, <2>1, <2>2 DEF Handle, Login, Checklogin
<1>3. ASSUME NEW c \in Clients, UserStep(c) PROVE Goal
  <2>1. UNCHANGED users
    BY <1>3, Zenon DEF UserStep, Submit, ChangeHead, Logout, Start, httpVars
  <2>2. \/ UNCHANGED typed
        \/ \E n \in Names, p \in Passwords :
              typed' = [typed EXCEPT ![c] = @ \cup {<<n, p>>}]
    BY <1>3, Zenon DEF UserStep, Submit, ChangeHead, Logout, Start, httpVars
  <2>3. typed \in [Clients -> SUBSET (Names \X Passwords)]
    BY DEF SessionTypeOK
  <2> QED
    BY ONLY <2>1, <2>2, <2>3 DEF Registered
<1>4. ASSUME NEW c \in Clients, Splash(c) \/ AppStep(c) PROVE Goal
  <2>1. UNCHANGED <<users, typed>>
    BY <1>4, Zenon DEF Splash, AppStep, Reply, Reload, Connect, ConnectFails,
       Connected, httpVars
  <2> QED
    BY <1>1, <2>1
<1>5. ASSUME NEW k \in DOMAIN conns, ConnStep(k) \/ Lose(k) PROVE Goal
  BY <1>1, <1>5 DEF ConnStep, AuthHandle, AuthReply, onDonehandle, Lose, httpVars
<1>6. ASSUME NEW s \in Servers, Die(s) PROVE Goal
  BY <1>1, <1>6 DEF Die, httpVars
<1>7. ASSUME Clock PROVE Goal
  BY <1>1, <1>7 DEF Clock, httpVars
<1>8. ASSUME UNCHANGED sessionVars PROVE Goal
  BY <1>1, <1>8 DEF sessionVars, httpVars
<1> HIDE DEF Goal
<1>9. ASSUME NEW c \in Clients,
             Splash(c) \/ Handle(c) \/ AppStep(c) \/ UserStep(c)
      PROVE  Goal
  BY ONLY <1>2, <1>3, <1>4, <1>9
<1>10. ASSUME NEW k \in DOMAIN conns, ConnStep(k) \/ Lose(k) PROVE Goal
  BY ONLY <1>5, <1>10
<1>11. Goal
  BY ONLY <1>6, <1>7, <1>8, <1>9, <1>10, [SessionNext]_sessionVars, Zenon
     DEF SessionNext
<1> QED
  BY <1>11 DEF Goal

LEMMA EnteredStays ==
    ASSUME SessionTypeOK, [SessionNext]_sessionVars, NEW c \in Clients,
           NEW n, Entered(c, n)
    PROVE  Entered(c, n)'
BY Grows DEF Entered

LEMMA OwnStays ==
    ASSUME SessionTypeOK, [SessionNext]_sessionVars, NEW c \in Clients,
           NEW t, Own(c, t)
    PROVE  Own(c, t)'
BY EnteredStays DEF Own

LEMMA CallOwnStays ==
    ASSUME SessionTypeOK, [SessionNext]_sessionVars, NEW c \in Clients,
           NEW d, CallOwn(c, d)
    PROVE  CallOwn(c, d)'
<1>1. typed[c] \subseteq typed'[c]
  BY Grows
<1> QED
  BY <1>1, OwnStays DEF CallOwn

(* What a step makes of a connection: it keeps its client and some of the   *)
(* tokens sent, and is a user's by one of them.                             *)
Derived(r, q) ==
    /\ q.client = r.client
    /\ \A i \in DOMAIN q.sent : \E j \in DOMAIN r.sent : q.sent[i] = r.sent[j]
    /\ q.user # Nil =>
          \/ q.user = r.user
          \/ \E j \in DOMAIN r.sent :
                r.sent[j] # NoToken /\ q.user = r.sent[j].name

LEMMA SameDerived ==
    ASSUME NEW r, NEW q, q.client = r.client, q.sent = r.sent, q.user = r.user
    PROVE  Derived(r, q)
BY DEF Derived

LEMMA ClosedDerived ==
    ASSUME NEW r \in Connection
    PROVE  /\ Derived(r, [r EXCEPT !.srv = "closed"])
           /\ Derived(r, [r EXCEPT !.app = "closed"])
           /\ Derived(r, [r EXCEPT !.app = "closed", !.srv = "closed"])
           /\ Derived(r, [r EXCEPT !.srv = "closed", !.replies = <<>>])
           /\ Derived(r, [r EXCEPT !.replies = Tail(@)])
BY DEF Derived, Connection

LEMMA AnsweredDerived ==
    ASSUME NEW r \in Connection, r.sent # <<>>
    PROVE  Derived(r, Answered(r))
<1>1. /\ r.sent \in Seq(Token \cup {NoToken}) /\ 1 \in DOMAIN r.sent
      /\ Head(r.sent) = r.sent[1]
      /\ \A i \in DOMAIN Tail(r.sent) :
            i + 1 \in DOMAIN r.sent /\ Tail(r.sent)[i] = r.sent[i + 1]
  BY HeadTailProperties DEF Connection
<1>2. /\ Answered(r).client = r.client
      /\ Answered(r).sent = Tail(r.sent)
      /\ Answered(r).user # Nil =>
            \/ Answered(r).user = r.user
            \/ Head(r.sent) # NoToken /\ Answered(r).user = Head(r.sent).name
  BY DEF Answered, Valid, Connection
<1> QED
  BY <1>1, <1>2 DEF Derived

LEMMA ConnsDerived ==
    ASSUME SessionTypeOK, [SessionNext]_sessionVars, NEW k \in DOMAIN conns'
    PROVE  \/ k \in DOMAIN conns /\ Derived(conns[k], conns'[k])
           \/ \E c \in Clients :
                 /\ conns'[k].client = c /\ conns'[k].sent = <<token[c]>>
                 /\ conns'[k].user = Nil
<1> DEFINE Old == k \in DOMAIN conns /\ Derived(conns[k], conns'[k])
           New == \E c \in Clients :
                    /\ conns'[k].client = c /\ conns'[k].sent = <<token[c]>>
                    /\ conns'[k].user = Nil
<1>0. conns \in Seq(Connection) /\ \A j \in DOMAIN conns : conns[j] \in Connection
  BY DEF SessionTypeOK
<1>1. ASSUME UNCHANGED conns PROVE Old
  BY <1>1, SameDerived
<1>2. ASSUME NEW c \in Clients, NEW why \in Kinds, Connect(c, why)
      PROVE  Old \/ New
  <2>1. CASE k \in DOMAIN conns
    BY <1>0, <1>2, <2>1, SameDerived DEF Connect
  <2>2. CASE k \notin DOMAIN conns
    BY <1>0, <1>2, <2>2 DEF Connect
  <2> QED
    BY <2>1, <2>2
<1>3. ASSUME NEW c \in Clients, Logout(c) PROVE Old
  <2>1. conns' = [conns EXCEPT ![sock[c]] = [conns[sock[c]] EXCEPT
                                                !.srv = "closed"]]
    BY <1>3 DEF Logout
  <2> QED
    BY ONLY k \in DOMAIN conns', <1>0, <2>1, SameDerived, ClosedDerived
<1>4. ASSUME NEW c \in Clients, Start(c) PROVE Old
  BY ONLY k \in DOMAIN conns', <1>0, <1>4, SameDerived, ClosedDerived DEF Start
<1>5. ASSUME NEW j \in DOMAIN conns, AuthHandle(j) PROVE Old
  BY <1>0, <1>5, SameDerived, AnsweredDerived DEF AuthHandle
<1>6. ASSUME NEW j \in DOMAIN conns, AuthReply(j) \/ onDonehandle(j) \/ Lose(j)
      PROVE  Old
  <2>1. PICK q : conns' = [conns EXCEPT ![j] = q] /\ Derived(conns[j], q)
    <3>1. CASE AuthReply(j)
      BY ONLY <1>0, <1>6, <3>1, ClosedDerived DEF AuthReply
    <3>2. CASE onDonehandle(j)
      BY ONLY <1>0, <1>6, <3>2, ClosedDerived DEF onDonehandle
    <3>3. CASE Lose(j)
      <4>1. conns' = [conns EXCEPT ![j] = [conns[j] EXCEPT !.srv = "closed",
                                                           !.replies = <<>>]]
        BY ONLY <3>3 DEF Lose
      <4> QED
        BY ONLY <1>0, <1>6, <4>1, ClosedDerived
    <3> QED
      BY <1>6, <3>1, <3>2, <3>3
  <2> QED
    BY ONLY k \in DOMAIN conns', <1>0, <2>1, SameDerived
<1>7. ASSUME NEW s \in Servers, Die(s) PROVE Old
  BY ONLY k \in DOMAIN conns', <1>0, <1>7, SameDerived, ClosedDerived DEF Die
<1>8. ASSUME NEW c \in Clients,
             \/ Splash(c) \/ Handle(c) \/ Reply(c) \/ Reload(c)
             \/ \E why \in Kinds : ConnectFails(c, why)
             \/ \E op \in {"login", "register"}, n \in Names, p \in Passwords :
                   Submit(c, op, n, p)
             \/ ChangeHead(c)
      PROVE  Old
  <2>1. UNCHANGED conns
    BY <1>8, Zenon DEF Splash, Handle, Reply, Reload, ConnectFails, Submit,
       ChangeHead
  <2> QED
    BY <1>1, <2>1
<1>9. ASSUME Clock \/ UNCHANGED sessionVars PROVE Old
  BY <1>1, <1>9 DEF Clock, sessionVars
<1> HIDE DEF Old, New
<1>10. ASSUME NEW c \in Clients, AppStep(c) PROVE Old \/ New
  BY ONLY <1>2, <1>8, <1>10, Zenon DEF AppStep
<1>11. ASSUME NEW c \in Clients, UserStep(c) PROVE Old
  BY ONLY <1>3, <1>4, <1>8, <1>11, Zenon DEF UserStep
<1>12. Old \/ New
  BY ONLY <1>5, <1>6, <1>7, <1>8, <1>9, <1>10, <1>11,
          [SessionNext]_sessionVars, Zenon DEF SessionNext, ConnStep
<1> QED
  BY <1>12 DEF Old, New

-----------------------------------------------------------------------------
(* A request with an own token, and a reply that grants one, are own.       *)
LEMMA TokenCallOwn ==
    ASSUME NEW c \in Clients, NEW t, Own(c, t)', NEW op
    PROVE  CallOwn(c, [op |-> op, token |-> t])'
<1> DEFINE d == [op |-> op, token |-> t]
<1>1. DOMAIN d = {"op", "token"} /\ d.token = t
  OBVIOUS
<1> HIDE DEF d
<1>2. CallOwn(c, d)'
  BY <1>1 DEF CallOwn
<1> QED
  BY <1>2 DEF d

LEMMA GrantedOwn ==
    ASSUME NEW c \in Clients, NEW op, NEW r, r.ok => Own(c, r.token)'
    PROVE  CallOwn(c, [op |-> op, reply |-> r])'
<1> DEFINE d == [op |-> op, reply |-> r]
<1>1. DOMAIN d = {"op", "reply"} /\ d.reply = r
  OBVIOUS
<1> HIDE DEF d
<1>2. CallOwn(c, d)'
  BY <1>1 DEF CallOwn
<1> QED
  BY <1>2 DEF d

LEMMA NoCallOwn ==
    ASSUME NEW c \in Clients
    PROVE  CallOwn(c, NoCall)'
BY DEF CallOwn, NoCall

LEMMA CallsKept ==
    ASSUME SessionInv, [SessionNext]_sessionVars, NEW c \in Clients, NEW d,
           call' = [call EXCEPT ![c] = d], CallOwn(c, d)'
    PROVE  CallsOwn'
<1>1. ASSUME NEW e \in Clients PROVE CallOwn(e, call[e])'
  <2>1. PICK old : old = call[e]
    OBVIOUS
  <2>2. CallOwn(e, old)
    BY <2>1 DEF SessionInv, CallsOwn
  <2>3. CallOwn(e, old)'
    BY <2>2, CallOwnStays DEF SessionInv
  <2>4. call'[e] = IF e = c THEN d ELSE old
    BY <2>1 DEF SessionInv, SessionTypeOK
  <2> QED
    BY <2>3, <2>4 DEF CallOwn, Own, Entered, Registered
<1> QED
  BY <1>1 DEF CallsOwn

LEMMA LoginOwn ==
    ASSUME SessionAssumption, SessionInv, [SessionNext]_sessionVars,
           NEW c \in Clients, Login(c), "reply" \notin DOMAIN call[c]
    PROVE  CallsOwn'
<1>1. /\ SessionTypeOK /\ call[c] \in Calls /\ CallOwn(c, call[c])
      /\ call[c].op = "login"
  BY DEF SessionInv, SessionTypeOK, CallsOwn, Login
<1>2. <<call[c].name, call[c].passwd>> \in typed[c]
  BY <1>1, CallFields DEF CallOwn
<1>3. CASE UserLogin(call[c].name, call[c].passwd)
  <2>1. Entered(c, call[c].name)
    BY <1>2, <1>3 DEF UserLogin, Entered
  <2>2. PICK t : t = GenerateToken(call[c].name)
    OBVIOUS
  <2>3. Own(c, t)
    BY <2>1, <2>2 DEF Own, GenerateToken
  <2>4. Own(c, t)'
    BY <1>1, <2>3, OwnStays
  <2>5. PICK r \in Granted(t) :
           call' = [call EXCEPT ![c] = [op |-> "login", reply |-> r]]
    BY <1>3, <2>2 DEF Login
  <2>6. r.token = t
    BY DEF Granted
  <2> QED
    BY <2>4, <2>5, <2>6, GrantedOwn, CallsKept
<1>4. CASE ~UserLogin(call[c].name, call[c].passwd)
  <2>1. call' = [call EXCEPT ![c] = [op |-> "login", reply |-> Failure]]
    BY <1>4 DEF Login
  <2>2. ~Failure.ok
    BY DEF Failure
  <2> QED
    BY <2>1, <2>2, GrantedOwn, CallsKept
<1> QED
  BY <1>3, <1>4

LEMMA CheckloginOwn ==
    ASSUME SessionAssumption, SessionInv, [SessionNext]_sessionVars,
           NEW c \in Clients, Checklogin(c), "reply" \notin DOMAIN call[c]
    PROVE  CallsOwn'
<1>1. /\ SessionTypeOK /\ call[c] \in Calls /\ CallOwn(c, call[c])
      /\ call[c].op = "check"
  BY DEF SessionInv, SessionTypeOK, CallsOwn, Checklogin
<1>2. Own(c, call[c].token) /\ call[c].token \in Token \cup {NoToken}
  BY <1>1, CallFields DEF CallOwn
<1>3. CASE Valid(call[c].token, now)
  <2>1. PICK t : t = RefreshToken(call[c].token)
    OBVIOUS
  <2>2. t.name = call[c].token.name /\ Entered(c, call[c].token.name)
    BY <1>2, <1>3, <2>1 DEF RefreshToken, Valid, Own, Token
  <2>3. Own(c, t)
    BY <2>2 DEF Own
  <2>4. Own(c, t)'
    BY <1>1, <2>3, OwnStays
  <2>5. PICK r \in Granted(t) :
           call' = [call EXCEPT ![c] = [op |-> "check", reply |-> r]]
    BY <1>3, <2>1 DEF Checklogin
  <2>6. r.token = t
    BY DEF Granted
  <2> QED
    BY <2>4, <2>5, <2>6, GrantedOwn, CallsKept
<1>4. CASE ~Valid(call[c].token, now)
  <2>1. call' = [call EXCEPT ![c] = [op |-> "check", reply |-> Failure]]
    BY <1>4 DEF Checklogin
  <2>2. ~Failure.ok
    BY DEF Failure
  <2> QED
    BY <2>1, <2>2, GrantedOwn, CallsKept
<1> QED
  BY <1>3, <1>4

LEMMA CallsStep ==
    ASSUME SessionAssumption, SessionInv, [SessionNext]_sessionVars
    PROVE  CallsOwn'
<1>0. SessionTypeOK /\ CallsOwn /\ TokensOwn
  BY DEF SessionInv
<1>1. ASSUME UNCHANGED call PROVE CallsOwn'
  <2>1. ASSUME NEW e \in Clients PROVE CallOwn(e, call[e])'
    <3>1. PICK old : old = call[e]
      OBVIOUS
    <3>2. CallOwn(e, old)'
      BY <1>0, <3>1, CallOwnStays DEF CallsOwn
    <3> QED
      BY <1>1, <3>1, <3>2 DEF CallOwn, Own, Entered, Registered
  <2> QED
    BY <2>1 DEF CallsOwn
<1>2. ASSUME NEW c \in Clients, NEW op,
             Post(c, [op |-> op, token |-> saved[c]])
      PROVE  CallsOwn'
  <2>1. PICK t : t = saved[c]
    OBVIOUS
  <2>2. Own(c, t)'
    BY <1>0, <2>1, OwnStays DEF TokensOwn
  <2>3. call' = [call EXCEPT ![c] = [op |-> op, token |-> t]]
    BY <1>2, <2>1 DEF Post
  <2> QED
    BY <2>2, <2>3, TokenCallOwn, CallsKept
<1>3. ASSUME NEW c \in Clients, NEW op \in {"login", "register"},
             NEW n \in Names, NEW p \in Passwords, Submit(c, op, n, p)
      PROVE  CallsOwn'
  <2>1. <<n, p>> \in typed'[c]
    BY <1>0, <1>3 DEF Submit, SessionTypeOK
  <2>2. CallOwn(c, [op |-> op, name |-> n, passwd |-> p])'
    BY <2>1 DEF CallOwn
  <2> QED
    BY <1>3, <2>2, CallsKept DEF Submit, Post
<1>4. ASSUME NEW c \in Clients, call' = [call EXCEPT ![c] = NoCall]
      PROVE  CallsOwn'
  BY <1>4, NoCallOwn, CallsKept
<1>5. ASSUME NEW c \in Clients, Handle(c) PROVE CallsOwn'
  BY <1>4, <1>5, LoginOwn, CheckloginOwn DEF Handle, Register, UpdateHeadImage
<1>6. ASSUME NEW c \in Clients, AppStep(c) PROVE CallsOwn'
  <2>1. UNCHANGED call \/ call' = [call EXCEPT ![c] = NoCall]
    BY <1>6, Zenon DEF AppStep, Reply, Reload, Connect, ConnectFails,
       Connected, httpVars
  <2> QED
    BY <1>1, <1>4, <2>1
<1>7. ASSUME NEW c \in Clients, UserStep(c) PROVE CallsOwn'
  <2>1. ChangeHead(c) => Post(c, [op |-> "head", token |-> saved[c]])
    BY DEF ChangeHead
  <2>2. Logout(c) => UNCHANGED call
    BY DEF Logout, httpVars
  <2>3. Start(c) => call' = [call EXCEPT ![c] = NoCall]
    BY DEF Start
  <2> QED
    BY ONLY <1>1, <1>2, <1>3, <1>4, <1>7, <2>1, <2>2, <2>3, Zenon DEF UserStep
<1>8. ASSUME NEW c \in Clients, Splash(c) PROVE CallsOwn'
  BY <1>2, <1>8 DEF Splash
<1>9. ASSUME NEW k \in DOMAIN conns, ConnStep(k) \/ Lose(k) PROVE CallsOwn'
  BY <1>1, <1>9 DEF ConnStep, AuthHandle, AuthReply, onDonehandle, Lose,
     httpVars
<1>10. ASSUME NEW s \in Servers, Die(s) PROVE CallsOwn'
  BY <1>1, <1>10 DEF Die, httpVars
<1>11. ASSUME Clock \/ UNCHANGED sessionVars PROVE CallsOwn'
  BY <1>1, <1>11 DEF Clock, sessionVars, httpVars
<1> QED
  BY ONLY <1>5, <1>6, <1>7, <1>8, <1>9, <1>10, <1>11,
          [SessionNext]_sessionVars, Zenon DEF SessionNext

-----------------------------------------------------------------------------
LEMMA ClientTyped ==
    ASSUME SessionTypeOK', NEW k \in DOMAIN conns'
    PROVE  conns'[k].client \in Clients
<1>1. conns' \in Seq(Connection)
  BY ONLY SessionTypeOK' DEF SessionTypeOK
<1>2. conns'[k] \in Connection
  BY ONLY <1>1, k \in DOMAIN conns'
<1> QED
  BY ONLY <1>2 DEF Connection

LEMMA TokensStep ==
    ASSUME SessionAssumption, SessionInv, SessionTypeOK',
           [SessionNext]_sessionVars
    PROVE  TokensOwn'
<1>0. SessionTypeOK /\ CallsOwn /\ TokensOwn
  BY DEF SessionInv
<1>1. ASSUME NEW c \in Clients
      PROVE  \A t \in {saved'[c], token'[c]} :
                \/ t \in {saved[c], token[c], NoToken}
                \/ /\ "reply" \in DOMAIN call[c] /\ call[c].reply.ok
                   /\ t = call[c].reply.token
  <2> DEFINE Goal == \A t \in {saved'[c], token'[c]} :
                        \/ t \in {saved[c], token[c], NoToken}
                        \/ /\ "reply" \in DOMAIN call[c] /\ call[c].reply.ok
                           /\ t = call[c].reply.token
  <2>1. ASSUME UNCHANGED <<saved, token>> PROVE Goal
    BY <2>1
  <2>2. ASSUME NEW e \in Clients, Reply(e) PROVE Goal
    <3>1. \/ UNCHANGED <<saved, token>>
          \/ /\ "reply" \in DOMAIN call[e] /\ call[e].reply.ok
             /\ saved' = [saved EXCEPT ![e] = call[e].reply.token]
             /\ token' = [token EXCEPT ![e] = call[e].reply.token]
      BY ONLY <2>2 DEF Reply
    <3>2. DOMAIN saved = Clients /\ DOMAIN token = Clients
      BY <1>0 DEF SessionTypeOK
    <3>3. CASE UNCHANGED <<saved, token>>
      BY <2>1, <3>3
    <3>4. CASE /\ "reply" \in DOMAIN call[e] /\ call[e].reply.ok
               /\ saved' = [saved EXCEPT ![e] = call[e].reply.token]
               /\ token' = [token EXCEPT ![e] = call[e].reply.token]
      <4>1. CASE c = e
        BY ONLY <1>1, <3>2, <3>4, <4>1
      <4>2. CASE c # e
        BY ONLY <1>1, <3>2, <3>4, <4>2
      <4> QED
        BY <4>1, <4>2
    <3> QED
      BY <3>1, <3>3, <3>4
  <2>3. ASSUME NEW e \in Clients, Logout(e) \/ Start(e) PROVE Goal
    BY <1>0, <2>3 DEF SessionTypeOK, Logout, Start
  <2>4. ASSUME NEW e \in Clients, Splash(e) \/ Handle(e) PROVE Goal
    BY <2>1, <2>4 DEF Splash, Handle, appVars
  <2> HIDE DEF Goal
  <2>5. ASSUME NEW e \in Clients, AppStep(e) PROVE Goal
    <3>1. Reply(e) \/ UNCHANGED <<saved, token>>
      BY <2>5, Zenon DEF AppStep, Reload, Connect, ConnectFails, Connected
    <3> QED
      BY <2>1, <2>2, <3>1
  <2>6. ASSUME NEW e \in Clients, UserStep(e) PROVE Goal
    <3>1. Logout(e) \/ Start(e) \/ UNCHANGED <<saved, token>>
      BY <2>6, Zenon DEF UserStep, Submit, ChangeHead, appVars
    <3> QED
      BY <2>1, <2>3, <3>1
  <2>7. ASSUME NEW k \in DOMAIN conns, ConnStep(k) \/ Lose(k) PROVE Goal
    BY <2>1, <2>7 DEF ConnStep, AuthHandle, AuthReply, onDonehandle, Lose,
       appVars
  <2>8. ASSUME \/ \E s \in Servers : Die(s)
               \/ Clock \/ UNCHANGED sessionVars
        PROVE  Goal
    BY <2>1, <2>8 DEF Die, Clock, sessionVars, appVars
  <2>9. Goal
    BY ONLY <2>4, <2>5, <2>6, <2>7, <2>8, [SessionNext]_sessionVars, Zenon
       DEF SessionNext
  <2> QED
    BY <2>9 DEF Goal
<1>2. ASSUME NEW c \in Clients, NEW t \in {saved'[c], token'[c]}
      PROVE  Own(c, t)'
  <2>1. Own(c, NoToken)
    BY DEF Own
  <2>2. Own(c, t)
    BY <1>0, <1>1, <2>1 DEF TokensOwn, CallsOwn, CallOwn
  <2> QED
    BY <1>0, <2>2, OwnStays
<1>3. ASSUME NEW c \in Clients PROVE Own(c, saved[c])' /\ Own(c, token[c])'
  <2>1. PICK s, t : s = saved'[c] /\ t = token'[c]
    OBVIOUS
  <2>2. Own(c, s)' /\ Own(c, t)'
    BY <1>2, <2>1
  <2> QED
    BY <2>1, <2>2 DEF Own, Entered, Registered
<1>4. ASSUME NEW k \in DOMAIN conns', NEW i \in DOMAIN conns'[k].sent
      PROVE  Own(conns[k].client, conns[k].sent[i])'
  <2>1. PICK c, t : c = conns'[k].client /\ t = conns'[k].sent[i]
    OBVIOUS
  <2>2. c \in Clients
    BY <2>1, ClientTyped
  <2>3. Own(c, t)
    <3>1. CASE k \in DOMAIN conns /\ Derived(conns[k], conns'[k])
      BY <1>0, <2>1, <3>1 DEF Derived, TokensOwn
    <3>2. CASE conns'[k].sent = <<token[c]>>
      BY <1>0, <2>1, <2>2, <3>2 DEF TokensOwn
    <3> QED
      BY <1>0, <2>1, <3>1, <3>2, ConnsDerived
  <2>4. Own(c, t)'
    BY <1>0, <2>2, <2>3, OwnStays
  <2> QED
    BY <2>1, <2>4 DEF Own, Entered, Registered
<1> QED
  BY <1>3, <1>4 DEF TokensOwn

(* A head image changes by Register, for a name that is new, and by         *)
(* UpdateHeadImage, for the name of a token.                                *)
LEMMA HeadImages ==
    ASSUME SessionAssumption, SessionInv, [SessionNext]_sessionVars,
           NEW n \in Registered', users'[n].head_image # Nil
    PROVE  \/ /\ n \in Registered
              /\ users'[n].head_image = users[n].head_image
           \/ Entered(users'[n].head_image, n)
           \/ /\ n \notin Registered
              /\ <<n, users'[n].passwd>> \in typed[users'[n].head_image]
<1> DEFINE Goal ==
           \/ /\ n \in Registered
              /\ users'[n].head_image = users[n].head_image
           \/ Entered(users'[n].head_image, n)
           \/ /\ n \notin Registered
              /\ <<n, users'[n].passwd>> \in typed[users'[n].head_image]
<1>0. /\ SessionTypeOK /\ CallsOwn
      /\ \A m \in Registered : users[m] \in [passwd : Passwords,
                                             head_image : Clients \cup {Nil}]
  BY DEF SessionInv, SessionTypeOK
<1>1. ASSUME UNCHANGED users PROVE Goal
  BY <1>1 DEF Registered
<1>2. ASSUME NEW c \in Clients, Register(c), "reply" \notin DOMAIN call[c]
      PROVE  Goal
  <2>1. <<call[c].name, call[c].passwd>> \in typed[c]
    <3>1. call[c] \in Calls /\ call[c].op = "register" /\ CallOwn(c, call[c])
      BY <1>0, <1>2 DEF SessionTypeOK, CallsOwn, Register
    <3> QED
      BY <1>2, <3>1, CallFields DEF CallOwn
  <2> QED
    BY <1>2, <2>1 DEF Register, UserAdd, Registered
<1>3. ASSUME NEW c \in Clients, UpdateHeadImage(c),
             "reply" \notin DOMAIN call[c]
      PROVE  Goal
  <2>1. CASE Valid(call[c].token, now)
    <3>1. call[c] \in Calls /\ call[c].op = "head" /\ CallOwn(c, call[c])
      BY <1>0, <1>3 DEF SessionTypeOK, CallsOwn, UpdateHeadImage
    <3>2. Entered(c, call[c].token.name)
      BY <1>3, <2>1, <3>1, CallFields DEF CallOwn, Own, Valid
    <3>3. users' = [users EXCEPT ![call[c].token.name].head_image = c]
      BY <1>3, <2>1 DEF UpdateHeadImage
    <3> QED
      BY ONLY n \in Registered', <1>0, <3>2, <3>3 DEF Registered
  <2>2. CASE ~Valid(call[c].token, now)
    BY <1>1, <1>3, <2>2 DEF UpdateHeadImage
  <2> QED
    BY <2>1, <2>2
<1> HIDE DEF Goal
<1>4. ASSUME NEW c \in Clients, Handle(c) PROVE Goal
  BY <1>1, <1>2, <1>3, <1>4 DEF Handle, Login, Checklogin
<1>5. ASSUME NEW c \in Clients, Splash(c) \/ AppStep(c) PROVE Goal
  <2>1. UNCHANGED users
    BY <1>5, Zenon DEF Splash, AppStep, Reply, Reload, Connect, ConnectFails,
       Connected, httpVars
  <2> QED
    BY <1>1, <2>1
<1>6. ASSUME NEW c \in Clients, UserStep(c) PROVE Goal
  <2>1. UNCHANGED users
    BY <1>6, Zenon DEF UserStep, Submit, ChangeHead, Logout, Start, httpVars
  <2> QED
    BY <1>1, <2>1
<1>7. ASSUME NEW k \in DOMAIN conns, ConnStep(k) \/ Lose(k) PROVE Goal
  BY <1>1, <1>7 DEF ConnStep, AuthHandle, AuthReply, onDonehandle, Lose,
     httpVars
<1>8. ASSUME \/ \E s \in Servers : Die(s)
             \/ Clock \/ UNCHANGED sessionVars
      PROVE  Goal
  BY <1>1, <1>8 DEF Die, Clock, sessionVars, httpVars
<1>9. Goal
  BY ONLY <1>4, <1>5, <1>6, <1>7, <1>8, [SessionNext]_sessionVars, Zenon
     DEF SessionNext
<1> QED
  BY <1>9 DEF Goal

LEMMA UsersStep ==
    ASSUME SessionAssumption, SessionInv, SessionTypeOK',
           [SessionNext]_sessionVars
    PROVE  UsersEntered'
<1>0. SessionTypeOK /\ TokensOwn /\ UsersEntered
  BY DEF SessionInv
<1>1. ASSUME NEW k \in DOMAIN conns', conns'[k].user # Nil
      PROVE  Entered(conns[k].client, conns[k].user)'
  <2>1. PICK c, n : c = conns'[k].client /\ n = conns'[k].user
    OBVIOUS
  <2>2. c \in Clients
    BY <2>1, ClientTyped
  <2>3. k \in DOMAIN conns /\ Derived(conns[k], conns'[k])
    BY <1>0, <1>1, ConnsDerived
  <2>4. Entered(c, n)
    BY <1>0, <1>1, <2>1, <2>3 DEF Derived, TokensOwn, UsersEntered, Own
  <2>5. Entered(c, n)'
    BY <1>0, <2>2, <2>4, EnteredStays
  <2> QED
    BY <2>1, <2>5 DEF Entered, Registered
<1>2. ASSUME NEW n \in Registered', users'[n].head_image # Nil
      PROVE  Entered(users[n].head_image, n)'
  <2>1. PICK c : c = users'[n].head_image
    OBVIOUS
  <2>2. c \in Clients
    BY <1>2, <2>1 DEF SessionTypeOK
  <2>3. Entered(c, n) \/ <<n, users'[n].passwd>> \in typed[c]
    BY <1>0, <1>2, <2>1, HeadImages DEF UsersEntered
  <2>4. Entered(c, n)'
    BY <1>0, <1>2, <2>2, <2>3, EnteredStays, Grows DEF Entered
  <2> QED
    BY <2>1, <2>4 DEF Entered, Registered
<1> QED
  BY <1>1, <1>2 DEF UsersEntered

LEMMA SessionInitInv ==
    ASSUME SessionAssumption, SessionInit
    PROVE  SessionInv
<1>1. PICK N \in SUBSET Names :
         users \in [N -> [passwd : Passwords, head_image : {Nil}]]
  BY DEF SessionInit
<1>2. conns = <<>> /\ conns \in Seq(Connection) /\ Len(conns) = 0
      /\ DOMAIN conns = {}
  BY EmptySeq DEF SessionInit
<1>3. Registered = N /\ MaxTime \in Nat
  BY <1>1 DEF Registered, SessionAssumption
<1>4. call \in [Clients -> Calls] /\ \A c \in Clients : call[c] = NoCall
  BY DEF SessionInit, Calls
<1>5. SessionTypeOK
  BY <1>1, <1>2, <1>3, <1>4 DEF SessionInit, SessionTypeOK, Kinds
<1>6. CallsOwn
  BY <1>4 DEF CallsOwn, CallOwn, NoCall
<1>7. TokensOwn
  BY <1>2 DEF TokensOwn, Own, SessionInit
<1>8. UsersEntered
  BY <1>1, <1>2, <1>3 DEF UsersEntered
<1> QED
  BY <1>5, <1>6, <1>7, <1>8 DEF SessionInv

(* Whoever acts as a user has entered that user's password: in every state  *)
(* the tokens an app keeps and sends, the user comit takes a connection     *)
(* for, and the head images set are those of a name whose password was      *)
(* entered in that app, whatever expires, is renewed, lost or started again. *)
THEOREM SessionCorrect == SessionSpec => []SessionInv
<1>1. SessionInit => SessionInv
  BY SessionInitInv, SessionAssumption
<1>2. SessionInv /\ [SessionNext]_sessionVars => SessionInv'
  <2> SUFFICES ASSUME SessionInv, [SessionNext]_sessionVars
               PROVE  SessionInv'
    OBVIOUS
  <2>1. SessionTypeOK'
    BY SessionTypeStep, SessionAssumption DEF SessionInv
  <2>2. CallsOwn' /\ TokensOwn' /\ UsersEntered'
    BY <2>1, CallsStep, TokensStep, UsersStep, SessionAssumption
  <2> QED
    BY <2>1, <2>2 DEF SessionInv
<1> QED
  BY <1>1, <1>2, PTL DEF SessionSpec

(* The same with the fairness of the event loops and handlers.              *)
COROLLARY FairSessionCorrect == FairSpec => []SessionInv
BY SessionCorrect, PTL DEF FairSpec
=============================================================================

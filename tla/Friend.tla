------------------------------- MODULE Friend -------------------------------
(***************************************************************************)
(* Friends: the handlers of logic that ask for, agree to, refuse and end a  *)
(* friendship, and comit's check of a message's sender against the set of   *)
(* friends it keeps in redis and fills from the table.                      *)
(*                                                                          *)
(* A notification has the name of the request that created it, and the two  *)
(* rows of a friendship that of the agreement that inserted them.           *)
(* FriendDelete's DELETE has no index and waits for every row that an open  *)
(* transaction has inserted; tx.Callback() leaves one open.                 *)
(***************************************************************************)
EXTENDS FiniteSets

CONSTANTS
    Users,
    Requests,    \* bound: the requests to logic
    Checks,      \* bound: the calls of FriendCheck in comit
    Ops,         \* of the operations in AllOps
    Faulty,      \* of "redis" and "db": whose calls may fail
    None

AllOps == {"add", "agree", "refuse", "delete", "clear"}

ASSUME FriendAssumption ==
    /\ None \notin Users \cup Requests
    /\ Ops \subseteq AllOps
    /\ Faulty \subseteq {"redis", "db"}

VARIABLES
    friends,     \* the rows of the table friends: <<userid, friendid, who>>
    stuck,       \* agreements whose transaction was left open
    notify,      \* the status of each notification
    cache,       \* the sets friends:<uid> in redis; an empty one has no key
    req,         \* the parameters of each request
    at,          \* where it is, or its answer
    check,       \* the receiver and the sender of each FriendCheck
    checkAt,     \* where it is, or its verdict
    read,        \* the friends of the receiver it has read
    seen,        \* history: whether the sender was one while it ran
    mixed,       \* history: users whose set was filled while it changed
    deleted      \* history: whom a user has deleted

tableVars == <<friends, stuck, notify>>
requestVars == <<req, at>>
checkVars == <<check, checkAt, read, seen>>
vars == <<tableVars, cache, requestVars, checkVars, mixed, deleted>>

Pairs == {p \in Users \X Users : p[1] # p[2]}
(* The user who asks and the other one, for an answer those of its          *)
(* notification, in that order.                                             *)
Parameters == [op : Ops, uid : Users, other : Users, nid : Requests \cup {None}]

ASSUME NoneAssumption == None \notin Parameters \cup Pairs

TypeOK ==
    /\ friends \subseteq Users \X Users \X Requests
    /\ stuck \subseteq Requests
    /\ notify \in [Requests -> {"none", "open", "agreed", "refused", "cleared"}]
    /\ cache \in [Users -> SUBSET Users]
    /\ req \in [Requests -> Parameters \cup {None}]
    /\ at \in [Requests -> {"new", "query", "repeated", "create", "first",
                  "cache1", "cache2", "change", "update", "success", "error"}]
    /\ check \in [Checks -> Pairs \cup {None}]
    /\ checkAt \in [Checks -> {"new", "query", "add", "ismember", "yes", "no"}]
    /\ read \in [Checks -> SUBSET Users]
    /\ seen \in [Checks -> SUBSET BOOLEAN]
    /\ mixed \subseteq Users
    /\ deleted \subseteq Users \X Users

Init ==
    /\ friends = {} /\ stuck = {}
    /\ notify = [r \in Requests |-> "none"]
    /\ cache = [u \in Users |-> {}]
    /\ req = [r \in Requests |-> None]
    /\ at = [r \in Requests |-> "new"]
    /\ check = [c \in Checks |-> None]
    /\ checkAt = [c \in Checks |-> "new"]
    /\ read = [c \in Checks |-> {}]
    /\ seen = [c \in Checks |-> {}]
    /\ mixed = {} /\ deleted = {}

SetStep(f, x, s) == [f EXCEPT ![x] = s]
Op(r) == req[r].op
Uid(r) == req[r].uid
Other(r) == req[r].other
Nid(r) == req[r].nid

(* FirendList, FirendQuery and GetFriends of a set of rows.                 *)
ListOf(rows, u) == {v \in Users : \E r \in Requests : <<u, v, r>> \in rows}

(* A request that will change the rows of a user whose set it has deleted.  *)
Changes(r, u) ==
    \/ at[r] \in {"cache2", "change"} /\ u = Uid(r)
    \/ at[r] = "change" /\ Op(r) = "agree" /\ u = Other(r)
Filling(u) == \E c \in Checks : checkAt[c] \in {"query", "add"}
                                    /\ check[c][1] = u

(* The checks that run take note of a change of the rows.                   *)
Note(rows) ==
    [c \in Checks |-> IF checkAt[c] \in {"new", "yes", "no"} THEN seen[c]
                      ELSE seen[c] \cup {check[c][2] \in ListOf(rows, check[c][1])}]

-----------------------------------------------------------------------------
(* Requests: the binding of their parameters, and the queries that may      *)
(* refuse them.                                                             *)

Bind(r) ==
    /\ at[r] = "new"
    /\ \E p \in Parameters :
        /\ p.uid # p.other
        /\ IF p.op \in {"agree", "refuse"}
           THEN p.nid # None /\ notify[p.nid] # "none"
                    /\ p.uid = Uid(p.nid) /\ p.other = Other(p.nid)
           ELSE p.nid = None
        /\ req' = SetStep(req, r, p)
        /\ at' = SetStep(at, r, CASE p.op = "add" -> "query"
                                  [] p.op \in {"agree", "refuse"} -> "first"
                                  [] p.op = "delete" -> "cache1"
                                  [] p.op = "clear" -> "update")
    /\ UNCHANGED <<tableVars, cache, checkVars, mixed, deleted>>

(* AddFriend: not a friend yet, no open notification, then a new one.  Each *)
(* query is a statement of its own; one that fails counts as found.         *)
FirendQuery(r) ==
    /\ at[r] = "query"
    /\ \/ /\ Other(r) \notin ListOf(friends, Uid(r))
          /\ at' = SetStep(at, r, "repeated")
       \/ /\ Other(r) \in ListOf(friends, Uid(r)) \/ "db" \in Faulty
          /\ at' = SetStep(at, r, "error")
    /\ UNCHANGED <<tableVars, cache, req, checkVars, mixed, deleted>>

Open(u, v) ==
    \E n \in Requests : notify[n] = "open" /\ Uid(n) = u /\ Other(n) = v

NotifyQuery(r) ==
    /\ at[r] = "repeated"
    /\ \/ /\ ~Open(Uid(r), Other(r))
          /\ at' = SetStep(at, r, "create")
       \/ /\ Open(Uid(r), Other(r)) \/ "db" \in Faulty
          /\ at' = SetStep(at, r, "error")
    /\ UNCHANGED <<tableVars, cache, req, checkVars, mixed, deleted>>

NotifyCreate(r) ==
    /\ at[r] = "create"
    /\ notify' = SetStep(notify, r, "open")
    /\ at' = SetStep(at, r, "success")
    /\ UNCHANGED <<friends, stuck, cache, req, checkVars, mixed, deleted>>

(* Agree and Refuse look the notification up: it must be open.              *)
NotifyFirst(r) ==
    /\ at[r] = "first"
    /\ at' = SetStep(at, r, CASE notify[Nid(r)] # "open" -> "error"
                              [] Op(r) = "agree" -> "cache1"
                              [] OTHER -> "update")
    /\ UNCHANGED <<tableVars, cache, req, checkVars, mixed, deleted>>

(* The error of any call to a store ends the request.                       *)
RequestFails(r) ==
    /\ \/ at[r] \in {"create", "first", "change", "update"} /\ "db" \in Faulty
       \/ at[r] \in {"cache1", "cache2"} /\ "redis" \in Faulty
       \/ at[r] = "change" /\ Op(r) = "delete" /\ stuck # {}
    /\ at' = SetStep(at, r, "error")
    /\ UNCHANGED <<tableVars, cache, req, checkVars, mixed, deleted>>

-----------------------------------------------------------------------------
(* The answers.  config.FriendDelete deletes the set of one user; Agree     *)
(* deletes those of both before its transaction, DeleteFirend that of the   *)
(* user whose row it deletes.                                               *)

Forget(r, u, next) ==
    /\ cache' = SetStep(cache, u, {})
    /\ mixed' = (mixed \ {u}) \cup IF Filling(u) THEN {u} ELSE {}
    /\ at' = SetStep(at, r, next)
    /\ UNCHANGED <<tableVars, req, checkVars, deleted>>

(* Mutant: the set of the user who deletes, or was agreed to, stays.        *)
ForgetUserNot(r) ==
    /\ at[r] = "cache1"
    /\ at' = SetStep(at, r, IF Op(r) = "agree" THEN "cache2" ELSE "change")
    /\ UNCHANGED <<tableVars, cache, req, checkVars, mixed, deleted>>

ForgetUser(r) ==
    /\ at[r] = "cache1"
    /\ Forget(r, Uid(r), IF Op(r) = "agree" THEN "cache2" ELSE "change")

(* Mutant: the set of the user who agrees stays.                            *)
ForgetOtherNot(r) ==
    /\ at[r] = "cache2"
    /\ at' = SetStep(at, r, "change")
    /\ UNCHANGED <<tableVars, cache, req, checkVars, mixed, deleted>>

ForgetOther(r) == at[r] = "cache2" /\ Forget(r, Other(r), "change")

(* Mutant: the second insertion fails and the first one stays.              *)
FriendAddHalf(r) ==
    /\ at[r] = "change" /\ Op(r) = "agree"
    /\ friends' = friends \cup {<<Uid(r), Other(r), r>>}
    /\ seen' = Note(friends')
    /\ at' = SetStep(at, r, "error")
    /\ UNCHANGED <<stuck, notify, cache, req, check, checkAt, read, mixed,
                   deleted>>

(* Both rows and the status in one transaction, or an error that leaves it  *)
(* open.  A notification that was cleared meanwhile is not updated.         *)
FriendAdd(r) ==
    /\ at[r] = "change" /\ Op(r) = "agree"
    /\ \/ /\ friends' = friends \cup {<<Uid(r), Other(r), r>>,
                                      <<Other(r), Uid(r), r>>}
          /\ notify' = IF notify[Nid(r)] = "cleared" THEN notify
                       ELSE SetStep(notify, Nid(r), "agreed")
          /\ at' = SetStep(at, r, "success")
          /\ UNCHANGED stuck
       \/ /\ "db" \in Faulty
          /\ stuck' = stuck \cup {r}
          /\ at' = SetStep(at, r, "error")
          /\ UNCHANGED <<friends, notify>>
    /\ seen' = Note(friends')
    /\ UNCHANGED <<cache, req, check, checkAt, read, mixed, deleted>>

(* The user's own row, or rows, to the other one; not those back.           *)
FriendDelete(r) ==
    /\ at[r] = "change" /\ Op(r) = "delete"
    /\ stuck = {}
    /\ friends' = friends \ ({Uid(r)} \X {Other(r)} \X Requests)
    /\ deleted' = deleted \cup {<<Uid(r), Other(r)>>}
    /\ seen' = Note(friends')
    /\ at' = SetStep(at, r, "success")
    /\ UNCHANGED <<stuck, notify, cache, req, check, checkAt, read, mixed>>

(* Refuse: NotifyUpdateStatus, whatever the status is by now.               *)
NotifyUpdateStatus(r) ==
    /\ at[r] = "update" /\ Op(r) = "refuse"
    /\ notify' = IF notify[Nid(r)] = "cleared" THEN notify
                 ELSE SetStep(notify, Nid(r), "refused")
    /\ at' = SetStep(at, r, "success")
    /\ UNCHANGED <<friends, stuck, cache, req, checkVars, mixed, deleted>>

(* NotifyClear deletes what the user has received, open or not.             *)
NotifyClear(r) ==
    /\ at[r] = "update" /\ Op(r) = "clear"
    /\ notify' = [n \in Requests |->
                    IF notify[n] # "none" /\ Other(n) = Uid(r) THEN "cleared"
                    ELSE notify[n]]
    /\ at' = SetStep(at, r, "success")
    /\ UNCHANGED <<friends, stuck, cache, req, checkVars, mixed, deleted>>

-----------------------------------------------------------------------------
(* FriendCheck(receiver, sender), a call to a store at a time: Exists, then *)
(* the table and SAdd, or SIsMember.                                        *)

Exists(c) ==
    /\ checkAt[c] = "new"
    /\ \E p \in Pairs :
        /\ check' = SetStep(check, c, p)
        /\ seen' = SetStep(seen, c, {p[2] \in ListOf(friends, p[1])})
        /\ \/ /\ cache[p[1]] = {} \/ "redis" \in Faulty
              /\ checkAt' = SetStep(checkAt, c, "query")
              /\ mixed' = mixed \cup {u \in {p[1]} :
                                 \E r \in Requests : Changes(r, u)}
           \/ /\ cache[p[1]] # {}
              /\ checkAt' = SetStep(checkAt, c, "ismember")
              /\ UNCHANGED mixed
    /\ UNCHANGED <<tableVars, cache, requestVars, read, deleted>>

GetFriends(c) ==
    /\ checkAt[c] = "query"
    /\ \/ /\ read' = SetStep(read, c, ListOf(friends, check[c][1]))
          /\ checkAt' = SetStep(checkAt, c, "add")
       \/ /\ "db" \in Faulty
          /\ checkAt' = SetStep(checkAt, c, "no")
          /\ UNCHANGED read
    /\ UNCHANGED <<tableVars, cache, requestVars, check, seen, mixed, deleted>>

Verdict(c, found) == SetStep(checkAt, c, IF found THEN "yes" ELSE "no")

SAdd(c) ==
    /\ checkAt[c] = "add"
    /\ \/ cache' = [cache EXCEPT ![check[c][1]] = @ \cup read[c]]
       \/ "redis" \in Faulty /\ UNCHANGED cache
    /\ checkAt' = Verdict(c, check[c][2] \in read[c])
    /\ UNCHANGED <<tableVars, requestVars, check, read, seen, mixed, deleted>>

SIsMember(c) ==
    /\ checkAt[c] = "ismember"
    /\ \/ checkAt' = Verdict(c, check[c][2] \in cache[check[c][1]])
       \/ "redis" \in Faulty /\ checkAt' = Verdict(c, FALSE)
    /\ UNCHANGED <<tableVars, cache, requestVars, check, read, seen, mixed,
                   deleted>>

-----------------------------------------------------------------------------
Request(r) ==
    \/ Bind(r) \/ FirendQuery(r) \/ NotifyQuery(r) \/ NotifyCreate(r)
    \/ NotifyFirst(r) \/ RequestFails(r) \/ ForgetUser(r) \/ ForgetOther(r)
    \/ FriendAdd(r) \/ FriendDelete(r) \/ NotifyUpdateStatus(r)
    \/ NotifyClear(r)

Check(c) == Exists(c) \/ GetFriends(c) \/ SAdd(c) \/ SIsMember(c)

Next == (\E r \in Requests : Request(r)) \/ (\E c \in Checks : Check(c))

Spec == Init /\ [][Next]_vars

-----------------------------------------------------------------------------
(* What comit finds in redis about a user's friends is what the table says, *)
(* unless it filled the set while a request of logic was between its        *)
(* FriendDelete of the key and its change of the rows.                      *)
CacheFresh == \A u \in Users \ mixed : cache[u] \in {{}, ListOf(friends, u)}

NoKeyWhileChanging ==
    \A u \in Users \ mixed :
        (\E r \in Requests : Changes(r, u)) => cache[u] = {} /\ ~Filling(u)

FillsMatch ==
    \A c \in Checks : checkAt[c] = "add" /\ check[c][1] \notin mixed
                            => read[c] = ListOf(friends, check[c][1])

RequestsBound ==
    /\ \A r \in Requests : at[r] # "new" => req[r] # None
    /\ \A c \in Checks : checkAt[c] # "new" => check[c] # None
    /\ \A r \in Requests : at[r] = "cache1" \/ Changes(r, Uid(r))
                            => Op(r) \in {"agree", "delete"}

(* What a check that runs has taken note of includes what is so now.        *)
SeenNow ==
    \A c \in Checks : checkAt[c] \in {"query", "add", "ismember"} =>
        (check[c][2] \in ListOf(friends, check[c][1])) \in seen[c]

(* The invariant behind CacheFresh: while rows are changed their set has no *)
(* key and nobody is about to write one (FriendAdd, FriendDelete).          *)
FriendInv ==
    TypeOK /\ RequestsBound /\ NoKeyWhileChanging /\ FillsMatch /\ CacheFresh
    /\ SeenNow

(* A friendship has both its rows, whatever failed, until one of the two    *)
(* deletes the other (FriendAdd, FriendDelete).                             *)
BothRows ==
    \A u, v \in Users, r \in Requests :
        <<u, v, r>> \in friends => <<v, u, r>> \in friends \/ <<v, u>> \in deleted

Verdicts(v) == {c \in Checks : checkAt[c] \in {"add", "ismember"}
                                /\ checkAt'[c] = v /\ check[c][1] \notin mixed}

(* Without such an overlap a message of someone who was no friend at any    *)
(* time of the check is refused (FriendCheck, OneMessageHandle).            *)
StrangersRefused == [][\A c \in Verdicts("yes") : TRUE \in seen[c]]_vars
=============================================================================

------------------------------- MODULE Group -------------------------------
(***************************************************************************)
(* Groups: the handlers of logic that create a group, invite and remove     *)
(* members, quit and dissolve, with their transactions, and the set of      *)
(* members that comit keeps in redis and fills from the table.              *)
(*                                                                          *)
(* MySQL: a DELETE finds its rows of groupchat_users without an index, so a *)
(* transaction that has deleted holds the table until it ends, and other    *)
(* changes wait or time out.  tx.Callback() ends nothing: a transaction     *)
(* that failed stays open with what it holds.  The checks of membership and *)
(* ownership before the handlers run no query and never refuse.             *)
(***************************************************************************)
EXTENDS FiniteSets

CONSTANTS
    Groups,
    Users,
    Requests,    \* bound: the requests to logic
    Checks,      \* bound: the calls of GroupMebersCheck in comit
    Ops,         \* of the operations in AllOps
    Faulty,      \* of "redis" and "db": whose calls may fail
    None

AllOps == {"create", "quit", "dissolve", "invite", "remove", "get"}

ASSUME GroupAssumption ==
    /\ None \notin Users \cup Requests \cup Groups
    /\ Ops \subseteq AllOps
    /\ Faulty \subseteq {"redis", "db"}

VARIABLES
    owner,       \* the owner of each row of groupchats, or None
    members,     \* the committed rows of groupchat_users
    lock,        \* the transaction that holds groupchat_users
    cache,       \* the sets groupid:<gid> in redis; an empty one has no key
    req,         \* the parameters of each request
    at,          \* where it is, or its answer
    heir,        \* the user whom a quitting owner's transaction makes owner
    check,       \* where each GroupMebersCheck is: the group it fills
    read,        \* the members it has read
    mixed,       \* history: groups filled while a request changed them
    careless     \* history: users taken out of a group, or made its owner,
                 \* without a look at who is its owner or member

groupVars == <<owner, members, lock>>
requestVars == <<req, at, heir>>
checkVars == <<check, read>>
vars == <<groupVars, cache, requestVars, checkVars, mixed, careless>>

Parameters == [op : Ops, gid : Groups, uid : Users, them : SUBSET Users]

ASSUME NoneAssumption == None \notin Parameters

TypeOK ==
    /\ owner \in [Groups -> Users \cup {None}]
    /\ members \in [Groups -> SUBSET Users]
    /\ lock \in Requests \cup {None}
    /\ cache \in [Groups -> SUBSET Users]
    /\ req \in [Requests -> Parameters \cup {None}]
    /\ at \in [Requests -> {"new", "cache", "change", "owner", "commit",
                            "success", "error"}]
    /\ heir \in [Requests -> Users \cup {None}]
    /\ check \in [Checks -> Groups \cup {None}]
    /\ read \in [Checks -> (SUBSET Users) \cup {None}]
    /\ mixed \subseteq Groups
    /\ careless \subseteq Groups \X Users

(* Groups that were created before, each with its owner as a member.        *)
Init ==
    /\ members \in [Groups -> SUBSET Users]
    /\ owner \in [Groups -> Users \cup {None}]
    /\ \A g \in Groups : IF members[g] = {} THEN owner[g] = None
                         ELSE owner[g] \in members[g]
    /\ lock = None
    /\ cache = [g \in Groups |-> {}]
    /\ req = [r \in Requests |-> None]
    /\ at = [r \in Requests |-> "new"]
    /\ heir = [r \in Requests |-> None]
    /\ check = [c \in Checks |-> None]
    /\ read = [c \in Checks |-> None]
    /\ mixed = {}
    /\ careless = {}

SetStep(f, x, s) == [f EXCEPT ![x] = s]
Op(r) == req[r].op
Gid(r) == req[r].gid
Uid(r) == req[r].uid
Them(r) == req[r].them

(* Between the deletion of the cache and the change it announces.           *)
Changing(r) ==
    at[r] \in {"change", "owner", "commit"} /\ Op(r) \notin {"create", "get"}
Filling(g) == \E c \in Checks : check[c] = g

-----------------------------------------------------------------------------
(* A request: its parameters are bound, its transaction begins.  A group    *)
(* that is created gets an id of its own, clients name groups that exist.   *)

Bind(r) ==
    /\ at[r] = "new"
    /\ \E p \in Parameters :
        /\ p.op \in {"invite", "remove", "create"} <=> p.them # {}
        /\ IF p.op = "create"
           THEN owner[p.gid] = None /\ \A q \in Requests : req[q] # None
                                            => Gid(q) # p.gid
           ELSE owner[p.gid] # None
        /\ req' = SetStep(req, r, p)
        /\ at' = SetStep(at, r, IF p.op \in {"create", "get"} THEN "change"
                                ELSE "cache")
    /\ UNCHANGED <<groupVars, cache, heir, checkVars, mixed, careless>>

(* Mutant: the members change without the cache being deleted.              *)
GrouperDeleteForgotten(r) ==
    /\ at[r] = "cache"
    /\ at' = SetStep(at, r, "change")
    /\ UNCHANGED <<groupVars, cache, req, heir, checkVars, mixed, careless>>

(* GrouperDelete, before the table changes.                                 *)
GrouperDelete(r) ==
    LET g == Gid(r)
    IN  /\ at[r] = "cache"
        /\ cache' = SetStep(cache, g, {})
        /\ mixed' = (mixed \ {g}) \cup IF Filling(g) THEN {g} ELSE {}
        /\ at' = SetStep(at, r, "change")
        /\ UNCHANGED <<groupVars, req, heir, checkVars, careless>>

(* An error is the answer at once, and the transaction is left open: one    *)
(* that waited for the table in vain, or whose statement failed, holds      *)
(* nothing; one that failed after a change keeps the table.  DeleteGroup's  *)
(* statement names a column groupchats does not have and always fails.      *)
RequestFails(r) ==
    /\ \/ at[r] = "cache" /\ "redis" \in Faulty
       \/ at[r] = "change" /\ lock # None /\ Op(r) # "get"
       \/ at[r] \in {"change", "owner"} /\ "db" \in Faulty
       \/ at[r] = "change" /\ Op(r) = "dissolve"
    /\ at' = SetStep(at, r, "error")
    /\ UNCHANGED <<groupVars, cache, req, heir, checkVars, mixed, careless>>

(* GroupCreate: the group, its members and its owner in one transaction,    *)
(* which holds the rows it inserted from the first on.                      *)
GroupCreate(r) ==
    /\ at[r] = "change" /\ Op(r) = "create"
    /\ lock = None
    /\ \/ /\ owner[Gid(r)] = None
          /\ owner' = SetStep(owner, Gid(r), Uid(r))
          /\ members' = SetStep(members, Gid(r), Them(r) \cup {Uid(r)})
          /\ at' = SetStep(at, r, "success")
          /\ UNCHANGED lock
       \/ /\ "db" \in Faulty
          /\ lock' = r
          /\ at' = SetStep(at, r, "error")
          /\ UNCHANGED <<owner, members>>
    /\ UNCHANGED <<cache, req, heir, checkVars, mixed, careless>>

(* GetGroup, GetGroupMembers and GetGroupAllMembers read what is committed, *)
(* for anyone, and change nothing.                                          *)
GetGroup(r) ==
    /\ at[r] = "change" /\ Op(r) = "get"
    /\ at' = SetStep(at, r, "success")
    /\ UNCHANGED <<groupVars, cache, req, heir, checkVars, mixed, careless>>

Invitation(r) ==
    /\ at[r] = "change" /\ Op(r) = "invite"
    /\ lock = None
    /\ members' = [members EXCEPT ![Gid(r)] = @ \cup Them(r)]
    /\ at' = SetStep(at, r, "success")
    /\ UNCHANGED <<owner, lock, cache, req, heir, checkVars, mixed, careless>>

Removemembers(r) ==
    /\ at[r] = "change" /\ Op(r) = "remove"
    /\ lock = None
    /\ members' = [members EXCEPT ![Gid(r)] = @ \ Them(r)]
    /\ careless' = careless \cup ({Gid(r)} \X Them(r))
    /\ at' = SetStep(at, r, "success")
    /\ UNCHANGED <<owner, lock, cache, req, heir, checkVars, mixed>>

-----------------------------------------------------------------------------
(* QuitGroup, in its transaction.                                          *)

(* Mutant: the owner is looked up before the table is held.                 *)
QuitDeleteUnlocked(r) ==
    /\ at[r] = "change" /\ Op(r) = "quit"
    /\ at' = SetStep(at, r, "owner")
    /\ UNCHANGED <<groupVars, cache, req, heir, checkVars, mixed, careless>>

(* The row is deleted, for nobody else to see yet.                          *)
QuitDelete(r) ==
    /\ at[r] = "change" /\ Op(r) = "quit"
    /\ lock = None
    /\ lock' = r
    /\ at' = SetStep(at, r, "owner")
    /\ UNCHANGED <<owner, members, cache, req, heir, checkVars, mixed,
                   careless>>

(* GetGroup, whose error is ignored, and the choice of another member:      *)
(* First takes the row with the lowest id, here any.  When it finds none or *)
(* fails, its error is not the one that is returned: the answer is a        *)
(* success and the transaction stays open.                                  *)
QuitOwner(r) ==
    LET g == Gid(r)
        others == members[g] \ {Uid(r)}
    IN  /\ at[r] = "owner"
        /\ \/ /\ owner[g] # Uid(r) \/ "db" \in Faulty
              /\ at' = SetStep(at, r, "commit")
              /\ careless' = careless \cup IF owner[g] = Uid(r) THEN {<<g, Uid(r)>>} ELSE {}
              /\ UNCHANGED heir
           \/ /\ owner[g] = Uid(r)
              /\ \E u \in others : heir' = SetStep(heir, r, u)
              /\ at' = SetStep(at, r, "commit")
              /\ UNCHANGED careless
           \/ /\ owner[g] = Uid(r)
              /\ others = {} \/ "db" \in Faulty
              /\ at' = SetStep(at, r, "success")
              /\ UNCHANGED <<heir, careless>>
        /\ UNCHANGED <<groupVars, cache, req, checkVars, mixed>>

(* The update of the owner has no condition and meets every group.  A       *)
(* commit that fails ends the transaction.                                  *)
QuitCommit(r) ==
    LET g == Gid(r)
        given == IF heir[r] = None THEN {}
                 ELSE {h \in Groups : owner[h] # None}
    IN  /\ at[r] = "commit"
        /\ lock' = None
        /\ \/ /\ members' = [members EXCEPT ![g] = @ \ {Uid(r)}]
              /\ owner' = [h \in Groups |-> IF h \in given THEN heir[r] ELSE owner[h]]
              /\ careless' = careless \cup ((given \ {g}) \X {heir[r]})
              /\ at' = SetStep(at, r, "success")
           \/ /\ "db" \in Faulty
              /\ at' = SetStep(at, r, "error")
              /\ UNCHANGED <<owner, members, careless>>
        /\ UNCHANGED <<cache, req, heir, checkVars, mixed>>

-----------------------------------------------------------------------------
(* GroupMebersCheck of comit: without a key it reads the table, then adds  *)
(* what it read to the set.                                                 *)

CacheMiss(c) ==
    /\ read[c] = None /\ check[c] = None
    /\ \E g \in Groups :
        /\ cache[g] = {}
        /\ check' = SetStep(check, c, g)
        /\ mixed' = mixed \cup {h \in {g} : \E r \in Requests :
                        Changing(r) /\ Gid(r) = h}
    /\ UNCHANGED <<groupVars, cache, requestVars, read, careless>>

GetGroupchatUser(c) ==
    /\ check[c] # None /\ read[c] = None
    /\ read' = SetStep(read, c, members[check[c]])
    /\ UNCHANGED <<groupVars, cache, requestVars, check, mixed, careless>>

GroupAddMembers(c) ==
    /\ check[c] # None /\ read[c] # None
    /\ cache' = [cache EXCEPT ![check[c]] = @ \cup read[c]]
    /\ check' = SetStep(check, c, None)
    /\ UNCHANGED <<groupVars, requestVars, read, mixed, careless>>

-----------------------------------------------------------------------------
Request(r) ==
    \/ Bind(r) \/ GrouperDelete(r) \/ RequestFails(r)
    \/ GroupCreate(r) \/ GetGroup(r) \/ Invitation(r) \/ Removemembers(r)
    \/ QuitDelete(r) \/ QuitOwner(r) \/ QuitCommit(r)

Check(c) == CacheMiss(c) \/ GetGroupchatUser(c) \/ GroupAddMembers(c)

Next == (\E r \in Requests : Request(r)) \/ (\E c \in Checks : Check(c))

Spec == Init /\ [][Next]_vars

-----------------------------------------------------------------------------
(* What comit finds in redis about a group is what the table says, unless  *)
(* it filled the cache while a request of logic was between its             *)
(* GrouperDelete and its change (GroupMebersCheck, GrouperDelete).          *)
CacheFresh == \A g \in Groups \ mixed : cache[g] \in {{}, members[g]}

(* Why: from the deletion to the change there is no key and nobody about to *)
(* write one, and who is about to write one has read what the table says.   *)
RequestsBound ==
    \A r \in Requests :
        /\ at[r] # "new" => req[r] # None
        /\ at[r] # "new" /\ Op(r) # "create" => owner[Gid(r)] # None

NotYetCreated ==
    \A g \in Groups : owner[g] = None =>
        /\ members[g] = {} /\ cache[g] = {}
        /\ \A c \in Checks : check[c] = g => read[c] \in {None, {}}

NoKeyWhileChanging ==
    \A r \in Requests :
        Changing(r) /\ Gid(r) \notin mixed
            => cache[Gid(r)] = {} /\ ~Filling(Gid(r))

FillsMatch ==
    \A c \in Checks : check[c] \in Groups \ mixed =>
        read[c] \in {None, {}, members[check[c]]}

(* Only a transaction that quits goes on after its first change, and it    *)
(* holds the table until it ends: the heir it chose stays a member, and an  *)
(* owner it let go without one is counted.                                  *)
QuittersHold ==
    \A r \in Requests :
        at[r] \in {"owner", "commit"} => Op(r) = "quit" /\ lock = r

HeirFits ==
    \A r \in Requests :
        /\ at[r] \in {"new", "cache", "change", "owner"} => heir[r] = None
        /\ at[r] = "commit" =>
              IF heir[r] = None
              THEN owner[Gid(r)] # Uid(r) \/ <<Gid(r), Uid(r)>> \in careless
              ELSE heir[r] \in members[Gid(r)] \ {Uid(r)}

(* The invariant behind CacheFresh and OwnerIsMember: every request deletes *)
(* the key before it changes the rows, and holds them while it changes      *)
(* (GrouperDelete, GroupMebersCheck, QuitGroup).                            *)
GroupInv ==
    TypeOK /\ RequestsBound /\ NotYetCreated /\ NoKeyWhileChanging
    /\ FillsMatch /\ CacheFresh /\ QuittersHold /\ HeirFits

(* However requests interleave and fail, quitting leaves a group with an   *)
(* owner who is a member, but for three gaps of the code: Removemembers     *)
(* takes owners out too, QuitGroup ignores an error of GetGroup, and it     *)
(* writes its new owner into the rows of all groups (QuitGroup).            *)
OwnerIsMember ==
    \A g \in Groups :
        owner[g] \in members[g] \cup {None} \/ <<g, owner[g]>> \in careless
=============================================================================

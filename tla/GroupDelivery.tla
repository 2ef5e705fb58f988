--------------------------- MODULE GroupDelivery ---------------------------
(***************************************************************************)
(* The path of group messages over several comit servers:                   *)
(* GorupMessageHandle with the list of members it takes from redis, the     *)
(* row for each member, the pushes to those on the same server and          *)
(* Grouptranfer to the others; the retries; the pull after a login; the     *)
(* acknowledgements.                                                        *)
(*                                                                          *)
(* Sessions of a user do not overlap here and a login is one step; Delivery *)
(* models what happens otherwise.                                           *)
(***************************************************************************)
EXTENDS Naturals, FiniteSets

CONSTANTS
    Msgs,
    Receivers,   \* the members of the group besides the sender
    Servers,
    Origin,      \* the server of the sender's connection
    None,
    Faulty,      \* of "redis", "db", "write" and "rpc": whose calls may fail
    MaxLogins,   \* bound: logins of each receiver
    MaxCrashes   \* bound: crashes of servers

ASSUME GroupDeliveryAssumption ==
    /\ Origin \in Servers
    /\ None \notin Servers \cup Receivers
    /\ Faulty \subseteq {"redis", "db", "write", "rpc"}
    /\ MaxLogins \in Nat /\ MaxCrashes \in Nat

VARIABLES
    cached,      \* redis holds the set of members
    rows,        \* group_user_messages: <<message, receiver>>
    at,          \* GorupMessageHandle of each message: the next call
    list,        \* the members it read
    todo,        \* those of the loop under way
    local,       \* connections it found on this server: <<receiver, login>>
    remote,      \* receivers it found elsewhere: <<receiver, server>>
    answer,      \* what the sender was told
    on,          \* the server a receiver's client is connected to
    login,       \* the number of its connection, bounded by MaxLogins
    conman,      \* the users each server has in ConManage
    redis,       \* the server redis has for each user
    pulling,     \* users whose pull is still to come
    retry,       \* <<server, message, receiver, type>> in the retry queues
    wire,        \* frames under way to each client: <<message, type>>
    received,    \* <<message, receiver>> in the receivers' databases
    toAck,       \* those to acknowledge
    crashes,     \* bounded by MaxCrashes
    skipped,     \* history: left out by Grouptranfer for another's absence
    late,        \* history: pulled after the lookup and before the row
    given        \* history: a call failed on the way, since the last pull

handlerVars == <<at, list, todo, local, remote, answer>>
sessionVars == <<on, login, conman, redis, pulling>>
clientVars == <<received, toAck>>
historyVars == <<crashes, skipped, late, given>>
vars == <<cached, rows, handlerVars, sessionVars, retry, wire, clientVars,
          historyVars>>

Mail == Msgs \X Receivers
Types == {"group", "none"}

TypeOK ==
    /\ cached \in BOOLEAN
    /\ rows \subseteq Mail
    /\ at \in [Msgs -> {"list", "check", "create", "member", "insert", "ack",
                        "push", "rpc", "done", "failed"}]
    /\ list \in [Msgs -> SUBSET Receivers]
    /\ todo \in [Msgs -> SUBSET Receivers]
    /\ local \in [Msgs -> SUBSET (Receivers \X (0 .. MaxLogins))]
    /\ remote \in [Msgs -> SUBSET (Receivers \X Servers)]
    /\ answer \in [Msgs -> {"none", "success", "fail"}]
    /\ on \in [Receivers -> Servers \cup {None}]
    /\ login \in [Receivers -> 0 .. MaxLogins]
    /\ conman \in [Servers -> SUBSET Receivers]
    /\ redis \in [Receivers -> Servers \cup {None}]
    /\ pulling \subseteq Receivers
    /\ retry \subseteq Servers \X Msgs \X Receivers \X Types
    /\ wire \in [Receivers -> SUBSET (Msgs \X Types)]
    /\ received \subseteq Mail /\ toAck \subseteq Mail
    /\ crashes \in 0 .. MaxCrashes
    /\ skipped \subseteq Mail /\ late \subseteq Mail /\ given \subseteq Mail

Init ==
    /\ cached \in BOOLEAN
    /\ rows = {}
    /\ at = [m \in Msgs |-> "list"]
    /\ list = [m \in Msgs |-> {}]
    /\ todo = [m \in Msgs |-> {}]
    /\ local = [m \in Msgs |-> {}]
    /\ remote = [m \in Msgs |-> {}]
    /\ answer = [m \in Msgs |-> "none"]
    /\ on = [u \in Receivers |-> None]
    /\ login = [u \in Receivers |-> 0]
    /\ conman = [s \in Servers |-> {}]
    /\ redis = [u \in Receivers |-> None]
    /\ pulling = {}
    /\ retry = {}
    /\ wire = [u \in Receivers |-> {}]
    /\ received = {} /\ toAck = {}
    /\ crashes = 0
    /\ skipped = {} /\ late = {} /\ given = {}

SetStep(f, x, s) == [f EXCEPT ![x] = s]
To(u) == {p \in Mail : p[2] = u}
RowsFor(m) == {m} \X list[m]

-----------------------------------------------------------------------------
(* GorupMessageHandle, a call at a time.                                   *)

(* An answer of AckSaveFail ends it.                                        *)
Refuse(m) ==
    /\ at' = SetStep(at, m, "failed")
    /\ answer' = SetStep(answer, m, "fail")

(* The members, before it is known whether redis holds them.                *)
GetGroupUsers(m) ==
    /\ at[m] = "list"
    /\ \/ list' = SetStep(list, m, IF cached THEN Receivers ELSE {})
       \/ "redis" \in Faulty /\ UNCHANGED list
    /\ at' = SetStep(at, m, "check")
    /\ UNCHANGED <<cached, rows, todo, local, remote, answer, sessionVars,
                   retry, wire, clientVars, historyVars>>

(* The sender is a member; the check fills the cache.                       *)
GroupMebersCheck(m) ==
    /\ at[m] = "check"
    /\ \/ /\ at' = SetStep(at, m, "create")
          /\ cached' \in IF "redis" \in Faulty THEN {cached, TRUE} ELSE {TRUE}
          /\ UNCHANGED answer
       \/ /\ Faulty \cap {"redis", "db"} # {}
          /\ Refuse(m)
          /\ UNCHANGED cached
    /\ UNCHANGED <<rows, list, todo, local, remote, sessionVars, retry, wire,
                   clientVars, historyVars>>

(* logic deletes the set when the members change (config.GrouperDelete).    *)
GrouperDelete ==
    /\ cached /\ cached' = FALSE
    /\ UNCHANGED <<rows, handlerVars, sessionVars, retry, wire, clientVars,
                   historyVars>>

CreateGroupMessage(m) ==
    /\ at[m] = "create"
    /\ \/ /\ at' = SetStep(at, m, "member")
          /\ todo' = SetStep(todo, m, list[m])
          /\ UNCHANGED answer
       \/ "db" \in Faulty /\ Refuse(m) /\ UNCHANGED todo
    /\ UNCHANGED <<cached, rows, list, local, remote, sessionVars, retry, wire,
                   clientVars, historyVars>>

(* Mutant: only this server's connections are looked up.                    *)
GetConnectOnly(m) ==
    /\ at[m] = "member"
    /\ \E u \in todo[m] :
        /\ todo' = SetStep(todo, m, todo[m] \ {u})
        /\ local' = IF u \in conman[Origin]
                    THEN [local EXCEPT ![m] = @ \cup {<<u, login[u]>>}]
                    ELSE local
    /\ UNCHANGED <<cached, rows, at, list, remote, answer, sessionVars, retry,
                   wire, clientVars, crashes, skipped, late, given>>

(* Where each member is, before there is a row for it.                      *)
GetConnect(m) ==
    /\ at[m] = "member"
    /\ \E u \in todo[m] :
        /\ todo' = SetStep(todo, m, todo[m] \ {u})
        /\ IF u \in conman[Origin]
           THEN /\ local' = [local EXCEPT ![m] = @ \cup {<<u, login[u]>>}]
                /\ UNCHANGED <<remote, given>>
           ELSE /\ \/ /\ remote' = [remote EXCEPT ![m] = @ \cup
                                      ({u} \X ({redis[u]} \ {None}))]
                      /\ UNCHANGED given
                   \/ /\ "redis" \in Faulty
                      /\ given' = given \cup {<<m, u>>}
                      /\ UNCHANGED remote
                /\ UNCHANGED local
    /\ UNCHANGED <<cached, rows, at, list, answer, sessionVars, retry, wire,
                   clientVars, crashes, skipped, late>>

(* Mutant: nothing to insert is no error.                                   *)
CreateGroupUserMessageEmpty(m) ==
    /\ at[m] = "member" /\ todo[m] = {}
    /\ rows' = rows \cup RowsFor(m)
    /\ at' = SetStep(at, m, "ack")
    /\ UNCHANGED <<cached, list, todo, local, remote, answer, sessionVars,
                   retry, wire, clientVars, historyVars>>

(* One INSERT for all; without any values it is no SQL and fails.           *)
CreateGroupUserMessage(m) ==
    /\ at[m] = "member" /\ todo[m] = {}
    /\ \/ /\ list[m] # {}
          /\ rows' = rows \cup RowsFor(m)
          /\ at' = SetStep(at, m, "ack")
          /\ UNCHANGED answer
       \/ /\ list[m] = {} \/ "db" \in Faulty
          /\ Refuse(m)
          /\ UNCHANGED rows
    /\ UNCHANGED <<cached, list, todo, local, remote, sessionVars, retry, wire,
                   clientVars, historyVars>>

SendAck(m) ==
    /\ at[m] = "ack"
    /\ at' = SetStep(at, m, "push")
    /\ answer' = SetStep(answer, m, "success")
    /\ UNCHANGED <<cached, rows, list, todo, local, remote, sessionVars, retry,
                   wire, clientVars, historyVars>>

(* A Write to connection n of u: refused when that is gone.                 *)
WriteTo(u, n, m, type) ==
    \/ /\ on[u] # None /\ login[u] = n
       /\ wire' = [wire EXCEPT ![u] = @ \cup {<<m, type>>}]
       /\ UNCHANGED given
    \/ /\ on[u] = None \/ login[u] # n \/ "write" \in Faulty
       /\ given' = IF login[u] = n THEN given \cup {<<m, u>>} ELSE given
       /\ UNCHANGED wire

(* Into the retry queue, then to the connection.                            *)
Push(m) ==
    /\ at[m] = "push"
    /\ \/ \E c \in local[m] :
            /\ local' = SetStep(local, m, local[m] \ {c})
            /\ retry' = retry \cup {<<Origin, m, c[1], "group">>}
            /\ WriteTo(c[1], c[2], m, "group")
            /\ UNCHANGED at
       \/ /\ local[m] = {}
          /\ at' = SetStep(at, m, "rpc")
          /\ UNCHANGED <<local, retry, wire, given>>
    /\ UNCHANGED <<cached, rows, list, todo, remote, answer, sessionVars,
                   clientVars, crashes, skipped, late>>

(* Grouptranfer at server s, a receiver at a time: at the first one who is  *)
(* not there it returns.  The retries it asks for name no type.             *)
Grouptranfer(m) ==
    /\ at[m] = "rpc"
    /\ \/ \E p \in remote[m] :
            LET u == p[1]
                s == p[2]
                rest == {q \in remote[m] \ {p} : q[2] = s}
            IN  \/ /\ u \in conman[s]
                   /\ remote' = SetStep(remote, m, remote[m] \ {p})
                   /\ retry' = retry \cup {<<s, m, u, "none">>}
                   /\ WriteTo(u, login[u], m, "group")
                   /\ UNCHANGED <<at, skipped>>
                \/ /\ u \notin conman[s]
                   /\ remote' = SetStep(remote, m, remote[m] \ (rest \cup {p}))
                   /\ skipped' = skipped \cup {<<m, q[1]>> : q \in rest}
                   /\ UNCHANGED <<at, retry, wire, given>>
                \/ /\ "rpc" \in Faulty
                   /\ remote' = SetStep(remote, m, remote[m] \ (rest \cup {p}))
                   /\ given' = given \cup {<<m, q[1]>> : q \in rest \cup {p}}
                   /\ UNCHANGED <<at, retry, wire, skipped>>
       \/ /\ remote[m] = {}
          /\ at' = SetStep(at, m, "done")
          /\ UNCHANGED <<remote, retry, wire, skipped, given>>
    /\ UNCHANGED <<cached, rows, list, todo, local, answer, sessionVars,
                   clientVars, crashes, late>>

-----------------------------------------------------------------------------
(* TimeLoop sends a tracked message again, with the type it was pushed with *)
(* or gives it up.                                                          *)
Resend(t) ==
    LET s == t[1]
        u == t[3]
    IN  /\ t \in retry
        /\ \/ /\ u \in conman[s]
              /\ WriteTo(u, login[u], t[2], t[4])
              /\ UNCHANGED retry
           \/ /\ retry' = retry \ {t}
              /\ UNCHANGED <<wire, given>>
        /\ UNCHANGED <<cached, rows, handlerVars, sessionVars, clientVars,
                       crashes, skipped, late>>

-----------------------------------------------------------------------------
(* Sessions.  A login registers the user, then pulls.                      *)

Login(u) ==
    /\ on[u] = None /\ login[u] < MaxLogins
    /\ \A s \in Servers : u \notin conman[s]
    /\ \E s \in Servers :
        /\ on' = SetStep(on, u, s)
        /\ conman' = [conman EXCEPT ![s] = @ \cup {u}]
        /\ redis' = SetStep(redis, u, s)
    /\ login' = SetStep(login, u, login[u] + 1)
    /\ pulling' = pulling \cup {u}
    /\ UNCHANGED <<cached, rows, handlerVars, retry, wire, clientVars,
                   historyVars>>

(* Mutant: the rows are deleted when they are read, as PullNotifie does.    *)
PullGroupMessageDeletes(u) ==
    /\ u \in pulling
    /\ pulling' = pulling \ {u}
    /\ rows' = rows \ To(u)
    /\ wire' = [wire EXCEPT ![u] = @ \cup
                    {<<p[1], "group">> : p \in rows \cap To(u)}]
    /\ UNCHANGED <<cached, handlerVars, on, login, conman, redis, retry,
                   clientVars, historyVars>>

(* PullGroupMessage: the rows of the user go out in one reply.              *)
PullGroupMessage(u) ==
    /\ u \in pulling /\ on[u] # None
    /\ pulling' = pulling \ {u}
    /\ wire' = [wire EXCEPT ![u] = @ \cup
                    {<<p[1], "group">> : p \in rows \cap To(u)}]
    /\ late' = (late \ To(u)) \cup {p \in To(u) \ rows : at[p[1]] = "member"
                                                  /\ u \notin todo[p[1]]}
    /\ given' = given \ (rows \cap To(u))
    /\ skipped' = skipped \ To(u)
    /\ UNCHANGED <<cached, rows, handlerVars, on, login, conman, redis, retry,
                   clientVars, crashes>>

(* The connection is lost with what is under way; CloseHandle follows.      *)
Lose(u) ==
    /\ on[u] # None
    /\ on' = SetStep(on, u, None)
    /\ pulling' = pulling \ {u}
    /\ wire' = SetStep(wire, u, {})
    /\ UNCHANGED <<cached, rows, handlerVars, login, conman, redis, retry,
                   clientVars, historyVars>>

CloseHandle(u, s) ==
    /\ u \in conman[s] /\ on[u] = None
    /\ conman' = [conman EXCEPT ![s] = @ \ {u}]
    /\ redis' = SetStep(redis, u, None)
    /\ UNCHANGED <<cached, rows, handlerVars, on, login, pulling, retry, wire,
                   clientVars, historyVars>>

(* The server restarts; redis still has its users.                          *)
Crash(s) ==
    LET lost == {u \in Receivers : on[u] = s}
        died(m) == s = Origin /\ at[m] \notin {"list", "done", "failed"}
    IN  /\ crashes < MaxCrashes
        /\ crashes' = crashes + 1
        /\ on' = [u \in Receivers |-> IF u \in lost THEN None ELSE on[u]]
        /\ wire' = [u \in Receivers |-> IF u \in lost THEN {} ELSE wire[u]]
        /\ pulling' = pulling \ lost
        /\ conman' = SetStep(conman, s, {})
        /\ retry' = {t \in retry : t[1] # s}
        /\ at' = [m \in Msgs |-> IF died(m) THEN "failed" ELSE at[m]]
        /\ given' = given \cup {p \in Mail : died(p[1])}
        /\ UNCHANGED <<cached, rows, list, todo, local, remote, answer, login,
                       redis, clientVars, skipped, late>>

-----------------------------------------------------------------------------
(* The client stores what it is sent and acknowledges it over the           *)
(* connection it has by then; a frame without a type it does not know.      *)

GorupMessage(u) ==
    /\ \E f \in wire[u] :
        LET got == IF f[2] = "group" THEN {<<f[1], u>>} ELSE {}
        IN  /\ wire' = SetStep(wire, u, wire[u] \ {f})
            /\ received' = received \cup got
            /\ toAck' = toAck \cup got
    /\ UNCHANGED <<cached, rows, handlerVars, sessionVars, retry, historyVars>>

(* AckMesageHandle and DeleteManyHandle: out of the retry queue of that     *)
(* server and out of the table.                                             *)
AckMesageHandle(u) ==
    /\ on[u] # None
    /\ \E p \in toAck \cap To(u) :
        /\ toAck' = toAck \ {p}
        /\ retry' = {t \in retry : <<t[1], t[2], t[3]>> # <<on[u], p[1], u>>}
        /\ \/ rows' = rows \ {p}
           \/ "db" \in Faulty /\ UNCHANGED rows
    /\ UNCHANGED <<cached, handlerVars, sessionVars, wire, received,
                   historyVars>>

-----------------------------------------------------------------------------
Handle(m) ==
    \/ GetGroupUsers(m) \/ GroupMebersCheck(m) \/ CreateGroupMessage(m)
    \/ GetConnect(m) \/ CreateGroupUserMessage(m) \/ SendAck(m) \/ Push(m)
    \/ Grouptranfer(m)

Session(u) ==
    \/ Login(u) \/ PullGroupMessage(u) \/ Lose(u) \/ GorupMessage(u)
    \/ AckMesageHandle(u) \/ \E s \in Servers : CloseHandle(u, s)

Next ==
    \/ \E m \in Msgs : Handle(m)
    \/ \E t \in retry : Resend(t)
    \/ \E u \in Receivers : Session(u)
    \/ \E s \in Servers : Crash(s)
    \/ GrouperDelete

Spec == Init /\ [][Next]_vars

-----------------------------------------------------------------------------
(* A message that was confirmed to its sender is in the table or in the     *)
(* database of every other member, whether redis held the members or not    *)
(* (GetGroupUsers, CreateGroupUserMessage, SendAck, AckMesageHandle).       *)
ConfirmedKept ==
    \A m \in Msgs : answer[m] = "success" =>
        {m} \X Receivers \subseteq rows \cup received

(* Why: who is confirmed has read all members, whose rows were inserted     *)
(* before anything was sent, and a row leaves the table after it was        *)
(* received only.                                                           *)
Early(m) == at[m] \in {"list", "check", "create"}
Kept(m, u) == <<m, u>> \in rows \cup received

ListsRead ==
    \A m \in Msgs :
        /\ list[m] \in {{}, Receivers}
        /\ Early(m) => local[m] = {} /\ remote[m] = {} /\ todo[m] = {}
        /\ todo[m] \subseteq list[m]
        /\ \A c \in local[m] \cup remote[m] : c[1] \in list[m]

AnswersKept ==
    \A m \in Msgs :
        /\ Early(m) \/ at[m] = "member" =>
              answer[m] = "none" /\ \A u \in Receivers : <<m, u>> \notin rows
        /\ answer[m] = "success" \/ at[m] = "ack" => list[m] = Receivers
        /\ answer[m] = "success" \/ at[m] \in {"ack", "push", "rpc"} =>
              \A u \in list[m] : Kept(m, u)

SendsKept ==
    /\ \A u \in Receivers : \A f \in wire[u] : Kept(f[1], u)
    /\ \A t \in retry : Kept(t[2], t[3])
    /\ toAck \subseteq received

(* Who is logged in is where the servers and redis say, and a row of its    *)
(* own is on the way to it, or the handler will still look for it or has it *)
(* in hand, or one of the exceptions of OnlineReceives explains.            *)
SessionsKnown ==
    \A u \in Receivers : on[u] # None =>
        redis[u] = on[u] /\ \A s \in Servers : u \in conman[s] <=> s = on[u]

OnTheWay(m, u) ==
    \/ <<m, "group">> \in wire[u]
    \/ at[m] = "member" /\ u \in todo[m]
    \/ at[m] \in {"member", "ack", "push"} /\ <<u, login[u]>> \in local[m]
    \/ at[m] \in {"member", "ack", "push", "rpc"} /\ <<u, on[u]>> \in remote[m]

Excused(m, u) == <<m, u>> \in received \cup given \cup skipped \cup late

RowsReach ==
    \A m \in Msgs, u \in Receivers :
        /\ on[u] # None /\ u \notin pulling
        /\ <<m, u>> \in rows \/ (at[m] = "member" /\ u \in list[m])
        => Excused(m, u) \/ OnTheWay(m, u)

(* The invariant behind ConfirmedKept, OnlineReceives and RowsLeaveReceived *)
(* (GorupMessageHandle, Grouptranfer, PullGroupMessage).                    *)
GroupDeliveryInv ==
    TypeOK /\ ListsRead /\ AnswersKept /\ SendsKept /\ SessionsKnown
    /\ RowsReach

(* A row is deleted only when its receiver has the message                  *)
(* (DeleteGroupUserMessage, PullGroupMessage).                              *)
RowsLeaveReceived == [][rows \ rows' \subseteq received]_vars

Quiet(u) ==
    /\ on[u] # None /\ u \notin pulling /\ wire[u] = {}
    /\ \A m \in Msgs : at[m] \in {"list", "done", "failed"}

(* When nothing is under way, whoever is logged in has received every row   *)
(* of its own, but for calls that failed and two gaps of the code: the      *)
(* receivers Grouptranfer leaves out for another's absence, and the message *)
(* whose handler looked for the receiver before the login and inserted the  *)
(* row after the pull (GorupMessageHandle, Grouptranfer, PullGroupMessage). *)
OnlineReceives ==
    \A u \in Receivers : Quiet(u) =>
        rows \cap To(u) \subseteq received \cup given \cup skipped \cup late
=============================================================================
